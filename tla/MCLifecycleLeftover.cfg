SPECIFICATION Spec
CONSTANTS
  Suites <- MCNetwork
  Program <- runLifecycleSuite
  Resource <- MCResource
  Strict <- StrictCleanups
  Confirms <- confirmDeleteTargetGone
  Slow <- MCSlow
  Faults <- MCMismatch
  MaxFaults = 1
INVARIANT
  PassedLeavesNothing
