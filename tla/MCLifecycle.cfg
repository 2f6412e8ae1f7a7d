SPECIFICATION Spec
CONSTANTS
  Suites <- lifecycleSuites
  Program <- runLifecycleSuite
  Resource <- MCResource
  Strict <- StrictCleanups
  Confirms <- confirmDeleteTargetGone
  Slow <- MCSlow
  Faults <- MCFaults
  MaxFaults = 2
INVARIANTS
  TypeOK
  ReportIsHonest
  EveryCleanupRuns
  DependantsFirst
