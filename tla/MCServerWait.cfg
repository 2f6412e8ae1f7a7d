SPECIFICATION FairSpec
CONSTANTS
  s1 = s1
  s2 = s2
  Servers = {s1, s2}
  Handlers <- MCHandlers
  MaxFaulted = 1
  MaxMeddled = 1
  MaxArguments = 2
INVARIANTS
  TypeOK
  WaitedOperationsSucceeded
  FailureIsReal
  DeadlineIsLast
PROPERTIES
  KeepsContract
  Terminates
CHECK_DEADLOCK FALSE
