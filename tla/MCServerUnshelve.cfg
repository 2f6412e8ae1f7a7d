SPECIFICATION Spec
CONSTANTS
  s1 = s1
  s2 = s2
  Servers = {s1, s2}
  Handlers <- MCUnshelve
  MaxFaulted = 1
  MaxMeddled = 1
  MaxArguments = 2
INVARIANTS
  TimeoutMeansUnfinished
CHECK_DEADLOCK FALSE
