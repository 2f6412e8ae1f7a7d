SPECIFICATION Spec
CONSTANTS
  Targets = {t1, t2}
  Keys = {k1, k2}
  MaxAmount = 1
  Handlers <- MCHandlers
  Forgets = TRUE
  MaxFaulted = 1
  MaxMeddled = 2
INVARIANTS
  TypeOK
  FailsForAReason
PROPERTIES
  OnlyWhatWasSeen
CHECK_DEADLOCK FALSE
