SPECIFICATION Spec
CONSTANTS
  Targets = {t1, t2}
  Keys = {k1, k2}
  MaxAmount = 1
  Handlers <- MCAtomic
  Forgets = FALSE
  MaxFaulted = 1
  MaxMeddled = 2
PROPERTIES
  KeepsContract
CHECK_DEADLOCK FALSE
