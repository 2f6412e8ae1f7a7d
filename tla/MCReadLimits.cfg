SPECIFICATION Spec
CONSTANTS
  a = a
  b = b
  m = m
  Things = {a, b}
  ThingNames = {b, m}
  Items <- MCItems
  Home <- MCHome
  Mine = a
  Gone = Gone
  None = None
  Programs <- MCLimits
  Clouds <- MCClouds
  PageSize = 2
  MaxFaulted = 0
  MaxMeddled = 0
INVARIANTS
  ShownWasThere
CHECK_DEADLOCK FALSE
