SPECIFICATION Spec
CONSTANTS
  a = a
  b = b
  m = m
  Things = {a, b}
  ThingNames = {b, m}
  Items <- MCItems
  Home <- MCHome
  Mine = a
  Gone = Gone
  None = None
  Programs <- MCPrograms
  Clouds <- MCClouds
  PageSize = 2
  MaxFaulted = 1
  MaxMeddled = 2
INVARIANTS
  TypeOK
  ShownWasThere
  NothingLost
  NamesAreTrue
  ShowIsTrue
CHECK_DEADLOCK FALSE
