SPECIFICATION MCSpec
CONSTANTS
  Keys = {k1, k2}
  None = None
  was = was
  given = given
  Values <- MCValues
  Commands <- MCPort
  MaxDisturbances = 0
INVARIANTS
  KeepsTheRest
SYMMETRY MCSymmetry
CHECK_DEADLOCK FALSE
