SPECIFICATION MCSpec
CONSTANTS
  Keys = {k1, k2}
  None = None
  was = was
  given = given
  Values <- MCValues
  Commands <- MCAll
  MaxDisturbances = 1
INVARIANTS
  TypeOK
  OldOrAsked
  AsAsked
PROPERTIES
  UndoesOnlyRaces
SYMMETRY MCSymmetry
CHECK_DEADLOCK FALSE
