SPECIFICATION Spec
CONSTANTS
  Servers = {s1, s2}
  Groups = {g1}
  MaxFaulted = 1
  MaxMeddled = 3
INVARIANTS
  TypeOK
  NothingUnapproved
  OnlyItsOwn
  ReportIsHonest
  CleanAfterwards
  UsedGroupsStay
CHECK_DEADLOCK FALSE
