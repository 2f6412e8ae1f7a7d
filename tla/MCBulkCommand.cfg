SPECIFICATION FairSpec
CONSTANTS
  s1 = s1
  s2 = s2
  web = web
  none = none
  Ids = {s1, s2}
  Names = {web}
  Foreign = {s2}
  NoValue = none
  Handlers <- MCHandlers
  ArgLists <- MCArgLists
  NamespaceLength = 3
  MaxFaulted = 1
  MaxMeddled = 1
INVARIANTS
  TypeOK
  ReportIsHonest
  FirstErrorStops
  OnlyWhatWasNamed
  IdWinsOverName
  AmbiguousNameIsRefused
  ArgumentsAreIndependent
  WaitedDeletesAreGone
PROPERTIES
  KeepsContract
  Terminates
CHECK_DEADLOCK FALSE
