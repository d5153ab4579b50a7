SPECIFICATION FairSpec
CONSTANTS
  NumLoc = 1
  Caller = {c1}
  Pump = {p1, p2}
  NoPump = NoPump
  NoHandler = NoHandler
  NoOne = NoOne
  MaxStored = 1
  MayRestart = FALSE
  StorageMayFail = TRUE
  DBMayFail = TRUE
PROPERTIES
  ActionEnds
  Recovers
