SPECIFICATION Spec
CONSTANTS
  NumLoc = 2
  Caller = {c1}
  Pump = {p1, p2}
  NoPump = NoPump
  NoHandler = NoHandler
  NoOne = NoOne
  MaxStored = 1
  MayRestart = TRUE
  StorageMayFail = TRUE
  DBMayFail = TRUE
INVARIANTS
  TypeOK
  StatusHonest
  HandlerOwnedUntilAbandoned
  IndInv
SYMMETRY
  Symmetry
