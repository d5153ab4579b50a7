SPECIFICATION FairSpec
CONSTANTS
  Worker = {w1, w2}
  Resource = {"sts"}
  Absent = Absent
  Static = Static
  NoHash = NoHash
  NoWorker = NoWorker
  MaxSpec = 1
  MaxInputs = 0
  MayRevert = FALSE
  MaxCreations = 2
  MaxRestarts = 0
  MaxQueue = 1
  APIMayFail = TRUE
INVARIANTS
  TypeOK
  IndInv
PROPERTIES
  HashIsCurrent
  DeletionCompletes
