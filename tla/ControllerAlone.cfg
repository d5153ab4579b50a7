SPECIFICATION FairSpec
CONSTANTS
  Worker = {w1}
  Resource = {"service", "sts"}
  Absent = Absent
  Static = Static
  NoHash = NoHash
  NoWorker = NoWorker
  MaxSpec = 1
  MaxInputs = 1
  MayRevert = FALSE
  MaxCreations = 2
  MaxRestarts = 1
  MaxQueue = 1
  APIMayFail = TRUE
INVARIANTS
  NoOrphans
  HashMeansApplied
  ReadyMeansThere
  AloneInv
PROPERTIES
  DeletionCompletes
  Converges
