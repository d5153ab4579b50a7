SPECIFICATION Spec
CONSTANTS
  Worker = {w1, w2}
  Resource = {"secret", "service", "sts"}
  Absent = Absent
  Static = Static
  NoHash = NoHash
  NoWorker = NoWorker
  MaxSpec = 1
  MaxInputs = 0
  MayRevert = FALSE
  MaxCreations = 1
  MaxRestarts = 0
  MaxQueue = 2
  APIMayFail = TRUE
INVARIANT
  NoOrphans
