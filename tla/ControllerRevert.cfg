SPECIFICATION Spec
CONSTANTS
  Worker = {w1}
  Resource = {"secret", "service", "sts"}
  Absent = Absent
  Static = Static
  NoHash = NoHash
  NoWorker = NoWorker
  MaxSpec = 0
  MaxInputs = 1
  MayRevert = TRUE
  MaxCreations = 1
  MaxRestarts = 0
  MaxQueue = 2
  APIMayFail = TRUE
INVARIANT
  HashMeansApplied
