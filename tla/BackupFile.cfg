\* one backup, taken and read once
SPECIFICATION FairSpec
CONSTANTS
  SST = {s1, s2}
  Meta = {m1}
  Dump = dump
  Pass = {p1, p2}
  NoPass = NoPass
  NoFile = NoFile
  Missing = Missing
  Unknown = Unknown
  BlockSize = 2
  FooterPad = 3
  MaxBody = 2
  MaxPuts = 3
  MaxWaiting = 1
  MaxBuf = 3
INVARIANTS TypeOK ToldKept Readable FetchedExact
PROPERTIES FetchEnds ImplementsFileStore
CHECK_DEADLOCK FALSE
