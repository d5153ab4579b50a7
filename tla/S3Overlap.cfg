SPECIFICATION Spec
CONSTANTS
  Entry = {b1, b2}
  Session = {s1, s2}
  NoEntry = NoEntry
  second = second
  day = day
  MaxTime = 4
  DayLength = 2
  Format <- MCFormat
  Time <- MCTime
  Hold <- MCHold
  Name <- MCName
  FormatTime <- MCFormatTime
  ParseOK <- MCParseOK
  ParseTime <- MCParseTime
  Configs <- OneConfig
INVARIANT
  DoneIsTracked
CHECK_DEADLOCK FALSE
SYMMETRY Symmetry
