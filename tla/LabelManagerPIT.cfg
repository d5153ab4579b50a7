SPECIFICATION Spec
CONSTANTS
  Entry = {e1, e2}
  NoEntry = NoEntry
  second = second
  day = day
  broken = broken
  MaxTime = 4
  DayLength = 2
  Format <- MCFormat
  Time <- MCTime
  Hold <- MCHold
  Name <- MCName
  FormatTime <- MCFormatTime
  ParseOK <- MCParseOK
  ParseTime <- MCParseTime
  Configs <- MCConfigs
INVARIANT
  ClosestIsOlder
CHECK_DEADLOCK FALSE
