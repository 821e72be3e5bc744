CONSTANTS
  Chats = {a}
  Requests = {r}
  ScanLimit = 2
  Ticks = {0, 1}
  LastSkew = 1
  DiskFails = TRUE
  MaxMsgs = 3
  MaxClock = 2
  WireMax = 1
  MaxStarts = 1
  MaxFaults = 1
SPECIFICATION Spec
INVARIANTS
  TypeOK
  UnreadIsReal
PROPERTIES
  ReadClears
  OnlyReadingClears
  PreviewIsSticky
CHECK_DEADLOCK FALSE
