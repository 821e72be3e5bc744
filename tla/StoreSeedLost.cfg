CONSTANTS
  Chats = {a, b}
  Requests = {r}
  ScanLimit = 2
  Ticks = {1}
  LastSkew = 0
  DiskFails = FALSE
  MaxMsgs = 2
  MaxClock = 3
  WireMax = 1
  MaxStarts = 1
  MaxFaults = 0
SPECIFICATION Spec
PROPERTIES
  SeedWaitsForSweep
SYMMETRY Symmetry
CHECK_DEADLOCK FALSE
