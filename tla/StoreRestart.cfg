CONSTANTS
  Chats = {a}
  Requests = {r, s}
  ScanLimit = 2
  Ticks = {1}
  LastSkew = 1
  DiskFails = FALSE
  MaxMsgs = 2
  MaxClock = 2
  WireMax = 2
  MaxStarts = 2
  MaxFaults = 1
SPECIFICATION Spec
INVARIANTS
  BoundaryIsReal
  BoundaryIsOnDisk
  CacheIsCurrent
  SeedIsNeverStranded
PROPERTIES
  ImplementsLedger
SYMMETRY Symmetry
CHECK_DEADLOCK FALSE
