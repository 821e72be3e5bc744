CONSTANTS
  ScanLimit = 3
  MaxMsgs = 5
SPECIFICATION Spec
INVARIANTS
  ScanReportsOnlyUnread
  ScanStopsForAReason
PROPERTIES
  BoundaryOnlyShortens
CHECK_DEADLOCK FALSE
