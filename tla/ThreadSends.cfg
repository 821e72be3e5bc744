CONSTANTS
  a = a
  b = b
  h = h
  None = None
  Chats = {a, b}
  Handles = {h}
  Solo <- GroupAndPair
  Jobs = {i, j}
  Texts = {"hi"}
  Ticks = {1}
  History <- Orphan
  PageSize = 2
  MaxThreads = 1
  MaxFiled = 1
  MaxSends = 1
  MaxFaults = 1
  MaxDrops = 0
SPECIFICATION Spec
INVARIANTS
  SendKeepsItsRow
  PendingHasAnAck
  WarmPageIsWellFormed
PROPERTY
  ImplementsLedger
SYMMETRY Symmetry
CHECK_DEADLOCK FALSE
