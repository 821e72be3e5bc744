CONSTANTS
  a = a
  b = b
  h = h
  None = None
  Chats = {a}
  Handles = {h}
  Solo <- Pair
  Jobs = {i, j, k}
  Texts = {"hi"}
  Ticks = {1}
  History <- Deep
  PageSize = 2
  MaxThreads = 2
  MaxFiled = 3
  MaxSends = 0
  MaxFaults = 1
  MaxDrops = 1
SPECIFICATION FairSpec
INVARIANTS
  TypeOK
  ExhaustedIsTheStart
PROPERTIES
  GateOpens
CHECK_DEADLOCK FALSE
