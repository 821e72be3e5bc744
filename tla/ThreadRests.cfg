CONSTANTS
  a = a
  b = b
  h = h
  None = None
  Chats = {a}
  Handles = {h}
  Solo <- Pair
  Jobs = {i, j}
  Texts = {"hi"}
  Ticks = {0}
  History <- Nothing
  PageSize = 2
  MaxThreads = 1
  MaxFiled = 1
  MaxSends = 1
  MaxFaults = 0
  MaxDrops = 0
SPECIFICATION FairSpec
PROPERTIES
  PageKeepsKeys
  SendComesToRest
CHECK_DEADLOCK FALSE
