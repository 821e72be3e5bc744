CONSTANTS
  a = a
  b = b
  NoChat = NoChat
  Chats = {a, b}
  Account = {a}
  Age <- Ages
  ChatLimit = 1
  MaxEvents = 2
  MaxCommands = 1
  MaxFrames = 2
  MaxSweeps = 1
SPECIFICATION Spec
INVARIANTS
  TypeOK
  PendingHasAReply
  ListAgrees
PROPERTIES
  ReadMeansShown
CHECK_DEADLOCK FALSE
