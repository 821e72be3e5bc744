CONSTANTS
  a = a
  b = b
  NoChat = NoChat
  Chats = {a, b}
  Account = {a}
  Age <- Ages
  ChatLimit = 1
  MaxEvents = 3
  MaxCommands = 1
  MaxFrames = 1
  MaxSweeps = 1
SPECIFICATION Spec
PROPERTIES
  ClickReadsNoOther
CHECK_DEADLOCK FALSE
