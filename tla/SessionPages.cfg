CONSTANTS
  a = a
  b = b
  o = o
  Alnum = {"1", "2", "3", "4", "5", "8", "9", "x", "y"}
  At = "@"
  NoName = ""
  MinFuzzy = 3
  Chats = {a, b, o}
  Listed <- Account
  Solo = {o}
  Orphans = {o}
  Addresses <- Participants
  Books <- OneBook
  PageSize = 1
  FetchCap = 3
  SeenMax = 2
  Sweeps = {p}
  Fetches = {f}
  MaxFiled = 2
  MaxFaults = 1
SPECIFICATION Spec
INVARIANTS
  TypeOK
  NoChatIsLost
  HandleIsAsked
  ToldOnce
  NoStrangerIsNamed
CHECK_DEADLOCK FALSE
