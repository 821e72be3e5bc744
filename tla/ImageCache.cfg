CONSTANTS
  Clients = {c, d}
  None = None
  Guids = {g}
  Temps = {t}
  Jobs = {i, j}
  MaxFaults = 1
  MaxDrops = 1
SPECIFICATION FairSpec
INVARIANTS
  TypeOK
  CacheIsWhole
  PathIsOnDisk
  PreviewSettles
PROPERTIES
  RequestSettles
CHECK_DEADLOCK FALSE
