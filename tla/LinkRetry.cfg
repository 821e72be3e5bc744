CONSTANTS
  Clients = {c, d}
  Unit = Unit
  None = None
  Stale = Stale
  MaxCrashes = 1
  MaxStops = 1
  MaxSilences = 1
  MaxRetries = 5
SPECIFICATION FairSpec
INVARIANTS
  TypeOK
  KeepsTrying
PROPERTIES
  EveryPanelLinks
  PromiseEnds
CHECK_DEADLOCK FALSE
