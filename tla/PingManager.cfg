CONSTANTS
  Owner = {o1, o2}
  Ttl = 4
  MaxActive = 3
  MaxPerPlayer = 2
  RateWindow = 1
  MaxPerWindow = 2
  MaxTime = 5
  MaxPings = 6
SPECIFICATION Spec
INVARIANTS
  TypeOK
  CapsHold
  RateLimited
PROPERTIES
  EvictsOldest
