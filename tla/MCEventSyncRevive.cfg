SPECIFICATION Spec
CONSTANTS
  k1 = k1
  k2 = k2
  d1 = d1
  d2 = d2
  c1 = c1
  c2 = c2
  Clients = {c1, c2}
  Keys = {k1}
  Details = {d1}
  Numbers <- StoredNumbers
  Capacities <- TypedCapacities
  Seed <- OnlyEvent
  MaxTaps = 2
  MaxDrops = 0
PROPERTY UpdateNeverCreates
CHECK_DEADLOCK FALSE
