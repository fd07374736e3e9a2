SPECIFICATION FairSpec
CONSTANTS
  k1 = k1
  k2 = k2
  d1 = d1
  d2 = d2
  c1 = c1
  c2 = c2
  Clients = {c1, c2}
  Keys = {k1, k2}
  Details = {d1, d2}
  Numbers <- StoredNumbers
  Capacities <- TypedCapacities
  Seed <- BareEvent
  MaxTaps = 2
  MaxDrops = 2
INVARIANT TypeOK
INVARIANT AttendeesKept
INVARIANT WholeRecords
INVARIANT SuccessIsDurable
PROPERTY Converges
CHECK_DEADLOCK FALSE
