SPECIFICATION Spec
CONSTANTS
  i1 = i1
  i2 = i2
  i3 = i3
  u1 = u1
  u2 = u2
  Ids = {i1, i2}
  Typed = {i1, i2, i3}
  Users = {u1, u2}
  Capacities = {0, 1, 2}
  MaxEvents = 2
  MaxSessions = 2

INVARIANT FullMeansNoSeats
CHECK_DEADLOCK FALSE
