SPECIFICATION FairSpec
CONSTANTS
  i1 = i1
  i2 = i2
  i3 = i3
  u1 = u1
  u2 = u2
  Ids = {i1, i2}
  Typed = {i1, i2, i3}
  Users = {u1, u2}
  Capacities = {0, 1, 2}
  MaxEvents = 2
  MaxSessions = 2
INVARIANT TypeOK
INVARIANT CapacityRespected
INVARIANT SharedPool
INVARIANT RegistrationsKeepTheirSession
INVARIANT DeletedIsGone
PROPERTY ChangesAreReported
PROPERTY LostOnlyByCollision
PROPERTY EofSpinsAtMenu
CHECK_DEADLOCK FALSE
