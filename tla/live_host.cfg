SPECIFICATION FairSpec
CONSTANTS
  Rooms = {r1, r2}
  Users = {u1}
  Devices = {d1}
  Conns = {c1, c2}
  Timers = {t1}
  FirstUser = u1
  HostOf <- EveryRoomIsFirstUsers
  Admins = {u1}
  Scenarios <- HandoverOrSwitching
  None = None
INVARIANTS
  RegistryIsInRoom
PROPERTIES
  AwayHostEndsRoom
CHECK_DEADLOCK FALSE
