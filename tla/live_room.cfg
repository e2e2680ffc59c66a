SPECIFICATION Spec
CONSTANTS
  Rooms = {r1}
  Users = {u1, u2}
  Devices = {d1}
  Conns = {c1, c2}
  Timers = {t1, t2}
  FirstUser = u1
  HostOf <- EveryRoomIsFirstUsers
  Admins = {u2}
  Scenarios <- ModerationOrTransfers
  None = None
SYMMETRY Symmetry
INVARIANTS
  NothingIsLeftBehind
PROPERTIES
  GuestsDoNotEnd
CHECK_DEADLOCK FALSE
