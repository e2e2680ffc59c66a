SPECIFICATION FairSpec
CONSTANTS
  Nodes = {n1, n2}
  Users = {u1}
  Conns = {c1, c2}
  TTL = 3
  Scenarios <- OneTrouble
  None = None
INVARIANTS
  HubIsSound
PROPERTIES
  PresenceSettles
