SPECIFICATION FairSpec
CONSTANTS
  n1 = n1
  n2 = n2
  s1 = s1
  s2 = s2
  r1 = r1
  r2 = r2
  Nodes = {n1, n2}
  Conns = {s1, s2, r1, r2}
  NodeOf <- Place
  UserOf <- User
  Messages = {1}
  QueueSize = 1
  Workers = 2
  Heartbeat = 2
  PeerTTL = 9
  AssumeFor = 12
  Scenarios <- TalkOrTime
INVARIANTS
  FanoutIsExact
PROPERTIES
  PeersAreKnown
CHECK_DEADLOCK FALSE
