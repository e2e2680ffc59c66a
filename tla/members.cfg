SPECIFICATION Spec
CONSTANTS
  ann = ann
  bob = bob
  cem = cem
  dan = dan
  None = None
  Users <- MCUsers
  Creator = ann
  Follows <- MCFollows
  KnowCode <- MCKnowCode
  Settings <- MCSettings
  MaxMembers = 3
  MaxCohosts = 1
  StrayRequests = FALSE
  Sockets <- MCSockets
  MaxInvites = 1
INVARIANTS
  TypeOK
  Membership
PROPERTIES
  KickedStaysOut
SYMMETRY MCSymmetry
