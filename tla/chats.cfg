SPECIFICATION ChatsSpec
CONSTANTS
  ann = ann
  bob = bob
  cem = cem
  dan = dan
  eva = eva
  h1 = h1
  h2 = h2
  m1 = m1
  m2 = m2
  Users <- MCUsers
  Creator = ann
  MaxMembers = 2
  GroupHands <- MCHands
  May <- MCMay
  NoRow = NoRow
  NoTask = NoTask
  People <- MCUsers
  Owner = ann
  RoomHands <- MCHands
  Tools <- MCTools
  NoCall = NoCall
  Kinds = {"group", "room"}
  Ids <- MCIds
  Folk = {dan, eva}
  Managers = {dan}
  Muted = {eva}
  Emoji = {heart}
  Texts = {new}
  Original = original
  Handlers <- MCHands
  Plans <- MCPlans
  NoMessage = NoMessage
  NoJob = NoJob
  Nobody = Nobody
  Everybody = Everybody
SYMMETRY MCSymmetry
INVARIANTS
  GroupIsSound
  RoomIsGuarded
  MessagesAreSound
  SentOnce
  ShownIsStored
PROPERTIES
  OnlyByOwnDoing
CHECK_DEADLOCK FALSE
