SPECIFICATION FairSpec
CONSTANTS
  film = film
  show = show
  Media <- MCMedia
  Duration <- MCDuration
  Companion <- MCCompanion
  Rates = {1, 2}
  Positions <- MCPositions
  Delays = {1}
  Countdown = 1
  BreakLen = 1
  Grace = 1
  EndSlack = 1
  PauseTTL = 1
  IdleWindow = 1
  EndedWindow = 0
  DbOutcomes = {"ok"}
  ExternalEnds = TRUE
  NotLoaded = NotLoaded
  MaxNow = 7
  UserHorizon = 2
  MaxVersion = 3
  MaxSessions = 2
INVARIANTS
  RoomIsSound
  RecordsAgree
PROPERTIES
  LifecycleForward
  ClockChangesBumpVersion
  ImplementsParty
  EverythingEnds
