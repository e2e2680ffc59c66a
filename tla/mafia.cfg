SPECIFICATION GameSpec
CONSTANTS
  Tables <- FourOrThree
  Host = 1
  MaxDay = 2
  MaxVoteDay = 1
  NoGame = NoGame
  Bottle = Bottle
INVARIANTS
  CopiesKeepRules
  UndecidedWhileRunning
PROPERTIES
  NothingIsUndone
  DefenseTurnKept
