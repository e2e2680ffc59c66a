SPECIFICATION FairBreaker
CONSTANTS
  Calls = {c1, c2, c3}
  Threshold = 2
  Chunks = TRUE
  MaxOutages = 1

INVARIANTS
  BreakerIsSound
PROPERTIES
  Recovers
