SPECIFICATION FairSpec
CONSTANTS
  Objects = {1, 2}
  Senders = {s1, s2}
  BatchSize = 2
  MarksFail = TRUE
  Undeletable = {1}
  MaxCrashes = 1
  NoRow = NoRow
INVARIANTS
  MarkedIsMentioned
PROPERTIES
  TrackedUntilGone
  OrphansGo
