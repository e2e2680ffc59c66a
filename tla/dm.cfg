SPECIFICATION RowsSpec
CONSTANTS
  Ids = {i1, i2, i3}
  Reqs = {h1, h2}
  Hands = {h1, h2}
  Banned = {1}
  MaxPending = 1
  MaxSaves = 1
  MaxTurns = 2
  Plans = {"rows", "sends"}
  NoRow = NoRow
  NoMessage = NoMessage
  Elsewhere = Elsewhere
  Free = Free
SYMMETRY Symmetry
INVARIANTS
  RowIsSound
  AnnouncedIsStored
  CountedOnce
  MarksAreMeant
PROPERTIES
  OnlyOldCopiesUndo
