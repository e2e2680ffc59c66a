SPECIFICATION CinemaSpec
CONSTANTS
  host = host
  friend = friend
  guest = guest
  Nobody = Nobody
  Viewers <- MCUsers
  Seats <- MCSeats
  Couch = {0}
  Score <- MCScore
  Host = host
  HostSeat = 1
  Kept <- MCKept
  Faults <- MCFaults
  Old <- MCOld
  MaxSwaps = 1
  KeptFaults = FALSE
INVARIANTS
  PlacesStand
PROPERTIES
  ConnectedKeepSeat
  FreedSeatIsOffered
