---------------------------- MODULE WatchCinema ----------------------------
(***************************************************************************)
(* The hall of a watch room (watch/cinema.go): who sits where, the queue    *)
(* for a seat, seats held by an offer, requests to swap, and the rows of    *)
(* watch_room_seats behind them.  Every handler, the socket's registration  *)
(* and the tick run under the room's mutex, so each is one action; what     *)
(* they share is a chain of calls (a move frees a seat, the seat is         *)
(* offered, the offer moves somebody else, ...) in which any write of a row *)
(* may fail.  An operator of the hall returns the SET of halls it may end   *)
(* in: the code ranges over maps, in no order.  Calls that may go on and on *)
(* are rounds: what a call leaves to do is part of its result.              *)
(***************************************************************************)
EXTENDS Integers, FiniteSets

CONSTANTS
  Viewers,
  Seats,    \* indices of the seats
  Couch,    \* indices of the spots on the couches
  Score,    \* how good a seat is: lower is better
  Host,     \* the member the room is opened by, on HostSeat
  HostSeat,
  Kept,     \* the seats kept for friends when the room is opened
  Faults,   \* the sets of users whose rows cannot be written during one step
  KeptFaults, \* may the write that makes a kept seat one's own fail, unnoticed?
  Old,      \* those who also use an app that does not know the hall
  MaxSwaps, \* bound on the requests to swap open at once
  Nobody

Seat(i) == <<"seat", i>>
Nowhere == <<"none", 0>>
Spots == (({"seat"} \X Seats) \cup ({"couch"} \X Couch)) \cup {Nowhere}

ASSUME CinemaAssumption ==
  /\ IsFiniteSet(Viewers)
  /\ Seats \subseteq Nat /\ Couch \subseteq Nat /\ IsFiniteSet(Seats \cup Couch)
  /\ Score \in [Seats -> Nat]
  /\ Host \in Viewers /\ HostSeat \in Seats
  /\ Kept \in [DOMAIN Kept -> Seats \ {HostSeat}] /\ DOMAIN Kept \subseteq Viewers \ {Host}
  /\ \A u, v \in DOMAIN Kept : Kept[u] = Kept[v] => u = v
  /\ Faults \subseteq SUBSET Viewers /\ {} \in Faults
  /\ Old \subseteq Viewers /\ MaxSwaps \in Nat
  /\ KeptFaults \in BOOLEAN /\ Nobody \notin Viewers \cup Spots \cup {"cinema", "old"}

VARIABLE
  hall  \* the room's members and sockets, cinemaState and watch_room_seats

cinemaVars == <<hall>>

----------------------------------------------------------------------------
(* The shape of a hall of n seats, 6 to 60: rows of cols seats, the rest at *)
(* the back.                                                                *)

Clamp(c) == IF c < 3 THEN 3 ELSE IF c > 10 THEN 10 ELSE c

\* The square root of 1.6 n, rounded.
Width(n) == CHOOSE c \in 0..n : 5 * (2 * c - 1)^2 <= 32 * n /\ 32 * n < 5 * (2 * c + 1)^2

\* The width next to it that leaves no row short, if there is one.
Cols(n) ==
  LET c == Clamp(Width(n))
      Even(d) == n % d = 0
  IN CASE Even(c) -> c
       [] ~Even(c) /\ Even(Clamp(c + 1)) -> Clamp(c + 1)
       [] ~Even(c) /\ ~Even(Clamp(c + 1)) /\ Even(Clamp(c - 1)) -> Clamp(c - 1)
       [] OTHER -> c

Rows(n) == (n + Cols(n) - 1) \div Cols(n)
RowLen(n, row) == IF row = Rows(n) - 1 THEN n - Cols(n) * (Rows(n) - 1) ELSE Cols(n)

\* Twenty times the score: the distance to the middle row and, for 0.7, to
\* the middle of the row.
Distance(x) == IF x < 0 THEN -x ELSE x
ScoreIn(n, i) ==
  LET row == i \div Cols(n)
  IN 10 * Distance(2 * row - (Rows(n) - 1)) + 7 * Distance(2 * (i % Cols(n)) - (RowLen(n, row) - 1))

----------------------------------------------------------------------------
(* What the code asks about a hall.                                         *)

HasPlace(h, u) == h.place[u] # Nobody
OnSeat(h, u) == HasPlace(h, u) /\ h.place[u][1] = "seat"
Taken(h, s) == \E u \in Viewers : h.place[u] = s
FreeSeats(h) == {i \in Seats : ~Taken(h, Seat(i)) /\ h.offers[i] = Nobody}
FreeCouch(h) == {i \in Couch : ~Taken(h, <<"couch", i>>)}
Best(S) == CHOOSE i \in S : \A j \in S : Score[i] < Score[j] \/ (Score[i] = Score[j] /\ i <= j)
First(S) == CHOOSE i \in S : \A j \in S : i <= j

\* The best free seat, else a couch, else nothing.
BestSpot(h) ==
  IF FreeSeats(h) # {} THEN Seat(Best(FreeSeats(h)))
  ELSE IF FreeCouch(h) # {} THEN <<"couch", First(FreeCouch(h))>>
  ELSE Nowhere

\* queue[u]: queued_at, of which only the order counts; 0 without queue_notify.
Asks(h, u) == h.queue[u] > 0
Asking(h) == {u \in Viewers : Asks(h, u)}

\* Members who have asked for a seat and have none.
Waiting(h) == {u \in h.joined : Asks(h, u) /\ HasPlace(h, u) /\ ~OnSeat(h, u)}
Oldest(h, S) == CHOOSE u \in S : \A v \in S : h.queue[u] <= h.queue[v]

OfferOf(h, u) == {i \in Seats : h.offers[i] = u}
Answers(h, u) == h.client[u] = "cinema"

\* The partial unique index of watch_room_seats: one row a seat or spot.
Fits(h, u, spot) == spot = Nowhere \/ \A v \in Viewers \ {u} : h.row[v] # spot

----------------------------------------------------------------------------
(* What the code does to a hall.  F: the users whose rows cannot be written.*)

Settle(h, u, spot) == [h EXCEPT !.place[u] = spot, !.row[u] = spot]
Own(h, u) == [h EXCEPT !.kept = @ \ {u}, !.keptRow = @ \ {u}]
\* Those behind who goes move up: a turn is a place in the queue.
Unqueue(h, u) ==
  [h EXCEPT !.queue = [v \in Viewers |->
    IF v = u THEN 0 ELSE IF h.queue[u] \in 1..h.queue[v] THEN h.queue[v] - 1 ELSE h.queue[v]]]
Enqueue(h, u) == [h EXCEPT !.queue[u] = Cardinality(Asking(h)) + 1]

\* Mutant: only the requests of whoever moves are dropped, not those to them.
DropOwnSwaps(h, u) == [h EXCEPT !.swaps = {s \in @ : s.from # u}]

DropSwaps(h, u) == [h EXCEPT !.swaps = {s \in @ : s.from # u /\ s.to # u}]
Withdraw(h, i) == [h EXCEPT !.offers[i] = Nobody, !.tried[i] = {}]

\* An existing place is kept, and a kept one becomes one's own.
AutoSeat(h, u, F) ==
  IF HasPlace(h, u)
    THEN [h EXCEPT !.kept = @ \ {u}, !.keptRow = IF u \in F /\ KeptFaults THEN @ ELSE @ \ {u}]
    ELSE IF u \in F \/ ~Fits(h, u, BestSpot(h)) THEN h
    ELSE Settle(h, u, BestSpot(h))

\* Those of the queue who can be asked for a seat.
Candidates(h, tried) ==
  {u \in Waiting(h) \ tried : Answers(h, u) /\ OfferOf(h, u) = {}}

\* Members without a place whose app cannot answer, or who have no socket.
Seatless(h, tried) ==
  {u \in h.joined \ tried : h.place[u] = Nowhere /\ ~Answers(h, u)}

\* The row and the memory of a move, the swaps it makes void.
Blocked(h, u, spot, F) == u \in F \/ ~Fits(h, u, spot)
Sits(h, u, spot) ==
  LET put == Own(Settle(h, u, spot), u)
      off == IF spot[1] = "seat" THEN Unqueue(put, u) ELSE put
  IN IF h.place[u] # spot THEN DropSwaps(off, u) ELSE off

\* What offerSeatLocked leaves: seat, if there is one, has still to be offered,
\* to none of tried.
Done(h) == [hall |-> h, seat |-> {}, tried |-> {}]
Freed(h, i, tried) == [hall |-> h, seat |-> {i}, tried |-> tried]

\* u's own offer, now not needed, goes to the next.
GivesBack(h, u) ==
  IF OfferOf(h, u) = {} THEN {Done(h)}
  ELSE {Freed(Withdraw(h, i), i, h.tried[i]) : i \in OfferOf(h, u)}

\* A seat is free: it is held for the first of the queue who can answer, else
\* somebody who cannot is put there.  They had no seat: all that is left to
\* pass on is an offer they held.
Offers(h, i, tried, F) ==
  IF Taken(h, Seat(i)) THEN {Done(h)}
  ELSE IF Candidates(h, tried) # {}
    THEN LET u == Oldest(h, Candidates(h, tried))
         IN {Done([h EXCEPT !.offers[i] = u, !.tried[i] = tried \cup {u}])}
  ELSE IF Seatless(h, tried) = {} THEN {Done(h)}
  ELSE UNION {IF Blocked(h, u, Seat(i), F) THEN {Done(h)} ELSE GivesBack(Sits(h, u, Seat(i)), u)
              : u \in Seatless(h, tried)}

Goes(c, F) == IF c.seat = {} THEN {c} ELSE UNION {Offers(c.hall, i, c.tried, F) : i \in c.seat}

\* What becomes of C in n rounds.
Rounds(Round(_), C, n) ==
  LET after[k \in 0..n] == IF k = 0 THEN C ELSE UNION {Round(c) : c \in after[k - 1]}
  IN after[n]

\* Every round but the last puts one more of the users on a seat.
Ends(C, F) ==
  LET Round(c) == Goes(c, F)
  IN {c.hall : c \in {d \in Rounds(Round, C, Cardinality(Viewers) + 1) : d.seat = {}}}

Offer(h, i, tried, F) == Ends({Freed(h, i, tried)}, F)
GiveBack(h, u, F) == Ends(GivesBack(h, u), F)

\* u goes to a spot that is free or held for u.
Move(h, u, spot, F) ==
  IF Blocked(h, u, spot, F) THEN {h}
  ELSE
    LET old == h.place[u]
        sat == Sits(h, u, spot)
        given == IF spot[1] = "seat" THEN GiveBack(sat, u, F) ELSE {sat}
    IN IF OnSeat(h, u) /\ old # spot
         THEN UNION {Offer(x, old[2], {}, F) : x \in given}
         ELSE given

\* Every seat of left that is not held by now, in order.
OffersFirst(c, F) ==
  IF c.left = {} THEN {c}
  ELSE LET i == First(c.left)
       IN {[hall |-> x, left |-> {j \in c.left \ {i} : x.offers[j] = Nobody}]
           : x \in Offer(c.hall, i, {}, F)}

\* Mutant: nobody is asked until the next seat becomes free.
OfferFreeLater(h, F) == {h}

OfferFree(h, F) ==
  LET Round(c) == OffersFirst(c, F)
      start == [hall |-> h, left |-> FreeSeats(h)]
  IN {c.hall : c \in {d \in Rounds(Round, {start}, Cardinality(start.left)) : d.left = {}}}

\* A member leaves: the offer and the place go back.
Release(h, u, F) ==
  UNION {IF ~HasPlace(x, u) \/ u \in F THEN {x}
         ELSE LET gone == [Own(Unqueue(Settle(x, u, Nobody), u), u) EXCEPT !.since = @ \ {u}]
              IN IF OnSeat(x, u) THEN Offer(gone, x.place[u][2], {}, F) ELSE {gone}
         : x \in GiveBack(DropSwaps(h, u), u, F)}

----------------------------------------------------------------------------
(* Members and sockets.                                                     *)

InHall(u) == u \in hall.joined

\* By whichever way: joining, an accepted request.  The insert may fail.
Join(u) ==
  /\ ~InHall(u)
  /\ \E F \in Faults : hall' = AutoSeat([hall EXCEPT !.joined = @ \cup {u}], u, F)

\* Leaving or kicked; the last member to leave ends the room instead.
LeaveHall(u) ==
  /\ InHall(u) /\ hall.joined # {u}
  /\ \E F \in Faults :
       hall' \in Release([hall EXCEPT !.joined = @ \ {u}, !.client[u] = Nobody], u, F)

\* A socket opens, of an app that knows the hall ("cinema") or an old one.
OpenSocket(u, app) ==
  /\ InHall(u)
  /\ LET h == [hall EXCEPT !.client[u] = app, !.since = @ \ {u}]
     IN \E F \in Faults :
          \/ ~HasPlace(h, u) /\ hall' = AutoSeat(h, u, F)
          \/ /\ h.place[u] = Nowhere /\ app = "old" /\ BestSpot(h) # Nowhere
             /\ hall' \in Move(h, u, BestSpot(h), F)
          \/ /\ HasPlace(h, u)
             /\ ~(h.place[u] = Nowhere /\ app = "old" /\ BestSpot(h) # Nowhere)
             /\ hall' = h

CloseSocket(u) ==
  /\ hall.client[u] # Nobody
  /\ hall' = [hall EXCEPT !.client[u] = Nobody, !.since = @ \cup {u}]

\* The room leaves memory, or the process stops, and the room is loaded again.
ReloadHall ==
  hall' = [hall EXCEPT
    !.place = hall.row, !.kept = hall.keptRow, !.client = [u \in Viewers |-> Nobody],
    !.since = {u \in Viewers : hall.row[u] # Nobody},
    !.offers = [i \in Seats |-> Nobody], !.tried = [i \in Seats |-> {}], !.swaps = {}]

----------------------------------------------------------------------------
(* What members ask for.                                                    *)

\* The offer is taken before the move, whether or not the move succeeds.
Take(h, u, spot) ==
  IF spot[1] = "seat" /\ h.offers[spot[2]] = u THEN Withdraw(h, spot[2]) ELSE h

Sit(u, spot) ==
  /\ InHall(u) /\ spot # Nowhere /\ ~Taken(hall, spot)
  /\ spot[1] = "seat" => hall.offers[spot[2]] \in {Nobody, u}
  /\ \E F \in Faults : hall' \in Move(Take(hall, u, spot), u, spot, F)

\* Choosing the plain player seats whoever has no place.
View(u) ==
  /\ InHall(u) /\ ~HasPlace(hall, u)
  /\ \E F \in Faults : hall' = AutoSeat(hall, u, F)

\* The row of a place just given, or of an old one, is written.
Notify(u) ==
  /\ InHall(u) /\ ~OnSeat(hall, u) /\ ~Asks(hall, u)
  /\ \E F \in Faults :
       LET h == IF ~HasPlace(hall, u) THEN AutoSeat(hall, u, F) ELSE hall
       IN IF ~HasPlace(h, u) \/ OnSeat(h, u) \/ u \in F
            THEN hall' = h
            ELSE hall' \in OfferFree(Enqueue(h, u), F)

NotifyOff(u) ==
  /\ InHall(u) /\ Asks(hall, u) /\ ~OnSeat(hall, u)
  /\ \E F \in Faults :
       /\ u \notin F
       /\ hall' \in GiveBack(Unqueue(hall, u), u, F)

Decline(u) ==
  /\ InHall(u) /\ OfferOf(hall, u) # {}
  /\ \E F \in Faults : hall' \in GiveBack(hall, u, F)

\* Somebody on a seat, in the room with an app that can answer, is asked; a
\* second request replaces the first.
AskSwap(u, i) ==
  /\ InHall(u) /\ Cardinality({s \in hall.swaps : s.from # u}) < MaxSwaps
  /\ \E v \in hall.joined \ {u} :
       /\ hall.place[v] = Seat(i) /\ v \notin hall.kept /\ Answers(hall, v)
       /\ hall' = [hall EXCEPT !.swaps =
                    {s \in @ : s.from # u} \cup {[to |-> v, from |-> u, idx |-> i]}]

StillThere(h, s) == s.from \in h.joined /\ h.place[s.to] = Seat(s.idx)

\* Both rows change in one transaction; whoever asked may have to be seated
\* first.
Swap(h, s, F) ==
  LET x == IF HasPlace(h, s.from) THEN h ELSE AutoSeat(h, s.from, F)
      done == Settle(Settle(x, s.from, x.place[s.to]), s.to, x.place[s.from])
  IN IF ~HasPlace(x, s.from) \/ {s.from, s.to} \cap F # {} THEN {x}
     ELSE GiveBack(DropSwaps(DropSwaps(Unqueue(done, s.from), s.from), s.to), s.from, F)

AnswerSwap(s, accept) ==
  /\ s \in hall.swaps /\ InHall(s.to)
  /\ LET h == [hall EXCEPT !.swaps = @ \ {s}]
     IN \E F \in Faults :
          hall' \in IF accept /\ StillThere(h, s) THEN Swap(h, s, F) ELSE {h}

----------------------------------------------------------------------------
(* The tick.                                                                *)

\* The offers of left have run out: each goes on to the next.
ExpiresOne(c, F) ==
  IF c.left = {} THEN {c}
  ELSE UNION {{[hall |-> x, left |-> {j \in c.left \ {i} : x.offers[j] = c.hall.offers[j]}]
               : x \in Offer(Withdraw(c.hall, i), i, c.hall.tried[i], F)} : i \in c.left}

Expire(h, E, F) ==
  LET Round(c) == ExpiresOne(c, F)
  IN {c.hall : c \in Rounds(Round, {[hall |-> h, left |-> E]}, Cardinality(E))}

\* Friends who have not come for ten minutes of the film lose their seats.
Vacates(h, F) ==
  IF h.kept \ F = {} THEN {h}
  ELSE {Own(Unqueue(Settle(h, u, Nobody), u), u) : u \in h.kept \ F}

FreeKept(h, moved, F) ==
  LET Round(x) == Vacates(x, F)
  IN UNION {IF moved \/ h.kept \ F # {} THEN OfferFree(x, F) ELSE {x}
            : x \in Rounds(Round, {h}, Cardinality(h.kept \ F))}

\* Mutant: the seats of those who have been away only now are taken, too.
ReclaimableAll(h, L) == {u \in Viewers : OnSeat(h, u) /\ u \notin h.kept}

Reclaimable(h, L) == {u \in L : OnSeat(h, u) /\ u \notin h.kept}

Able(h) == {u \in Waiting(h) : Answers(h, u)}

\* One seat of left is freed, as long as there are seats to free: n.
ReclaimsOne(c, F) ==
  IF c.n = 0 \/ Reclaimable(c.hall, c.left) = {} THEN {c}
  ELSE UNION {IF u \in F THEN {[c EXCEPT !.left = @ \ {u}]}
              ELSE {[hall |-> x, left |-> c.left \ {u}, n |-> c.n - 1] :
                    x \in Offer(Settle(c.hall, u, Nowhere), c.hall.place[u][2], {}, F)}
              : u \in Reclaimable(c.hall, c.left)}

\* The hall is full and people wait: the seats of L, away for ten minutes.
Reclaim(h, L, F) ==
  LET Round(c) == ReclaimsOne(c, F)
  IN IF Able(h) = {} \/ FreeSeats(h) # {} THEN {h}
     ELSE {c.hall : c \in Rounds(Round, {[hall |-> h, left |-> L, n |-> Cardinality(Able(h))]},
                                 Cardinality(L))}

\* E and X: the offers and swaps that have run out; L: those known to be away
\* for ten minutes, whose own swaps have long run out.
Tick(E, X, L, sweep, late) ==
  /\ \A s \in hall.swaps : s.to \in L => s \in X
  /\ \E F \in Faults :
       hall' \in
         LET expired == {[h EXCEPT !.swaps = @ \ X] : h \in Expire(hall, E, F)}
             freed == IF sweep /\ late
                        THEN UNION {FreeKept(h, E # {}, F) : h \in expired} ELSE expired
         IN IF sweep THEN UNION {Reclaim(h, L, F) : h \in freed} ELSE freed

Away == {u \in hall.since : hall.client[u] = Nobody /\ OnSeat(hall, u)}

\* Every second; twice a minute it sweeps, and late says that the film has
\* been on for ten minutes.
Ticks ==
  \E E \in SUBSET {i \in Seats : hall.offers[i] # Nobody}, X \in SUBSET hall.swaps :
    \/ Tick(E, X, {}, FALSE, FALSE)
    \/ \E L \in SUBSET Away, late \in BOOLEAN : Tick(E, X, L, TRUE, late)

----------------------------------------------------------------------------

\* The room as its creation leaves it.
Opened ==
  [u \in Viewers |-> IF u = Host THEN Seat(HostSeat)
                   ELSE IF u \in DOMAIN Kept THEN Seat(Kept[u]) ELSE Nobody]

CinemaInit ==
  hall = [joined |-> {Host}, client |-> [u \in Viewers |-> Nobody], since |-> {Host} \cup DOMAIN Kept,
          place |-> Opened, row |-> Opened, kept |-> DOMAIN Kept, keptRow |-> DOMAIN Kept,
          queue |-> [u \in Viewers |-> 0], offers |-> [i \in Seats |-> Nobody], tried |-> [i \in Seats |-> {}],
          swaps |-> {}]

CinemaNext ==
  \/ \E u \in Viewers : Join(u) \/ LeaveHall(u) \/ CloseSocket(u) \/ View(u)
                        \/ Notify(u) \/ NotifyOff(u) \/ Decline(u)
  \/ \E u \in Viewers : OpenSocket(u, "cinema")
  \/ \E u \in Old : OpenSocket(u, "old")
  \/ \E u \in Viewers, spot \in Spots : Sit(u, spot)
  \/ \E u \in Viewers, i \in Seats : AskSwap(u, i)
  \/ \E s \in hall.swaps, accept \in BOOLEAN : AnswerSwap(s, accept)
  \/ Ticks
  \/ ReloadHall

CinemaSpec == CinemaInit /\ [][CinemaNext]_cinemaVars

----------------------------------------------------------------------------
(* What makes the hall correct.                                             *)

Hall ==
  [joined : SUBSET Viewers, client : [Viewers -> {"cinema", "old", Nobody}], since : SUBSET Viewers,
   place : [Viewers -> Spots \cup {Nobody}], row : [Viewers -> Spots \cup {Nobody}],
   kept : SUBSET Viewers, keptRow : SUBSET Viewers, queue : [Viewers -> Nat],
   offers : [Seats -> Viewers \cup {Nobody}], tried : [Seats -> SUBSET Viewers],
   swaps : SUBSET [from : Viewers, to : Viewers, idx : Seats]]

\* The hall is made of places, offers and requests of its members.
CinemaTypeOK(h) ==
  /\ h \in Hall
  /\ \A u \in h.kept \cup h.keptRow : HasPlace(h, u)
  /\ \A u, v \in Asking(h) : h.queue[u] = h.queue[v] => u = v

\* Nobody sits on another's lap, and memory and rows agree where everybody is,
\* whichever writes failed (moveLocked, releaseLocked, swapPlacesLocked).
SeatsAreOwn(h) ==
  /\ \A u, v \in Viewers : u # v /\ h.place[u] = h.place[v] => h.place[u] \in {Nowhere, Nobody}
  /\ h.place = h.row

\* A seat is held only while it is free, for one member who still waits for a
\* seat and holds no other (cs.offers, offerSeatLocked, releaseOfferOfLocked).
OffersStand(h) ==
  \A i \in Seats : h.offers[i] # Nobody =>
    /\ ~Taken(h, Seat(i))
    /\ h.offers[i] \in Waiting(h)
    /\ OfferOf(h, h.offers[i]) = {i}

\* Whoever is asked to swap still sits where the request says: accepting
\* never gives a seat away that the request did not name (dropSwapsLocked).
SwapsStand(h) ==
  \A s \in h.swaps :
    /\ h.place[s.to] = Seat(s.idx)
    /\ s.from \in h.joined /\ s.to \in h.joined
    /\ \A t \in h.swaps : t.from = s.from => t = s

\* Places, offers and requests to swap fit each other after every chain of moves.
PlacesStand == CinemaTypeOK(hall) /\ SeatsAreOwn(hall) /\ OffersStand(hall) /\ SwapsStand(hall)

\* A connected member who is on a seat is not left without one, unless by a
\* swap they were asked for (cinemaTickLocked, reclaimOfflineSeatsLocked).
ConnectedKeepSeat ==
  [][\A u \in hall.joined \cap hall'.joined :
       hall.client[u] # Nobody /\ hall'.client[u] # Nobody /\ OnSeat(hall, u)
         => hall'.place[u] \notin {Nobody, Nowhere} \/ \E s \in hall.swaps : s.to = u]_cinemaVars

\* A seat that becomes free is held for somebody, or nobody in the queue can
\* be asked ("a freed seat is offered to the queue first").
FreedSeatIsOffered ==
  [][\A i \in Seats :
       Taken(hall, Seat(i)) /\ ~Taken(hall', Seat(i)) /\ hall'.offers[i] = Nobody
         => Candidates(hall', {}) = {}]_cinemaVars

\* Somebody who comes back with a new app gets a place if there is one ("they
\* get a place again when they come back").  Not so: README.md, disagreements.
ReturnersAreSeated ==
  [][\A u \in Viewers :
       hall.client[u] = Nobody /\ hall'.client[u] = "cinema" /\ hall'.place[u] = Nowhere
         => FreeSeats(hall') = {} /\ FreeCouch(hall') = {}]_cinemaVars

\* While somebody who can be asked waits, no seat is free and unheld that they
\* have not refused.  Not so either: they may have been away when it was freed.
NoSeatWaitsInVain ==
  \A i \in FreeSeats(hall) : Candidates(hall, {}) = {}
=============================================================================
