--------------------------- MODULE WatchRoomProofs ---------------------------
(***************************************************************************)
(* Theorems about WatchRoom that hold for every instance and whichever     *)
(* statements fail: its types, that a break stops the clock, that a        *)
(* countdown announces the clock's own instant, and that no status ever    *)
(* goes back.  First what the helpers do to a world: each one keeps WInv,  *)
(* the rules a room and its row obey, and never takes a status back.  Then *)
(* the handlers, put together from them.  The second half is about the     *)
(* records of the room when the statements succeed, and WatchParty.        *)
(***************************************************************************)
EXTENDS WatchRoom, TLAPS

\* A world a handler may find or leave: World when the room is loaded.
WorldType ==
  [row : Row, open : SUBSET Nat, nsess : Nat, pollRows : SUBSET PollKinds,
   room : LiveRoom, ok : BOOLEAN]

WType(w) == w \in WorldType /\ w.open \subseteq 1..w.nsess

\* BreakStopsClock of a world.
WBreak(w) ==
  /\ w.row.brk # NoBreak => ~w.row.playing
  /\ w.room.row.brk # NoBreak => ~w.room.row.playing

\* The copy never runs ahead of the row; only a started room counts down or is
\* on a break.
Early == {"scheduled", "lobby"}

WStatus(w) ==
  /\ Rank(w.room.row.status) <= Rank(w.row.status)
  /\ w.row.status \in Early => w.row.brk = NoBreak
  /\ w.room.row.status \in Early =>
       w.room.row.brk = NoBreak /\ w.room.countdownS = NoCountdown

WCountdown(w) ==
  w.room.row.status = "live" /\ w.room.countdownS > now =>
    w.room.row.playing /\ w.room.row.upd = w.room.countdownS

WInv(w) == WType(w) /\ WBreak(w) /\ WStatus(w) /\ WCountdown(w)

\* Neither the row's nor the copy's status goes back from w to v.
Forward(w, v) ==
  /\ Rank(w.row.status) <= Rank(v.row.status)
  /\ Rank(w.room.row.status) <= Rank(v.room.row.status)

\* A clamped position is a position.
LEMMA ClampType ==
  ASSUME NEW pos \in Int, NEW m \in Media
  PROVE  Clamp(pos, m) \in Nat
BY MediaAssumption DEF Clamp

\* The room clock is a position.
LEMMA ExpectedType ==
  ASSUME NEW r \in Row, now \in Nat
  PROVE  Expected(r) \in Nat
<1>1. \A a, b \in Nat : a * b \in Nat
  OBVIOUS
<1>2. r.pos \in Nat /\ r.upd \in Nat /\ r.rate \in Nat /\ r.media \in Media
  BY MediaAssumption DEF Row
<1>3. now > r.upd => now - r.upd \in Nat
  BY <1>2
<1>4. RawPosition(r) \in Int
  BY <1>1, <1>2, <1>3 DEF RawPosition
<1> QED
  BY <1>2, <1>4, ClampType DEF Expected

MovedFacts(r, pos, playing, rate, upd) ==
  /\ Moved(r, pos, playing, rate, upd) \in Row
  /\ Moved(r, pos, playing, rate, upd).status = r.status
  /\ Moved(r, pos, playing, rate, upd).brk = r.brk
  /\ Moved(r, pos, playing, rate, upd).playing = playing
  /\ Moved(r, pos, playing, rate, upd).upd = upd

\* The clock after a change is typed, whatever position was asked for.
LEMMA MovedType ==
  ASSUME NEW r \in Row, NEW pos \in Int, NEW playing \in BOOLEAN,
         NEW rate \in Rates, NEW upd \in Nat
  PROVE  MovedFacts(r, pos, playing, rate, upd)
<1> DEFINE n == Moved(r, pos, playing, rate, upd)
<1>1. Clamp(pos, r.media) \in Nat /\ r.ver + 1 \in Nat
  BY ClampType DEF Row
<1>2. \A c, k \in Nat : [r EXCEPT !.pos = c, !.playing = playing, !.rate = rate,
                                  !.upd = upd, !.ver = k] \in Row
  BY DEF Row
<1>3. n \in Row
  BY <1>1, <1>2 DEF Moved
<1>4. n.status = r.status
  BY DEF Moved, Row
<1>5. n.brk = r.brk
  BY DEF Moved, Row
<1>6. n.playing = playing
  BY DEF Moved, Row
<1>7. n.upd = upd
  BY DEF Moved, Row
<1> QED
  BY <1>3, <1>4, <1>5, <1>6, <1>7 DEF MovedFacts

\* The UPDATE keeps the row's type and takes the break and the clock.
LEMMA SavedType ==
  ASSUME NEW stored \in Row, NEW r \in Row
  PROVE  /\ Saved(stored, r) \in Row
         /\ Saved(stored, r).status = stored.status
         /\ Saved(stored, r).brk = r.brk
         /\ Saved(stored, r).playing = r.playing
<1> DEFINE n == Saved(stored, r)
<1>1. n \in Row
  BY DEF Saved, Row
<1>2. n.status = stored.status
  BY DEF Saved, Row
<1>3. n.brk = r.brk
  BY DEF Saved, Row
<1>4. n.playing = r.playing
  BY DEF Saved, Row
<1> QED
  BY <1>1, <1>2, <1>3, <1>4

\* What setPlaybackLocked does: the row, then the copy, or on an error the row
\* alone or nothing.
SetPlaybackShape(w, v, playing, upd) ==
  /\ v.row.status = w.row.status
  /\ v.room.row.status = w.room.row.status
  /\ v.room.row.brk = w.room.row.brk
  /\ v.room.countdownS = w.room.countdownS
  /\ \/ v.row = w.row
     \/ v.row.brk = w.room.row.brk /\ v.row.playing = playing
  /\ v.ok => v.room.row.playing = playing /\ v.room.row.upd = upd
  /\ ~v.ok => v.room.row = w.room.row

\* setPlaybackLocked, whatever it is called with.
LEMMA SetPlaybackDoes ==
  ASSUME NEW w, WType(w), NEW pos \in Int, NEW playing \in BOOLEAN,
         NEW rate \in Rates, NEW upd \in Nat,
         NEW v \in SetPlayback(w, pos, playing, rate, upd)
  PROVE  WType(v) /\ SetPlaybackShape(w, v, playing, upd)
<1> DEFINE n == Moved(w.room.row, pos, playing, rate, upd)
           saved == [w EXCEPT !.row = Saved(w.row, n)]
           done == [saved EXCEPT !.room.row = n]
<1>1. w.room.row \in Row /\ w.row \in Row /\ w.room \in LiveRoom
  BY DEF WType, WorldType, LiveRoom
<1>2. /\ n \in Row /\ n.status = w.room.row.status /\ n.brk = w.room.row.brk
      /\ n.playing = playing /\ n.upd = upd
  <2>1. \A r \in Row : MovedFacts(r, pos, playing, rate, upd)
    BY MovedType
  <2> QED
    BY <1>1, <2>1 DEF MovedFacts
<1>3. /\ Saved(w.row, n) \in Row
      /\ Saved(w.row, n).status = w.row.status
      /\ Saved(w.row, n).brk = n.brk
      /\ Saved(w.row, n).playing = playing
  BY <1>1, <1>2, SavedType
<1>4. \/ v = [done EXCEPT !.ok = TRUE]
      \/ v = [w EXCEPT !.ok = FALSE]
      \/ v = [saved EXCEPT !.ok = FALSE]
  BY DEF SetPlayback, Statement
<1> HIDE DEF n
<1>5. CASE v = [done EXCEPT !.ok = TRUE]
  <2>1. /\ v.row = Saved(w.row, n) /\ v.room.row = n /\ v.open = w.open
        /\ v.nsess = w.nsess /\ v.room.countdownS = w.room.countdownS
    BY <1>1, <1>5 DEF WType, WorldType, LiveRoom
  <2>2. WType(v)
    BY <1>1, <1>2, <1>3, <1>5 DEF WType, WorldType, LiveRoom
  <2>3. v.ok
    BY <1>5 DEF WType, WorldType
  <2> QED
    BY <1>2, <1>3, <2>1, <2>2, <2>3 DEF SetPlaybackShape
<1>6. CASE v = [w EXCEPT !.ok = FALSE]
  <2>1. v.row = w.row /\ v.room = w.room /\ ~v.ok /\ WType(v)
    BY <1>6 DEF WType, WorldType
  <2> QED
    BY <2>1 DEF SetPlaybackShape
<1>7. CASE v = [saved EXCEPT !.ok = FALSE]
  <2>1. /\ v.row = Saved(w.row, n) /\ v.room = w.room /\ v.open = w.open
        /\ v.nsess = w.nsess /\ ~v.ok /\ WType(v)
    BY <1>1, <1>3, <1>7 DEF WType, WorldType
  <2> QED
    BY <1>2, <1>3, <2>1 DEF SetPlaybackShape
<1> QED
  BY <1>4, <1>5, <1>6, <1>7

\* setPlaybackLocked keeps the break rule when it does not start a clock under
\* a break, and leaves the copy as it was on an error.
LEMMA SetPlaybackFacts ==
  ASSUME NEW w, WType(w), WBreak(w), NEW pos \in Int, NEW playing \in BOOLEAN,
         NEW rate \in Rates, NEW upd \in Nat,
         w.room.row.brk # NoBreak => ~playing,
         NEW v \in SetPlayback(w, pos, playing, rate, upd)
  PROVE  /\ WType(v) /\ WBreak(v)
         /\ v.row.status = w.row.status
         /\ v.room.row.status = w.room.row.status
         /\ v.room.countdownS = w.room.countdownS
         /\ v.row.brk \in {w.row.brk, w.room.row.brk}
         /\ v.room.row.brk = w.room.row.brk
         /\ v.ok => v.room.row.playing = playing /\ v.room.row.upd = upd
         /\ ~v.ok => v.room.row = w.room.row
<1>1. WType(v) /\ SetPlaybackShape(w, v, playing, upd)
  BY SetPlaybackDoes
<1>2. WBreak(v)
  BY <1>1 DEF WBreak, SetPlaybackShape
<1> QED
  BY <1>1, <1>2 DEF SetPlaybackShape

\* The order of the statuses.
LEMMA RankFacts ==
  ASSUME NEW s \in Statuses, NEW t \in Statuses
  PROVE  /\ Rank(s) \in 0..3
         /\ Rank(s) <= Rank(t) /\ t \in Early => s \in Early
         /\ Rank(s) <= Rank("ended")
         /\ Rank(s) <= Rank(t) /\ s = "ended" => t = "ended"
BY DEF Statuses, Rank, Early

\* What the rules of WInv look at, unchanged from w to v.
SameClock(w, v) ==
  /\ v.row.status = w.row.status
  /\ v.row.brk = w.row.brk
  /\ v.row.playing = w.row.playing
  /\ v.room.row.status = w.room.row.status
  /\ v.room.row.brk = w.room.row.brk
  /\ v.room.row.playing = w.room.row.playing
  /\ v.room.row.upd = w.room.row.upd
  /\ v.room.countdownS = w.room.countdownS

\* Statuses of a typed world.
LEMMA WorldStatuses ==
  ASSUME NEW w, WType(w)
  PROVE  /\ w.row.status \in Statuses /\ w.room.row.status \in Statuses
         /\ w.row \in Row /\ w.room \in LiveRoom /\ w.room.row \in Row
         /\ w.room.countdownS \in Nat /\ w.room.row.upd \in Nat
<1>1. w.row \in Row /\ w.room \in LiveRoom /\ w.room.row \in Row
  BY DEF WType, WorldType, LiveRoom
<1> QED
  BY <1>1 DEF LiveRoom, Row

\* A step that leaves what the rules look at alone keeps them.
LEMMA Frame ==
  ASSUME NEW w, NEW v, WInv(w), WType(v), SameClock(w, v)
  PROVE  WInv(v) /\ Forward(w, v)
<1>1. WBreak(v) /\ WStatus(v) /\ WCountdown(v)
  BY DEF WInv, WBreak, WStatus, WCountdown, SameClock
<1>2. Forward(w, v)
  <2>1. w.row.status \in Statuses /\ w.room.row.status \in Statuses
    BY WorldStatuses DEF WInv
  <2> QED
    BY <2>1, RankFacts DEF Forward, SameClock
<1> QED
  BY <1>1, <1>2 DEF WInv

\* A step that keeps the rules and the order of the statuses.
Good(w, v) == WInv(v) /\ Forward(w, v)

\* Good steps compose: a handler is good when each of its parts is.
LEMMA GoodTrans ==
  ASSUME NEW u, NEW w, NEW v, WType(u), Good(u, w), Good(w, v)
  PROVE  Good(u, v)
<1>1. \A x \in {u, w, v} : Rank(x.row.status) \in Int /\ Rank(x.room.row.status) \in Int
  BY WorldStatuses, RankFacts DEF Good, WInv
<1> QED
  BY <1>1 DEF Good, Forward

\* Doing nothing is good.
LEMMA GoodSelf ==
  ASSUME NEW w, WInv(w)
  PROVE  Good(w, w)
<1>1. w.row.status \in Statuses /\ w.room.row.status \in Statuses
  BY WorldStatuses DEF WInv
<1> QED
  BY <1>1, RankFacts DEF Good, Forward

\* setPlaybackLocked is good unless it starts a clock under a break or moves
\* the instant a pending countdown announces.
LEMMA SetPlaybackGood ==
  ASSUME NEW w, WInv(w), NEW pos \in Int, NEW playing \in BOOLEAN,
         NEW rate \in Rates, NEW upd \in Nat,
         w.room.row.brk # NoBreak => ~playing,
         w.room.row.status = "live" /\ w.room.countdownS > now =>
           playing /\ upd = w.room.countdownS,
         NEW v \in SetPlayback(w, pos, playing, rate, upd)
  PROVE  Good(w, v)
<1>1. WType(w) /\ WBreak(w) /\ WStatus(w) /\ WCountdown(w)
  BY DEF WInv
<1>2. /\ WType(v) /\ WBreak(v)
      /\ v.row.status = w.row.status
      /\ v.room.row.status = w.room.row.status
      /\ v.room.countdownS = w.room.countdownS
      /\ v.row.brk \in {w.row.brk, w.room.row.brk}
      /\ v.room.row.brk = w.room.row.brk
      /\ v.ok => v.room.row.playing = playing /\ v.room.row.upd = upd
      /\ ~v.ok => v.room.row = w.room.row
  BY <1>1, SetPlaybackFacts
<1>3. w.row.status \in Statuses /\ w.room.row.status \in Statuses
  BY <1>1, WorldStatuses
<1>4. WStatus(v)
  BY <1>1, <1>2, <1>3, RankFacts DEF WStatus
<1>5. WCountdown(v)
  BY <1>1, <1>2 DEF WCountdown
<1>6. Forward(w, v)
  BY <1>2, <1>3, RankFacts DEF Forward
<1> QED
  BY <1>2, <1>4, <1>5, <1>6 DEF Good, WInv

\* startCountdownAfterLocked in a started room that is not on a break.
LEMMA StartCountdownGood ==
  ASSUME NEW w, WInv(w), now \in Nat, NEW pos \in Int, NEW delay \in Nat,
         w.room.row.brk = NoBreak, w.room.row.status \notin Early,
         NEW v \in StartCountdownAfter(w, pos, delay)
  PROVE  Good(w, v)
<1>1. WType(w) /\ WBreak(w) /\ WStatus(w) /\ WCountdown(w)
  BY DEF WInv
<1>2. /\ w.row.status \in Statuses /\ w.room.row.status \in Statuses
      /\ w.room.row.rate \in Rates /\ now + delay \in Nat
  BY <1>1, WorldStatuses DEF Row
<1>3. PICK u \in SetPlayback(w, pos, TRUE, w.room.row.rate, now + delay) :
        v = IF u.ok THEN [u EXCEPT !.room.countdownS = now + delay] ELSE u
  BY DEF StartCountdownAfter
<1>4. /\ WType(u) /\ WBreak(u)
      /\ u.row.status = w.row.status
      /\ u.room.row.status = w.room.row.status
      /\ u.room.countdownS = w.room.countdownS
      /\ u.row.brk \in {w.row.brk, w.room.row.brk}
      /\ u.room.row.brk = w.room.row.brk
      /\ u.ok => u.room.row.playing = TRUE /\ u.room.row.upd = now + delay
      /\ ~u.ok => u.room.row = w.room.row
  <2> DEFINE playing == TRUE
             upd == now + delay
  <2>1. /\ playing \in BOOLEAN /\ upd \in Nat
        /\ w.room.row.brk # NoBreak => ~playing
        /\ u \in SetPlayback(w, pos, playing, w.room.row.rate, upd)
    BY <1>2, <1>3
  <2> HIDE DEF playing, upd
  <2>2. /\ WType(u) /\ WBreak(u)
        /\ u.row.status = w.row.status
        /\ u.room.row.status = w.room.row.status
        /\ u.room.countdownS = w.room.countdownS
        /\ u.row.brk \in {w.row.brk, w.room.row.brk}
        /\ u.room.row.brk = w.room.row.brk
        /\ u.ok => u.room.row.playing = playing /\ u.room.row.upd = upd
        /\ ~u.ok => u.room.row = w.room.row
    BY <1>1, <1>2, <2>1, SetPlaybackFacts
  <2> QED
    BY <2>2 DEF playing, upd
<1>5. WStatus(u)
  BY <1>1, <1>2, <1>4, RankFacts DEF WStatus
<1>6. Forward(w, u)
  BY <1>2, <1>4, RankFacts DEF Forward
<1>7. CASE ~u.ok
  <2>1. v = u /\ WCountdown(u)
    BY <1>1, <1>3, <1>4, <1>7 DEF WCountdown
  <2> QED
    BY <1>4, <1>5, <1>6, <2>1 DEF Good, WInv
<1>8. CASE u.ok
  <2>1. v = [u EXCEPT !.room.countdownS = now + delay]
    BY <1>3, <1>8
  <2>2. /\ v.row = u.row /\ v.room.row = u.room.row /\ v.open = u.open
        /\ v.nsess = u.nsess /\ v.room.countdownS = now + delay
    BY <1>4, <2>1 DEF WType, WorldType, LiveRoom
  <2>3. WType(v)
    BY <1>4, <2>1 DEF WType, WorldType, LiveRoom
  <2>4. WBreak(v) /\ WStatus(v) /\ WCountdown(v)
    BY <1>4, <1>5, <1>8, <2>2 DEF WBreak, WStatus, WCountdown
  <2>5. Forward(w, v)
    BY <1>6, <2>2 DEF Forward
  <2> QED
    BY <2>3, <2>4, <2>5 DEF Good, WInv
<1> QED
  BY <1>7, <1>8

-----------------------------------------------------------------------------
(* Sessions and polls leave the clock alone. *)

\* openSessionLocked leaves the clock alone, wherever it stops.
LEMMA OpenSessionFacts ==
  ASSUME NEW w, WType(w), NEW v \in OpenSession(w)
  PROVE  WType(v) /\ SameClock(w, v)
<1> DEFINE s == w.nsess + 1
           inserted == [w EXCEPT !.open = @ \cup {s}, !.nsess = s]
           pointed == [inserted EXCEPT !.row.sid = s]
           done == [pointed EXCEPT !.room.row.sid = s, !.room.sessionEnded = FALSE]
<1>1. s \in Nat /\ w.open \cup {s} \subseteq 1..s
  BY DEF WType, WorldType
<1>2. /\ w \in WorldType /\ w.row \in Row /\ w.room \in LiveRoom /\ w.room.row \in Row
  BY WorldStatuses DEF WType
<1>3. inserted \in WorldType /\ inserted.open = w.open \cup {s} /\ inserted.nsess = s
  BY <1>1, <1>2 DEF WorldType
<1>4. [w.row EXCEPT !.sid = s] \in Row /\ [w.room.row EXCEPT !.sid = s] \in Row
  BY <1>1, <1>2 DEF Row
<1>5. \/ v = [done EXCEPT !.ok = TRUE]
      \/ v = [w EXCEPT !.ok = FALSE]
      \/ v = [inserted EXCEPT !.ok = FALSE]
      \/ v = [pointed EXCEPT !.ok = FALSE]
  BY DEF OpenSession, Statement
<1> HIDE DEF s
<1>6. CASE v = [w EXCEPT !.ok = FALSE]
  BY <1>2, <1>6 DEF WType, WorldType, SameClock
<1>7. CASE v = [inserted EXCEPT !.ok = FALSE]
  BY <1>1, <1>2, <1>7 DEF WType, WorldType, SameClock
<1>8. CASE v = [pointed EXCEPT !.ok = FALSE]
  <2>1. WType(v)
    BY <1>1, <1>2, <1>4, <1>8 DEF WType, WorldType
  <2>2. SameClock(w, v)
    BY <1>2, <1>8 DEF WorldType, Row, SameClock
  <2> QED
    BY <2>1, <2>2
<1>9. CASE v = [done EXCEPT !.ok = TRUE]
  <2>1. WType(v)
    <3>1. /\ v.row = [w.row EXCEPT !.sid = s] /\ v.open = w.open \cup {s} /\ v.nsess = s
          /\ v.pollRows = w.pollRows /\ v.ok = TRUE
          /\ v.room = [w.room EXCEPT !.row = [w.room.row EXCEPT !.sid = s], !.sessionEnded = FALSE]
          /\ v = [row |-> v.row, open |-> v.open, nsess |-> v.nsess, pollRows |-> v.pollRows,
                  room |-> v.room, ok |-> v.ok]
      BY <1>2, <1>9 DEF WorldType, LiveRoom
    <3>2. v.room \in LiveRoom
      BY <1>2, <1>4, <3>1 DEF LiveRoom
    <3>3. v.open \subseteq 1..v.nsess /\ v.nsess \in Nat /\ v.open \in SUBSET Nat
      BY <1>1, <3>1
    <3>4. v.pollRows \in SUBSET PollKinds
      BY <1>2, <3>1 DEF WorldType
    <3> QED BY <1>4, <3>1, <3>2, <3>3, <3>4 DEF WType, WorldType
  <2>2. SameClock(w, v)
    BY <1>2, <1>9 DEF WorldType, Row, LiveRoom, SameClock
  <2> QED
    BY <2>1, <2>2
<1> QED
  BY <1>5, <1>6, <1>7, <1>8, <1>9

\* closeSessionLocked leaves the clock alone.
LEMMA CloseSessionFacts ==
  ASSUME NEW w, WType(w), NEW v \in CloseSession(w)
  PROVE  WType(v) /\ SameClock(w, v)
<1>1. w \in WorldType /\ w.room \in LiveRoom /\ w.row \in Row /\ w.room.row \in Row
  BY WorldStatuses DEF WType
<1>2. \/ v = w
      \/ \E o \in SUBSET w.open : v = [w EXCEPT !.open = o, !.room.sessionEnded = TRUE]
  <2>1. v = w \/ v = [w EXCEPT !.open = @ \ {w.room.row.sid}, !.room.sessionEnded = TRUE]
          \/ v = [[w EXCEPT !.open = @ \ {w.room.row.sid}, !.room.sessionEnded = TRUE]
                    EXCEPT !.open = w.open]
    BY DEF CloseSession
  <2>2. [[w EXCEPT !.open = @ \ {w.room.row.sid}, !.room.sessionEnded = TRUE]
           EXCEPT !.open = w.open] = [w EXCEPT !.open = w.open, !.room.sessionEnded = TRUE]
    BY <1>1 DEF WorldType
  <2>3. w.open \ {w.room.row.sid} \in SUBSET w.open /\ w.open \in SUBSET w.open
    OBVIOUS
  <2> QED
    BY <2>1, <2>2, <2>3
<1>3. ASSUME NEW o \in SUBSET w.open, v = [w EXCEPT !.open = o, !.room.sessionEnded = TRUE]
      PROVE  WType(v) /\ SameClock(w, v)
  <2>1. WType(v)
    BY <1>1, <1>3 DEF WType, WorldType, LiveRoom
  <2>2. SameClock(w, v)
    BY <1>1, <1>3 DEF WorldType, LiveRoom, SameClock
  <2> QED
    BY <2>1, <2>2
<1>4. CASE v = w
  BY <1>4 DEF SameClock
<1> QED
  BY <1>2, <1>3, <1>4

\* closePollLocked leaves the clock alone.
LEMMA ClosePollFacts ==
  ASSUME NEW w, WType(w), NEW v \in ClosePoll(w)
  PROVE  WType(v) /\ SameClock(w, v)
<1>1. w \in WorldType /\ w.room \in LiveRoom /\ w.row \in Row /\ w.room.row \in Row
  BY WorldStatuses DEF WType
<1>2. \/ v = w
      \/ v = [w EXCEPT !.pollRows = @ \ {w.room.poll}, !.room.poll = "none"]
      \/ v = [[w EXCEPT !.pollRows = @ \ {w.room.poll}, !.room.poll = "none"]
                EXCEPT !.pollRows = w.pollRows]
  BY DEF ClosePoll
<1>3. CASE v = w
  BY <1>3 DEF SameClock
<1>4. CASE v = [w EXCEPT !.pollRows = @ \ {w.room.poll}, !.room.poll = "none"]
  BY <1>1, <1>4 DEF WType, WorldType, LiveRoom, SameClock
<1>5. CASE v = [[w EXCEPT !.pollRows = @ \ {w.room.poll}, !.room.poll = "none"]
                  EXCEPT !.pollRows = w.pollRows]
  BY <1>1, <1>5 DEF WType, WorldType, LiveRoom, SameClock
<1> QED
  BY <1>2, <1>3, <1>4, <1>5

\* insertPollLocked leaves the clock alone.
LEMMA InsertPollFacts ==
  ASSUME NEW w, WType(w), NEW kind \in PollKinds, NEW v \in InsertPoll(w, kind)
  PROVE  WType(v) /\ SameClock(w, v)
<1> DEFINE inserted == [w EXCEPT !.pollRows = @ \cup {kind}]
<1>1. w \in WorldType /\ w.room \in LiveRoom /\ w.row \in Row /\ w.room.row \in Row
  BY WorldStatuses DEF WType
<1>2. \/ v = [[inserted EXCEPT !.room.poll = kind] EXCEPT !.ok = TRUE]
      \/ v = [w EXCEPT !.ok = FALSE]
      \/ v = [inserted EXCEPT !.ok = FALSE]
  BY DEF InsertPoll, Statement
<1>3. CASE v = [[inserted EXCEPT !.room.poll = kind] EXCEPT !.ok = TRUE]
  BY <1>1, <1>3 DEF WType, WorldType, LiveRoom, SameClock
<1>4. CASE v = [w EXCEPT !.ok = FALSE]
  BY <1>1, <1>4 DEF WType, WorldType, SameClock
<1>5. CASE v = [inserted EXCEPT !.ok = FALSE]
  BY <1>1, <1>5 DEF WType, WorldType, SameClock
<1> QED
  BY <1>2, <1>3, <1>4, <1>5

\* Dropping the "what next" vote leaves the clock alone.
LEMMA DropNextPollFacts ==
  ASSUME NEW w, WType(w), NEW v \in DropNextPoll(w)
  PROVE  WType(v) /\ SameClock(w, v)
BY ClosePollFacts DEF DropNextPoll, SameClock

\* openNextPollLocked leaves the clock alone.
LEMMA OpenNextPollFacts ==
  ASSUME NEW w, WType(w), NEW v \in OpenNextPoll(w)
  PROVE  WType(v) /\ SameClock(w, v)
<1>1. CASE v = w
  BY <1>1 DEF SameClock
<1>2. CASE v \in InsertPoll(w, "next")
  BY <1>2, InsertPollFacts DEF PollKinds
<1> QED
  BY <1>1, <1>2 DEF OpenNextPoll

-----------------------------------------------------------------------------
(* The helpers handlers share *)

\* mediaEndedLocked stops the clock, so the break it drops first is no matter.
LEMMA MediaEndedGood ==
  ASSUME NEW w, WInv(w), now \in Nat, w.room.row.status \notin Early,
         NEW x \in MediaEnded(w)
  PROVE  Good(w, x)
<1>1. CASE w.room.sessionEnded
  BY <1>1, GoodSelf DEF MediaEnded
<1>2. CASE ~w.room.sessionEnded
  <2> DEFINE r == w.room.row
             c == Cleared(w)
             end == IF Duration[r.media] > 0 THEN Duration[r.media] ELSE Expected(r)
             playing == FALSE
  <2>1. w \in WorldType /\ w.room \in LiveRoom /\ w.row \in Row /\ r \in Row
    BY WorldStatuses DEF WInv, WType
  <2>2. end \in Int /\ r.rate \in Rates
    BY <2>1, ExpectedType, MediaAssumption DEF Row
  <2>3. /\ c.row = w.row /\ c.room.row = [r EXCEPT !.brk = NoBreak]
        /\ c.room.countdownS = NoCountdown /\ c \in WorldType
        /\ c.open = w.open /\ c.nsess = w.nsess
    <3>1. [r EXCEPT !.brk = NoBreak] \in Row
      BY <2>1 DEF Row, NoBreak
    <3> QED
      BY <2>1, <3>1 DEF Cleared, WorldType, LiveRoom, NoCountdown, NoPause
  <2>4. /\ c.room.row.status = r.status /\ c.room.row.brk = NoBreak
        /\ c.room.row.playing = r.playing /\ c.room.row.upd = r.upd
    BY <2>1, <2>3 DEF Row
  <2>5. Good(w, c)
    <3>1. WInv(c)
      BY <2>3, <2>4 DEF WInv, WType, WBreak, WStatus, WCountdown, NoCountdown
    <3>2. Forward(w, c)
      BY <2>3, <2>4, GoodSelf DEF Good, Forward
    <3> QED
      BY <3>1, <3>2 DEF Good
  <2>6. x \in UNION {UNION {OpenNextPoll(u) : u \in CloseSession(v)} :
                      v \in SetPlayback(c, end, playing, r.rate, now)}
    BY <1>2 DEF MediaEnded
  <2>7. playing \in BOOLEAN /\ (c.room.row.brk # NoBreak => ~playing)
    OBVIOUS
  <2>8. c.room.row.status = "live" /\ c.room.countdownS > now =>
          playing /\ now = c.room.countdownS
    BY <2>3 DEF NoCountdown
  <2> HIDE DEF playing, end, c
  <2>13. PICK v \in SetPlayback(c, end, playing, r.rate, now) :
           \E u \in CloseSession(v) : x \in OpenNextPoll(u)
    BY <2>6
  <2>9. Good(c, v)
    BY <2>2, <2>5, <2>7, <2>8, <2>13, SetPlaybackGood DEF Good
  <2>10. PICK u \in CloseSession(v) : x \in OpenNextPoll(u)
    BY <2>13
  <2>11. Good(v, u)
    BY <2>9, <2>10, CloseSessionFacts, Frame DEF Good, WInv
  <2>12. Good(u, x)
    BY <2>10, <2>11, OpenNextPollFacts, Frame DEF Good, WInv
  <2> QED
    BY <2>5, <2>9, <2>11, <2>12, GoodTrans DEF Good, WInv
<1> QED
  BY <1>1, <1>2

\* endBreakLocked: a break is of a started room, and leaves it counting down.
LEMMA EndBreakGood ==
  ASSUME NEW w, WInv(w), now \in Nat, NEW x \in EndBreak(w)
  PROVE  Good(w, x)
<1>1. CASE w.room.row.brk = NoBreak
  BY <1>1, GoodSelf DEF EndBreak
<1>2. CASE w.room.row.brk # NoBreak
  <2> DEFINE r == w.room.row
             c == [w EXCEPT !.room.row.brk = NoBreak]
             pos == r.pos
  <2>1. w \in WorldType /\ w.room \in LiveRoom /\ w.row \in Row /\ r \in Row
    BY WorldStatuses DEF WInv, WType
  <2>2. pos \in Int /\ Countdown \in Nat
    BY <2>1, TimingAssumption DEF Row
  <2>3. /\ c.row = w.row /\ c.room.row = [r EXCEPT !.brk = NoBreak]
        /\ c.room.countdownS = w.room.countdownS /\ c \in WorldType
        /\ c.open = w.open /\ c.nsess = w.nsess
    <3>1. [r EXCEPT !.brk = NoBreak] \in Row
      BY <2>1 DEF Row, NoBreak
    <3> QED
      BY <2>1, <3>1 DEF WorldType, LiveRoom
  <2>4. /\ c.room.row.status = r.status /\ c.room.row.brk = NoBreak
        /\ c.room.row.playing = r.playing /\ c.room.row.upd = r.upd
    BY <2>1, <2>3 DEF Row
  <2>5. Good(w, c)
    <3>1. WInv(c)
      BY <2>3, <2>4 DEF WInv, WType, WBreak, WStatus, WCountdown
    <3>2. Forward(w, c)
      BY <2>3, <2>4, GoodSelf DEF Good, Forward
    <3> QED
      BY <3>1, <3>2 DEF Good
  <2>6. x \in StartCountdownAfter(c, pos, Countdown)
    BY <1>2 DEF EndBreak, StartCountdown
  <2>7. c.room.row.status \notin Early
    BY <1>2, <2>4 DEF WInv, WStatus
  <2> HIDE DEF c, pos
  <2>8. Good(c, x)
    BY <2>2, <2>4, <2>5, <2>6, <2>7, StartCountdownGood DEF Good
  <2> QED
    BY <2>5, <2>8, GoodTrans DEF WInv
<1> QED
  BY <1>1, <1>2

\* The end of applyMediaLocked: only a live room counts down to the new film.
LEMMA RestartClockGood ==
  ASSUME NEW w, WInv(w), now \in Nat, w.room.row.brk = NoBreak,
         NEW x \in RestartClock(w)
  PROVE  Good(w, x)
<1>1. CASE w.room.row.status = "live"
  <2>1. PICK v \in OpenSession(w) : x \in IF v.ok THEN StartCountdown(v, 0) ELSE {v}
    BY <1>1 DEF RestartClock
  <2>2. SameClock(w, v) /\ Good(w, v)
    BY <2>1, OpenSessionFacts, Frame DEF WInv, Good
  <2>3. CASE ~v.ok
    BY <2>1, <2>2, <2>3
  <2>4. CASE v.ok
    <3>1. x \in StartCountdownAfter(v, 0, Countdown)
      BY <2>1, <2>4 DEF StartCountdown
    <3>2. v.room.row.brk = NoBreak /\ v.room.row.status \notin Early
      BY <1>1, <2>2 DEF SameClock, Early
    <3>3. Good(v, x)
      BY <2>2, <3>1, <3>2, StartCountdownGood, TimingAssumption DEF Good
    <3> QED
      BY <2>2, <3>3, GoodTrans DEF WInv
  <2> QED
    BY <2>3, <2>4
<1>2. CASE w.room.row.status # "live"
  <2> DEFINE playing == FALSE
  <2>1. x \in SetPlayback(w, 0, playing, 1, now)
    BY <1>2 DEF RestartClock
  <2>2. playing \in BOOLEAN /\ (w.room.row.brk # NoBreak => ~playing)
    OBVIOUS
  <2> HIDE DEF playing
  <2> QED
    BY <1>2, <2>1, <2>2, SetPlaybackGood, MediaAssumption
<1> QED
  BY <1>1, <1>2

\* applyMediaLocked from its UPDATE on: the break is gone before the clock
\* starts, in the row and in the copy.
LEMMA SwitchMediaGood ==
  ASSUME NEW w, WInv(w), now \in Nat, NEW m \in Media, NEW x \in SwitchMedia(w, m)
  PROVE  Good(w, x)
<1> DEFINE r == w.room.row
           sr == [w.row EXCEPT !.media = m, !.brk = NoBreak]
           sc == [r EXCEPT !.media = m, !.brk = NoBreak, !.rate = 1]
           stored == [w EXCEPT !.row = [@ EXCEPT !.media = m, !.brk = NoBreak]]
           switched == Switched(stored, m)
<1>1. w \in WorldType /\ w.room \in LiveRoom /\ w.row \in Row /\ r \in Row
  BY WorldStatuses DEF WInv, WType
<1>2. /\ sr \in Row /\ sr.status = w.row.status /\ sr.brk = NoBreak
      /\ sr.playing = w.row.playing
  BY <1>1 DEF Row, NoBreak
<1>3. sc \in Row
  BY <1>1, MediaAssumption DEF Row, NoBreak
<1>4. /\ sc.status = r.status /\ sc.brk = NoBreak
      /\ sc.playing = r.playing /\ sc.upd = r.upd
  BY <1>1 DEF Row
<1>5. /\ stored.row = sr /\ stored.room = w.room /\ stored \in WorldType
      /\ stored.open = w.open /\ stored.nsess = w.nsess
  BY <1>1, <1>2 DEF WorldType
<1>6. /\ switched.row = sr /\ switched.room.row = sc
      /\ switched.room.countdownS = w.room.countdownS /\ switched \in WorldType
      /\ switched.open = w.open /\ switched.nsess = w.nsess
  <2>1. stored.room.row = r /\ stored.room \in LiveRoom
    BY <1>1, <1>5
  <2> HIDE DEF sr, stored
  <2>2. switched = [stored EXCEPT !.room.row = [stored.room.row EXCEPT !.media = m, !.brk = NoBreak, !.rate = 1],
                                  !.room.pause = NoPause]
    BY DEF Switched
  <2>3. switched = [stored EXCEPT !.room.row = sc, !.room.pause = NoPause]
    BY <2>1, <2>2
  <2> HIDE DEF sc, switched
  <2> QED
    BY <1>3, <1>5, <2>1, <2>3 DEF WorldType, LiveRoom, NoPause
<1> HIDE DEF sr, sc
<1>7. Good(w, stored) /\ Good(w, switched)
  <2>1. WInv(stored)
    BY <1>2, <1>5 DEF WInv, WType, WBreak, WStatus, WCountdown
  <2>2. WInv(switched)
    BY <1>2, <1>4, <1>6 DEF WInv, WType, WBreak, WStatus, WCountdown
  <2>3. Forward(w, stored) /\ Forward(w, switched)
    BY <1>2, <1>4, <1>5, <1>6, GoodSelf DEF Good, Forward
  <2> QED
    BY <2>1, <2>2, <2>3 DEF Good
<1> HIDE DEF stored, switched
<1>8. ASSUME NEW u, Good(w, u), NEW o \in BOOLEAN, u \in WorldType
      PROVE  /\ Good(w, [u EXCEPT !.ok = o]) /\ [u EXCEPT !.ok = o].room = u.room
             /\ [u EXCEPT !.ok = o].ok = o
  <2> DEFINE q == [u EXCEPT !.ok = o]
  <2>1. q \in WorldType /\ q.row = u.row /\ q.room = u.room /\ q.open = u.open /\ q.nsess = u.nsess
        /\ q.ok = o
    BY <1>8 DEF WorldType
  <2> HIDE DEF q
  <2>2. WInv(q) /\ Forward(w, q)
    BY <1>8, <2>1 DEF Good, WInv, WType, WBreak, WStatus, WCountdown, Forward
  <2> QED
    BY <2>1, <2>2 DEF Good, q
<1>9. PICK v \in Statement(w, switched, stored) :
        x \in IF v.ok THEN RestartClock(v) ELSE {v}
  BY DEF SwitchMedia, stored, switched
<1>10. \/ v = [switched EXCEPT !.ok = TRUE]
       \/ v = [w EXCEPT !.ok = FALSE]
       \/ v = [stored EXCEPT !.ok = FALSE]
  BY <1>9 DEF Statement
<1>11. CASE v = [switched EXCEPT !.ok = TRUE]
  <2>1. Good(w, v) /\ v.room = switched.room /\ v.ok
    BY <1>6, <1>7, <1>8, <1>11
  <2>2. v.room.row.brk = NoBreak
    BY <1>4, <1>6, <2>1
  <2>3. Good(v, x)
    BY <1>9, <2>1, <2>2, RestartClockGood DEF Good
  <2> QED
    BY <2>1, <2>3, GoodTrans DEF WInv
<1>12. CASE v = [w EXCEPT !.ok = FALSE]
  <2>1. Good(w, v) /\ ~v.ok
    BY <1>1, <1>8, <1>12, GoodSelf
  <2> QED
    BY <1>9, <2>1
<1>13. CASE v = [stored EXCEPT !.ok = FALSE]
  <2>1. Good(w, v) /\ ~v.ok
    BY <1>5, <1>7, <1>8, <1>13
  <2> QED
    BY <1>9, <2>1
<1> QED
  BY <1>10, <1>11, <1>12, <1>13

\* applyMediaLocked, whichever of its statements fail.
LEMMA ApplyMediaGood ==
  ASSUME NEW w, WInv(w), now \in Nat, NEW m \in Media, NEW x \in ApplyMedia(w, m)
  PROVE  Good(w, x)
<1>1. PICK v \in DropNextPoll(w) : \E u \in CloseSession(v) : x \in SwitchMedia(u, m)
  BY DEF ApplyMedia
<1>2. PICK u \in CloseSession(v) : x \in SwitchMedia(u, m)
  BY <1>1
<1>3. Good(w, v)
  BY <1>1, DropNextPollFacts, Frame DEF Good, WInv
<1>4. Good(v, u)
  BY <1>2, <1>3, CloseSessionFacts, Frame DEF Good, WInv
<1>5. Good(u, x)
  BY <1>2, <1>4, SwitchMediaGood DEF Good
<1> QED
  BY <1>3, <1>4, <1>5, GoodTrans DEF Good, WInv

\* closeSessionLocked is good.
LEMMA CloseSessionGood ==
  ASSUME NEW w, WInv(w), NEW v \in CloseSession(w)
  PROVE  Good(w, v) /\ SameClock(w, v)
BY CloseSessionFacts, Frame DEF Good, WInv

\* closePollLocked is good.
LEMMA ClosePollGood ==
  ASSUME NEW w, WInv(w), NEW v \in ClosePoll(w)
  PROVE  Good(w, v) /\ SameClock(w, v)
BY ClosePollFacts, Frame DEF Good, WInv

\* The bookkeeping of a statement's outcome is good.
LEMMA OutcomeGood ==
  ASSUME NEW w, WInv(w), NEW o \in BOOLEAN
  PROVE  /\ Good(w, [w EXCEPT !.ok = o])
         /\ [w EXCEPT !.ok = o].room = w.room
         /\ [w EXCEPT !.ok = o].row = w.row
         /\ [w EXCEPT !.ok = o].ok = o
<1> DEFINE q == [w EXCEPT !.ok = o]
<1>1. /\ q \in WorldType /\ q.row = w.row /\ q.room = w.room /\ q.open = w.open
      /\ q.nsess = w.nsess /\ q.ok = o
  BY DEF WInv, WType, WorldType
<1> HIDE DEF q
<1>2. WType(q) /\ SameClock(w, q)
  BY <1>1 DEF WInv, WType, SameClock
<1>3. Good(w, q)
  BY <1>2, Frame DEF Good
<1> QED
  BY <1>1, <1>3 DEF q

\* A loaded room adopts an end it finds in the row.
LEMMA AdoptEndGood ==
  ASSUME NEW w, WInv(w), w.row.status = "ended", NEW x \in AdoptEnd(w)
  PROVE  Good(w, x)
<1>1. PICK v \in CloseSession(w) :
        x = [v EXCEPT !.room.row.status = "ended", !.room.row.playing = FALSE]
  BY DEF AdoptEnd
<1>2. Good(w, v) /\ SameClock(w, v)
  BY <1>1, CloseSessionGood
<1>3. v \in WorldType /\ v.room \in LiveRoom /\ v.row \in Row /\ v.room.row \in Row
  BY <1>2, WorldStatuses DEF Good, WInv, WType
<1> DEFINE n == [v.room.row EXCEPT !.status = "ended", !.playing = FALSE]
<1>4. n \in Row /\ n.status = "ended" /\ n.playing = FALSE
  BY <1>3 DEF Row, Statuses
<1>5. /\ x.row = v.row /\ x.room.row = n /\ x \in WorldType
      /\ x.open = v.open /\ x.nsess = v.nsess
  BY <1>1, <1>3, <1>4 DEF WorldType, LiveRoom
<1> HIDE DEF n
<1>6. WInv(x)
  BY <1>2, <1>4, <1>5, RankFacts
  DEF Good, SameClock, WInv, WType, WBreak, WStatus, WCountdown, Early, Statuses
<1>7. Forward(v, x)
  BY <1>3, <1>4, <1>5, WorldStatuses, RankFacts DEF Forward, Row
<1>8. Good(v, x)
  BY <1>6, <1>7 DEF Good
<1> QED
  BY <1>2, <1>8, GoodTrans DEF WInv

\* statusDriftLocked: the copy catches up with the row.
LEMMA StatusDriftGood ==
  ASSUME NEW w, WInv(w), now \in Nat, NEW x \in StatusDrift(w)
  PROVE  Good(w, x)
<1>1. CASE w.row.status = "ended" /\ w.room.row.status # "ended"
  BY <1>1, AdoptEndGood DEF StatusDrift
<1>2. CASE ~(w.row.status = "ended" /\ w.room.row.status # "ended")
  <2> DEFINE n == [w.room.row EXCEPT !.status = w.row.status]
  <2>1. /\ w \in WorldType /\ w.room \in LiveRoom /\ w.row \in Row /\ w.room.row \in Row
        /\ w.row.status \in Statuses /\ w.room.row.status \in Statuses
    BY WorldStatuses DEF WInv, WType
  <2>2. x = [w EXCEPT !.room.row.status = w.row.status]
    BY <1>2 DEF StatusDrift
  <2>3. /\ n \in Row /\ n.status = w.row.status /\ n.brk = w.room.row.brk
        /\ n.playing = w.room.row.playing /\ n.upd = w.room.row.upd
    BY <2>1 DEF Row
  <2>4. /\ x.row = w.row /\ x.room.row = n /\ x \in WorldType
        /\ x.open = w.open /\ x.nsess = w.nsess
        /\ x.room.countdownS = w.room.countdownS
    BY <2>1, <2>2, <2>3 DEF WorldType, LiveRoom
  <2> HIDE DEF n
  <2>5. Rank(w.room.row.status) <= Rank(w.row.status)
    BY DEF WInv, WStatus
  <2>6. WStatus(x)
    BY <2>1, <2>3, <2>4, <2>5, RankFacts DEF WInv, WStatus
  <2>7. WBreak(x) /\ WType(x)
    BY <2>3, <2>4 DEF WInv, WBreak, WType
  <2>8. WCountdown(x)
    <3>1. CASE w.room.row.status = w.row.status
      BY <2>3, <2>4, <3>1 DEF WInv, WCountdown
    <3>2. CASE w.room.row.status # w.row.status
      <4>1. w.row.status = "live" => w.room.row.status \in Early
        BY <2>1, <2>5, <3>2 DEF Rank, Early, Statuses
      <4>2. w.row.status = "live" => w.room.countdownS = NoCountdown
        BY <4>1 DEF WInv, WStatus
      <4> QED
        BY <2>3, <2>4, <4>2 DEF WCountdown, NoCountdown
    <3> QED
      BY <3>1, <3>2
  <2>9. Forward(w, x)
    BY <2>1, <2>3, <2>4, <2>5, RankFacts DEF Forward
  <2> QED
    BY <2>6, <2>7, <2>8, <2>9 DEF Good, WInv
<1> QED
  BY <1>1, <1>2

\* A guarded status change goes forward, or catches up with the row.
LEMMA StatusChangeGood ==
  ASSUME NEW w, WInv(w), now \in Nat, NEW from \in Early, NEW to \in Statuses,
         Rank(from) <= Rank(to), w.room.row.status = from,
         NEW x \in StatusChange(w, from, to)
  PROVE  /\ Good(w, x)
         /\ x.ok => x.room.row.status = to /\ x.room.row.brk = NoBreak
<1>1. /\ w \in WorldType /\ w.room \in LiveRoom /\ w.row \in Row /\ w.room.row \in Row
      /\ w.row.status \in Statuses /\ w.room.row.status \in Statuses
  BY WorldStatuses DEF WInv, WType
<1>2. CASE w.row.status # from
  <2>1. PICK v \in StatusDrift(w) : x = [v EXCEPT !.ok = FALSE]
    BY <1>2 DEF StatusChange
  <2>2. Good(w, v)
    BY <2>1, StatusDriftGood
  <2>3. Good(v, x) /\ ~x.ok
    BY <2>1, <2>2, OutcomeGood DEF Good
  <2> QED
    BY <2>2, <2>3, GoodTrans DEF WInv
<1>3. CASE w.row.status = from
  <2> DEFINE sr == [w.row EXCEPT !.status = to]
             sc == [w.room.row EXCEPT !.status = to]
             stored == [w EXCEPT !.row.status = to]
             done == [stored EXCEPT !.room.row.status = to]
  <2>1. /\ sr \in Row /\ sr.status = to /\ sr.brk = w.row.brk
        /\ sr.playing = w.row.playing
    BY <1>1 DEF Row
  <2>2. /\ sc \in Row /\ sc.status = to /\ sc.brk = w.room.row.brk
        /\ sc.playing = w.room.row.playing /\ sc.upd = w.room.row.upd
    BY <1>1 DEF Row
  <2>3. /\ stored.row = sr /\ stored.room = w.room /\ stored \in WorldType
        /\ stored.open = w.open /\ stored.nsess = w.nsess
    BY <1>1, <2>1 DEF WorldType
  <2>4. /\ done.row = sr /\ done.room.row = sc /\ done \in WorldType
        /\ done.open = w.open /\ done.nsess = w.nsess
        /\ done.room.countdownS = w.room.countdownS
    <3>1. done = [stored EXCEPT !.room.row = [stored.room.row EXCEPT !.status = to]]
      BY <1>1, <2>3 DEF WorldType, LiveRoom
    <3> HIDE DEF sr, done, stored
    <3>2. done = [stored EXCEPT !.room.row = sc]
      BY <2>3, <3>1
    <3> HIDE DEF sc
    <3> QED
      BY <1>1, <2>2, <2>3, <3>2 DEF WorldType, LiveRoom
  <2>5. \/ x = [done EXCEPT !.ok = TRUE]
        \/ x = [w EXCEPT !.ok = FALSE]
        \/ x = [stored EXCEPT !.ok = FALSE]
    BY <1>3 DEF StatusChange, Statement
  <2> HIDE DEF sr, sc, stored, done
  <2>6. /\ w.row.brk = NoBreak /\ w.room.row.brk = NoBreak
        /\ w.room.countdownS = NoCountdown
    BY <1>3 DEF WInv, WStatus
  <2>7. Good(w, stored)
    <3>1. WInv(stored)
      BY <1>1, <1>3, <2>1, <2>3, <2>6 DEF WInv, WType, WBreak, WStatus, WCountdown
    <3>2. Forward(w, stored)
      BY <1>1, <1>3, <2>1, <2>3, RankFacts DEF Forward
    <3> QED
      BY <3>1, <3>2 DEF Good
  <2>8. Good(w, done)
    <3>1. WInv(done)
      BY <1>1, <2>1, <2>2, <2>4, <2>6, RankFacts
      DEF WInv, WType, WBreak, WStatus, WCountdown, NoCountdown
    <3>2. Forward(w, done)
      BY <1>3, <2>1, <2>2, <2>4 DEF Forward
    <3> QED
      BY <3>1, <3>2 DEF Good
  <2>9. CASE x = [done EXCEPT !.ok = TRUE]
    <3>1. Good(done, x) /\ x.room = done.room
      BY <2>8, <2>9, OutcomeGood DEF Good
    <3> QED
      BY <2>2, <2>4, <2>6, <2>8, <3>1, GoodTrans DEF WInv
  <2>10. CASE x = [w EXCEPT !.ok = FALSE]
    BY <2>10, OutcomeGood
  <2>11. CASE x = [stored EXCEPT !.ok = FALSE]
    <3>1. Good(stored, x) /\ ~x.ok
      BY <2>7, <2>11, OutcomeGood DEF Good
    <3> QED
      BY <2>7, <3>1, GoodTrans DEF WInv
  <2> QED
    BY <2>5, <2>9, <2>10, <2>11
<1> QED
  BY <1>2, <1>3

\* handleStart from the successful status change on.
LEMMA StartedGood ==
  ASSUME NEW w, WInv(w), now \in Nat, w.room.row.status = "live",
         w.room.row.brk = NoBreak, NEW pos \in Int, NEW delay \in Nat,
         NEW x \in Started(w, pos, delay)
  PROVE  Good(w, x)
<1>1. PICK v : /\ v \in OpenSession(w) \/ v = w
               /\ x \in IF v.ok THEN StartCountdownAfter(v, pos, delay) ELSE {v}
  BY DEF Started
<1>2. Good(w, v) /\ SameClock(w, v)
  <2>1. CASE v \in OpenSession(w)
    BY <2>1, OpenSessionFacts, Frame DEF Good, WInv
  <2>2. CASE v = w
    BY <2>2, GoodSelf DEF SameClock
  <2> QED
    BY <1>1, <2>1, <2>2
<1>3. CASE v.ok
  <2>1. v.room.row.brk = NoBreak /\ v.room.row.status \notin Early
    BY <1>2 DEF SameClock, Early
  <2>2. x \in StartCountdownAfter(v, pos, delay)
    BY <1>1, <1>3
  <2>3. Good(v, x)
    BY <1>2, <2>1, <2>2, StartCountdownGood DEF Good
  <2> QED
    BY <1>2, <2>3, GoodTrans DEF WInv
<1>4. CASE ~v.ok
  BY <1>1, <1>2, <1>4
<1> QED
  BY <1>3, <1>4

\* A row as endRoomLocked leaves it is over and stands still.
LEMMA EndedRowFacts ==
  ASSUME NEW r \in Row, NEW clock \in Row, now \in Nat
  PROVE  /\ EndedRow(r, clock) \in Row
         /\ EndedRow(r, clock).status = "ended"
         /\ EndedRow(r, clock).brk = NoBreak
         /\ EndedRow(r, clock).playing = FALSE
<1>1. Expected(clock) \in Nat
  BY ExpectedType
<1>2. \A pos \in Nat :
        /\ [r EXCEPT !.status = "ended", !.playing = FALSE, !.pos = pos,
                     !.upd = now, !.brk = NoBreak] \in Row
  BY DEF Row, Statuses, NoBreak
<1>3. EndedRow(r, clock) \in Row
  BY <1>1, <1>2 DEF EndedRow
<1>4. /\ EndedRow(r, clock).status = "ended"
      /\ EndedRow(r, clock).brk = NoBreak
      /\ EndedRow(r, clock).playing = FALSE
  BY DEF EndedRow, Row
<1> QED
  BY <1>3, <1>4

\* endRoomLocked from the closed session on.
LEMMA EndRowGood ==
  ASSUME NEW w, WInv(w), now \in Nat, NEW x \in EndRow(w)
  PROVE  Good(w, x)
<1> DEFINE sr == IF w.row.status = "ended" THEN w.row ELSE EndedRow(w.row, w.room.row)
           sc == EndedRow(w.room.row, w.room.row)
           stored == IF w.row.status = "ended" THEN w
                     ELSE [w EXCEPT !.row = EndedRow(@, w.room.row)]
           ended == [stored EXCEPT !.room.row = EndedRow(@, @), !.room.pause = NoPause]
<1>1. /\ w \in WorldType /\ w.room \in LiveRoom /\ w.row \in Row /\ w.room.row \in Row
      /\ w.row.status \in Statuses /\ w.room.row.status \in Statuses
  BY WorldStatuses DEF WInv, WType
<1>2. /\ sr \in Row /\ sr.status = "ended"
      /\ sr.brk # NoBreak => ~sr.playing
  BY <1>1, EndedRowFacts DEF WInv, WBreak
<1>3. sc \in Row /\ sc.status = "ended" /\ sc.brk = NoBreak
  BY <1>1, EndedRowFacts
<1>4. /\ stored.row = sr /\ stored.room = w.room /\ stored \in WorldType
      /\ stored.open = w.open /\ stored.nsess = w.nsess
  <2>1. CASE w.row.status = "ended"
    BY <1>1, <2>1
  <2>2. CASE w.row.status # "ended"
    BY <1>1, <1>2, <2>2 DEF WorldType
  <2> QED
    BY <2>1, <2>2
<1>5. /\ ended.row = sr /\ ended.room.row = sc /\ ended \in WorldType
      /\ ended.open = w.open /\ ended.nsess = w.nsess
  <2> HIDE DEF sr, stored
  <2>1. ended = [stored EXCEPT !.room.row = sc, !.room.pause = NoPause]
    BY <1>1, <1>4 DEF WorldType, LiveRoom
  <2> HIDE DEF sc, ended
  <2> QED
    BY <1>1, <1>3, <1>4, <2>1 DEF WorldType, LiveRoom, NoPause
<1>6. PICK v \in Statement(w, ended, stored) :
        x \in IF v.ok THEN ClosePoll(v) ELSE {v}
  BY DEF EndRow, ended, stored
<1>7. \/ v = [ended EXCEPT !.ok = TRUE]
      \/ v = [w EXCEPT !.ok = FALSE]
      \/ v = [stored EXCEPT !.ok = FALSE]
  BY <1>6 DEF Statement
<1> HIDE DEF sr, sc, stored, ended
<1>8. "ended" \notin Early /\ "ended" # "live"
  BY DEF Early
<1>9. Good(w, stored)
  <2>1. WInv(stored)
    BY <1>1, <1>2, <1>4, <1>8, RankFacts DEF WInv, WType, WBreak, WStatus, WCountdown
  <2>2. Forward(w, stored)
    BY <1>1, <1>2, <1>4, RankFacts DEF Forward
  <2> QED
    BY <2>1, <2>2 DEF Good
<1>10. Good(w, ended)
  <2>1. WInv(ended)
    BY <1>1, <1>2, <1>3, <1>5, <1>8, RankFacts DEF WInv, WType, WBreak, WStatus, WCountdown, Statuses
  <2>2. Forward(w, ended)
    BY <1>1, <1>2, <1>3, <1>5, RankFacts DEF Forward
  <2> QED
    BY <2>1, <2>2 DEF Good
<1>11. Good(w, v)
  <2>1. CASE v = [ended EXCEPT !.ok = TRUE]
    BY <1>10, <2>1, OutcomeGood, GoodTrans DEF Good, WInv
  <2>2. CASE v = [w EXCEPT !.ok = FALSE]
    BY <2>2, OutcomeGood
  <2>3. CASE v = [stored EXCEPT !.ok = FALSE]
    BY <1>9, <2>3, OutcomeGood, GoodTrans DEF Good, WInv
  <2> QED
    BY <1>7, <2>1, <2>2, <2>3
<1>12. CASE v.ok
  <2>1. Good(v, x)
    BY <1>6, <1>11, <1>12, ClosePollGood DEF Good
  <2> QED
    BY <1>11, <2>1, GoodTrans DEF WInv
<1>13. CASE ~v.ok
  BY <1>6, <1>11, <1>13
<1> QED
  BY <1>12, <1>13

\* endRoomLocked.
LEMMA EndRoomGood ==
  ASSUME NEW w, WInv(w), now \in Nat, NEW x \in EndRoom(w)
  PROVE  Good(w, x)
<1>1. CASE w.room.row.status = "ended"
  BY <1>1, GoodSelf DEF EndRoom
<1>2. CASE w.room.row.status # "ended"
  <2>1. PICK v \in CloseSession(w) : x \in EndRow(v)
    BY <1>2 DEF EndRoom
  <2>2. Good(w, v)
    BY <2>1, CloseSessionGood
  <2>3. Good(v, x)
    BY <2>1, <2>2, EndRowGood DEF Good
  <2> QED
    BY <2>2, <2>3, GoodTrans DEF WInv
<1> QED
  BY <1>1, <1>2

Dropped(w, c, p) == [w EXCEPT !.room.countdownS = c, !.room.pause = p]

\* A handler that first drops the countdown, the pause request or both.
LEMMA DroppedGood ==
  ASSUME NEW w, WInv(w), now \in Nat, NEW p \in Nat, NEW c \in Nat,
         c = NoCountdown \/ c = w.room.countdownS
  PROVE  /\ Good(w, Dropped(w, c, p))
         /\ Dropped(w, c, p).room.row = w.room.row
         /\ Dropped(w, c, p).room.countdownS = c
<1> DEFINE d == Dropped(w, c, p)
<1>1. /\ w \in WorldType /\ w.room \in LiveRoom /\ w.row \in Row /\ w.room.row \in Row
      /\ w.row.status \in Statuses /\ w.room.row.status \in Statuses
      /\ w.room.countdownS \in Nat
  BY WorldStatuses DEF WInv, WType
<1>2. /\ d.row = w.row /\ d.room.row = w.room.row /\ d.room.countdownS = c
      /\ d.open = w.open /\ d.nsess = w.nsess /\ d \in WorldType
  <2> DEFINE n == [w.room EXCEPT !.countdownS = c, !.pause = p]
  <2>2. n \in LiveRoom /\ n.row = w.room.row /\ n.countdownS = c
    BY <1>1 DEF LiveRoom
  <2>3. d = [w EXCEPT !.room = n]
    BY <1>1 DEF WorldType, LiveRoom, Dropped
  <2> HIDE DEF n
  <2> QED
    BY <1>1, <2>2, <2>3 DEF WorldType
<1> HIDE DEF d
<1>3. Forward(w, d)
  BY <1>1, <1>2, RankFacts DEF Forward
<1>4. WType(d) /\ WBreak(d) /\ WStatus(d) /\ WCountdown(d)
  BY <1>2 DEF WInv, WType, WBreak, WStatus, WCountdown, NoCountdown
<1> QED
  BY <1>2, <1>3, <1>4 DEF Good, WInv, d

-----------------------------------------------------------------------------
(* The handlers.                                                            *)


\* The inductive invariant: the rules of WInv while the room is loaded, and
\* what is left of them in the row when it is not.
IInv ==
  /\ TypeOK
  /\ row.brk # NoBreak => ~row.playing
  /\ row.status \in Early => row.brk = NoBreak
  /\ Loaded => WInv(World)

\* What LifecycleForward says of a step.
StepForward ==
  /\ Rank(row'.status) >= Rank(row.status)
  /\ Rank(View'.status) >= Rank(View.status)

Kept == IInv' /\ StepForward

\* A handler finds the world of the variables.
LEMMA WorldFacts ==
  ASSUME IInv, Loaded
  PROVE  /\ WInv(World) /\ now \in Nat
         /\ room \in LiveRoom /\ room.row \in Row /\ row \in Row
         /\ World.room = room /\ World.row = row /\ World.room.row = room.row
         /\ World.open = open /\ World.nsess = nsess
BY DEF IInv, TypeOK, World, LiveRoom

\* A room that is not loaded keeps its row's part of the invariant.
LEMMA NotLoadedKept ==
  ASSUME TypeOK', ~Loaded', row' = row, IInv,
         Loaded => Rank(room.row.status) <= Rank(row.status)
  PROVE  Kept
<1>1. Rank(row.status) \in Int /\ Rank(row.status) <= Rank(row.status)
  BY RankFacts DEF IInv, TypeOK, Row
<1>2. View'.status = row.status
  BY DEF View
<1>3. StepForward
  BY <1>1, <1>2 DEF StepForward, View
<1> QED
  BY <1>3 DEF IInv, Kept

\* A handler whose world is good keeps the invariant and goes forward.
LEMMA CommitKept ==
  ASSUME IInv, Loaded, NEW w, Good(World, w), Commit(w)
  PROVE  Kept
<1>1. /\ row' = w.row /\ room' = w.room /\ open' = w.open /\ nsess' = w.nsess
      /\ pollRows' = w.pollRows /\ now' = now /\ online' = online
      /\ lastClient' = lastClient
  BY DEF Commit
<1>2. WType(w) /\ WBreak(w) /\ WStatus(w) /\ WCountdown(w) /\ Forward(World, w)
  BY DEF Good, WInv
<1>3. /\ w.row \in Row /\ w.room \in LiveRoom /\ w.open \subseteq 1..w.nsess
      /\ w.nsess \in Nat /\ w.pollRows \subseteq PollKinds
  BY <1>2 DEF WType, WorldType
<1>4. TypeOK'
  BY <1>1, <1>3 DEF IInv, TypeOK
<1>5. /\ World'.row = w.row /\ World'.room = w.room /\ World'.open = w.open
      /\ World'.nsess = w.nsess
  BY <1>1 DEF World
<1>6. WType(World)'
  <2>1. World' \in WorldType
    BY <1>1, <1>2 DEF World, WType, WorldType
  <2> QED
    BY <1>2, <1>5, <2>1 DEF WType
<1>7. WBreak(World)' /\ WStatus(World)'
  BY <1>2, <1>5 DEF WBreak, WStatus
<1>8. WCountdown(World)'
  BY <1>1, <1>2, <1>5 DEF WCountdown
<1>9. (Loaded => WInv(World))'
  BY <1>6, <1>7, <1>8 DEF WInv
<1>10. IInv'
  BY <1>1, <1>2, <1>4, <1>9 DEF IInv, WBreak, WStatus
<1>11. Rank(row.status) <= Rank(row'.status) /\ Rank(room.row.status) <= Rank(w.room.row.status)
  BY <1>1, <1>2, WorldFacts DEF Forward
<1>12. Rank(View'.status) >= Rank(View.status)
  <2>1. /\ Rank(room.row.status) \in Int /\ Rank(w.room.row.status) \in Int
        /\ Rank(w.row.status) \in Int
    BY <1>2, WorldFacts, WorldStatuses, RankFacts DEF WInv
  <2>2. Rank(room.row.status) <= Rank(w.row.status)
    BY <1>2, <1>11, <2>1 DEF WStatus
  <2>3. View'.status \in {w.row.status, w.room.row.status}
    BY <1>1 DEF View
  <2> QED
    BY <1>11, <2>1, <2>2, <2>3 DEF View
<1> QED
  BY <1>10, <1>11, <1>12, WorldFacts, WorldStatuses, RankFacts DEF Kept, StepForward, WInv, Good

-----------------------------------------------------------------------------
(* In and out of memory *)

\* loadRoom builds a room whose copy is its row, with no countdown.
LEMMA LoadKept ==
  ASSUME IInv, Load
  PROVE  Kept
<1> DEFINE r == LoadedRow(row)
<1>1. PICK p \in IF pollRows = {} THEN {"none"} ELSE pollRows :
        room' = [row |-> r, sessionEnded |-> SessionOver(row),
                 countdownS |-> NoCountdown, pause |-> NoPause, poll |-> p]
  BY DEF Load
<1>2. /\ row' \in {r, row} /\ lastClient' = now /\ ~Loaded
      /\ UNCHANGED <<now, open, nsess, pollRows, online>>
  BY DEF Load
<1>3. /\ row \in Row /\ row.status \in Statuses /\ now \in Nat /\ nsess \in Nat
      /\ open \subseteq 1..nsess /\ pollRows \subseteq PollKinds
  BY DEF IInv, TypeOK, Row
<1>4. /\ r \in Row /\ r.status = row.status /\ r.playing = row.playing
      /\ r.brk \in {row.brk, NoBreak}
  BY <1>3 DEF LoadedRow, Row, NoBreak
<1> HIDE DEF r
<1>5. SessionOver(row) \in BOOLEAN /\ p \in PollKinds \cup {"none"}
  BY <1>3 DEF SessionOver
<1>6. room' \in LiveRoom /\ room'.row = r /\ room'.countdownS = NoCountdown
  BY <1>1, <1>4, <1>5 DEF LiveRoom, NoCountdown, NoPause
<1>7. TypeOK'
  BY <1>2, <1>3, <1>4, <1>6 DEF IInv, TypeOK
<1>8. /\ row'.status = row.status /\ row'.playing = row.playing
      /\ row'.brk \in {row.brk, NoBreak}
  BY <1>2, <1>4
<1>9. WInv(World)'
  <2>1. /\ World'.row = row' /\ World'.room = room' /\ World'.open = open'
        /\ World'.nsess = nsess'
    BY DEF World
  <2>2. WType(World)'
    <3>1. World' \in WorldType
      BY <1>2, <1>3, <1>6, <1>7 DEF World, WorldType, TypeOK
    <3> QED
      BY <1>2, <1>3, <2>1, <3>1 DEF WType
  <2>3. WBreak(World)'
    BY <1>4, <1>6, <1>8, <2>1 DEF IInv, WBreak
  <2>4. WStatus(World)'
    BY <1>3, <1>4, <1>6, <1>8, <2>1, RankFacts DEF IInv, WStatus
  <2>5. WCountdown(World)'
    BY <1>2, <1>3, <1>6, <2>1 DEF WCountdown, NoCountdown
  <2> QED
    BY <2>2, <2>3, <2>4, <2>5 DEF WInv
<1>10. IInv'
  BY <1>7, <1>8, <1>9 DEF IInv
<1>11. View.status = row.status /\ View'.status = row.status
  BY <1>2, <1>4, <1>6, <1>8 DEF View
<1> QED
  BY <1>3, <1>8, <1>10, <1>11, RankFacts DEF Kept, StepForward

\* Eviction and a crash forget the copy; the row is at least as far.
LEMMA ForgetKept ==
  ASSUME IInv, Evict \/ Crash
  PROVE  Kept
<1>1. /\ ~Loaded' /\ Loaded /\ online' \in {online, FALSE}
      /\ UNCHANGED <<now, row, open, nsess, pollRows, lastClient>>
  BY DEF Evict, Crash, Loaded
<1>2. TypeOK'
  BY <1>1 DEF IInv, TypeOK
<1>3. Rank(room.row.status) <= Rank(row.status)
  BY <1>1, WorldFacts DEF WInv, WStatus
<1> QED
  BY <1>1, <1>2, <1>3, NotLoadedKept

\* Steps that leave the row and the copy's clock alone.
LEMMA QuietKept ==
  ASSUME IInv, TypeOK', now' \in Nat, now' >= now, row' = row,
         Loaded' = Loaded,
         Loaded => /\ room'.row = room.row
                   /\ room'.countdownS = room.countdownS
  PROVE  Kept
<1>1. /\ row.status \in Statuses /\ now \in Nat /\ View' = View
      /\ View.status \in Statuses
  BY WorldFacts DEF IInv, TypeOK, Row, View
<1>2. StepForward
  BY <1>1, RankFacts DEF StepForward
<1>3. ASSUME Loaded
      PROVE  WInv(World)'
  <2>1. WType(World) /\ WBreak(World) /\ WStatus(World) /\ WCountdown(World)
    BY <1>3, WorldFacts DEF WInv
  <2>2. /\ World'.row = row /\ World'.room = room' /\ World'.open = open'
        /\ World'.nsess = nsess'
    BY DEF World
  <2>3. WType(World)'
    <3>1. World' \in WorldType
      BY <1>3 DEF World, WorldType, TypeOK
    <3> QED
      BY <2>2, <3>1 DEF WType, TypeOK
  <2>4. World.row = row /\ World.room = room
    BY DEF World
  <2>5. WBreak(World)' /\ WStatus(World)'
    BY <1>3, <2>1, <2>2, <2>4 DEF WBreak, WStatus
  <2>6. WCountdown(World)'
    <3>1. room.countdownS \in Nat
      BY <1>3, WorldFacts DEF LiveRoom
    <3> QED
      BY <1>1, <1>3, <2>1, <2>2, <2>4, <3>1 DEF WCountdown
  <2> QED
    BY <2>3, <2>5, <2>6 DEF WInv
<1> QED
  BY <1>2, <1>3 DEF Kept, IInv

\* Time, connections, stray polls and pause requests.
LEMMA QuietActionsKept ==
  ASSUME IInv,
         \/ AdvanceTime \/ Connect \/ Disconnect \/ SweepStalePoll
         \/ RequestPause \/ CancelPauseRequest
  PROVE  Kept
<1>1. now \in Nat /\ TypeOK
  BY DEF IInv, TypeOK
<1>2. CASE AdvanceTime \/ Connect \/ Disconnect \/ SweepStalePoll
  <2>1. /\ row' = row /\ room' = room /\ now' \in Nat /\ now' >= now
        /\ open' = open /\ nsess' = nsess /\ pollRows' \subseteq pollRows
        /\ online' \in BOOLEAN /\ lastClient' \in Nat
    <3>1. CASE AdvanceTime
      BY <1>1, <3>1 DEF AdvanceTime, TypeOK
    <3>2. CASE Connect \/ Disconnect
      <4>1. /\ row' = row /\ room' = room /\ now' = now /\ open' = open
            /\ nsess' = nsess /\ pollRows' = pollRows /\ lastClient' = now
        BY <3>2 DEF Connect, Disconnect
      <4>2. online' \in BOOLEAN
        BY <3>2, Zenon DEF Connect, Disconnect
      <4> QED
        BY <1>1, <4>1, <4>2 DEF TypeOK
    <3>3. CASE SweepStalePoll
      BY <1>1, <3>3 DEF SweepStalePoll, TypeOK
    <3> QED
      BY <1>2, <3>1, <3>2, <3>3
  <2>2. TypeOK'
    BY <1>1, <2>1 DEF TypeOK, Loaded
  <2> QED
    BY <2>1, <2>2, QuietKept DEF Loaded
<1>3. CASE RequestPause \/ CancelPauseRequest
  <2>1. Loaded /\ row' = row /\ now' = now
    BY <1>3 DEF RequestPause, CancelPauseRequest, UserActs
  <2>2. PICK p \in Nat : room' = [room EXCEPT !.pause = p]
    BY <1>1, <1>3 DEF RequestPause, CancelPauseRequest, NoPause
  <2>3. room' \in LiveRoom /\ room'.row = room.row /\ room'.countdownS = room.countdownS
    BY <2>1, <2>2, WorldFacts DEF LiveRoom
  <2>4. TypeOK'
    BY <1>1, <1>3, <2>1, <2>3 DEF TypeOK, RequestPause, CancelPauseRequest
  <2>5. CASE Loaded'
    BY <1>1, <2>1, <2>3, <2>4, <2>5, QuietKept
  <2>6. CASE ~Loaded'
    <3>1. Rank(room.row.status) <= Rank(row.status)
      BY <2>1, WorldFacts DEF WInv, WStatus
    <3> QED
      BY <2>1, <2>4, <2>6, <3>1, NotLoadedKept
  <2> QED
    BY <2>5, <2>6
<1> QED
  BY <1>2, <1>3

\* The admin panel only writes the last status.
LEMMA ExternalEndKept ==
  ASSUME IInv, ExternalEnd
  PROVE  Kept
<1>1. /\ row' = [row EXCEPT !.status = "ended"]
      /\ UNCHANGED <<now, open, nsess, pollRows, room, online, lastClient>>
  BY DEF ExternalEnd
<1>2. row \in Row /\ row.status \in Statuses
  BY DEF IInv, TypeOK, Row
<1>3. /\ row' \in Row /\ row'.status = "ended" /\ row'.brk = row.brk
      /\ row'.playing = row.playing /\ "ended" \in Statuses /\ "ended" \notin Early
  BY <1>1, <1>2 DEF Row, Statuses, Early
<1>4. TypeOK'
  BY <1>1, <1>3 DEF IInv, TypeOK, Loaded
<1>5. (Loaded => WInv(World))'
  <2>1. SUFFICES ASSUME Loaded
                 PROVE  WInv(World)'
    BY <1>1 DEF Loaded
  <2>2. WType(World) /\ WBreak(World) /\ WStatus(World) /\ WCountdown(World)
    BY <2>1, WorldFacts DEF WInv
  <2>3. /\ World'.row = row' /\ World'.room = room /\ World'.open = open
        /\ World'.nsess = nsess
    BY <1>1 DEF World
  <2>4. World.row = row /\ World.room = room /\ room.row.status \in Statuses
    BY <2>1, WorldFacts DEF Row
  <2>5. WType(World)'
    <3>1. World' \in WorldType
      BY <1>1, <1>4, <2>1 DEF World, WorldType, TypeOK, Loaded
    <3> QED
      BY <1>4, <1>1, <2>3, <3>1 DEF WType, TypeOK
  <2>6. WBreak(World)' /\ WCountdown(World)'
    BY <1>1, <1>3, <2>2, <2>3, <2>4 DEF WBreak, WCountdown
  <2>7. WStatus(World)'
    BY <1>3, <2>2, <2>3, <2>4, RankFacts DEF WStatus
  <2> QED
    BY <2>5, <2>6, <2>7 DEF WInv
<1>6. IInv'
  BY <1>3, <1>4, <1>5 DEF IInv
<1>7. StepForward
  <2>1. Rank(row.status) <= Rank(row'.status)
    BY <1>2, <1>3, RankFacts
  <2>2. Loaded' = Loaded /\ (Loaded => View' = View) /\ (~Loaded => View = row /\ View' = row')
    BY <1>1 DEF Loaded, View
  <2>3. View.status \in Statuses
    BY <1>2, WorldFacts DEF View, Row
  <2> QED
    BY <2>1, <2>2, <2>3, RankFacts DEF StepForward
<1> QED
  BY <1>6, <1>7 DEF Kept

-----------------------------------------------------------------------------
(* The host and the controllers *)

\* Opening, starting and ending the room.
LEMMA LifecycleActionsKept ==
  ASSUME IInv, OpenRoom \/ Start \/ End \/ CheckExternalEnd \/ SweepUnused
  PROVE  Kept
<1>1. Loaded
  BY DEF OpenRoom, Start, End, CheckExternalEnd, SweepUnused, UserActs
<1>2. /\ WInv(World) /\ now \in Nat /\ World.room = room /\ World.row = row
      /\ World.room.row = room.row
  BY <1>1, WorldFacts
<1>3. CASE OpenRoom
  <2>1. PICK w \in StatusChange(World, "scheduled", "lobby") : Commit(w)
    BY <1>3 DEF OpenRoom
  <2>2. /\ "scheduled" \in Early /\ "lobby" \in Statuses
        /\ Rank("scheduled") <= Rank("lobby") /\ World.room.row.status = "scheduled"
    BY <1>2, <1>3 DEF OpenRoom, Early, Statuses, Rank
  <2>3. Good(World, w)
    BY <1>2, <2>1, <2>2, StatusChangeGood
  <2> QED
    BY <1>1, <2>1, <2>3, CommitKept
<1>4. CASE Start
  <2>0. PICK pos \in Positions, delay \in Delays :
          \E w \in StatusChange(World, "lobby", "live") :
            \E v \in IF w.ok THEN Started(w, pos, delay) ELSE {w} : Commit(v)
    BY <1>4 DEF Start
  <2>6. PICK w \in StatusChange(World, "lobby", "live") :
          \E v \in IF w.ok THEN Started(w, pos, delay) ELSE {w} : Commit(v)
    BY <2>0
  <2>1. PICK v \in IF w.ok THEN Started(w, pos, delay) ELSE {w} : Commit(v)
    BY <2>6
  <2>2. /\ "lobby" \in Early /\ "live" \in Statuses
        /\ Rank("lobby") <= Rank("live") /\ World.room.row.status = "lobby"
    BY <1>2, <1>4 DEF Start, Early, Statuses, Rank
  <2>3. /\ Good(World, w)
        /\ w.ok => w.room.row.status = "live" /\ w.room.row.brk = NoBreak
    BY <1>2, <2>1, <2>2, StatusChangeGood
  <2>4. pos \in Int /\ delay \in Nat
    BY MediaAssumption, TimingAssumption
  <2>5. Good(World, v)
    <3>1. CASE w.ok
      <4>1. Good(w, v)
        BY <1>2, <2>1, <2>3, <2>4, <3>1, StartedGood DEF Good
      <4> QED
        BY <1>2, <2>3, <4>1, GoodTrans DEF WInv
    <3>2. CASE ~w.ok
      BY <2>1, <2>3, <3>2
    <3> QED
      BY <3>1, <3>2
  <2> QED
    BY <1>1, <2>1, <2>5, CommitKept
<1>5. CASE End \/ SweepUnused
  <2>1. PICK w \in EndRoom(World) : Commit(w)
    BY <1>5 DEF End, SweepUnused
  <2> QED
    BY <1>1, <1>2, <2>1, EndRoomGood, CommitKept
<1>6. CASE CheckExternalEnd
  <2>1. PICK w \in AdoptEnd(World) : Commit(w)
    BY <1>6 DEF CheckExternalEnd
  <2>2. World.row.status = "ended"
    BY <1>2, <1>6 DEF CheckExternalEnd
  <2> QED
    BY <1>1, <1>2, <2>1, <2>2, AdoptEndGood, CommitKept
<1> QED
  BY <1>3, <1>4, <1>5, <1>6

\* A handler that first drops the countdown and the pause request.
LEMMA SettledGood ==
  ASSUME IInv, Loaded
  PROVE  /\ Good(World, Settled)
         /\ Settled.room.row = room.row
         /\ Settled.room.countdownS = NoCountdown
<1>1. WInv(World) /\ now \in Nat /\ World.room = room /\ World.room.row = room.row
  BY WorldFacts
<1>2. NoPause \in Nat /\ NoCountdown \in Nat
  BY DEF NoPause, NoCountdown
<1>3. Settled = Dropped(World, NoCountdown, NoPause)
  BY DEF Settled, Dropped
<1> QED
  BY <1>1, <1>2, <1>3, DroppedGood

\* play: at once, or counting down into a new session after the film.
LEMMA PlayKept ==
  ASSUME IInv, Play
  PROVE  Kept
<1>1. Loaded /\ room.row.status = "live" /\ room.row.brk = NoBreak
  BY DEF Play, LiveControl, UserActs
<1>2. /\ WInv(World) /\ now \in Nat /\ room.row \in Row /\ room.row.rate \in Rates
      /\ room.row.upd \in Nat
  BY <1>1, WorldFacts DEF Row
<1>3. /\ Good(World, Settled) /\ Settled.room.row = room.row
      /\ Settled.room.countdownS = NoCountdown
  BY <1>1, SettledGood
<1> DEFINE pos == PlayPosition
<1>4. pos \in Int
  BY <1>2, ExpectedType DEF PlayPosition
<1> HIDE DEF pos
<1>5. CASE room.sessionEnded
  <2>1. PICK w \in DropNextPoll(Settled) :
          \E v \in OpenSession(w) :
            \E x \in IF v.ok THEN StartCountdown(v, pos) ELSE {v} : Commit(x)
    BY <1>5 DEF Play, pos
  <2>2. PICK v \in OpenSession(w) :
          \E x \in IF v.ok THEN StartCountdown(v, pos) ELSE {v} : Commit(x)
    BY <2>1
  <2>3. PICK x \in IF v.ok THEN StartCountdown(v, pos) ELSE {v} : Commit(x)
    BY <2>2
  <2>4. Good(Settled, w) /\ SameClock(Settled, w)
    BY <1>3, <2>1, DropNextPollFacts, Frame DEF Good, WInv
  <2>5. Good(w, v) /\ SameClock(w, v)
    BY <2>2, <2>4, OpenSessionFacts, Frame DEF Good, WInv
  <2>6. Good(World, v)
    BY <1>2, <1>3, <2>4, <2>5, GoodTrans DEF Good, WInv
  <2>7. v.room.row.brk = NoBreak /\ v.room.row.status \notin Early
    BY <1>1, <1>3, <2>4, <2>5 DEF SameClock, Early
  <2>8. Good(World, x)
    <3>1. CASE v.ok
      <4>1. x \in StartCountdownAfter(v, pos, Countdown)
        BY <2>3, <3>1 DEF StartCountdown
      <4>2. Good(v, x)
        BY <1>2, <1>4, <2>6, <2>7, <4>1, StartCountdownGood, TimingAssumption DEF Good
      <4> QED
        BY <1>2, <2>6, <4>2, GoodTrans DEF WInv
    <3>2. CASE ~v.ok
      BY <2>3, <2>6, <3>2
    <3> QED
      BY <3>1, <3>2
  <2> QED
    BY <1>1, <2>3, <2>8, CommitKept
<1>6. CASE ~room.sessionEnded
  <2> DEFINE playing == TRUE
  <2>1. PICK w \in SetPlayback(Settled, pos, playing, room.row.rate, now) : Commit(w)
    BY <1>6 DEF Play, pos
  <2>2. /\ playing \in BOOLEAN /\ (Settled.room.row.brk # NoBreak => ~playing)
        /\ ~(Settled.room.row.status = "live" /\ Settled.room.countdownS > now)
    BY <1>1, <1>2, <1>3 DEF NoCountdown
  <2> HIDE DEF playing
  <2>3. Good(Settled, w)
    BY <1>2, <1>3, <1>4, <2>1, <2>2, SetPlaybackGood DEF Good
  <2>4. Good(World, w)
    BY <1>2, <1>3, <2>3, GoodTrans DEF WInv
  <2> QED
    BY <1>1, <2>1, <2>4, CommitKept
<1> QED
  BY <1>5, <1>6

\* pause, seek and rate: a pending countdown keeps its instant or is dropped.
LEMMA ClockActionsKept ==
  ASSUME IInv, Pause \/ Seek \/ SetRate
  PROVE  Kept
<1>1. Loaded /\ room.row.status = "live" /\ room.row.brk = NoBreak
  BY DEF Pause, Seek, SetRate, LiveControl, UserActs
<1>2. /\ WInv(World) /\ now \in Nat /\ room.row \in Row /\ room.row.rate \in Rates
      /\ room.row.upd \in Nat /\ World.room = room /\ World.room.row = room.row
      /\ room.row.playing \in BOOLEAN /\ room.sessionEnded \in BOOLEAN
      /\ room.row.pos \in Int /\ Expected(room.row) \in Int
      /\ room.countdownS \in Nat /\ room.pause \in Nat
  BY <1>1, WorldFacts, ExpectedType DEF Row, LiveRoom
<1>3. room.countdownS > now => room.row.playing /\ room.row.upd = room.countdownS
  BY <1>1, <1>2 DEF WInv, WCountdown
<1>4. CASE Pause
  <2> DEFINE playing == FALSE
  <2>1. PICK w \in SetPlayback(Settled, Expected(room.row), playing, room.row.rate, now) :
          Commit(w)
    BY <1>4 DEF Pause
  <2>2. /\ Good(World, Settled)
        /\ Settled.room.row = room.row /\ Settled.room.countdownS = NoCountdown
    BY <1>1, SettledGood
  <2>3. /\ playing \in BOOLEAN /\ (Settled.room.row.brk # NoBreak => ~playing)
        /\ ~(Settled.room.row.status = "live" /\ Settled.room.countdownS > now)
    BY <1>2, <2>2 DEF NoCountdown
  <2> HIDE DEF playing
  <2>4. Good(Settled, w)
    BY <1>2, <2>1, <2>2, <2>3, SetPlaybackGood DEF Good
  <2> QED
    BY <1>1, <1>2, <2>1, <2>2, <2>4, GoodTrans, CommitKept DEF WInv
<1>5. ASSUME NEW pos \in Int, NEW rate \in Rates, CountingDown(room.row),
             NEW w \in SetPlayback(World, pos, TRUE, rate, room.row.upd)
      PROVE  Good(World, w)
  <2> DEFINE playing == TRUE
  <2>1. /\ playing \in BOOLEAN /\ (World.room.row.brk # NoBreak => ~playing)
        /\ World.room.row.status = "live" /\ World.room.countdownS > now =>
             playing /\ room.row.upd = World.room.countdownS
        /\ w \in SetPlayback(World, pos, playing, rate, room.row.upd)
    BY <1>1, <1>2, <1>3, <1>5
  <2> HIDE DEF playing
  <2> QED
    BY <1>2, <2>1, SetPlaybackGood
<1>6. CASE Seek
  <2>1. PICK pos \in Positions :
          \E w \in IF CountingDown(room.row)
                   THEN SetPlayback(World, pos, TRUE, room.row.rate, room.row.upd)
                   ELSE SetPlayback([World EXCEPT !.room.countdownS = NoCountdown], pos,
                                    room.row.playing /\ ~room.sessionEnded, room.row.rate, now) :
             Commit(w)
    BY <1>6 DEF Seek
  <2>2. pos \in Int
    BY MediaAssumption
  <2>3. CASE CountingDown(room.row)
    BY <1>1, <1>2, <1>5, <2>1, <2>2, <2>3, CommitKept
  <2>4. CASE ~CountingDown(room.row)
    <3> DEFINE d == [World EXCEPT !.room.countdownS = NoCountdown]
               playing == room.row.playing /\ ~room.sessionEnded
    <3>1. PICK w \in SetPlayback(d, pos, playing, room.row.rate, now) : Commit(w)
      BY <2>1, <2>4
    <3>2. d = [World EXCEPT !.room.countdownS = NoCountdown, !.room.pause = room.pause]
      BY <1>1, WorldFacts DEF World, LiveRoom
    <3>3. playing \in BOOLEAN
      OBVIOUS
    <3> HIDE DEF d, playing
    <3>4. Good(World, d) /\ d.room.row = room.row /\ d.room.countdownS = NoCountdown
      <4>1. NoCountdown \in Nat /\ room.pause \in Nat
        BY <1>2 DEF NoCountdown
      <4>2. d = Dropped(World, NoCountdown, room.pause)
        BY <3>2 DEF Dropped
      <4> QED
        BY <1>2, <4>1, <4>2, DroppedGood
    <3>5. /\ d.room.row.brk # NoBreak => ~playing
          /\ ~(d.room.row.status = "live" /\ d.room.countdownS > now)
      BY <1>1, <1>2, <3>4 DEF NoCountdown
    <3>6. Good(d, w)
      BY <1>2, <2>2, <3>1, <3>3, <3>4, <3>5, SetPlaybackGood DEF Good
    <3> QED
      BY <1>1, <1>2, <3>1, <3>4, <3>6, GoodTrans, CommitKept DEF WInv
  <2> QED
    BY <2>3, <2>4
<1>7. CASE SetRate
  <2>1. PICK rate \in Rates :
          \E w \in IF CountingDown(room.row)
                   THEN SetPlayback(World, room.row.pos, TRUE, rate, room.row.upd)
                   ELSE SetPlayback(World, Expected(room.row), room.row.playing, rate, now) :
             Commit(w)
    BY <1>7 DEF SetRate
  <2>2. CASE CountingDown(room.row)
    BY <1>1, <1>2, <1>5, <2>1, <2>2, CommitKept
  <2>3. CASE ~CountingDown(room.row)
    <3>1. PICK w \in SetPlayback(World, Expected(room.row), room.row.playing, rate, now) :
            Commit(w)
      BY <2>1, <2>3
    <3>2. ~(World.room.countdownS > now)
      BY <1>2, <1>3, <2>3 DEF CountingDown
    <3>3. Good(World, w)
      BY <1>1, <1>2, <3>1, <3>2, SetPlaybackGood
    <3> QED
      BY <1>1, <3>1, <3>3, CommitKept
  <2> QED
    BY <2>2, <2>3
<1> QED
  BY <1>4, <1>6, <1>7

\* wsBreakLocked: the break and the stopped clock reach the row together; when
\* they may not have, the copy's break is taken off again.
LEMMA TakeBreakKept ==
  ASSUME IInv, TakeBreak
  PROVE  Kept
<1>1. Loaded /\ room.row.status = "live" /\ room.row.brk = NoBreak
  BY DEF TakeBreak, LiveControl, UserActs
<1>2. /\ WInv(World) /\ now \in Nat /\ room \in LiveRoom /\ room.row \in Row
      /\ row \in Row /\ World.row = row /\ World.room.row = room.row
      /\ room.row.rate \in Rates /\ Expected(room.row) \in Int
  BY <1>1, WorldFacts, ExpectedType DEF Row
<1>3. /\ Good(World, Settled) /\ Settled.room.row = room.row
      /\ Settled.room.countdownS = NoCountdown
  BY <1>1, SettledGood
<1> DEFINE b == now + BreakLen
           begun == [Settled EXCEPT !.room.row.brk = b]
           playing == FALSE
<1>4. PICK w \in SetPlayback(begun, Expected(room.row), playing, room.row.rate, now) :
        Commit(IF w.ok THEN w ELSE [w EXCEPT !.room.row.brk = NoBreak])
  BY DEF TakeBreak
<1>5. b \in Nat /\ playing \in BOOLEAN
  BY <1>2, TimingAssumption
<1>6. /\ Settled \in WorldType /\ Settled.room \in LiveRoom /\ Settled.row = row
      /\ Settled.open \subseteq 1..Settled.nsess
  BY <1>2, <1>3, WorldStatuses DEF Good, WInv, WType, Settled, World
<1>7. [room.row EXCEPT !.brk = b] \in Row
  BY <1>2, <1>5 DEF Row
<1> DEFINE br == [room.row EXCEPT !.brk = b]
<1>8. br.status = "live" /\ br.brk = b
  BY <1>1, <1>2 DEF Row
<1> HIDE DEF b
<1>9. /\ begun \in WorldType /\ begun.row = row /\ begun.room.row = br
      /\ begun.room.countdownS = NoCountdown /\ begun.open = Settled.open
      /\ begun.nsess = Settled.nsess
  BY <1>3, <1>6, <1>7 DEF WorldType, LiveRoom
<1> HIDE DEF begun, br, playing
<1>10. WType(w) /\ SetPlaybackShape(begun, w, playing, now)
  BY <1>2, <1>4, <1>5, <1>6, <1>9, SetPlaybackDoes DEF WType
<1>11. /\ w.room.row.status = "live" /\ w.room.countdownS = NoCountdown
       /\ w.row.status = row.status /\ w.room.row.brk = b
       /\ w.row = row \/ ~w.row.playing
       /\ w.ok => ~w.room.row.playing
  BY <1>8, <1>9, <1>10 DEF SetPlaybackShape, playing
<1>12. /\ row.status \in Statuses /\ Rank("live") <= Rank(row.status)
       /\ "live" \in Statuses /\ "live" \notin Early
       /\ row.brk # NoBreak => ~row.playing
  BY <1>1, <1>2 DEF WInv, WStatus, WBreak, Row, Statuses, Early
<1>13. row.status \notin Early
  BY <1>12, RankFacts
<1> DEFINE final == IF w.ok THEN w ELSE [w EXCEPT !.room.row.brk = NoBreak]
<1>14. /\ WType(final) /\ final.row = w.row
       /\ final.room.row.status = "live" /\ final.room.countdownS = NoCountdown
       /\ final.room.row.brk # NoBreak => ~final.room.row.playing
  <2>1. CASE w.ok
    BY <1>10, <1>11, <2>1
  <2>2. CASE ~w.ok
    <3>1. /\ w \in WorldType /\ w.room \in LiveRoom /\ w.room.row \in Row
          /\ w.open \subseteq 1..w.nsess
      BY <1>10, WorldStatuses DEF WType
    <3>2. [w.room.row EXCEPT !.brk = NoBreak] \in Row
      BY <3>1 DEF Row, NoBreak
    <3>3. /\ final \in WorldType /\ final.row = w.row /\ final.open = w.open
          /\ final.nsess = w.nsess
          /\ final.room.countdownS = w.room.countdownS
          /\ final.room.row = [w.room.row EXCEPT !.brk = NoBreak]
      BY <2>2, <3>1, <3>2 DEF WorldType, LiveRoom
    <3> HIDE DEF final
    <3>4. final.room.row.status = w.room.row.status /\ final.room.row.brk = NoBreak
      BY <3>1, <3>3 DEF Row
    <3> QED
      BY <1>11, <3>1, <3>3, <3>4 DEF WType
  <2> QED
    BY <2>1, <2>2
<1> HIDE DEF final
<1>15. WInv(final)
  <2>1. WBreak(final)
    BY <1>11, <1>12, <1>14 DEF WBreak
  <2>2. WStatus(final)
    BY <1>11, <1>12, <1>13, <1>14 DEF WStatus
  <2>3. WCountdown(final)
    BY <1>2, <1>14 DEF WCountdown, NoCountdown
  <2> QED
    BY <1>14, <2>1, <2>2, <2>3 DEF WInv
<1>16. Forward(World, final)
  BY <1>1, <1>2, <1>11, <1>12, <1>14, RankFacts DEF Forward
<1> QED
  BY <1>1, <1>4, <1>15, <1>16, CommitKept DEF Good, final

\* Ending a break, and changing what is played.
LEMMA MediaActionsKept ==
  ASSUME IInv, ControllerEndsBreak \/ ChangeMedia \/ PickPoll \/ FinishPoll
  PROVE  Kept
<1>1. Loaded
  BY DEF ControllerEndsBreak, ChangeMedia, PickPoll, FinishPoll, UserActs
<1>2. WInv(World) /\ now \in Nat
  BY <1>1, WorldFacts
<1>3. CASE ControllerEndsBreak
  BY <1>1, <1>2, <1>3, EndBreakGood, CommitKept DEF ControllerEndsBreak
<1>4. CASE ChangeMedia
  BY <1>1, <1>2, <1>4, ApplyMediaGood, CommitKept DEF ChangeMedia
<1>5. CASE PickPoll \/ FinishPoll
  <2>1. PICK w \in ClosePoll(World) :
          Commit(w) \/ \E m \in Media : \E v \in ApplyMedia(w, m) : Commit(v)
    BY <1>5 DEF PickPoll, FinishPoll
  <2>2. Good(World, w)
    BY <1>2, <2>1, ClosePollGood
  <2>3. CASE Commit(w)
    BY <1>1, <2>2, <2>3, CommitKept
  <2>4. CASE \E m \in Media : \E v \in ApplyMedia(w, m) : Commit(v)
    <3>1. PICK m \in Media : \E v \in ApplyMedia(w, m) : Commit(v)
      BY <2>4
    <3>2. PICK v \in ApplyMedia(w, m) : Commit(v)
      BY <3>1
    <3>3. Good(w, v)
      BY <1>2, <2>2, <3>2, ApplyMediaGood DEF Good
    <3> QED
      BY <1>1, <1>2, <2>2, <3>2, <3>3, GoodTrans, CommitKept DEF WInv
  <2> QED
    BY <2>1, <2>3, <2>4
<1> QED
  BY <1>3, <1>4, <1>5

-----------------------------------------------------------------------------
(* Viewers and the ticker *)

\* A player's word that the film is over, and a poll.
LEMMA ViewerActionsKept ==
  ASSUME IInv, ReportMediaEnded \/ CreatePoll
  PROVE  Kept
<1>1. Loaded
  BY DEF ReportMediaEnded, CreatePoll, LiveControl, UserActs
<1>2. WInv(World) /\ now \in Nat /\ World.room.row = room.row
  BY <1>1, WorldFacts
<1>3. CASE ReportMediaEnded
  <2>1. PICK w \in MediaEnded(World) : Commit(w)
    BY <1>3 DEF ReportMediaEnded
  <2>2. World.room.row.status \notin Early
    BY <1>2, <1>3 DEF ReportMediaEnded, LiveControl, Early
  <2> QED
    BY <1>1, <1>2, <2>1, <2>2, MediaEndedGood, CommitKept
<1>4. CASE CreatePoll
  <2>1. PICK w \in InsertPoll(World, "custom") : Commit(w)
    BY <1>4 DEF CreatePoll
  <2>2. Good(World, w)
    BY <1>2, <2>1, InsertPollFacts, Frame DEF Good, WInv, PollKinds
  <2> QED
    BY <1>1, <2>1, <2>2, CommitKept
<1> QED
  BY <1>3, <1>4

\* tickRoom: the break, then the timers, then the end of the film.
LEMMA TickKept ==
  ASSUME IInv, Tick
  PROVE  Kept
<1>1. Loaded /\ room.row.status = "live"
  BY DEF Tick
<1>2. /\ WInv(World) /\ now \in Nat /\ World.room.row = room.row
  BY <1>1, WorldFacts
<1>3. PICK w \in TickBreak(World) :
        \E v \in TickMediaEnd(TickTimers(w), AtEnd(room.row)) : Commit(v)
  BY DEF Tick
<1> DEFINE t == TickTimers(w)
<1>4. PICK v \in TickMediaEnd(t, AtEnd(room.row)) : Commit(v)
  BY <1>3
<1>5. Good(World, w)
  BY <1>2, <1>3, EndBreakGood, GoodSelf DEF TickBreak
<1>6. Good(w, t) /\ t.room.row = w.room.row
  <2> DEFINE c == IF now >= w.room.countdownS THEN NoCountdown ELSE w.room.countdownS
             p == IF w.room.pause # NoPause /\ now - w.room.pause > PauseTTL
                  THEN NoPause ELSE w.room.pause
  <2>1. /\ w \in WorldType /\ w.room \in LiveRoom
        /\ w.room.countdownS \in Nat /\ w.room.pause \in Nat
    BY <1>5, WorldStatuses DEF Good, WInv, WType, LiveRoom
  <2>2. c \in Nat /\ p \in Nat /\ (c = NoCountdown \/ c = w.room.countdownS)
    BY <2>1 DEF NoCountdown, NoPause
  <2>3. t = Dropped(w, c, p)
    BY <2>1 DEF TickTimers, Dropped, WorldType, LiveRoom
  <2> HIDE DEF c, p, t
  <2> QED
    BY <1>2, <1>5, <2>2, <2>3, DroppedGood DEF Good
<1> HIDE DEF t
<1>7. Good(World, t)
  BY <1>2, <1>5, <1>6, GoodTrans DEF WInv
<1>8. t.room.row.status \notin Early
  <2>1. /\ w.room.row.status \in Statuses /\ "live" \in Statuses /\ "live" \notin Early
        /\ Rank("live") <= Rank(w.room.row.status)
    BY <1>1, <1>2, <1>5, WorldStatuses DEF Good, WInv, Forward, Statuses, Early
  <2> QED
    BY <1>6, <2>1, RankFacts
<1>9. Good(t, v)
  BY <1>2, <1>4, <1>7, <1>8, MediaEndedGood, GoodSelf DEF TickMediaEnd, Good
<1> QED
  BY <1>1, <1>2, <1>4, <1>7, <1>9, GoodTrans, CommitKept DEF WInv

-----------------------------------------------------------------------------
(* The theorems *)

\* A created room obeys the rules.
LEMMA InitIInv ==
  ASSUME Init
  PROVE  IInv
<1>1. PICK s \in {"scheduled", "lobby"}, m \in Media :
        row = [status |-> s, media |-> m, pos |-> 0, playing |-> FALSE, rate |-> 1,
               upd |-> 1, ver |-> 0, brk |-> NoBreak, sid |-> NoSession]
  BY DEF Init
<1>2. row \in Row /\ row.brk = NoBreak
  BY <1>1, MediaAssumption DEF Row, Statuses, NoBreak, NoSession
<1>3. TypeOK /\ ~Loaded
  BY <1>2 DEF Init, TypeOK, Loaded
<1> QED
  BY <1>2, <1>3 DEF IInv

\* Every step of every actor keeps the rules and goes forward.
LEMMA NextKept ==
  ASSUME IInv, Next
  PROVE  Kept
<1>1. CASE HostNext
  BY <1>1, LifecycleActionsKept, PlayKept, ClockActionsKept, TakeBreakKept, MediaActionsKept
  DEF HostNext
<1>2. CASE ViewerNext
  BY <1>2, QuietActionsKept, ViewerActionsKept, MediaActionsKept DEF ViewerNext
<1>3. CASE SystemNext
  BY <1>3, LoadKept, ForgetKept, QuietActionsKept, ExternalEndKept, LifecycleActionsKept,
     TickKept
  DEF SystemNext
<1> QED
  BY <1>1, <1>2, <1>3 DEF Next

\* A stuttering step keeps the rules and moves no status.
LEMMA StutterKept ==
  ASSUME IInv, UNCHANGED vars
  PROVE  Kept
<1>1. /\ now' = now /\ row' = row /\ open' = open /\ nsess' = nsess
      /\ pollRows' = pollRows /\ room' = room /\ online' = online
      /\ lastClient' = lastClient
  BY DEF vars
<1>2. TypeOK'
  BY <1>1 DEF IInv, TypeOK, Loaded
<1>3. now \in Nat
  BY DEF IInv, TypeOK
<1> QED
  BY <1>1, <1>2, <1>3, QuietKept DEF Loaded

\* The inductive invariant holds in every reachable state.
THEOREM Invariant == Spec => []IInv
<1>1. Init => IInv
  BY InitIInv
<1>2. IInv /\ [Next]_vars => IInv'
  BY NextKept, StutterKept DEF Kept
<1> QED
  BY <1>1, <1>2, PTL DEF Spec

\* Every variable keeps its type, whichever statements fail.
THEOREM TypeCorrect == Spec => []TypeOK
<1>1. IInv => TypeOK
  BY DEF IInv
<1> QED
  BY <1>1, Invariant, PTL

\* A room on a break stands still, in the copy and in the row, whichever
\* statements fail: wsControlLocked refuses, and what ends a break drops it
\* before it starts the clock.
THEOREM BreakRule == Spec => []BreakStopsClock
<1>1. IInv => BreakStopsClock
  BY WorldFacts DEF IInv, BreakStopsClock, WInv, WBreak
<1> QED
  BY <1>1, Invariant, PTL

\* The countdown a snapshot shows is the instant the clock starts at.
THEOREM CountdownRule == Spec => []CountdownIsClock
<1>1. IInv => CountdownIsClock
  BY WorldFacts DEF CountdownIsClock, WInv, WCountdown
<1> QED
  BY <1>1, Invariant, PTL

\* Both rules of the clock at once: whichever statements fail, a break stands
\* still and a countdown is the start of the clock.
THEOREM ClockRule == Spec => []RoomIsSound
<1>1. TypeOK /\ BreakStopsClock /\ CountdownIsClock => RoomIsSound
  BY DEF RoomIsSound, ClockIsHeld
<1> QED
  BY <1>1, TypeCorrect, BreakRule, CountdownRule, PTL

\* No status ever goes back, in the row or in what clients see, across
\* reloads, crashes, failed statements and external ends.
THEOREM Lifecycle == Spec => LifecycleForward
<1>1. IInv /\ [Next]_vars =>
        [/\ Rank(row'.status) >= Rank(row.status)
         /\ Rank(View'.status) >= Rank(View.status)]_vars
  BY NextKept DEF Kept, StepForward
<1> QED
  BY <1>1, Invariant, PTL DEF Spec, LifecycleForward
-----------------------------------------------------------------------------
(***************************************************************************)
(* When the statements succeed, whatever the order of handlers, sweeps,    *)
(* evictions, crashes, reloads and ends written by the admin panel: the    *)
(* loaded room, its row, its sessions and its polls agree; a change of the *)
(* clock comes with a larger version; and the room implements WatchParty.  *)
(***************************************************************************)

\* Every statement does what it is told and says so.
Reliable == DbOutcomes = {"ok"}

\* What is true of a world in the middle of a handler: the copy and the row
\* name the same session, the only one that may be open, the room knows
\* whether it is, and has the poll that is open.  A room that has not started
\* has no session, no break and no vote on the next film.
Tracked(w) ==
  /\ WType(w)
  /\ w.room.row.sid = w.row.sid
  /\ w.open \subseteq {w.row.sid}
  /\ w.room.sessionEnded <=> w.row.sid # NoSession /\ w.row.sid \notin w.open
  /\ w.pollRows = {w.room.poll} \ {"none"}
  /\ w.row.status # "ended" =>
       w.row.status = w.room.row.status /\ w.row.media = w.room.row.media
  /\ w.room.row.status \in Early =>
       w.row.sid = NoSession /\ w.room.poll # "next" /\ w.room.row.brk = NoBreak

\* The copy is the row until the row is ended.
Mirrors(w) == w.row.status # "ended" => w.room.row = w.row

\* What plays or is on a break plays in an open session, and the vote on the
\* next film is open only after the film.
FilmRecorded(w) ==
  w.room.row.status = "live" =>
    /\ w.room.row.sid # NoSession
    /\ w.room.row.playing \/ w.room.row.brk # NoBreak => ~w.room.sessionEnded
    /\ w.room.poll = "next" => w.room.sessionEnded /\ ~w.room.row.playing

\* A world between two handlers.
Recorded(w) == Tracked(w) /\ Mirrors(w) /\ FilmRecorded(w)

-----------------------------------------------------------------------------
(* What a step shows to the people in the room *)

\* Film of WatchRoom, of a world.
FilmOf(w) ==
  IF w.room.row.status = "ended" THEN "over"
  ELSE IF w.room.row.sid = NoSession THEN "none"
  ELSE IF w.room.sessionEnded THEN "over" ELSE "running"

PlayingIn(w) == w.room.row.status = "live" /\ w.room.row.playing
OnBreakIn(w) == w.room.row.status = "live" /\ w.room.row.brk # NoBreak

SameStatus(w, v) == v.room.row.status = w.room.row.status
SameFilm(w, v) == FilmOf(v) = FilmOf(w)

\* A step of WatchParty, or none.
PartyStep(w, v) ==
  \/ /\ SameStatus(w, v) /\ SameFilm(w, v)
     /\ PlayingIn(v) <=> PlayingIn(w)
     /\ OnBreakIn(v) <=> OnBreakIn(w)
  \/ /\ w.room.row.status = "scheduled" /\ v.room.row.status = "lobby" /\ SameFilm(w, v)
  \/ /\ w.room.row.status = "lobby" /\ v.room.row.status = "live"
     /\ FilmOf(v) = "running" /\ PlayingIn(v) /\ ~OnBreakIn(v)
  \/ /\ w.room.row.status = "live" /\ SameStatus(w, v)
     /\ FilmOf(w) = "running" /\ SameFilm(w, v) /\ ~OnBreakIn(w) /\ ~OnBreakIn(v)
  \/ /\ w.room.row.status = "live" /\ SameStatus(w, v)
     /\ FilmOf(w) = "running" /\ SameFilm(w, v)
     /\ ~OnBreakIn(w) /\ OnBreakIn(v) /\ ~PlayingIn(v)
  \/ /\ OnBreakIn(w) /\ ~OnBreakIn(v) /\ SameStatus(w, v) /\ SameFilm(w, v)
  \/ /\ w.room.row.status = "live" /\ SameStatus(w, v)
     /\ FilmOf(w) = "running" /\ FilmOf(v) = "over" /\ ~PlayingIn(v) /\ ~OnBreakIn(v)
  \/ /\ w.room.row.status = "live" /\ SameStatus(w, v)
     /\ FilmOf(v) = "running" /\ PlayingIn(v) /\ ~OnBreakIn(v)
  \/ /\ w.room.row.status # "ended" /\ v.room.row.status = "ended"

\* A change of a live clock comes with a larger version.
ClockStep(w, v) ==
  w.room.row.status = "live" /\ v.room.row.status = "live" =>
    \/ v.room.row.ver > w.room.row.ver
    \/ /\ v.room.row.pos = w.room.row.pos
       /\ v.room.row.playing = w.room.row.playing
       /\ v.room.row.rate = w.room.row.rate
       /\ v.room.row.upd = w.room.row.upd

\* A step that keeps the records and shows what it may.
Shown(w, v) == Recorded(v) /\ PartyStep(w, v) /\ ClockStep(w, v)

\* The copy's clock and session, unchanged: nobody in the room sees a thing.
SameShow(w, v) ==
  v.room.row = w.room.row /\ v.room.sessionEnded = w.room.sessionEnded

\* Unseen steps before a handler's part change nothing about it.
LEMMA ShownAfter ==
  ASSUME NEW w, NEW u, NEW v, SameShow(w, u), Shown(u, v)
  PROVE  Shown(w, v)
<1>1. /\ SameStatus(u, v) <=> SameStatus(w, v)
      /\ FilmOf(u) = FilmOf(w)
      /\ PlayingIn(u) <=> PlayingIn(w)
      /\ OnBreakIn(u) <=> OnBreakIn(w)
  BY DEF SameShow, SameStatus, FilmOf, PlayingIn, OnBreakIn
<1>2. SameFilm(u, v) <=> SameFilm(w, v)
  BY <1>1 DEF SameFilm
<1>3. u.room.row = w.room.row
  BY DEF SameShow
<1>4. ClockStep(w, v)
  BY <1>3 DEF Shown, ClockStep
<1>5. PartyStep(w, v)
  BY <1>1, <1>2, <1>3 DEF Shown, PartyStep
<1> QED
  BY <1>4, <1>5 DEF Shown

\* A step nobody sees.
LEMMA Unseen ==
  ASSUME NEW w, NEW v, SameShow(w, v), Recorded(v)
  PROVE  Shown(w, v)
<1>1. SameStatus(w, v) /\ SameFilm(w, v)
  BY DEF SameShow, SameStatus, SameFilm, FilmOf
<1>2. (PlayingIn(v) <=> PlayingIn(w)) /\ (OnBreakIn(v) <=> OnBreakIn(w))
  BY DEF SameShow, PlayingIn, OnBreakIn
<1>3. ClockStep(w, v)
  BY DEF SameShow, ClockStep
<1> QED
  BY <1>1, <1>2, <1>3 DEF Shown, PartyStep

\* Of what Recorded looks at, all is the same.
SameRecords(w, v) ==
  /\ v.row = w.row /\ v.open = w.open /\ v.pollRows = w.pollRows
  /\ v.room.poll = w.room.poll
  /\ SameShow(w, v)

\* Two worlds with the same tables, clock and poll keep records or not alike.
LEMMA SameRecordsKept ==
  ASSUME NEW w, NEW v, Recorded(w), WType(v), SameRecords(w, v)
  PROVE  Recorded(v)
<1>1. Tracked(v)
  BY DEF Recorded, SameRecords, SameShow, Tracked
<1>2. Mirrors(v) /\ FilmRecorded(v)
  BY DEF Recorded, SameRecords, SameShow, Mirrors, FilmRecorded
<1> QED
  BY <1>1, <1>2 DEF Recorded

-----------------------------------------------------------------------------
(* The helpers, when their statements succeed *)

\* A statement that succeeds.
LEMMA StatementOk ==
  ASSUME Reliable, NEW w, NEW done, NEW lost, NEW v \in Statement(w, done, lost)
  PROVE  v = [done EXCEPT !.ok = TRUE]
BY DEF Reliable, Statement

\* setPlaybackLocked leaves the copy's clock in the row.
Played(w, v, playing) ==
  /\ Tracked(v) /\ Mirrors(v) /\ v.ok
  /\ SameStatus(w, v)
  /\ v.room.row.brk = w.room.row.brk /\ v.room.row.sid = w.room.row.sid
  /\ v.room.sessionEnded = w.room.sessionEnded /\ v.room.poll = w.room.poll
  /\ v.room.row.playing = playing
  /\ v.room.row.ver > w.room.row.ver

\* setPlaybackLocked: the clock moves with a larger version, nothing else.
LEMMA SetPlaybackOk ==
  ASSUME Reliable, NEW w, Tracked(w), NEW pos \in Int, NEW playing \in BOOLEAN,
         NEW rate \in Rates, NEW upd \in Nat,
         NEW v \in SetPlayback(w, pos, playing, rate, upd)
  PROVE  Played(w, v, playing)
<1> DEFINE n == Moved(w.room.row, pos, playing, rate, upd)
           s == Saved(w.row, n)
           saved == [w EXCEPT !.row = s]
           done == [saved EXCEPT !.room.row = n]
<1>1. w \in WorldType /\ w.room.row \in Row /\ w.row \in Row /\ w.room \in LiveRoom
  BY WorldStatuses DEF Tracked, WType
<1>2. v = [done EXCEPT !.ok = TRUE]
  BY StatementOk DEF SetPlayback
<1>3. WType(v)
  BY SetPlaybackDoes DEF Tracked
<1>4. /\ n \in Row /\ n.status = w.room.row.status /\ n.brk = w.room.row.brk
      /\ n.playing = playing
  <2>1. \A r \in Row : MovedFacts(r, pos, playing, rate, upd)
    BY MovedType
  <2> QED
    BY <1>1, <2>1 DEF MovedFacts
<1>5. /\ n.sid = w.room.row.sid /\ n.media = w.room.row.media
      /\ n.ver = w.room.row.ver + 1
  BY <1>1 DEF Moved, Row
<1>6. n.ver > w.room.row.ver
  BY <1>1, <1>5 DEF Row
<1> HIDE DEF n
<1>7. /\ s \in Row /\ s.status = w.row.status /\ s.media = w.row.media /\ s.sid = w.row.sid
      /\ s.pos = n.pos /\ s.playing = n.playing /\ s.rate = n.rate /\ s.upd = n.upd
      /\ s.ver = n.ver /\ s.brk = n.brk
  BY <1>1, <1>4 DEF Saved, Row
<1> HIDE DEF s
<1>8. /\ v.row = s /\ v.room.row = n /\ v.open = w.open /\ v.pollRows = w.pollRows
      /\ v.room.sessionEnded = w.room.sessionEnded /\ v.room.poll = w.room.poll /\ v.ok
  BY <1>1, <1>2 DEF WorldType, LiveRoom
<1>9. ASSUME s.status = n.status, s.media = n.media, s.sid = n.sid
      PROVE  s = n
  BY <1>4, <1>7, <1>9 DEF Row
<1>10. Mirrors(v)
  BY <1>4, <1>5, <1>7, <1>8, <1>9 DEF Mirrors, Tracked
<1>11. Tracked(v)
  BY <1>3, <1>4, <1>5, <1>7, <1>8 DEF Tracked
<1> QED
  BY <1>4, <1>5, <1>6, <1>8, <1>10, <1>11 DEF Played, SameStatus

\* startCountdownAfterLocked: the same, counting down.
LEMMA StartCountdownOk ==
  ASSUME Reliable, now \in Nat, NEW w, Tracked(w), NEW pos \in Int, NEW delay \in Nat,
         NEW v \in StartCountdownAfter(w, pos, delay)
  PROVE  Played(w, v, TRUE)
<1>1. PICK u \in SetPlayback(w, pos, TRUE, w.room.row.rate, now + delay) :
        v = IF u.ok THEN [u EXCEPT !.room.countdownS = now + delay] ELSE u
  BY DEF StartCountdownAfter
<1>2. w.room.row.rate \in Rates /\ now + delay \in Nat
  BY WorldStatuses DEF Tracked, Row
<1>3. Played(w, u, TRUE)
  <2> DEFINE playing == TRUE
  <2>1. playing \in BOOLEAN /\ u \in SetPlayback(w, pos, playing, w.room.row.rate, now + delay)
    BY <1>1
  <2> HIDE DEF playing
  <2>2. Played(w, u, playing)
    BY <1>2, <2>1, SetPlaybackOk
  <2> QED
    BY <2>2 DEF playing
<1>4. v = [u EXCEPT !.room.countdownS = now + delay]
  BY <1>1, <1>3 DEF Played
<1>5. u \in WorldType /\ u.room \in LiveRoom
  BY <1>3 DEF Played, Tracked, WType, WorldType
<1>6. /\ v.row = u.row /\ v.room.row = u.room.row /\ v.open = u.open /\ v.nsess = u.nsess
      /\ v.pollRows = u.pollRows /\ v.ok = u.ok
      /\ v.room.sessionEnded = u.room.sessionEnded /\ v.room.poll = u.room.poll
  BY <1>4, <1>5 DEF WorldType, LiveRoom
<1>7. WType(v)
  BY <1>2, <1>3, <1>4, <1>5 DEF Played, Tracked, WType, WorldType, LiveRoom
<1>8. Tracked(v)
  BY <1>3, <1>6, <1>7 DEF Played, Tracked
<1>9. Mirrors(v)
  BY <1>3, <1>6 DEF Played, Mirrors
<1> QED
  BY <1>3, <1>6, <1>8, <1>9 DEF Played, SameStatus

\* The copy's clock, unchanged but for the session it belongs to.
SameClockInCopy(w, v) ==
  /\ SameStatus(w, v)
  /\ v.room.row.brk = w.room.row.brk /\ v.room.row.playing = w.room.row.playing
  /\ v.room.row.ver = w.room.row.ver

\* openSessionLocked, when none is open: the row and the copy get the new one.
LEMMA OpenSessionOk ==
  ASSUME Reliable, NEW w, Tracked(w), w.open = {}, w.room.row.status \notin Early,
         NEW v \in OpenSession(w)
  PROVE  /\ Tracked(v) /\ v.ok /\ SameClockInCopy(w, v)
         /\ v.room.row.sid # NoSession /\ ~v.room.sessionEnded
         /\ v.room.poll = w.room.poll
<1> DEFINE s == w.nsess + 1
           inserted == [w EXCEPT !.open = @ \cup {s}, !.nsess = s]
           pointed == [inserted EXCEPT !.row.sid = s]
           done == [pointed EXCEPT !.room.row.sid = s, !.room.sessionEnded = FALSE]
<1>1. /\ w \in WorldType /\ w.room.row \in Row /\ w.row \in Row /\ w.room \in LiveRoom
      /\ w.nsess \in Nat
  BY WorldStatuses DEF Tracked, WType, WorldType
<1>2. v = [done EXCEPT !.ok = TRUE]
  <2>1. v \in Statement(w, done, inserted) \/ v \in Statement(inserted, done, pointed)
    BY DEF OpenSession
  <2>2. v = [done EXCEPT !.ok = TRUE]
    BY <2>1, StatementOk
  <2> QED
    BY <2>2
<1>3. WType(v)
  BY OpenSessionFacts DEF Tracked
<1> HIDE DEF s
<1>4. /\ v.row = [w.row EXCEPT !.sid = s] /\ v.room.row = [w.room.row EXCEPT !.sid = s]
      /\ v.open = w.open \cup {s} /\ v.pollRows = w.pollRows
      /\ v.room.sessionEnded = FALSE /\ v.room.poll = w.room.poll /\ v.ok
  BY <1>1, <1>2 DEF WorldType, LiveRoom
<1>5. /\ v.row.sid = s /\ v.row.status = w.row.status /\ v.row.media = w.row.media
      /\ v.room.row.sid = s /\ v.room.row.media = w.room.row.media
      /\ SameClockInCopy(w, v)
  BY <1>1, <1>4 DEF Row, SameClockInCopy, SameStatus
<1>6. s # NoSession
  BY <1>1 DEF s, NoSession
<1>7. Tracked(v)
  BY <1>3, <1>4, <1>5, <1>6 DEF Tracked, SameClockInCopy, SameStatus
<1> QED
  BY <1>4, <1>5, <1>6, <1>7

\* closeSessionLocked: no session is open any more.
LEMMA CloseSessionOk ==
  ASSUME Reliable, NEW w, Tracked(w), NEW v \in CloseSession(w)
  PROVE  /\ Tracked(v) /\ v.open = {} /\ v.row = w.row /\ v.room.row = w.room.row
         /\ v.room.sessionEnded <=> w.room.row.sid # NoSession
         /\ v.room.poll = w.room.poll /\ v.pollRows = w.pollRows
<1> DEFINE sid == w.room.row.sid
<1>1. /\ w \in WorldType /\ w.room.row \in Row /\ w.row \in Row /\ w.room \in LiveRoom
      /\ w.open \subseteq 1..w.nsess /\ w.nsess \in Nat
  BY WorldStatuses DEF Tracked, WType, WorldType
<1>2. WType(v)
  BY CloseSessionFacts DEF Tracked
<1>3. CASE sid = NoSession \/ w.room.sessionEnded
  <2>1. v = w
    BY <1>3 DEF CloseSession
  <2>2. w.open = {}
    BY <1>1, <1>3 DEF Tracked, NoSession
  <2> QED
    BY <1>3, <2>1, <2>2 DEF Tracked
<1>4. CASE sid # NoSession /\ ~w.room.sessionEnded
  <2>1. v = [w EXCEPT !.open = @ \ {sid}, !.room.sessionEnded = TRUE]
    BY <1>4 DEF CloseSession, Reliable
  <2> HIDE DEF sid
  <2>2. /\ v.row = w.row /\ v.room.row = w.room.row /\ v.open = w.open \ {sid}
        /\ v.room.sessionEnded = TRUE /\ v.room.poll = w.room.poll /\ v.pollRows = w.pollRows
    BY <1>1, <2>1 DEF WorldType, LiveRoom
  <2>3. v.open = {}
    BY <2>2 DEF Tracked, sid
  <2>4. Tracked(v)
    BY <1>2, <1>4, <2>2, <2>3 DEF Tracked, sid
  <2> QED
    BY <1>4, <2>2, <2>3, <2>4 DEF sid
<1> QED
  BY <1>3, <1>4

\* What a poll's statements leave alone.
SameButPoll(w, v) ==
  v.row = w.row /\ v.open = w.open /\ SameShow(w, v)

\* closePollLocked: no poll is open any more.
LEMMA ClosePollOk ==
  ASSUME Reliable, NEW w, Tracked(w), NEW v \in ClosePoll(w)
  PROVE  Tracked(v) /\ SameButPoll(w, v) /\ v.room.poll = "none"
<1>1. w \in WorldType /\ w.room \in LiveRoom
  BY WorldStatuses DEF Tracked, WType
<1>2. WType(v)
  BY ClosePollFacts DEF Tracked
<1>3. CASE w.room.poll = "none"
  <2>1. v = w
    BY <1>3 DEF ClosePoll
  <2> QED
    BY <1>3, <2>1 DEF SameButPoll, SameShow
<1>4. CASE w.room.poll # "none"
  <2>1. v = [w EXCEPT !.pollRows = @ \ {w.room.poll}, !.room.poll = "none"]
    BY <1>4 DEF ClosePoll, Reliable
  <2>2. /\ v.row = w.row /\ v.room.row = w.room.row /\ v.open = w.open
        /\ v.room.sessionEnded = w.room.sessionEnded /\ v.room.poll = "none"
        /\ v.pollRows = w.pollRows \ {w.room.poll}
    BY <1>1, <2>1 DEF WorldType, LiveRoom
  <2>3. Tracked(v)
    BY <1>2, <2>2 DEF Tracked
  <2> QED
    BY <2>2, <2>3 DEF SameButPoll, SameShow
<1> QED
  BY <1>3, <1>4

\* The vote on the next film is dropped, another poll stays.
LEMMA DropNextPollOk ==
  ASSUME Reliable, NEW w, Tracked(w), NEW v \in DropNextPoll(w)
  PROVE  /\ Tracked(v) /\ SameButPoll(w, v) /\ v.room.poll # "next"
<1>1. CASE w.room.poll = "next"
  <2>1. v \in ClosePoll(w)
    BY <1>1 DEF DropNextPoll
  <2> QED
    BY <2>1, ClosePollOk
<1>2. CASE w.room.poll # "next"
  BY <1>2 DEF DropNextPoll, SameButPoll, SameShow
<1> QED
  BY <1>1, <1>2

\* insertPollLocked, when no poll is open.
LEMMA InsertPollOk ==
  ASSUME Reliable, NEW w, Tracked(w), w.room.poll = "none", NEW kind \in PollKinds,
         kind = "next" => w.room.row.status \notin Early, NEW v \in InsertPoll(w, kind)
  PROVE  Tracked(v) /\ SameButPoll(w, v) /\ v.room.poll = kind
<1>1. w \in WorldType /\ w.room \in LiveRoom
  BY WorldStatuses DEF Tracked, WType
<1>2. WType(v)
  BY InsertPollFacts DEF Tracked
<1> DEFINE inserted == [w EXCEPT !.pollRows = @ \cup {kind}]
<1>3. v = [[inserted EXCEPT !.room.poll = kind] EXCEPT !.ok = TRUE]
  BY StatementOk DEF InsertPoll
<1>4. /\ v.row = w.row /\ v.room.row = w.room.row /\ v.open = w.open
      /\ v.room.sessionEnded = w.room.sessionEnded /\ v.room.poll = kind
      /\ v.pollRows = w.pollRows \cup {kind}
  BY <1>1, <1>3 DEF WorldType, LiveRoom
<1>5. v.pollRows = {kind} /\ kind # "none"
  BY <1>4 DEF Tracked, PollKinds
<1>6. Tracked(v)
  BY <1>2, <1>4, <1>5 DEF Tracked
<1> QED
  BY <1>4, <1>6 DEF SameButPoll, SameShow

\* openNextPollLocked opens the vote on the next film or nothing.
LEMMA OpenNextPollOk ==
  ASSUME Reliable, NEW w, Tracked(w), w.room.row.status \notin Early, NEW v \in OpenNextPoll(w)
  PROVE  Tracked(v) /\ SameButPoll(w, v)
<1>1. CASE v = w
  BY <1>1 DEF SameButPoll, SameShow
<1>2. CASE w.room.poll = "none" /\ v \in InsertPoll(w, "next")
  BY <1>2, InsertPollOk DEF PollKinds
<1> QED
  BY <1>1, <1>2 DEF OpenNextPoll

\* The bookkeeping of a statement's outcome changes nothing else.
LEMMA OutcomeKept ==
  ASSUME NEW w, WType(w), NEW o \in BOOLEAN
  PROVE  /\ WType([w EXCEPT !.ok = o])
         /\ [w EXCEPT !.ok = o].row = w.row /\ [w EXCEPT !.ok = o].room = w.room
         /\ [w EXCEPT !.ok = o].open = w.open
         /\ [w EXCEPT !.ok = o].pollRows = w.pollRows
         /\ [w EXCEPT !.ok = o].ok = o
BY DEF WType, WorldType

-----------------------------------------------------------------------------
(* The parts of handlers, when their statements succeed *)

\* endBreakLocked: everyone goes on together, in the session they were in.
LEMMA EndBreakShown ==
  ASSUME Reliable, now \in Nat, NEW w, Recorded(w), NEW x \in EndBreak(w)
  PROVE  Shown(w, x) /\ SameStatus(w, x) /\ x.room.row.ver >= w.room.row.ver
<1>1. CASE w.room.row.brk = NoBreak
  <2>1. x = w
    BY <1>1 DEF EndBreak
  <2>2. w.room.row.ver \in Nat
    BY WorldStatuses DEF Recorded, Tracked, Row
  <2> QED
    BY <2>1, <2>2, Unseen DEF SameShow, SameStatus
<1>2. CASE w.room.row.brk # NoBreak
  <2> DEFINE r == w.room.row
             c == [w EXCEPT !.room.row.brk = NoBreak]
             n == [r EXCEPT !.brk = NoBreak]
  <2>1. Tracked(w) /\ w \in WorldType /\ w.room \in LiveRoom /\ r \in Row
    BY WorldStatuses DEF Recorded, Tracked, WType
  <2>2. /\ n \in Row /\ n.status = r.status /\ n.brk = NoBreak /\ n.sid = r.sid
        /\ n.media = r.media /\ n.ver = r.ver
    BY <2>1 DEF Row, NoBreak
  <2> HIDE DEF n
  <2>3. c.room = [w.room EXCEPT !.row = n]
    BY <2>1 DEF WorldType, LiveRoom, n
  <2>4. /\ c.row = w.row /\ c.room.row = n /\ c.open = w.open /\ c.nsess = w.nsess
        /\ c.pollRows = w.pollRows /\ c.room.sessionEnded = w.room.sessionEnded
        /\ c.room.poll = w.room.poll /\ c.room \in LiveRoom /\ c \in WorldType
    BY <2>1, <2>2, <2>3 DEF WorldType, LiveRoom
  <2>5. x \in StartCountdownAfter(c, r.pos, Countdown)
    BY <1>2 DEF EndBreak, StartCountdown
  <2>6. r.pos \in Int /\ Countdown \in Nat
    BY <2>1, TimingAssumption DEF Row
  <2> HIDE DEF c, r
  <2>7. Tracked(c)
    BY <2>1, <2>2, <2>4 DEF Tracked, WType, r
  <2>8. Played(c, x, TRUE)
    BY <2>5, <2>6, <2>7, StartCountdownOk
  <2>9. /\ x.room.row.status = r.status /\ x.room.row.brk = NoBreak /\ x.room.row.sid = r.sid
        /\ x.room.sessionEnded = w.room.sessionEnded /\ x.room.poll = w.room.poll
        /\ x.room.row.ver > r.ver /\ Tracked(x) /\ Mirrors(x)
    BY <2>2, <2>4, <2>8 DEF Played, SameStatus
  <2>10. FilmRecorded(x)
    BY <1>2, <2>9 DEF Recorded, FilmRecorded, r
  <2>11. ClockStep(w, x)
    BY <2>9 DEF ClockStep, r
  <2>12. SameStatus(w, x) /\ SameFilm(w, x)
    BY <2>9 DEF SameStatus, SameFilm, FilmOf, r
  <2>13. ~OnBreakIn(x)
    BY <2>9 DEF OnBreakIn
  <2>14. PartyStep(w, x)
    <3>1. CASE r.status = "live"
      BY <1>2, <2>12, <2>13, <3>1 DEF PartyStep, OnBreakIn, r
    <3>2. CASE r.status # "live"
      BY <2>9, <2>12, <2>13, <3>2 DEF PartyStep, OnBreakIn, PlayingIn, r
    <3> QED
      BY <3>1, <3>2
  <2> QED
    <3>1. x.room.row.ver \in Nat /\ r.ver \in Nat
      BY <2>1, <2>9, WorldStatuses DEF Tracked, Row
    <3> QED
      BY <2>9, <2>10, <2>11, <2>12, <2>14, <3>1 DEF Shown, Recorded, r
<1> QED
  BY <1>1, <1>2

\* mediaEndedLocked: the clock stops at the end, the session is closed, and
\* the vote on the next film may open.
LEMMA MediaEndedShown ==
  ASSUME Reliable, now \in Nat, NEW w, Recorded(w), w.room.row.status = "live",
         NEW x \in MediaEnded(w)
  PROVE  /\ Shown(w, x)
         /\ ~w.room.sessionEnded =>
              /\ x.room.row.status = "live" /\ x.room.row.ver > w.room.row.ver
              /\ FilmOf(x) = "over" /\ ~PlayingIn(x) /\ ~OnBreakIn(x)
<1>1. CASE w.room.sessionEnded
  <2>1. x = w
    BY <1>1 DEF MediaEnded
  <2> QED
    BY <1>1, <2>1, Unseen DEF SameShow
<1>2. CASE ~w.room.sessionEnded
  <2> DEFINE r == w.room.row
             c == Cleared(w)
             n == [r EXCEPT !.brk = NoBreak]
             end == IF Duration[r.media] > 0 THEN Duration[r.media] ELSE Expected(r)
             playing == FALSE
  <2>1. Tracked(w) /\ w \in WorldType /\ w.room \in LiveRoom /\ r \in Row
    BY WorldStatuses DEF Recorded, Tracked, WType
  <2>2. /\ n \in Row /\ n.status = r.status /\ n.brk = NoBreak /\ n.sid = r.sid
        /\ n.media = r.media /\ n.ver = r.ver
    BY <2>1 DEF Row, NoBreak
  <2>3. end \in Int /\ r.rate \in Rates /\ playing \in BOOLEAN
    BY <2>1, ExpectedType, MediaAssumption DEF Row
  <2>20. x \in UNION {UNION {OpenNextPoll(u) : u \in CloseSession(v)} :
                        v \in SetPlayback(c, end, playing, r.rate, now)}
    BY <1>2 DEF MediaEnded
  <2>6. c = [w EXCEPT !.room = [w.room EXCEPT !.countdownS = NoCountdown, !.row = n,
                                              !.pause = NoPause]]
    BY <2>1 DEF Cleared, WorldType, LiveRoom, n
  <2> HIDE DEF c, n, end, playing
  <2>4. PICK v \in SetPlayback(c, end, playing, r.rate, now) :
          \E u \in CloseSession(v) : x \in OpenNextPoll(u)
    BY <2>20
  <2>5. PICK u \in CloseSession(v) : x \in OpenNextPoll(u)
    BY <2>4
  <2>7. /\ c.row = w.row /\ c.room.row = n /\ c.open = w.open /\ c.nsess = w.nsess
        /\ c.pollRows = w.pollRows /\ c.room.sessionEnded = w.room.sessionEnded
        /\ c.room.poll = w.room.poll /\ c.room \in LiveRoom /\ c \in WorldType
    BY <2>1, <2>2, <2>6 DEF WorldType, LiveRoom, NoCountdown, NoPause
  <2> HIDE DEF r
  <2>8. Tracked(c)
    BY <2>1, <2>2, <2>7 DEF Tracked, WType, r
  <2>9. Played(c, v, playing)
    BY <2>3, <2>4, <2>8, SetPlaybackOk
  <2>10. /\ Tracked(u) /\ u.row = v.row /\ u.room.row = v.room.row
         /\ u.room.sessionEnded <=> v.room.row.sid # NoSession
    BY <2>5, <2>9, CloseSessionOk DEF Played
  <2>11. /\ v.room.row.status = "live" /\ v.room.row.brk = NoBreak
         /\ v.room.row.sid # NoSession /\ ~v.room.row.playing /\ v.room.row.ver > r.ver
    BY <2>2, <2>7, <2>9 DEF Played, SameStatus, playing, r, Recorded, FilmRecorded
  <2>12. Tracked(x) /\ SameButPoll(u, x)
    BY <2>5, <2>10, <2>11, OpenNextPollOk DEF Early
  <2>13. /\ x.room.row = v.room.row /\ x.row = v.row /\ x.room.sessionEnded
    BY <2>10, <2>11, <2>12 DEF SameButPoll, SameShow
  <2>14. Mirrors(x)
    BY <2>9, <2>13 DEF Played, Mirrors
  <2>15. FilmRecorded(x)
    BY <2>11, <2>13 DEF FilmRecorded
  <2>16. ClockStep(w, x)
    BY <2>11, <2>13 DEF ClockStep, r
  <2>17. FilmOf(w) = "running" /\ FilmOf(x) = "over" /\ ~PlayingIn(x) /\ ~OnBreakIn(x)
    BY <1>2, <2>11, <2>13 DEF FilmOf, PlayingIn, OnBreakIn, Recorded, FilmRecorded
  <2>18. PartyStep(w, x)
    BY <2>11, <2>13, <2>17 DEF PartyStep, SameStatus
  <2> QED
    BY <2>11, <2>12, <2>13, <2>14, <2>15, <2>16, <2>17, <2>18 DEF Shown, Recorded, r
<1> QED
  BY <1>1, <1>2

\* A session opened where none was, then the countdown: everyone watches.
LEMMA NewSessionShown ==
  ASSUME Reliable, now \in Nat, NEW w, Tracked(w), w.open = {},
         w.room.row.status = "live", w.room.row.brk = NoBreak, w.room.poll # "next",
         NEW v \in OpenSession(w), NEW pos \in Int, NEW delay \in Nat,
         NEW x, v.ok => x \in StartCountdownAfter(v, pos, delay)
  PROVE  /\ Recorded(x) /\ x.room.row.status = "live"
         /\ FilmOf(x) = "running" /\ PlayingIn(x) /\ ~OnBreakIn(x)
         /\ x.room.row.ver > w.room.row.ver
<1>1. /\ Tracked(v) /\ v.ok /\ SameClockInCopy(w, v)
      /\ v.room.row.sid # NoSession /\ ~v.room.sessionEnded
      /\ v.room.poll = w.room.poll
  BY OpenSessionOk DEF Early
<1>2. x \in StartCountdownAfter(v, pos, delay)
  BY <1>1
<1>3. Played(v, x, TRUE)
  BY <1>1, <1>2, StartCountdownOk
<1>4. /\ x.room.row.status = "live" /\ x.room.row.brk = NoBreak
      /\ x.room.row.sid # NoSession /\ ~x.room.sessionEnded
      /\ x.room.poll # "next" /\ x.room.row.playing
      /\ x.room.row.ver > w.room.row.ver
  BY <1>1, <1>3 DEF SameClockInCopy, Played, SameStatus
<1>5. FilmRecorded(x)
  BY <1>4 DEF FilmRecorded
<1>6. FilmOf(x) = "running" /\ PlayingIn(x) /\ ~OnBreakIn(x)
  BY <1>4 DEF FilmOf, PlayingIn, OnBreakIn
<1> QED
  BY <1>3, <1>4, <1>5, <1>6 DEF Played, Recorded

\* The end of applyMediaLocked, after the session and the vote are closed.
LEMMA RestartClockShown ==
  ASSUME Reliable, now \in Nat, NEW w, Recorded(w), NEW y, Tracked(y), y.open = {},
         SameStatus(w, y), y.room.row.brk = NoBreak, y.room.poll # "next",
         y.room.row.sid = w.room.row.sid, y.room.row.ver = w.room.row.ver,
         NEW x \in RestartClock(y)
  PROVE  Shown(w, x)
<1>1. CASE y.room.row.status = "live"
  <2>1. PICK v \in OpenSession(y) : x \in IF v.ok THEN StartCountdown(v, 0) ELSE {v}
    BY <1>1 DEF RestartClock
  <2>2. v.ok => x \in StartCountdownAfter(v, 0, Countdown)
    BY <2>1 DEF StartCountdown
  <2>3. 0 \in Int /\ Countdown \in Nat
    BY TimingAssumption
  <2>4. /\ Recorded(x) /\ x.room.row.status = "live"
        /\ FilmOf(x) = "running" /\ PlayingIn(x) /\ ~OnBreakIn(x)
        /\ x.room.row.ver > y.room.row.ver
    BY <1>1, <2>2, <2>3, NewSessionShown
  <2>5. PartyStep(w, x)
    BY <1>1, <2>4 DEF PartyStep, SameStatus
  <2> QED
    BY <2>4, <2>5 DEF Shown, ClockStep
<1>2. CASE y.room.row.status # "live"
  <2> DEFINE playing == FALSE
  <2>1. x \in SetPlayback(y, 0, playing, 1, now)
    BY <1>2 DEF RestartClock
  <2>2. playing \in BOOLEAN /\ 0 \in Int /\ 1 \in Rates
    BY MediaAssumption
  <2> HIDE DEF playing
  <2>3. Played(y, x, playing)
    BY <2>1, <2>2, SetPlaybackOk
  <2>4. /\ SameStatus(w, x) /\ x.room.row.status # "live" /\ x.room.row.sid = w.room.row.sid
        /\ Tracked(x) /\ Mirrors(x)
    BY <1>2, <2>3 DEF Played, SameStatus
  <2>5. SameFilm(w, x)
    <3>1. w.room.row.status \in Statuses /\ w.room.row.sid = w.row.sid
      BY WorldStatuses DEF Recorded, Tracked
    <3>2. w.room.row.status \in Early => w.room.row.sid = NoSession
      BY <3>1 DEF Recorded, Tracked
    <3>3. w.room.row.status \in Early \/ w.room.row.status = "ended"
      BY <2>4, <3>1 DEF SameStatus, Statuses, Early
    <3> QED
      BY <2>4, <3>2, <3>3 DEF SameFilm, SameStatus, FilmOf, Early
  <2>6. PartyStep(w, x) /\ ClockStep(w, x) /\ FilmRecorded(x)
    BY <2>4, <2>5 DEF PartyStep, SameStatus, PlayingIn, OnBreakIn, ClockStep, FilmRecorded
  <2> QED
    BY <2>4, <2>6 DEF Shown, Recorded
<1> QED
  BY <1>1, <1>2

\* applyMediaLocked: a live room goes on with the new film in a new session, a
\* room that has not started or has ended shows nothing.
LEMMA ApplyMediaShown ==
  ASSUME Reliable, now \in Nat, NEW w, Recorded(w), NEW m \in Media,
         NEW x \in ApplyMedia(w, m)
  PROVE  Shown(w, x)
<1>1. PICK v \in DropNextPoll(w) : \E u \in CloseSession(v) : x \in SwitchMedia(u, m)
  BY DEF ApplyMedia
<1>2. PICK u \in CloseSession(v) : x \in SwitchMedia(u, m)
  BY <1>1
<1>3. Tracked(v) /\ SameButPoll(w, v) /\ v.room.poll # "next"
  BY <1>1, DropNextPollOk DEF Recorded
<1>4. /\ Tracked(u) /\ u.open = {} /\ u.room.row = w.room.row
      /\ u.room.poll # "next"
  BY <1>2, <1>3, CloseSessionOk DEF SameButPoll, SameShow
<1> DEFINE r == u.room.row
           sr == [u.row EXCEPT !.media = m, !.brk = NoBreak]
           sc == [r EXCEPT !.media = m, !.brk = NoBreak, !.rate = 1]
           stored == [u EXCEPT !.row = [@ EXCEPT !.media = m, !.brk = NoBreak]]
           switched == Switched(stored, m)
           y == [switched EXCEPT !.ok = TRUE]
<1>5. u \in WorldType /\ u.room \in LiveRoom /\ u.row \in Row /\ r \in Row
  BY <1>4, WorldStatuses DEF Tracked, WType
<1>6. /\ sr \in Row /\ sr.status = u.row.status /\ sr.media = m /\ sr.sid = u.row.sid
  BY <1>5 DEF Row, NoBreak
<1>7. sc \in Row
  BY <1>5, MediaAssumption DEF Row, NoBreak
<1>8. /\ sc.status = r.status /\ sc.media = m /\ sc.sid = r.sid /\ sc.brk = NoBreak
      /\ sc.ver = r.ver
  BY <1>5 DEF Row
<1>9. PICK z \in Statement(u, switched, stored) : x \in IF z.ok THEN RestartClock(z) ELSE {z}
  BY <1>2 DEF SwitchMedia
<1>10. z = y
  BY <1>9, StatementOk
<1>11. /\ stored.row = sr /\ stored.room = u.room /\ stored \in WorldType
       /\ stored.open = u.open /\ stored.nsess = u.nsess /\ stored.pollRows = u.pollRows
  BY <1>5, <1>6 DEF WorldType
<1>12. switched = [stored EXCEPT !.room.row = sc, !.room.pause = NoPause]
  <2>1. stored.room.row = r /\ stored.room \in LiveRoom
    BY <1>5, <1>11
  <2> HIDE DEF sr, stored
  <2>2. switched = [stored EXCEPT !.room.row = [stored.room.row EXCEPT !.media = m, !.brk = NoBreak, !.rate = 1],
                                  !.room.pause = NoPause]
    BY DEF Switched
  <2> QED
    BY <2>1, <2>2
<1> HIDE DEF sr, sc, stored, switched
<1>13. /\ y.row = sr /\ y.room.row = sc /\ y.open = {} /\ y.nsess = u.nsess
       /\ y.pollRows = u.pollRows /\ y.ok /\ y.room.sessionEnded = u.room.sessionEnded
       /\ y.room.poll = u.room.poll /\ y.room \in LiveRoom /\ y \in WorldType
  BY <1>4, <1>5, <1>6, <1>7, <1>11, <1>12 DEF WorldType, LiveRoom, NoPause
<1> HIDE DEF y
<1>14. Tracked(y)
  BY <1>4, <1>6, <1>8, <1>13 DEF Tracked, WType
<1>15. x \in RestartClock(y)
  BY <1>9, <1>10, <1>13
<1> QED
  BY <1>4, <1>8, <1>13, <1>14, <1>15, RestartClockShown DEF SameStatus

\* A room that has ended shows that it is over, and nothing else.
LEMMA EndShown ==
  ASSUME NEW w, NEW x, Tracked(x), x.row.status = "ended", x.room.row.status = "ended"
  PROVE  Shown(w, x)
<1>1. Recorded(x)
  BY DEF Recorded, Mirrors, FilmRecorded
<1>2. ClockStep(w, x)
  BY DEF ClockStep
<1>3. PartyStep(w, x)
  BY DEF PartyStep, SameStatus, SameFilm, FilmOf, PlayingIn, OnBreakIn
<1> QED
  BY <1>1, <1>2, <1>3 DEF Shown

\* endRoomLocked.
LEMMA EndRoomShown ==
  ASSUME Reliable, now \in Nat, NEW w, Recorded(w), NEW x \in EndRoom(w)
  PROVE  Shown(w, x)
<1>1. CASE w.room.row.status = "ended"
  <2>1. x = w
    BY <1>1 DEF EndRoom
  <2> QED
    BY <2>1, Unseen DEF SameShow
<1>2. CASE w.room.row.status # "ended"
  <2>1. PICK u \in CloseSession(w) : x \in EndRow(u)
    BY <1>2 DEF EndRoom
  <2>2. Tracked(u) /\ u.open = {}
    BY <2>1, CloseSessionOk DEF Recorded
  <2> DEFINE sr == IF u.row.status = "ended" THEN u.row ELSE EndedRow(u.row, u.room.row)
             sc == EndedRow(u.room.row, u.room.row)
             stored == IF u.row.status = "ended" THEN u
                       ELSE [u EXCEPT !.row = EndedRow(@, u.room.row)]
             ended == [stored EXCEPT !.room.row = EndedRow(@, @), !.room.pause = NoPause]
             y == [ended EXCEPT !.ok = TRUE]
  <2>3. /\ u \in WorldType /\ u.room \in LiveRoom /\ u.row \in Row /\ u.room.row \in Row
    BY <2>2, WorldStatuses DEF Tracked, WType
  <2>4. sr \in Row /\ sr.status = "ended" /\ sr.sid = u.row.sid
    <3>1. EndedRow(u.row, u.room.row).sid = u.row.sid
      BY <2>3 DEF EndedRow, Row
    <3> QED
      BY <2>3, <3>1, EndedRowFacts
  <2>5. sc \in Row /\ sc.status = "ended" /\ sc.sid = u.room.row.sid
    <3>1. EndedRow(u.room.row, u.room.row).sid = u.room.row.sid
      BY <2>3 DEF EndedRow, Row
    <3> QED
      BY <2>3, <3>1, EndedRowFacts
  <2>6. /\ stored.row = sr /\ stored.room = u.room /\ stored \in WorldType
        /\ stored.open = u.open /\ stored.nsess = u.nsess /\ stored.pollRows = u.pollRows
    <3>1. CASE u.row.status = "ended"
      BY <2>3, <3>1
    <3>2. CASE u.row.status # "ended"
      BY <2>3, <2>4, <3>2 DEF WorldType
    <3> QED
      BY <3>1, <3>2
  <2>7. PICK z \in Statement(u, ended, stored) : x \in IF z.ok THEN ClosePoll(z) ELSE {z}
    BY <2>1 DEF EndRow
  <2>8. z = y
    BY <2>7, StatementOk
  <2>9. ended = [stored EXCEPT !.room.row = sc, !.room.pause = NoPause]
    <3> HIDE DEF sr, stored
    <3> QED
      BY <2>3, <2>6 DEF WorldType, LiveRoom
  <2> HIDE DEF sr, sc, stored, ended
  <2>10. /\ y.row = sr /\ y.room.row = sc /\ y.open = {} /\ y.nsess = u.nsess
         /\ y.pollRows = u.pollRows /\ y.ok /\ y.room.sessionEnded = u.room.sessionEnded
         /\ y.room.poll = u.room.poll /\ y.room \in LiveRoom /\ y \in WorldType
    BY <2>2, <2>3, <2>4, <2>5, <2>6, <2>9 DEF WorldType, LiveRoom, NoPause
  <2> HIDE DEF y
  <2>11. Tracked(y)
    BY <2>2, <2>4, <2>5, <2>10 DEF Tracked, WType, Early
  <2>12. x \in ClosePoll(y)
    BY <2>7, <2>8, <2>10
  <2>13. Tracked(x) /\ SameButPoll(y, x)
    BY <2>11, <2>12, ClosePollOk
  <2> QED
    BY <2>4, <2>5, <2>10, <2>13, EndShown DEF SameButPoll, SameShow
<1> QED
  BY <1>1, <1>2

\* A loaded room adopts an end it finds in the row.
LEMMA AdoptEndShown ==
  ASSUME Reliable, NEW w, Recorded(w), w.row.status = "ended", NEW x \in AdoptEnd(w)
  PROVE  Shown(w, x)
<1>1. PICK v \in CloseSession(w) :
        x = [v EXCEPT !.room.row.status = "ended", !.room.row.playing = FALSE]
  BY DEF AdoptEnd
<1>2. /\ Tracked(v) /\ v.open = {} /\ v.row = w.row
  BY <1>1, CloseSessionOk DEF Recorded
<1>3. v \in WorldType /\ v.room \in LiveRoom /\ v.row \in Row /\ v.room.row \in Row
  BY <1>2, WorldStatuses DEF Tracked, WType
<1> DEFINE n == [v.room.row EXCEPT !.status = "ended", !.playing = FALSE]
<1>4. n \in Row /\ n.status = "ended" /\ n.sid = v.room.row.sid
  BY <1>3 DEF Row, Statuses
<1>5. /\ x.row = v.row /\ x.room.row = n /\ x \in WorldType /\ x.room \in LiveRoom
      /\ x.open = v.open /\ x.nsess = v.nsess /\ x.pollRows = v.pollRows
      /\ x.room.sessionEnded = v.room.sessionEnded /\ x.room.poll = v.room.poll
  BY <1>1, <1>3, <1>4 DEF WorldType, LiveRoom
<1> HIDE DEF n
<1>6. Tracked(x)
  BY <1>2, <1>4, <1>5 DEF Tracked, WType, Early
<1> QED
  BY <1>2, <1>4, <1>5, <1>6, EndShown

\* The UPDATE that opens or starts a room finds it as the copy says, or ended.
LEMMA StatusChangeOk ==
  ASSUME Reliable, NEW w, Recorded(w), NEW from \in Early, w.room.row.status = from,
         NEW to \in {"lobby", "live"}, NEW x \in StatusChange(w, from, to)
  PROVE  \/ /\ x.ok /\ w.row.status = from
            /\ WType(x)
            /\ x.row = [w.row EXCEPT !.status = to]
            /\ x.room.row = [w.room.row EXCEPT !.status = to]
            /\ x.open = w.open /\ x.pollRows = w.pollRows
            /\ x.room.sessionEnded = w.room.sessionEnded /\ x.room.poll = w.room.poll
         \/ ~x.ok /\ Shown(w, x)
<1>1. /\ w \in WorldType /\ w.room \in LiveRoom /\ w.row \in Row /\ w.room.row \in Row
      /\ w.open \subseteq 1..w.nsess
  BY WorldStatuses DEF Recorded, Tracked, WType
<1>2. CASE w.row.status # from
  <2>1. w.row.status = "ended" /\ w.room.row.status # "ended"
    BY <1>2 DEF Recorded, Tracked, Early
  <2>2. PICK v \in AdoptEnd(w) : x = [v EXCEPT !.ok = FALSE]
    BY <1>2, <2>1 DEF StatusChange, StatusDrift
  <2>3. Shown(w, v)
    BY <2>1, <2>2, AdoptEndShown
  <2>4. /\ WType(x) /\ x.row = v.row /\ x.room = v.room /\ x.open = v.open
        /\ x.pollRows = v.pollRows /\ x.ok = FALSE
    <3>1. WType(v) /\ FALSE \in BOOLEAN
      BY <2>3 DEF Shown, Recorded, Tracked
    <3> QED
      BY <2>2, <3>1, OutcomeKept
  <2>5. Tracked(x)
    BY <2>3, <2>4 DEF Shown, Recorded, Tracked
  <2>6. x.row.status = "ended" /\ x.room.row.status = "ended"
    <3>1. PICK u \in CloseSession(w) :
            v = [u EXCEPT !.room.row.status = "ended", !.room.row.playing = FALSE]
      BY <2>2 DEF AdoptEnd
    <3>2. WType(u) /\ SameClock(w, u)
      BY <3>1, CloseSessionFacts DEF Recorded, Tracked
    <3>3. u \in WorldType /\ u.room \in LiveRoom /\ u.room.row \in Row
      BY <3>2, WorldStatuses DEF WType
    <3>4. v.row = u.row /\ v.room.row = [u.room.row EXCEPT !.status = "ended", !.playing = FALSE]
      BY <3>1, <3>3 DEF WorldType, LiveRoom
    <3>5. v.room.row.status = "ended"
      BY <3>3, <3>4 DEF Row
    <3> QED
      BY <2>1, <2>4, <3>2, <3>4, <3>5 DEF SameClock
  <2> QED
    BY <2>4, <2>5, <2>6, EndShown
<1>3. CASE w.row.status = from
  <2> DEFINE sr == [w.row EXCEPT !.status = to]
             sc == [w.room.row EXCEPT !.status = to]
             stored == [w EXCEPT !.row.status = to]
             done == [stored EXCEPT !.room.row.status = to]
             room1 == [w.room EXCEPT !.row = sc]
  <2>1. sr \in Row /\ sc \in Row
    BY <1>1 DEF Row, Statuses
  <2>2. x = [done EXCEPT !.ok = TRUE]
    BY <1>3, StatementOk DEF StatusChange
  <2>3. x = [w EXCEPT !.row = sr, !.room = room1, !.ok = TRUE]
    BY <1>1, <2>2 DEF WorldType, LiveRoom
  <2> HIDE DEF sr, sc
  <2>4. /\ x.row = sr /\ x.room.row = sc /\ x.open = w.open /\ x.nsess = w.nsess
        /\ x.pollRows = w.pollRows /\ x.room.sessionEnded = w.room.sessionEnded
        /\ x.room.poll = w.room.poll /\ x.ok /\ x \in WorldType
    BY <1>1, <2>1, <2>3 DEF WorldType, LiveRoom
  <2> QED
    BY <1>1, <1>3, <2>4 DEF sr, sc, WType
<1> QED
  BY <1>2, <1>3

\* openRoomLocked.
LEMMA OpenRoomShown ==
  ASSUME Reliable, NEW w, Recorded(w), w.room.row.status = "scheduled",
         NEW x \in StatusChange(w, "scheduled", "lobby")
  PROVE  Shown(w, x)
<1>1. "scheduled" \in Early /\ "lobby" \in {"lobby", "live"} /\ "lobby" \in Early
  BY DEF Early
<1>2. \/ /\ x.ok /\ w.row.status = "scheduled"
         /\ WType(x)
         /\ x.row = [w.row EXCEPT !.status = "lobby"]
         /\ x.room.row = [w.room.row EXCEPT !.status = "lobby"]
         /\ x.open = w.open /\ x.pollRows = w.pollRows
         /\ x.room.sessionEnded = w.room.sessionEnded /\ x.room.poll = w.room.poll
      \/ Shown(w, x)
  BY <1>1, StatusChangeOk
<1>3. SUFFICES ASSUME /\ x.ok /\ w.row.status = "scheduled"
                      /\ WType(x)
                      /\ x.row = [w.row EXCEPT !.status = "lobby"]
                      /\ x.room.row = [w.room.row EXCEPT !.status = "lobby"]
                      /\ x.open = w.open /\ x.pollRows = w.pollRows
                      /\ x.room.sessionEnded = w.room.sessionEnded
                      /\ x.room.poll = w.room.poll
               PROVE  Shown(w, x)
  BY <1>2
<1>4. w.row \in Row /\ w.room.row \in Row /\ w.room.row = w.row
  BY <1>3, WorldStatuses DEF Recorded, Tracked, Mirrors
<1>5. /\ x.row.status = "lobby" /\ x.row.sid = w.row.sid /\ x.row.media = w.row.media
      /\ x.row.brk = w.row.brk /\ x.room.row = x.row
  BY <1>3, <1>4 DEF Row
<1>6. Tracked(x)
  BY <1>1, <1>3, <1>4, <1>5 DEF Recorded, Tracked
<1>7. Recorded(x)
  BY <1>5, <1>6 DEF Recorded, Mirrors, FilmRecorded
<1>8. SameFilm(w, x)
  BY <1>3, <1>4, <1>5 DEF SameFilm, FilmOf
<1> QED
  BY <1>5, <1>7, <1>8 DEF Shown, PartyStep, ClockStep

\* handleStart: the status, the first session and the countdown.
LEMMA StartShown ==
  ASSUME Reliable, now \in Nat, NEW w, Recorded(w), w.room.row.status = "lobby",
         NEW pos \in Int, NEW delay \in Nat, NEW u \in StatusChange(w, "lobby", "live"),
         NEW x \in IF u.ok THEN Started(u, pos, delay) ELSE {u}
  PROVE  Shown(w, x)
<1>1. "lobby" \in Early /\ "live" \in {"lobby", "live"} /\ "live" \notin Early
  BY DEF Early
<1>2. \/ /\ u.ok /\ w.row.status = "lobby"
         /\ WType(u)
         /\ u.row = [w.row EXCEPT !.status = "live"]
         /\ u.room.row = [w.room.row EXCEPT !.status = "live"]
         /\ u.open = w.open /\ u.pollRows = w.pollRows
         /\ u.room.sessionEnded = w.room.sessionEnded /\ u.room.poll = w.room.poll
      \/ ~u.ok /\ Shown(w, u)
  BY <1>1, StatusChangeOk
<1>3. SUFFICES ASSUME /\ u.ok /\ w.row.status = "lobby"
                      /\ WType(u)
                      /\ u.row = [w.row EXCEPT !.status = "live"]
                      /\ u.room.row = [w.room.row EXCEPT !.status = "live"]
                      /\ u.open = w.open /\ u.pollRows = w.pollRows
                      /\ u.room.sessionEnded = w.room.sessionEnded
                      /\ u.room.poll = w.room.poll
               PROVE  Shown(w, x)
  BY <1>2
<1>4. w.row \in Row /\ w.room.row \in Row /\ w.room.row = w.row
  BY <1>3, WorldStatuses DEF Recorded, Tracked, Mirrors
<1>5. /\ u.row.status = "live" /\ u.row.sid = w.row.sid /\ u.row.media = w.row.media
      /\ u.row.brk = w.row.brk /\ u.room.row = u.row
  BY <1>3, <1>4 DEF Row
<1>6. w.row.sid = NoSession /\ w.room.poll # "next" /\ w.row.brk = NoBreak
  BY <1>1, <1>4 DEF Recorded, Tracked
<1>7. Tracked(u)
  BY <1>1, <1>3, <1>5 DEF Recorded, Tracked
<1>8. u.open = {}
  BY <1>3, <1>5, <1>6, <1>7 DEF Tracked, WType, NoSession
<1>9. PICK v \in OpenSession(u) : x \in IF v.ok THEN StartCountdownAfter(v, pos, delay) ELSE {v}
  BY <1>3, <1>5, <1>6 DEF Started
<1>10. u.room.row.status = "live" /\ u.room.row.brk = NoBreak /\ u.room.poll # "next"
  BY <1>3, <1>5, <1>6
<1>11. /\ Recorded(x) /\ x.room.row.status = "live"
       /\ FilmOf(x) = "running" /\ PlayingIn(x) /\ ~OnBreakIn(x)
  <2>1. v.ok => x \in StartCountdownAfter(v, pos, delay)
    BY <1>9
  <2>2. Tracked(u) /\ u.open = {}
    BY <1>7, <1>8
  <2> QED
    BY <1>10, <2>1, <2>2, NewSessionShown
<1> QED
  BY <1>11 DEF Shown, PartyStep, ClockStep

-----------------------------------------------------------------------------
(* A room that is not loaded is seen as its row would be loaded. *)

\* The one open poll of the table, or none.
PollOf(polls) == IF polls = {} THEN "none" ELSE CHOOSE p \in polls : TRUE

ShadowOf(r, sessions, newest, polls) ==
  [row |-> r, open |-> sessions, nsess |-> newest, pollRows |-> polls,
   room |-> [row |-> r, sessionEnded |-> r.sid # NoSession /\ r.sid \notin sessions,
             countdownS |-> NoCountdown, pause |-> NoPause, poll |-> PollOf(polls)],
   ok |-> TRUE]

Shadow == ShadowOf(row, open, nsess, pollRows)

\* What there is to see of the room, in memory or out of it.
Seeing == IF Loaded THEN World ELSE Shadow

\* The inductive invariant.
RecInv == IInv /\ Recorded(Seeing)

\* The types of what the tables hold.
Stored(r, sessions, newest, polls) ==
  r \in Row /\ newest \in Nat /\ sessions \subseteq 1..newest /\ polls \subseteq PollKinds

\* What Recorded asks of a shadow.
Shadows(s, r, sessions, polls) ==
  /\ WType(s) /\ s.row = r /\ s.open = sessions /\ s.pollRows = polls
  /\ s.room.row = r /\ s.room.poll = PollOf(polls)
  /\ s.room.sessionEnded = (r.sid # NoSession /\ r.sid \notin sessions)

\* The shadow of well-typed tables is a world.
LEMMA ShadowFacts ==
  ASSUME NEW r, NEW sessions, NEW newest, NEW polls, Stored(r, sessions, newest, polls)
  PROVE  Shadows(ShadowOf(r, sessions, newest, polls), r, sessions, polls)
<1> DEFINE over == r.sid # NoSession /\ r.sid \notin sessions
           copy == [row |-> r, sessionEnded |-> over, countdownS |-> NoCountdown,
                    pause |-> NoPause, poll |-> PollOf(polls)]
           s == ShadowOf(r, sessions, newest, polls)
<1>1. PollOf(polls) \in PollKinds \cup {"none"}
  BY DEF PollOf, Stored
<1>2. over \in BOOLEAN
  OBVIOUS
<1>3. s = [row |-> r, open |-> sessions, nsess |-> newest, pollRows |-> polls,
           room |-> copy, ok |-> TRUE]
  BY DEF ShadowOf
<1> HIDE DEF over, s
<1>4. copy \in LiveRoom /\ copy.row = r /\ copy.sessionEnded = over /\ copy.poll = PollOf(polls)
  BY <1>1, <1>2 DEF LiveRoom, NoCountdown, NoPause, Stored
<1> HIDE DEF copy
<1>5. /\ s \in WorldType /\ s.row = r /\ s.open = sessions /\ s.pollRows = polls
      /\ s.room = copy /\ s.nsess = newest
  BY <1>3, <1>4 DEF WorldType, Stored
<1>6. WType(s)
  BY <1>5 DEF WType, Stored
<1> QED
  BY <1>4, <1>5, <1>6 DEF over, s, Shadows

\* A step to a world that shows the same.
LEMMA ShownThen ==
  ASSUME NEW u, NEW w, NEW v, Shown(u, w), SameShow(w, v), Recorded(v)
  PROVE  Shown(u, v)
<1>1. /\ SameStatus(u, v) <=> SameStatus(u, w)
      /\ FilmOf(v) = FilmOf(w)
      /\ PlayingIn(v) <=> PlayingIn(w)
      /\ OnBreakIn(v) <=> OnBreakIn(w)
  BY DEF SameShow, SameStatus, FilmOf, PlayingIn, OnBreakIn
<1>2. SameFilm(u, v) <=> SameFilm(u, w)
  BY <1>1 DEF SameFilm
<1>3. v.room.row = w.room.row
  BY DEF SameShow
<1>4. ClockStep(u, v)
  BY <1>3 DEF Shown, ClockStep
<1>5. PartyStep(u, v)
  BY <1>1, <1>2, <1>3 DEF Shown, PartyStep
<1> QED
  BY <1>4, <1>5 DEF Shown

\* Forgetting the copy shows nothing, or the end the row already has.
LEMMA ForgetShown ==
  ASSUME NEW u, NEW w, Shown(u, w), NEW newest, newest = w.nsess
  PROVE  Shown(u, ShadowOf(w.row, w.open, newest, w.pollRows))
<1> DEFINE s == ShadowOf(w.row, w.open, newest, w.pollRows)
<1>1. Tracked(w) /\ Mirrors(w) /\ FilmRecorded(w)
  BY DEF Shown, Recorded
<1>2. /\ w.row \in Row /\ w.room \in LiveRoom /\ newest \in Nat
      /\ w.open \subseteq 1..newest /\ w.pollRows \subseteq PollKinds
      /\ w.room.poll \in PollKinds \cup {"none"}
  BY <1>1, WorldStatuses DEF Tracked, WType, WorldType, LiveRoom
<1>3. Shadows(s, w.row, w.open, w.pollRows)
  BY <1>2, ShadowFacts DEF Stored
<1> HIDE DEF s
<1>10. /\ WType(s) /\ s.row = w.row /\ s.open = w.open /\ s.pollRows = w.pollRows
       /\ s.room.row = w.row /\ s.room.poll = PollOf(w.pollRows)
       /\ s.room.sessionEnded = (w.row.sid # NoSession /\ w.row.sid \notin w.open)
  BY <1>3 DEF Shadows
<1>4. PollOf(w.pollRows) = w.room.poll
  BY <1>1, <1>2 DEF Tracked, PollOf
<1>5. w.room.sessionEnded \in BOOLEAN /\ s.room.sessionEnded \in BOOLEAN
  BY <1>2, <1>10, WorldStatuses DEF LiveRoom
<1>6. s.room.sessionEnded = w.room.sessionEnded
  BY <1>1, <1>10, <1>5 DEF Tracked
<1>7. Tracked(s)
  <2>1. s.room.row.status \in Early => w.room.row = w.row
    BY <1>1, <1>10 DEF Mirrors, Early
  <2> QED
    BY <1>1, <1>10, <1>4, <2>1 DEF Tracked
<1>8. CASE w.row.status = "ended"
  <2>1. Shown(u, s)
    BY <1>10, <1>7, <1>8, EndShown
  <2> QED
    BY <2>1 DEF s
<1>9. CASE w.row.status # "ended"
  <2>1. w.room.row = w.row
    BY <1>1, <1>9 DEF Mirrors
  <2>2. SameShow(w, s)
    BY <1>10, <1>6, <2>1 DEF SameShow
  <2>3. Recorded(s)
    BY <1>1, <1>10, <1>4, <1>6, <1>7, <2>1 DEF Recorded, Mirrors, FilmRecorded
  <2>4. Shown(u, s)
    BY <2>2, <2>3, ShownThen
  <2> QED
    BY <2>4 DEF s
<1> QED
  BY <1>8, <1>9

\* A step that writes the world w into the variables.
LEMMA Lands ==
  ASSUME IInv', NEW u, NEW w, Shown(u, w),
         row' = w.row, open' = w.open, nsess' = w.nsess, pollRows' = w.pollRows,
         room' = w.room
  PROVE  Shown(u, Seeing')
<1>1. CASE Loaded'
  <2> DEFINE v == World'
  <2>1. v.row = w.row /\ v.open = w.open /\ v.pollRows = w.pollRows /\ v.room = w.room
    BY DEF World
  <2>2. WType(v)
    BY <1>1 DEF IInv, WInv, WType, World
  <2> HIDE DEF v
  <2>3. SameRecords(w, v) /\ SameShow(w, v)
    BY <2>1 DEF SameRecords, SameShow
  <2>4. Recorded(v)
    BY <2>2, <2>3, SameRecordsKept DEF Shown
  <2>5. Shown(u, v)
    BY <2>3, <2>4, ShownThen
  <2> QED
    BY <1>1, <2>5 DEF v, Seeing
<1>2. CASE ~Loaded'
  <2>1. Shown(u, ShadowOf(w.row, w.open, w.nsess, w.pollRows))
    BY ForgetShown
  <2>2. Seeing' = ShadowOf(w.row, w.open, w.nsess, w.pollRows)
    BY <1>2 DEF Seeing, Shadow
  <2> QED
    BY <2>1, <2>2
<1> QED
  BY <1>1, <1>2

-----------------------------------------------------------------------------
(* The steps *)

StepShown == Shown(Seeing, Seeing')

\* What a handler finds when the room is loaded.
LEMMA Finds ==
  ASSUME RecInv, Loaded
  PROVE  /\ Recorded(World) /\ Seeing = World /\ now \in Nat
         /\ World.room = room /\ World.row = row /\ World.room.row = room.row
         /\ World.open = open /\ World.pollRows = pollRows /\ World.nsess = nsess
         /\ room \in LiveRoom /\ room.row \in Row /\ row \in Row
  BY WorldFacts DEF RecInv, Seeing, World

\* A handler that commits a world that shows what it may.
LEMMA CommitShown ==
  ASSUME RecInv, IInv', Loaded, NEW w, Shown(World, w), Commit(w)
  PROVE  StepShown
<1>1. Shown(Seeing, w)
  BY Finds
<1>2. /\ row' = w.row /\ open' = w.open /\ nsess' = w.nsess /\ pollRows' = w.pollRows
      /\ room' = w.room
  BY DEF Commit
<1> QED
  BY <1>1, <1>2, Lands DEF StepShown

\* Steps that leave the tables and the copy alone.
LEMMA StillShown ==
  ASSUME RecInv, UNCHANGED <<row, open, nsess, pollRows, room>>
  PROVE  StepShown
<1>1. Seeing' = Seeing
  BY DEF Seeing, Loaded, World, Shadow
<1>2. Shown(Seeing, Seeing)
  <2>1. SameShow(Seeing, Seeing)
    BY DEF SameShow
  <2> QED
    BY <2>1, Unseen DEF RecInv
<1> QED
  BY <1>1, <1>2 DEF StepShown

\* Eviction and a crash.
LEMMA ForgottenShown ==
  ASSUME RecInv, Evict \/ Crash
  PROVE  StepShown
<1>1. /\ ~Loaded' /\ Loaded /\ UNCHANGED <<row, open, nsess, pollRows>>
  BY DEF Evict, Crash, Loaded
<1>2. Shown(World, World)
  BY <1>1, Finds, Unseen DEF SameShow
<1>3. Shown(World, ShadowOf(row, open, nsess, pollRows))
  <2>1. Shown(World, ShadowOf(World.row, World.open, nsess, World.pollRows))
    BY <1>1, <1>2, Finds, ForgetShown
  <2> QED
    BY <1>1, <2>1, Finds
<1>4. Seeing' = ShadowOf(row, open, nsess, pollRows)
  BY <1>1 DEF Seeing, Shadow
<1> QED
  BY <1>1, <1>3, <1>4, Finds DEF StepShown

\* What there is to see of a room that is not loaded.
LEMMA ShadowSeen ==
  ASSUME RecInv, ~Loaded
  PROVE  /\ Seeing = Shadow /\ Recorded(Shadow)
         /\ row \in Row /\ now \in Nat /\ nsess \in Nat /\ open \subseteq 1..nsess
         /\ pollRows \subseteq PollKinds
         /\ Shadow.row = row /\ Shadow.open = open /\ Shadow.pollRows = pollRows
         /\ Shadow.room.row = row /\ Shadow.room.poll = PollOf(pollRows)
         /\ Shadow.room.sessionEnded = SessionOver(row)
<1>1. Stored(row, open, nsess, pollRows)
  BY DEF RecInv, IInv, TypeOK, Stored
<1>2. Shadows(Shadow, row, open, pollRows)
  BY <1>1, ShadowFacts DEF Shadow
<1>3. Seeing = Shadow /\ Recorded(Shadow)
  BY DEF Seeing, RecInv
<1> QED
  BY <1>1, <1>2, <1>3 DEF Stored, Shadows, SessionOver, RecInv, IInv, TypeOK

\* loadRoom: the room comes back as it was, without a break that ran out.
LEMMA LoadShown ==
  ASSUME Reliable, RecInv, IInv', Load
  PROVE  StepShown
<1> DEFINE r == LoadedRow(row)
           w == [row |-> r, open |-> open, nsess |-> nsess, pollRows |-> pollRows,
                 room |-> room', ok |-> TRUE]
<1>1. PICK p \in IF pollRows = {} THEN {"none"} ELSE pollRows :
        room' = [row |-> r, sessionEnded |-> SessionOver(row),
                 countdownS |-> NoCountdown, pause |-> NoPause, poll |-> p]
  BY DEF Load
<1>2. /\ row' = r /\ ~Loaded /\ open' = open /\ nsess' = nsess /\ pollRows' = pollRows
  BY DEF Load, Reliable
<1>3. /\ Seeing = Shadow /\ Recorded(Shadow)
      /\ row \in Row /\ now \in Nat /\ nsess \in Nat /\ open \subseteq 1..nsess
      /\ pollRows \subseteq PollKinds
      /\ Shadow.row = row /\ Shadow.open = open /\ Shadow.pollRows = pollRows
      /\ Shadow.room.row = row /\ Shadow.room.poll = PollOf(pollRows)
      /\ Shadow.room.sessionEnded = SessionOver(row)
  BY <1>2, ShadowSeen
<1>4. /\ r \in Row /\ r.status = row.status /\ r.sid = row.sid /\ r.media = row.media
      /\ r.playing = row.playing /\ r.pos = row.pos /\ r.rate = row.rate /\ r.upd = row.upd
      /\ r.ver = row.ver /\ r.brk \in {row.brk, NoBreak}
  BY <1>3 DEF LoadedRow, Row, NoBreak
<1>5. p = PollOf(pollRows)
  <2>1. pollRows = {Shadow.room.poll} \ {"none"}
    BY <1>3 DEF Recorded, Tracked
  <2> QED
    BY <1>1, <1>3, <2>1 DEF PollOf
<1>6. SessionOver(row) \in BOOLEAN /\ p \in PollKinds \cup {"none"}
  BY <1>1, <1>3 DEF SessionOver
<1> HIDE DEF r
<1>7. /\ room' \in LiveRoom /\ room'.row = r /\ room'.sessionEnded = SessionOver(row)
      /\ room'.poll = p
  BY <1>1, <1>4, <1>6 DEF LiveRoom, NoCountdown, NoPause
<1>8. /\ w.row = r /\ w.open = open /\ w.nsess = nsess /\ w.pollRows = pollRows
      /\ w.room = room' /\ w \in WorldType
  BY <1>3, <1>4, <1>7 DEF WorldType
<1> HIDE DEF w
<1>9. WType(w)
  BY <1>3, <1>8 DEF WType
<1>10. Tracked(w)
  <2>1. Tracked(Shadow)
    BY <1>3 DEF Recorded
  <2> QED
    BY <1>3, <1>4, <1>5, <1>7, <1>8, <1>9, <2>1 DEF Tracked
<1>11. FilmRecorded(w)
  BY <1>3, <1>4, <1>5, <1>7, <1>8 DEF FilmRecorded, Recorded
<1>12. Recorded(w)
  BY <1>7, <1>8, <1>10, <1>11 DEF Recorded, Mirrors
<1>13. /\ SameStatus(Shadow, w) /\ SameFilm(Shadow, w)
       /\ PlayingIn(w) <=> PlayingIn(Shadow)
       /\ OnBreakIn(w) => OnBreakIn(Shadow)
  BY <1>3, <1>4, <1>7, <1>8 DEF SameStatus, SameFilm, FilmOf, PlayingIn, OnBreakIn
<1>14. PartyStep(Shadow, w)
  BY <1>13 DEF PartyStep
<1>15. ClockStep(Shadow, w)
  BY <1>3, <1>4, <1>7, <1>8 DEF ClockStep
<1>16. Shown(Seeing, w)
  BY <1>3, <1>12, <1>14, <1>15 DEF Shown
<1> QED
  BY <1>2, <1>8, <1>16, Lands DEF StepShown

\* The admin panel ends the row: a loaded room does not know yet.
LEMMA ExternalEndShown ==
  ASSUME RecInv, IInv', ExternalEnd
  PROVE  StepShown
<1>1. /\ row' = [row EXCEPT !.status = "ended"] /\ open' = open /\ nsess' = nsess
      /\ pollRows' = pollRows /\ room' = room
  BY DEF ExternalEnd
<1> DEFINE w == [row |-> row', open |-> open, nsess |-> nsess, pollRows |-> pollRows,
                 room |-> Seeing.room, ok |-> TRUE]
<1>2. /\ Recorded(Seeing) /\ Seeing.row = row /\ Seeing.open = open
      /\ Seeing.pollRows = pollRows /\ Seeing.nsess = nsess
  BY Finds, ShadowSeen DEF RecInv, Shadow, ShadowOf, Seeing, World
<1>3. Seeing \in WorldType /\ open \subseteq 1..nsess /\ row \in Row
  BY <1>2 DEF Recorded, Tracked, WType, WorldType
<1>4. row' \in Row /\ row'.status = "ended" /\ row'.sid = row.sid /\ row'.media = row.media
  BY <1>1, <1>3 DEF Row, Statuses
<1>5. /\ w \in WorldType /\ w.row = row' /\ w.open = open /\ w.nsess = nsess
      /\ w.pollRows = pollRows /\ w.room = Seeing.room
  BY <1>2, <1>3, <1>4 DEF WorldType
<1> HIDE DEF w
<1>6. Tracked(w)
  BY <1>2, <1>3, <1>4, <1>5 DEF Recorded, Tracked, WType
<1>7. SameShow(Seeing, w) /\ Recorded(w)
  BY <1>2, <1>4, <1>5, <1>6 DEF SameShow, Recorded, Mirrors, FilmRecorded
<1>8. Shown(Seeing, w)
  BY <1>7, Unseen
<1>9. CASE Loaded
  <2>1. room' = w.room
    BY <1>1, <1>5, <1>9, Finds
  <2> QED
    BY <1>1, <1>5, <1>8, <2>1, Lands DEF StepShown
<1>10. CASE ~Loaded
  <2>1. Shown(Seeing, ShadowOf(row', open, nsess, pollRows))
    BY <1>5, <1>8, ForgetShown
  <2>2. Seeing' = ShadowOf(row', open, nsess, pollRows)
    BY <1>1, <1>10 DEF Seeing, Shadow, Loaded
  <2> QED
    BY <2>1, <2>2 DEF StepShown
<1> QED
  BY <1>9, <1>10

\* A handler that first drops the countdown, the pause request or both.
LEMMA DroppedSame ==
  ASSUME NEW w, Recorded(w), NEW c \in Nat, NEW p \in Nat
  PROVE  /\ Recorded(Dropped(w, c, p)) /\ SameRecords(w, Dropped(w, c, p))
         /\ SameShow(w, Dropped(w, c, p))
<1> DEFINE d == Dropped(w, c, p)
           n == [w.room EXCEPT !.countdownS = c, !.pause = p]
<1>1. w \in WorldType /\ w.room \in LiveRoom /\ w.open \subseteq 1..w.nsess
  BY DEF Recorded, Tracked, WType, WorldType
<1>2. /\ n \in LiveRoom /\ n.row = w.room.row /\ n.sessionEnded = w.room.sessionEnded
      /\ n.poll = w.room.poll
  BY <1>1 DEF LiveRoom
<1>3. d = [w EXCEPT !.room = n]
  BY <1>1 DEF WorldType, LiveRoom, Dropped
<1> HIDE DEF n, d
<1>4. /\ d.row = w.row /\ d.open = w.open /\ d.nsess = w.nsess /\ d.pollRows = w.pollRows
      /\ d.room = n /\ d \in WorldType
  BY <1>1, <1>2, <1>3 DEF WorldType
<1>5. WType(d) /\ SameRecords(w, d) /\ SameShow(w, d)
  BY <1>1, <1>2, <1>4 DEF WType, SameRecords, SameShow
<1> QED
  BY <1>5, SameRecordsKept DEF d

\* A handler that drops a countdown and a pause request has shown nothing yet.
LEMMA SettledSame ==
  ASSUME RecInv, Loaded
  PROVE  Recorded(Settled) /\ SameShow(World, Settled) /\ Settled.room.row = room.row
<1>1. Settled = Dropped(World, NoCountdown, NoPause)
  BY DEF Settled, Dropped
<1>2. NoPause \in Nat /\ NoCountdown \in Nat
  BY DEF NoPause, NoCountdown
<1>3. Recorded(World) /\ World.room.row = room.row
  BY Finds
<1> QED
  BY <1>1, <1>2, <1>3, DroppedSame DEF SameShow

\* A control of a live room that is not on a break plays only what is open.
LEMMA ControlShown ==
  ASSUME NEW w, Recorded(w), w.room.row.status = "live", w.room.row.brk = NoBreak,
         NEW playing \in BOOLEAN, playing => ~w.room.sessionEnded,
         NEW x, Played(w, x, playing)
  PROVE  Shown(w, x)
<1>1. /\ Tracked(x) /\ Mirrors(x)
      /\ x.room.row.status = "live" /\ x.room.row.brk = NoBreak
      /\ x.room.row.sid = w.room.row.sid /\ x.room.sessionEnded = w.room.sessionEnded
      /\ x.room.poll = w.room.poll /\ x.room.row.playing = playing
      /\ x.room.row.ver > w.room.row.ver
  BY DEF Played, SameStatus
<1>2. FilmRecorded(x)
  BY <1>1 DEF Recorded, FilmRecorded
<1>3. SameStatus(w, x) /\ SameFilm(w, x) /\ ~OnBreakIn(w) /\ ~OnBreakIn(x)
  BY <1>1 DEF SameStatus, SameFilm, FilmOf, OnBreakIn
<1>4. PlayingIn(w) \/ PlayingIn(x) => FilmOf(w) = "running"
  BY <1>1 DEF PlayingIn, FilmOf, Recorded, FilmRecorded
<1>5. PartyStep(w, x)
  BY <1>3, <1>4 DEF PartyStep
<1> QED
  BY <1>1, <1>2, <1>5 DEF Shown, Recorded, ClockStep

\* play, pause, seek and the rate, after what they drop.
LEMMA SetClockShown ==
  ASSUME RecInv, Reliable, Loaded, room.row.status = "live", room.row.brk = NoBreak,
         NEW d, Recorded(d), SameShow(World, d),
         NEW playing \in BOOLEAN, playing => ~room.sessionEnded,
         NEW pos \in Int, NEW rate \in Rates, NEW upd \in Nat,
         NEW x \in SetPlayback(d, pos, playing, rate, upd)
  PROVE  Shown(World, x)
<1>1. d.room.row = room.row /\ d.room.sessionEnded = room.sessionEnded
  BY Finds DEF SameShow
<1>2. Played(d, x, playing)
  BY SetPlaybackOk DEF Recorded
<1>3. Shown(d, x)
  BY <1>1, <1>2, ControlShown
<1> QED
  BY <1>3, ShownAfter

\* play: at once, or counting down into a new session after the film.
LEMMA PlayShown ==
  ASSUME Reliable, RecInv, IInv', Play
  PROVE  StepShown
<1>1. Loaded /\ room.row.status = "live" /\ room.row.brk = NoBreak
  BY DEF Play, LiveControl, UserActs
<1>2. Recorded(Settled) /\ SameShow(World, Settled) /\ Settled.room.row = room.row
  BY <1>1, SettledSame
<1>3. /\ now \in Nat /\ room.row \in Row /\ room.row.rate \in Rates
      /\ World.room = room
  BY <1>1, Finds DEF Row
<1> DEFINE pos == PlayPosition
<1>4. pos \in Int
  BY <1>3, ExpectedType DEF PlayPosition
<1>5. CASE room.sessionEnded
  <2>1. PICK w \in DropNextPoll(Settled) : \E v \in OpenSession(w) :
           \E x \in IF v.ok THEN StartCountdown(v, pos) ELSE {v} : Commit(x)
    BY <1>5 DEF Play
  <2>2. PICK v \in OpenSession(w) :
           \E x \in IF v.ok THEN StartCountdown(v, pos) ELSE {v} : Commit(x)
    BY <2>1
  <2>3. PICK x \in IF v.ok THEN StartCountdown(v, pos) ELSE {v} : Commit(x)
    BY <2>2
  <2> HIDE DEF pos
  <2>4. Tracked(w) /\ SameButPoll(Settled, w) /\ w.room.poll # "next"
    BY <1>2, <2>1, DropNextPollOk DEF Recorded
  <2>5. /\ w.room.row = room.row /\ w.room.sessionEnded /\ SameShow(World, w)
    BY <1>2, <1>3, <1>5, <2>4 DEF SameButPoll, SameShow
  <2>6. w.open = {}
    BY <2>4, <2>5 DEF Tracked
  <2>7. v.ok => x \in StartCountdownAfter(v, pos, Countdown)
    BY <2>3 DEF StartCountdown
  <2>8. Countdown \in Nat
    BY TimingAssumption
  <2>9. /\ Recorded(x) /\ x.room.row.status = "live"
        /\ FilmOf(x) = "running" /\ PlayingIn(x) /\ ~OnBreakIn(x)
        /\ x.room.row.ver > w.room.row.ver
    BY <1>1, <1>3, <1>4, <2>2, <2>4, <2>5, <2>6, <2>7, <2>8, NewSessionShown
  <2>10. Shown(World, x)
    BY <1>1, <1>3, <2>5, <2>9 DEF Shown, PartyStep, ClockStep, SameStatus
  <2> QED
    BY <1>1, <2>3, <2>10, CommitShown
<1>6. CASE ~room.sessionEnded
  <2> DEFINE playing == TRUE
  <2>1. PICK x \in SetPlayback(Settled, pos, playing, room.row.rate, now) : Commit(x)
    BY <1>6 DEF Play
  <2>2. playing \in BOOLEAN /\ (playing => ~room.sessionEnded)
    BY <1>6
  <2> HIDE DEF playing, pos
  <2>3. Shown(World, x)
    BY <1>1, <1>2, <1>3, <1>4, <2>1, <2>2, SetClockShown
  <2> QED
    BY <1>1, <2>1, <2>3, CommitShown
<1> QED
  BY <1>5, <1>6

\* pause, seek and the rate.
LEMMA ClockShown ==
  ASSUME Reliable, RecInv, IInv', Pause \/ Seek \/ SetRate
  PROVE  StepShown
<1>1. Loaded /\ room.row.status = "live" /\ room.row.brk = NoBreak
  BY DEF Pause, Seek, SetRate, LiveControl, UserActs
<1>2. /\ Recorded(World) /\ now \in Nat /\ room \in LiveRoom /\ room.row \in Row
      /\ room.row.rate \in Rates /\ World.room.row = room.row /\ room.row.upd \in Nat
      /\ room.row.pos \in Int /\ room.row.playing \in BOOLEAN
      /\ World.room = room /\ Expected(room.row) \in Int
  BY <1>1, Finds, ExpectedType DEF Row
<1>3. room.row.playing => ~room.sessionEnded
  BY <1>1, <1>2 DEF Recorded, FilmRecorded
<1>4. Recorded(World) /\ SameShow(World, World)
  BY <1>2 DEF SameShow
<1>5. CASE Pause
  <2> DEFINE playing == FALSE
  <2>1. PICK x \in SetPlayback(Settled, Expected(room.row), playing, room.row.rate, now) :
          Commit(x)
    BY <1>5 DEF Pause
  <2>2. playing \in BOOLEAN /\ (playing => ~room.sessionEnded)
    OBVIOUS
  <2> HIDE DEF playing
  <2>3. Recorded(Settled) /\ SameShow(World, Settled)
    BY <1>1, SettledSame
  <2>4. Shown(World, x)
    BY <1>1, <1>2, <2>1, <2>2, <2>3, SetClockShown
  <2> QED
    BY <1>1, <2>1, <2>4, CommitShown
<1>6. ASSUME NEW pos \in Int, NEW rate \in Rates, CountingDown(room.row),
             NEW x \in SetPlayback(World, pos, TRUE, rate, room.row.upd)
      PROVE  Shown(World, x)
  <2> DEFINE playing == TRUE
  <2>1. playing \in BOOLEAN /\ (playing => ~room.sessionEnded)
        /\ x \in SetPlayback(World, pos, playing, rate, room.row.upd)
    BY <1>3, <1>6 DEF CountingDown
  <2> HIDE DEF playing
  <2> QED
    BY <1>1, <1>2, <1>4, <2>1, SetClockShown
<1>7. CASE Seek
  <2>1. PICK pos \in Positions :
          \E x \in IF CountingDown(room.row)
                   THEN SetPlayback(World, pos, TRUE, room.row.rate, room.row.upd)
                   ELSE SetPlayback([World EXCEPT !.room.countdownS = NoCountdown], pos,
                                    room.row.playing /\ ~room.sessionEnded, room.row.rate, now) :
             Commit(x)
    BY <1>7 DEF Seek
  <2>2. pos \in Int
    BY MediaAssumption
  <2>3. CASE CountingDown(room.row)
    BY <1>1, <1>2, <1>6, <2>1, <2>2, <2>3, CommitShown
  <2>4. CASE ~CountingDown(room.row)
    <3> DEFINE d == [World EXCEPT !.room.countdownS = NoCountdown]
               playing == room.row.playing /\ ~room.sessionEnded
    <3>1. PICK x \in SetPlayback(d, pos, playing, room.row.rate, now) : Commit(x)
      BY <2>1, <2>4
    <3>2. d = Dropped(World, NoCountdown, room.pause)
      BY <1>1, Finds DEF World, LiveRoom, Dropped
    <3>3. playing \in BOOLEAN /\ (playing => ~room.sessionEnded)
      OBVIOUS
    <3> HIDE DEF d, playing
    <3>4. NoCountdown \in Nat /\ room.pause \in Nat
      BY <1>2 DEF NoCountdown, LiveRoom
    <3>5. Recorded(d) /\ SameShow(World, d)
      BY <1>2, <3>2, <3>4, DroppedSame
    <3>6. Shown(World, x)
      BY <1>1, <1>2, <2>2, <3>1, <3>3, <3>5, SetClockShown
    <3> QED
      BY <1>1, <3>1, <3>6, CommitShown
  <2> QED
    BY <2>3, <2>4
<1>8. CASE SetRate
  <2>1. PICK rate \in Rates :
          \E x \in IF CountingDown(room.row)
                   THEN SetPlayback(World, room.row.pos, TRUE, rate, room.row.upd)
                   ELSE SetPlayback(World, Expected(room.row), room.row.playing, rate, now) :
             Commit(x)
    BY <1>8 DEF SetRate
  <2>2. CASE CountingDown(room.row)
    BY <1>1, <1>2, <1>6, <2>1, <2>2, CommitShown
  <2>3. CASE ~CountingDown(room.row)
    <3>1. PICK x \in SetPlayback(World, Expected(room.row), room.row.playing, rate, now) :
            Commit(x)
      BY <2>1, <2>3
    <3>2. Shown(World, x)
      BY <1>1, <1>2, <1>3, <1>4, <3>1, SetClockShown
    <3> QED
      BY <1>1, <3>1, <3>2, CommitShown
  <2> QED
    BY <2>2, <2>3
<1> QED
  BY <1>5, <1>7, <1>8

\* wsBreakLocked: everyone stops together in the session they watch.
LEMMA TakeBreakShown ==
  ASSUME Reliable, RecInv, IInv', TakeBreak
  PROVE  StepShown
<1>1. /\ Loaded /\ room.row.status = "live" /\ room.row.brk = NoBreak /\ ~room.sessionEnded
  BY DEF TakeBreak, LiveControl, UserActs
<1>2. /\ Recorded(World) /\ now \in Nat /\ room.row \in Row /\ World.room = room
      /\ room.row.rate \in Rates /\ Expected(room.row) \in Int
  BY <1>1, Finds, ExpectedType DEF Row
<1>3. Recorded(Settled) /\ SameShow(World, Settled) /\ Settled.room.row = room.row
  BY <1>1, SettledSame
<1> DEFINE b == now + BreakLen
           begun == [Settled EXCEPT !.room.row.brk = b]
           playing == FALSE
           n == [room.row EXCEPT !.brk = b]
<1>4. PICK x \in SetPlayback(begun, Expected(room.row), playing, room.row.rate, now) :
        Commit(IF x.ok THEN x ELSE [x EXCEPT !.room.row.brk = NoBreak])
  BY DEF TakeBreak
<1>5. b \in Nat /\ b # NoBreak /\ playing \in BOOLEAN
  BY <1>2, TimingAssumption DEF NoBreak
<1> HIDE DEF b, playing
<1>6. /\ n \in Row /\ n.status = "live" /\ n.brk = b /\ n.sid = room.row.sid
      /\ n.media = room.row.media /\ n.ver = room.row.ver
  BY <1>1, <1>2, <1>5 DEF Row
<1>7. /\ Settled \in WorldType /\ Settled.room \in LiveRoom
      /\ Settled.open \subseteq 1..Settled.nsess
  BY <1>3 DEF Recorded, Tracked, WType, WorldType
<1> HIDE DEF n
<1>8. begun = [Settled EXCEPT !.room = [Settled.room EXCEPT !.row = n]]
  BY <1>3, <1>7 DEF WorldType, LiveRoom, n
<1> HIDE DEF begun
<1>9. /\ begun \in WorldType /\ begun.row = Settled.row /\ begun.room.row = n
      /\ begun.open = Settled.open /\ begun.nsess = Settled.nsess
      /\ begun.pollRows = Settled.pollRows /\ begun.room.poll = Settled.room.poll
      /\ begun.room.sessionEnded = Settled.room.sessionEnded
  BY <1>6, <1>7, <1>8 DEF WorldType, LiveRoom
<1>10. Tracked(begun)
  BY <1>1, <1>3, <1>6, <1>7, <1>9 DEF Recorded, Tracked, WType, Early
<1>11. Played(begun, x, playing)
  BY <1>2, <1>4, <1>5, <1>10, SetPlaybackOk
<1>12. /\ Tracked(x) /\ Mirrors(x) /\ x.ok
       /\ x.room.row.status = "live" /\ x.room.row.brk # NoBreak
       /\ x.room.row.sid = room.row.sid /\ x.room.sessionEnded = room.sessionEnded
       /\ x.room.poll = Settled.room.poll /\ ~x.room.row.playing
       /\ x.room.row.ver > room.row.ver
  BY <1>2, <1>3, <1>5, <1>6, <1>9, <1>11 DEF Played, SameStatus, SameShow, playing
<1>13. room.row.sid # NoSession
  BY <1>1, <1>2 DEF Recorded, FilmRecorded
<1>14. Settled.room.poll # "next"
  BY <1>1, <1>2, <1>3 DEF Recorded, FilmRecorded, SameShow
<1>15. FilmRecorded(x)
  BY <1>1, <1>12, <1>13, <1>14 DEF FilmRecorded
<1>16. /\ SameStatus(World, x) /\ FilmOf(World) = "running" /\ SameFilm(World, x)
       /\ ~OnBreakIn(World) /\ OnBreakIn(x) /\ ~PlayingIn(x)
  BY <1>1, <1>2, <1>12, <1>13 DEF SameStatus, FilmOf, SameFilm, OnBreakIn, PlayingIn
<1>17. Shown(World, x)
  BY <1>1, <1>2, <1>12, <1>15, <1>16 DEF Shown, Recorded, PartyStep, ClockStep
<1> QED
  BY <1>1, <1>4, <1>12, <1>17, CommitShown

\* Opening, starting and ending the room.
LEMMA LifecycleShown ==
  ASSUME Reliable, RecInv, IInv', OpenRoom \/ Start \/ End \/ CheckExternalEnd \/ SweepUnused
  PROVE  StepShown
<1>1. Loaded
  BY DEF OpenRoom, Start, End, CheckExternalEnd, SweepUnused, UserActs
<1>2. Recorded(World) /\ now \in Nat /\ World.room.row = room.row /\ World.row = row
  BY <1>1, Finds
<1>3. CASE OpenRoom
  <2>1. PICK x \in StatusChange(World, "scheduled", "lobby") : Commit(x)
    BY <1>3 DEF OpenRoom
  <2>2. World.room.row.status = "scheduled"
    BY <1>2, <1>3 DEF OpenRoom
  <2> QED
    BY <1>1, <1>2, <2>1, <2>2, OpenRoomShown, CommitShown
<1>4. CASE Start
  <2>1. PICK pos \in Positions, delay \in Delays :
          \E u \in StatusChange(World, "lobby", "live") :
            \E x \in IF u.ok THEN Started(u, pos, delay) ELSE {u} : Commit(x)
    BY <1>4 DEF Start
  <2>2. PICK u \in StatusChange(World, "lobby", "live") :
          \E x \in IF u.ok THEN Started(u, pos, delay) ELSE {u} : Commit(x)
    BY <2>1
  <2>3. PICK x \in IF u.ok THEN Started(u, pos, delay) ELSE {u} : Commit(x)
    BY <2>2
  <2>4. pos \in Int /\ delay \in Nat
    BY MediaAssumption, TimingAssumption
  <2>5. World.room.row.status = "lobby"
    BY <1>2, <1>4 DEF Start
  <2>6. Shown(World, x)
    BY <1>2, <2>3, <2>4, <2>5, StartShown
  <2> QED
    BY <1>1, <2>3, <2>6, CommitShown
<1>5. CASE End \/ SweepUnused
  <2>1. PICK x \in EndRoom(World) : Commit(x)
    BY <1>5 DEF End, SweepUnused
  <2> QED
    BY <1>1, <1>2, <2>1, EndRoomShown, CommitShown
<1>6. CASE CheckExternalEnd
  <2>1. PICK x \in AdoptEnd(World) : Commit(x)
    BY <1>6 DEF CheckExternalEnd
  <2>2. World.row.status = "ended"
    BY <1>2, <1>6 DEF CheckExternalEnd
  <2> QED
    BY <1>1, <1>2, <2>1, <2>2, AdoptEndShown, CommitShown
<1> QED
  BY <1>3, <1>4, <1>5, <1>6

\* A poll opens, closes or is picked from: only a new film shows.
LEMMA PollShown ==
  ASSUME Reliable, RecInv, IInv', CreatePoll \/ PickPoll \/ FinishPoll
  PROVE  StepShown
<1>1. Loaded
  BY DEF CreatePoll, PickPoll, FinishPoll, UserActs
<1>2. /\ Recorded(World) /\ now \in Nat /\ World.room = room /\ World.room.row = room.row
  BY <1>1, Finds
<1>3. ASSUME NEW w, Tracked(w), SameButPoll(World, w), w.room.poll # "next"
      PROVE  Shown(World, w)
  <2>1. SameShow(World, w) /\ w.row = World.row
    BY <1>3 DEF SameButPoll
  <2>2. Recorded(w)
    BY <1>2, <1>3, <2>1 DEF Recorded, Mirrors, FilmRecorded, SameShow
  <2> QED
    BY <2>1, <2>2, Unseen
<1>4. CASE CreatePoll
  <2>1. PICK w \in InsertPoll(World, "custom") : Commit(w)
    BY <1>4 DEF CreatePoll
  <2>2. World.room.poll = "none" /\ "custom" \in PollKinds
    BY <1>2, <1>4 DEF CreatePoll, PollKinds
  <2>3. Tracked(w) /\ SameButPoll(World, w) /\ w.room.poll = "custom"
    BY <1>2, <2>1, <2>2, InsertPollOk DEF Recorded
  <2> QED
    BY <1>1, <1>3, <2>1, <2>3, CommitShown
<1>5. CASE PickPoll \/ FinishPoll
  <2>1. PICK w \in ClosePoll(World) :
          Commit(w) \/ \E m \in Media : \E v \in ApplyMedia(w, m) : Commit(v)
    BY <1>5 DEF PickPoll, FinishPoll
  <2>2. Tracked(w) /\ SameButPoll(World, w) /\ w.room.poll = "none"
    BY <1>2, <2>1, ClosePollOk DEF Recorded
  <2>3. Shown(World, w) /\ SameShow(World, w)
    BY <1>3, <2>2 DEF SameButPoll
  <2>4. CASE Commit(w)
    BY <1>1, <2>3, <2>4, CommitShown
  <2>5. CASE \E m \in Media : \E v \in ApplyMedia(w, m) : Commit(v)
    <3>1. PICK m \in Media : \E v \in ApplyMedia(w, m) : Commit(v)
      BY <2>5
    <3>2. PICK v \in ApplyMedia(w, m) : Commit(v)
      BY <3>1
    <3>3. Shown(w, v)
      BY <1>2, <2>3, <3>2, ApplyMediaShown DEF Shown
    <3> QED
      BY <1>1, <2>3, <3>2, <3>3, ShownAfter, CommitShown
  <2> QED
    BY <2>1, <2>4, <2>5
<1> QED
  BY <1>4, <1>5

\* Ending a break, another film, and a player's word that the film is over.
LEMMA FilmShown ==
  ASSUME Reliable, RecInv, IInv', ControllerEndsBreak \/ ChangeMedia \/ ReportMediaEnded
  PROVE  StepShown
<1>1. Loaded
  BY DEF ControllerEndsBreak, ChangeMedia, ReportMediaEnded, LiveControl, UserActs
<1>2. Recorded(World) /\ now \in Nat /\ World.room.row = room.row
  BY <1>1, Finds
<1>3. CASE ControllerEndsBreak
  <2>1. PICK w \in EndBreak(World) : Commit(w)
    BY <1>3 DEF ControllerEndsBreak
  <2> QED
    BY <1>1, <1>2, <2>1, EndBreakShown, CommitShown
<1>4. CASE ChangeMedia
  <2>1. PICK m \in Media : \E w \in ApplyMedia(World, m) : Commit(w)
    BY <1>4 DEF ChangeMedia
  <2>2. PICK w \in ApplyMedia(World, m) : Commit(w)
    BY <2>1
  <2> QED
    BY <1>1, <1>2, <2>2, ApplyMediaShown, CommitShown
<1>5. CASE ReportMediaEnded
  <2>1. PICK w \in MediaEnded(World) : Commit(w)
    BY <1>5 DEF ReportMediaEnded
  <2>2. World.room.row.status = "live"
    BY <1>2, <1>5 DEF ReportMediaEnded, LiveControl
  <2> QED
    BY <1>1, <1>2, <2>1, <2>2, MediaEndedShown, CommitShown
<1> QED
  BY <1>3, <1>4, <1>5

\* tickRoom: a break that is over and a film that is over are one step, the end
\* of the film.
LEMMA TickShown ==
  ASSUME Reliable, RecInv, IInv', Tick
  PROVE  StepShown
<1>1. Loaded /\ room.row.status = "live"
  BY DEF Tick
<1>2. /\ Recorded(World) /\ now \in Nat /\ World.room.row = room.row
      /\ World.room = room
  BY <1>1, Finds
<1>3. PICK w \in TickBreak(World) :
        \E x \in TickMediaEnd(TickTimers(w), AtEnd(room.row)) : Commit(x)
  BY DEF Tick
<1> DEFINE t == TickTimers(w)
<1>4. PICK x \in TickMediaEnd(t, AtEnd(room.row)) : Commit(x)
  BY <1>3
<1>5. /\ Shown(World, w) /\ SameStatus(World, w) /\ w.room.row.ver >= World.room.row.ver
      /\ w = World \/ World.room.row.brk # NoBreak
  <2>1. CASE w = World
    <3>1. World.room.row.ver \in Nat
      BY <1>2, WorldStatuses DEF Recorded, Tracked, Row
    <3> QED
      BY <1>2, <2>1, <3>1, Unseen DEF SameShow, SameStatus
  <2>2. CASE World.room.row.brk # NoBreak /\ w \in EndBreak(World)
    BY <1>2, <2>2, EndBreakShown
  <2> QED
    BY <1>3, <2>1, <2>2 DEF TickBreak
<1>6. Recorded(t) /\ SameShow(w, t)
  <2> DEFINE c == IF now >= w.room.countdownS THEN NoCountdown ELSE w.room.countdownS
             p == IF w.room.pause # NoPause /\ now - w.room.pause > PauseTTL
                  THEN NoPause ELSE w.room.pause
  <2>1. /\ Recorded(w) /\ w \in WorldType /\ w.room \in LiveRoom
        /\ w.room.countdownS \in Nat /\ w.room.pause \in Nat
    BY <1>5, WorldStatuses DEF Shown, Recorded, Tracked, WType, LiveRoom
  <2>2. c \in Nat /\ p \in Nat
    BY <2>1 DEF NoCountdown, NoPause
  <2>3. t = Dropped(w, c, p)
    BY <2>1 DEF TickTimers, Dropped, WorldType, LiveRoom
  <2> HIDE DEF c, p, t
  <2> QED
    BY <2>1, <2>2, <2>3, DroppedSame
<1> HIDE DEF t
<1>7. Shown(World, t)
  BY <1>5, <1>6, ShownThen
<1>8. CASE x = t
  BY <1>1, <1>4, <1>7, <1>8, CommitShown
<1>9. CASE ~t.room.sessionEnded /\ x \in MediaEnded(t)
  <2>1. t.room.row.status = "live" /\ t.room.row.ver >= World.room.row.ver
    BY <1>1, <1>2, <1>5, <1>6 DEF SameShow, SameStatus
  <2>2. /\ Shown(t, x)
        /\ x.room.row.status = "live" /\ x.room.row.ver > t.room.row.ver
        /\ FilmOf(x) = "over" /\ ~PlayingIn(x) /\ ~OnBreakIn(x)
    BY <1>2, <1>6, <1>9, <2>1, MediaEndedShown
  <2>3. ~World.room.sessionEnded
    <3>1. CASE w = World
      BY <1>6, <1>9, <3>1 DEF SameShow
    <3>2. CASE World.room.row.brk # NoBreak
      BY <1>1, <1>2, <3>2 DEF Recorded, FilmRecorded
    <3> QED
      BY <1>5, <3>1, <3>2
  <2>4. FilmOf(World) = "running"
    BY <1>1, <1>2, <2>3 DEF Recorded, FilmRecorded, FilmOf
  <2>5. PartyStep(World, x)
    BY <1>1, <1>2, <2>2, <2>4 DEF PartyStep, SameStatus
  <2>6. x.room.row.ver > World.room.row.ver
    <3>1. /\ x.room.row.ver \in Nat /\ t.room.row.ver \in Nat /\ World.room.row.ver \in Nat
      BY <1>2, <1>6, <2>2, WorldStatuses DEF Shown, Recorded, Tracked, Row
    <3> QED
      BY <2>1, <2>2, <3>1
  <2>7. Shown(World, x)
    BY <2>2, <2>5, <2>6 DEF Shown, ClockStep
  <2> QED
    BY <1>1, <1>4, <2>7, CommitShown
<1> QED
  BY <1>4, <1>8, <1>9 DEF TickMediaEnd

\* Time, connections, stray polls and pause requests show nothing.
LEMMA QuietShown ==
  ASSUME RecInv, IInv',
         \/ AdvanceTime \/ Connect \/ Disconnect \/ SweepStalePoll
         \/ RequestPause \/ CancelPauseRequest
  PROVE  StepShown
<1>1. CASE AdvanceTime \/ Connect \/ Disconnect
  <2>1. UNCHANGED <<row, open, nsess, pollRows, room>>
    BY <1>1 DEF AdvanceTime, Connect, Disconnect
  <2> QED
    BY <2>1, StillShown
<1>2. CASE SweepStalePoll
  <2>1. Loaded /\ pollRows \ {room.poll} # {}
    BY <1>2 DEF SweepStalePoll
  <2>2. pollRows = {room.poll} \ {"none"}
    BY <2>1, Finds DEF Recorded, Tracked
  <2> QED
    BY <2>1, <2>2
<1>3. CASE RequestPause \/ CancelPauseRequest
  <2>1. /\ Loaded /\ row' = row /\ open' = open /\ nsess' = nsess /\ pollRows' = pollRows
    BY <1>3 DEF RequestPause, CancelPauseRequest, UserActs
  <2>2. Recorded(World) /\ World.room = room /\ room \in LiveRoom /\ now \in Nat
        /\ World.row = row /\ World.open = open /\ World.nsess = nsess
        /\ World.pollRows = pollRows /\ room.countdownS \in Nat
    BY <2>1, Finds DEF LiveRoom
  <2>3. PICK p \in Nat : room' = [room EXCEPT !.pause = p]
    BY <1>3, <2>2 DEF RequestPause, CancelPauseRequest, NoPause
  <2> DEFINE d == Dropped(World, room.countdownS, p)
  <2>4. Recorded(d) /\ SameRecords(World, d) /\ SameShow(World, d)
    BY <2>2, DroppedSame
  <2>5. d.room = room' /\ d.nsess = nsess
    BY <2>2, <2>3 DEF Dropped, World, LiveRoom
  <2> HIDE DEF d
  <2>6. Shown(Seeing, d)
    BY <2>1, <2>4, Unseen, Finds
  <2>7. row' = d.row /\ open' = d.open /\ nsess' = d.nsess /\ pollRows' = d.pollRows
        /\ room' = d.room
    BY <2>1, <2>2, <2>4, <2>5 DEF SameRecords
  <2> QED
    BY <2>6, <2>7, Lands DEF StepShown
<1> QED
  BY <1>1, <1>2, <1>3

-----------------------------------------------------------------------------
(* The theorems *)

\* A created room has no session, no break and no poll.
LEMMA InitRecInv ==
  ASSUME Init
  PROVE  RecInv
<1>1. IInv
  BY InitIInv
<1>2. PICK s \in {"scheduled", "lobby"}, m \in Media :
        row = [status |-> s, media |-> m, pos |-> 0, playing |-> FALSE, rate |-> 1,
               upd |-> 1, ver |-> 0, brk |-> NoBreak, sid |-> NoSession]
  BY DEF Init
<1>3. /\ row.status = s /\ row.sid = NoSession /\ row.brk = NoBreak
      /\ open = {} /\ nsess = 0 /\ pollRows = {} /\ ~Loaded
  BY <1>2 DEF Init, Loaded
<1>4. Stored(row, open, nsess, pollRows)
  BY <1>1 DEF IInv, TypeOK, Stored
<1>5. Shadows(Shadow, row, open, pollRows)
  BY <1>4, ShadowFacts DEF Shadow
<1>6. PollOf(pollRows) = "none"
  BY <1>3 DEF PollOf
<1>7. Tracked(Shadow)
  BY <1>3, <1>5, <1>6 DEF Shadows, Tracked
<1>8. Mirrors(Shadow) /\ FilmRecorded(Shadow)
  BY <1>2, <1>3, <1>5 DEF Shadows, Mirrors, FilmRecorded
<1> QED
  BY <1>1, <1>3, <1>7, <1>8 DEF RecInv, Seeing, Recorded

\* Every step of every actor keeps the records and shows what it may.
LEMMA NextShown ==
  ASSUME Reliable, RecInv, [Next]_vars
  PROVE  IInv' /\ StepShown
<1>1. IInv'
  BY NextKept, StutterKept DEF RecInv, Kept
<1>2. CASE HostNext
  BY <1>1, <1>2, LifecycleShown, PlayShown, ClockShown, TakeBreakShown, FilmShown DEF HostNext
<1>3. CASE ViewerNext
  BY <1>1, <1>3, QuietShown, PollShown, FilmShown DEF ViewerNext
<1>4. CASE SystemNext
  BY <1>1, <1>4, LoadShown, ForgottenShown, QuietShown, ExternalEndShown, LifecycleShown,
     TickShown
  DEF SystemNext
<1>5. CASE UNCHANGED vars
  <2>1. UNCHANGED <<row, open, nsess, pollRows, room>>
    BY <1>5 DEF vars
  <2> QED
    BY <1>1, <2>1, StillShown
<1> QED
  BY <1>1, <1>2, <1>3, <1>4, <1>5 DEF Next

\* What clients see is what there is to see.
LEMMA SeenView ==
  /\ View = Seeing.room.row /\ Film = FilmOf(Seeing)
  /\ View' = Seeing'.room.row /\ Film' = FilmOf(Seeing')
<1>1. View = Seeing.room.row /\ View' = Seeing'.room.row
  BY DEF View, Seeing, World, Shadow, ShadowOf
<1>2. Film = FilmOf(Seeing)
  <2>1. Loaded => Seeing.room = room
    BY DEF Seeing, World
  <2>2. ~Loaded => Seeing.room.sessionEnded = (row.sid # NoSession /\ row.sid \notin open)
    BY DEF Seeing, Shadow, ShadowOf
  <2> QED
    BY <1>1, <2>1, <2>2 DEF Film, FilmOf, View
<1>3. Film' = FilmOf(Seeing')
  <2>1. Loaded' => Seeing'.room = room'
    BY DEF Seeing, World
  <2>2. ~Loaded' => Seeing'.room.sessionEnded = (row'.sid # NoSession /\ row'.sid \notin open')
    BY DEF Seeing, Shadow, ShadowOf
  <2> QED
    BY <1>1, <2>1, <2>2 DEF Film, FilmOf, View
<1> QED
  BY <1>1, <1>2, <1>3

\* The inductive invariant holds in every reachable state.
THEOREM RecordInvariant == Reliable => (Spec => []RecInv)
<1> SUFFICES ASSUME Reliable
             PROVE  Spec => []RecInv
  OBVIOUS
<1>1. Init => RecInv
  BY InitRecInv
<1>2. RecInv /\ [Next]_vars => RecInv'
  BY NextShown DEF StepShown, Shown, RecInv
<1> QED
  BY <1>1, <1>2, PTL DEF Spec

\* The loaded room, its row, its sessions and its polls agree, and nothing is
\* played or voted on but what the database has a record of, through every
\* sequence of handlers, sweeps, reloads, crashes and external ends.
THEOREM RecordRule == Reliable => (Spec => []RecordsAgree)
<1> SUFFICES ASSUME Reliable
             PROVE  Spec => []RecordsAgree
  OBVIOUS
<1>1. RecInv => RecordsAgree
  <2> SUFFICES ASSUME RecInv
               PROVE  RecordsAgree
    OBVIOUS
  <2>1. open \subseteq {row.sid}
    BY Finds, ShadowSeen DEF Recorded, Tracked
  <2>2. CASE ~Loaded
    BY <2>1, <2>2
    DEF RecordsAgree, DatabaseAgrees, MemoryMirrorsRow, OneOpenSession, OneOpenPoll,
        FilmsAreRecorded, WatchingIsRecorded, NextPollOnlyAfterFilm
  <2>3. CASE Loaded
    <3>1. /\ Recorded(World) /\ World.room = room /\ World.row = row
          /\ World.open = open /\ World.pollRows = pollRows /\ room \in LiveRoom
      BY <2>3, Finds
    <3>2. /\ room.row.sid = row.sid
          /\ room.sessionEnded <=> row.sid # NoSession /\ row.sid \notin open
          /\ pollRows = {room.poll} \ {"none"}
      BY <3>1 DEF Recorded, Tracked
    <3>3. room.sessionEnded = SessionOver(row)
      BY <3>1, <3>2 DEF SessionOver, LiveRoom
    <3>4. MemoryMirrorsRow
      BY <3>1 DEF MemoryMirrorsRow, Recorded, Mirrors
    <3>5. OneOpenSession /\ OneOpenPoll
      BY <2>1, <3>2, <3>3 DEF OneOpenSession, OneOpenPoll
    <3>6. NextPollOnlyAfterFilm
      BY <3>1 DEF Recorded, FilmRecorded, NextPollOnlyAfterFilm
    <3>7. WatchingIsRecorded
      BY <3>1, <3>2 DEF Recorded, FilmRecorded, WatchingIsRecorded
    <3> QED
      BY <3>4, <3>5, <3>6, <3>7 DEF RecordsAgree, DatabaseAgrees, FilmsAreRecorded
  <2> QED
    BY <2>2, <2>3
<1> QED
  BY <1>1, RecordInvariant, PTL

\* A change of the clock of a live room comes with a larger version.
THEOREM VersionRule == Reliable => (Spec => ClockChangesBumpVersion)
<1> SUFFICES ASSUME Reliable
             PROVE  Spec => ClockChangesBumpVersion
  OBVIOUS
<1>1. RecInv /\ [Next]_vars =>
        [View.status = "live" /\ View'.status = "live" =>
           \/ View'.ver > View.ver
           \/ <<View'.pos, View'.playing, View'.rate, View'.upd>>
                = <<View.pos, View.playing, View.rate, View.upd>>]_vars
  <2> SUFFICES ASSUME RecInv, [Next]_vars, View.status = "live", View'.status = "live"
               PROVE  \/ View'.ver > View.ver
                      \/ <<View'.pos, View'.playing, View'.rate, View'.upd>>
                           = <<View.pos, View.playing, View.rate, View.upd>>
    OBVIOUS
  <2>1. ClockStep(Seeing, Seeing')
    BY NextShown DEF StepShown, Shown
  <2> QED
    BY <2>1, SeenView DEF ClockStep
<1> QED
  BY <1>1, RecordInvariant, PTL DEF Spec, ClockChangesBumpVersion

\* A step that shows what it may is a step of the party or none.
LEMMA PartyStepIsNext ==
  ASSUME RecInv, StepShown
  PROVE  [Party!Next]_(Party!partyVars)
<1> DEFINE s == Seeing.room.row.status
           p == PlayingIn(Seeing)
           b == OnBreakIn(Seeing)
           f == FilmOf(Seeing)
<1>1. PartyStep(Seeing, Seeing')
  BY DEF StepShown, Shown
<1>2. /\ View.status = s /\ View'.status = s' /\ Film = f /\ Film' = f'
      /\ (View.status = "live" /\ View.playing) = p
      /\ (View'.status = "live" /\ View'.playing) = p'
      /\ (View.status = "live" /\ View.brk # NoBreak) = b
      /\ (View'.status = "live" /\ View'.brk # NoBreak) = b'
  BY SeenView DEF PlayingIn, OnBreakIn
<1>3. /\ p \in BOOLEAN /\ p' \in BOOLEAN /\ b \in BOOLEAN /\ b' \in BOOLEAN
  BY DEF PlayingIn, OnBreakIn
<1>4. s = "ended" => f = "over" /\ p = FALSE /\ b = FALSE
  BY DEF FilmOf, PlayingIn, OnBreakIn
<1>5. s' = "ended" => f' = "over" /\ p' = FALSE /\ b' = FALSE
  BY DEF FilmOf, PlayingIn, OnBreakIn
<1>6. \/ s' = s /\ f' = f /\ p' = p /\ b' = b
      \/ s = "scheduled" /\ s' = "lobby" /\ f' = f /\ p' = p /\ b' = b
      \/ s = "lobby" /\ s' = "live" /\ f' = "running" /\ p' = TRUE /\ b' = FALSE
      \/ s = "live" /\ s' = s /\ f = "running" /\ f' = f /\ b = FALSE /\ b' = b /\ p' = ~p
      \/ s = "live" /\ s' = s /\ f = "running" /\ f' = f /\ b = FALSE /\ b' = TRUE /\ p' = FALSE
      \/ s' = s /\ f' = f /\ b = TRUE /\ b' = FALSE
      \/ s = "live" /\ s' = s /\ f = "running" /\ f' = "over" /\ p' = FALSE /\ b' = FALSE
      \/ s = "live" /\ s' = s /\ f' = "running" /\ p' = TRUE /\ b' = FALSE
      \/ s # "ended" /\ s' = "ended" /\ f' = "over" /\ p' = FALSE /\ b' = FALSE
  <2>1. (s # "live" => p = FALSE /\ b = FALSE) /\ (s' # "live" => p' = FALSE /\ b' = FALSE)
    BY DEF PlayingIn, OnBreakIn
  <2> QED
    BY <1>1, <1>3, <1>5, <2>1 DEF PartyStep, SameStatus, SameFilm
<1> DEFINE vp == View.status = "live" /\ View.playing
           vb == View.status = "live" /\ View.brk # NoBreak
<1>7. vp = p /\ vp' = p' /\ vb = b /\ vb' = b'
  BY <1>2
<1> HIDE DEF s, p, b, f
<1>8. CASE s' = s /\ f' = f /\ p' = p /\ b' = b
  BY <1>2, <1>7, <1>8 DEF Party!partyVars
<1>9. CASE s = "scheduled" /\ s' = "lobby" /\ f' = f /\ p' = p /\ b' = b
  BY <1>2, <1>7, <1>9 DEF Party!Next, Party!Open
<1>10. CASE s = "lobby" /\ s' = "live" /\ f' = "running" /\ p' = TRUE /\ b' = FALSE
  BY <1>2, <1>7, <1>10 DEF Party!Next, Party!Start
<1>11. CASE s = "live" /\ s' = s /\ f = "running" /\ f' = f /\ b = FALSE /\ b' = b /\ p' = ~p
  BY <1>2, <1>7, <1>11 DEF Party!Next, Party!PlayPause
<1>12. CASE s = "live" /\ s' = s /\ f = "running" /\ f' = f /\ b = FALSE /\ b' = TRUE /\ p' = FALSE
  BY <1>2, <1>7, <1>12 DEF Party!Next, Party!TakeBreak
<1>13. CASE s' = s /\ f' = f /\ b = TRUE /\ b' = FALSE
  BY <1>2, <1>3, <1>7, <1>13 DEF Party!Next, Party!EndBreak
<1>14. CASE s = "live" /\ s' = s /\ f = "running" /\ f' = "over" /\ p' = FALSE /\ b' = FALSE
  BY <1>2, <1>7, <1>14 DEF Party!Next, Party!FilmOver
<1>15. CASE s = "live" /\ s' = s /\ f' = "running" /\ p' = TRUE /\ b' = FALSE
  BY <1>2, <1>7, <1>15 DEF Party!Next, Party!NewSession
<1>16. CASE s # "ended" /\ s' = "ended" /\ f' = "over" /\ p' = FALSE /\ b' = FALSE
  BY <1>2, <1>7, <1>16 DEF Party!Next, Party!End
<1> QED
  BY <1>6, <1>8, <1>9, <1>10, <1>11, <1>12, <1>13, <1>14, <1>15, <1>16

\* A created room shows what a created party does.
LEMMA InitParty ==
  ASSUME Init
  PROVE  Party!Init
<1>1. PICK s \in {"scheduled", "lobby"}, m \in Media :
        row = [status |-> s, media |-> m, pos |-> 0, playing |-> FALSE, rate |-> 1,
               upd |-> 1, ver |-> 0, brk |-> NoBreak, sid |-> NoSession]
  BY DEF Init
<1>2. View = row
  BY DEF Init, View, Loaded
<1>3. View.status \in {"scheduled", "lobby"} /\ View.sid = NoSession
  BY <1>1, <1>2
<1> QED
  BY <1>3 DEF Party!Init, Film

\* The room keeps the promise of WatchParty: loading, evicting, crashing and
\* reloading are invisible, and every step is one of the party's.
THEOREM RoomImplementsParty == Reliable => (Spec => ImplementsParty)
<1> SUFFICES ASSUME Reliable
             PROVE  Spec => ImplementsParty
  OBVIOUS
<1>1. Init => Party!Init
  BY InitParty
<1>2. RecInv /\ [Next]_vars => [Party!Next]_(Party!partyVars)
  BY NextShown, PartyStepIsNext
<1> QED
  BY <1>1, <1>2, RecordInvariant, PTL DEF Spec, ImplementsParty, Party!Spec
=============================================================================
