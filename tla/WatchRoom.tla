------------------------------ MODULE WatchRoom ------------------------------
(***************************************************************************)
(* One watch-party room (src/watch): its lifecycle, its playback clock,    *)
(* breaks, countdowns, pause requests, viewing sessions and polls.         *)
(*                                                                         *)
(* The database row is the source of truth; a loaded room keeps a copy of  *)
(* it (liveRoom) that every handler changes under the room's lock.  So one *)
(* handler is one action, made of the database statements it runs one      *)
(* after the other: each statement has an outcome in DbOutcomes, and a     *)
(* handler that returns early on an error keeps what it did before it.     *)
(*                                                                         *)
(* A handler is written as a set of worlds: World is what the handler      *)
(* finds, each function the code calls maps a world to the worlds it can   *)
(* leave, and Commit makes one of them the next state.                     *)
(***************************************************************************)
EXTENDS Integers

CONSTANTS
  Media,          \* what a room can play
  Duration,       \* Duration[m]: length of m in clock units, 0 = unknown
  Companion,      \* the media of providers without a player in the app
  Rates,          \* allowed playback rates
  Positions,      \* the positions a client may ask for
  Delays,         \* the countdown lengths a start may ask for
  Countdown,      \* the 3 s countdown
  BreakLen,       \* the length of a break
  Grace,          \* 15 s: how long a sync room waits for its players
  EndSlack,       \* 20 s: how far from the end a player's word counts
  PauseTTL,       \* 2 min: the life of a pause request
  IdleWindow,     \* 2 min: how long an unused room stays in memory
  EndedWindow,    \* 10 s: the same once it has ended
  DbOutcomes,     \* outcomes of a statement: "ok", "fail" or "lost"
  ExternalEnds,   \* whether the admin panel may end the row directly
  NotLoaded,      \* the room is not in memory
  MaxNow,         \* bound: the last instant
  UserHorizon,    \* bound: the last instant users act at
  MaxVersion,     \* bound: users act while the version is below it
  MaxSessions     \* bound: users act while fewer session rows exist

ASSUME MediaAssumption ==
  /\ Duration \in [Media -> Nat]
  /\ Companion \subseteq Media
  /\ Rates \subseteq Nat \ {0}
  /\ 1 \in Rates
  /\ Positions \subseteq Int
ASSUME TimingAssumption ==
  /\ Delays \subseteq Nat \ {0}
  /\ Countdown \in Nat \ {0}
  /\ BreakLen \in Nat \ {0}
  /\ {Grace, EndSlack, PauseTTL, IdleWindow, EndedWindow} \subseteq Nat
  /\ {MaxNow, UserHorizon, MaxVersion, MaxSessions} \subseteq Nat
\* "ok": done; "fail": nothing done, error; "lost": done, but the caller
\* sees an error (the connection died after the commit).
ASSUME DbAssumption ==
  /\ "ok" \in DbOutcomes
  /\ DbOutcomes \subseteq {"ok", "fail", "lost"}
  /\ ExternalEnds \in BOOLEAN

VARIABLES
  now,       \* server time
  row,       \* the watch_rooms row
  open,      \* ids of the watch_room_sessions rows without ended_at
  nsess,     \* id of the newest session row
  pollRows,  \* kinds of the watch_room_polls rows without closed_at
  room,      \* the liveRoom, or NotLoaded
  online,    \* some client socket is registered
  lastClient \* when the loaded room was last seen in use

vars == <<now, row, open, nsess, pollRows, room, online, lastClient>>

NoBreak == 0
NoSession == 0
NoPause == 0
NoCountdown == 0
Statuses == {"scheduled", "lobby", "live", "ended"}
PollKinds == {"next", "custom"}

Row == [status : Statuses, media : Media, pos : Nat, playing : BOOLEAN,
        rate : Rates, upd : Nat, ver : Nat, brk : Nat, sid : Nat]

LiveRoom == [row : Row, sessionEnded : BOOLEAN, countdownS : Nat,
             pause : Nat, poll : PollKinds \cup {"none"}]

Loaded == room # NotLoaded
World == [row |-> row, open |-> open, nsess |-> nsess,
          pollRows |-> pollRows, room |-> room, ok |-> TRUE]

Commit(w) ==
  /\ row' = w.row
  /\ open' = w.open
  /\ nsess' = w.nsess
  /\ pollRows' = w.pollRows
  /\ room' = w.room
  /\ UNCHANGED <<now, online, lastClient>>

\* One statement: w if it does not reach the table, done if it succeeds, and
\* lost if it takes effect but returns an error.
Statement(w, done, lost) ==
  {[done EXCEPT !.ok = TRUE]}
    \cup (IF "fail" \in DbOutcomes THEN {[w EXCEPT !.ok = FALSE]} ELSE {})
    \cup (IF "lost" \in DbOutcomes THEN {[lost EXCEPT !.ok = FALSE]} ELSE {})

-----------------------------------------------------------------------------
(* The clock *)

RawPosition(r) ==
  r.pos + (IF r.playing /\ now > r.upd THEN (now - r.upd) * r.rate ELSE 0)

Clamp(pos, m) ==
  IF Duration[m] > 0 /\ pos > Duration[m] THEN Duration[m]
  ELSE IF pos < 0 THEN 0 ELSE pos

Expected(r) == Clamp(RawPosition(r), r.media)

AtEnd(r) == Duration[r.media] > 0 /\ Expected(r) >= Duration[r.media]

CountingDown(r) == r.playing /\ r.upd > now

MovedSameVersion(r, pos, playing, rate, upd) ==
  [r EXCEPT !.pos = Clamp(pos, r.media), !.playing = playing, !.rate = rate, !.upd = upd]

\* The clock of the copy r after a change.
Moved(r, pos, playing, rate, upd) ==
  [r EXCEPT !.pos = Clamp(pos, r.media), !.playing = playing, !.rate = rate,
            !.upd = upd, !.ver = @ + 1]

SavedWithoutBreak(stored, r) ==
  [stored EXCEPT !.pos = r.pos, !.playing = r.playing, !.rate = r.rate,
                 !.upd = r.upd, !.ver = r.ver]

\* The row after the UPDATE: the break is saved with the clock.
Saved(stored, r) ==
  [stored EXCEPT !.pos = r.pos, !.playing = r.playing, !.rate = r.rate,
                 !.upd = r.upd, !.ver = r.ver, !.brk = r.brk]

\* setPlaybackLocked: the copy changes first and is put back on an error.
SetPlayback(w, pos, playing, rate, upd) ==
  LET next == Moved(w.room.row, pos, playing, rate, upd)
      saved == [w EXCEPT !.row = Saved(w.row, next)]
  IN Statement(w, [saved EXCEPT !.room.row = next], saved)

StartCountdownAfter(w, pos, delay) ==
  {IF v.ok THEN [v EXCEPT !.room.countdownS = now + delay] ELSE v :
     v \in SetPlayback(w, pos, TRUE, w.room.row.rate, now + delay)}

StartCountdown(w, pos) == StartCountdownAfter(w, pos, Countdown)

-----------------------------------------------------------------------------
(* Sessions and polls *)

\* openSessionLocked: INSERT the session, point the row at it, then the copy.
OpenSession(w) ==
  LET s == w.nsess + 1
      inserted == [w EXCEPT !.open = @ \cup {s}, !.nsess = s]
      pointed == [inserted EXCEPT !.row.sid = s]
      done == [pointed EXCEPT !.room.row.sid = s, !.room.sessionEnded = FALSE]
  IN {v \in Statement(w, done, inserted) : ~v.ok}
       \cup Statement(inserted, done, pointed)

CloseSessionInMemory(w) ==
  {IF w.room.row.sid = NoSession THEN w ELSE [w EXCEPT !.room.sessionEnded = TRUE]}

\* closeSessionLocked: the statement's error is not looked at.
CloseSession(w) ==
  LET sid == w.room.row.sid
      closed == [w EXCEPT !.open = @ \ {sid}, !.room.sessionEnded = TRUE]
  IN IF sid = NoSession \/ w.room.sessionEnded THEN {w}
     ELSE {closed} \cup (IF "fail" \in DbOutcomes
                         THEN {[closed EXCEPT !.open = w.open]} ELSE {})

ClosePollInMemory(w) == {[w EXCEPT !.room.poll = "none"]}

\* closePollLocked: the statement's error is not looked at.
ClosePoll(w) ==
  LET closed == [w EXCEPT !.pollRows = @ \ {w.room.poll}, !.room.poll = "none"]
  IN IF w.room.poll = "none" THEN {w}
     ELSE {closed} \cup (IF "fail" \in DbOutcomes
                         THEN {[closed EXCEPT !.pollRows = w.pollRows]} ELSE {})

DropNextPoll(w) == IF w.room.poll = "next" THEN ClosePoll(w) ELSE {w}

\* insertPollLocked: the poll becomes the room's when its row was inserted.
InsertPoll(w, kind) ==
  LET inserted == [w EXCEPT !.pollRows = @ \cup {kind}]
  IN Statement(w, [inserted EXCEPT !.room.poll = kind], inserted)

\* openNextPollLocked: only when no poll is open and the queue is long enough.
OpenNextPoll(w) ==
  {w} \cup (IF w.room.poll = "none" THEN InsertPoll(w, "next") ELSE {})

-----------------------------------------------------------------------------
(* The helpers handlers share *)

ClearedButBreak(w) ==
  [w EXCEPT !.room.countdownS = NoCountdown, !.room.pause = NoPause]

\* No break outlives the film.
Cleared(w) ==
  [w EXCEPT !.room.countdownS = NoCountdown, !.room.row.brk = NoBreak, !.room.pause = NoPause]

\* mediaEndedLocked: the break leaves the copy before the clock is saved, and
\* the save's error is not looked at.
MediaEnded(w) ==
  LET r == w.room.row
      end == IF Duration[r.media] > 0 THEN Duration[r.media] ELSE Expected(r)
  IN IF w.room.sessionEnded THEN {w}
     ELSE UNION {UNION {OpenNextPoll(u) : u \in CloseSession(v)} :
                   v \in SetPlayback(Cleared(w), end, FALSE, r.rate, now)}

\* endBreakLocked: the break leaves the copy before the clock is saved.
EndBreak(w) ==
  IF w.room.row.brk = NoBreak THEN {w}
  ELSE StartCountdown([w EXCEPT !.room.row.brk = NoBreak], w.room.row.pos)

\* applyMediaLocked from its broadcast on: a live room opens a session and
\* counts down, any other keeps its clock at the start.
RestartClock(w) ==
  IF w.room.row.status = "live"
  THEN UNION {IF v.ok THEN StartCountdown(v, 0) ELSE {v} : v \in OpenSession(w)}
  ELSE SetPlayback(w, 0, FALSE, 1, now)

SwitchedOnBreak(w, m) ==
  [w EXCEPT !.room.row.media = m, !.room.row.rate = 1, !.room.pause = NoPause]

\* The copy after the UPDATE of the media: no break, normal speed.
Switched(w, m) ==
  [w EXCEPT !.room.row = [@ EXCEPT !.media = m, !.brk = NoBreak, !.rate = 1],
            !.room.pause = NoPause]

SwitchMedia(w, m) ==
  LET stored == [w EXCEPT !.row = [@ EXCEPT !.media = m, !.brk = NoBreak]]
      switched == Switched(stored, m)
  IN UNION {IF v.ok THEN RestartClock(v) ELSE {v} :
              v \in Statement(w, switched, stored)}

ApplyMedia(w, m) ==
  UNION {UNION {SwitchMedia(u, m) : u \in CloseSession(v)} : v \in DropNextPoll(w)}

\* A row as endRoomLocked leaves it; clock is the copy, whose position counts.
EndedRow(r, clock) ==
  [r EXCEPT !.status = "ended", !.playing = FALSE, !.pos = Expected(clock),
            !.upd = now, !.brk = NoBreak]

\* endRoomLocked from the closed session on: the row changes only if it has not
\* ended yet; the poll's statement is not looked at.
EndRow(w) ==
  LET stored == IF w.row.status = "ended" THEN w
                ELSE [w EXCEPT !.row = EndedRow(@, w.room.row)]
      ended == [stored EXCEPT !.room.row = EndedRow(@, @), !.room.pause = NoPause]
  IN UNION {IF v.ok THEN ClosePoll(v) ELSE {v} : v \in Statement(w, ended, stored)}

EndRoom(w) ==
  IF w.room.row.status = "ended" THEN {w} ELSE UNION {EndRow(v) : v \in CloseSession(w)}

AdoptEndOfSession(w) == CloseSession(w)

\* The row was ended behind the process's back: checkExternalEnds and
\* statusDriftLocked.
AdoptEnd(w) ==
  {[v EXCEPT !.room.row.status = "ended", !.room.row.playing = FALSE] : v \in CloseSession(w)}

StatusDrift(w) ==
  IF w.row.status = "ended" /\ w.room.row.status # "ended" THEN AdoptEnd(w)
  ELSE {[w EXCEPT !.room.row.status = w.row.status]}

StatusChangeUnguarded(w, from, to) ==
  {[w EXCEPT !.row.status = to, !.room.row.status = to]}

\* UPDATE ... SET status = to WHERE status = from; no row matched: drift.
StatusChange(w, from, to) ==
  LET stored == [w EXCEPT !.row.status = to]
  IN IF w.row.status = from
     THEN Statement(w, [stored EXCEPT !.room.row.status = to], stored)
     ELSE {[v EXCEPT !.ok = FALSE] : v \in StatusDrift(w)}

-----------------------------------------------------------------------------
(* In and out of memory *)

\* A room as loadRoom builds it from its row; a break that ran out while the
\* room was not loaded is dropped.
LoadedRow(r) == IF r.brk # NoBreak /\ r.brk <= now THEN [r EXCEPT !.brk = NoBreak] ELSE r

SessionForgotten(r) == FALSE

SessionOver(r) == r.sid # NoSession /\ r.sid \notin open

Load ==
  /\ ~Loaded
  /\ \E p \in IF pollRows = {} THEN {"none"} ELSE pollRows :
       room' = [row |-> LoadedRow(row), sessionEnded |-> SessionOver(row),
                countdownS |-> NoCountdown, pause |-> NoPause, poll |-> p]
  /\ row' \in {LoadedRow(row)} \cup (IF "fail" \in DbOutcomes THEN {row} ELSE {})
  /\ lastClient' = now
  /\ UNCHANGED <<now, open, nsess, pollRows, online>>

\* evictIdle: nobody has been connected for a while.
Evict ==
  /\ Loaded
  /\ ~online
  /\ \/ now - lastClient > IdleWindow
     \/ room.row.status = "ended" /\ now - lastClient > EndedWindow
  /\ room' = NotLoaded
  /\ UNCHANGED <<now, row, open, nsess, pollRows, online, lastClient>>

\* The process stops; it comes back with nothing loaded.
Crash ==
  /\ Loaded
  /\ room' = NotLoaded
  /\ online' = FALSE
  /\ UNCHANGED <<now, row, open, nsess, pollRows, lastClient>>

Connect ==
  /\ Loaded
  /\ room.row.status # "ended"
  /\ ~online
  /\ online' = TRUE
  /\ lastClient' = now
  /\ UNCHANGED <<now, row, open, nsess, pollRows, room>>

\* Every tick of a room with clients refreshes lastClient.
Disconnect ==
  /\ online
  /\ online' = FALSE
  /\ lastClient' = now
  /\ UNCHANGED <<now, row, open, nsess, pollRows, room>>

\* The admin panel writes status = 'ended' into the row.
ExternalEnd ==
  /\ ExternalEnds
  /\ row.status # "ended"
  /\ row' = [row EXCEPT !.status = "ended"]
  /\ UNCHANGED <<now, open, nsess, pollRows, room, online, lastClient>>

CheckExternalEnd ==
  /\ Loaded
  /\ row.status = "ended"
  /\ room.row.status # "ended"
  /\ \E w \in AdoptEnd(World) : Commit(w)

AdvanceTime ==
  /\ now < MaxNow
  /\ now' = now + 1
  /\ UNCHANGED <<row, open, nsess, pollRows, room, online, lastClient>>

-----------------------------------------------------------------------------
(* What the host and the controllers do *)

\* Bound on what users may still do.
Budget ==
  /\ now <= UserHorizon
  /\ room.row.ver < MaxVersion
  /\ nsess < MaxSessions

UserActs == Loaded /\ Budget
LiveControl == UserActs /\ room.row.status = "live"

\* openRoomLocked.
OpenRoom ==
  /\ UserActs
  /\ room.row.status = "scheduled"
  /\ \E w \in StatusChange(World, "scheduled", "lobby") : Commit(w)

\* handleStart from the successful status change on.
Started(w, pos, delay) ==
  LET sessions == IF w.room.row.sid = NoSession \/ w.room.sessionEnded
                  THEN OpenSession(w) ELSE {w}
  IN UNION {IF v.ok THEN StartCountdownAfter(v, pos, delay) ELSE {v} : v \in sessions}

Start ==
  /\ UserActs
  /\ room.row.status = "lobby"
  /\ \E pos \in Positions, delay \in Delays :
       \E w \in StatusChange(World, "lobby", "live") :
         \E v \in IF w.ok THEN Started(w, pos, delay) ELSE {w} : Commit(v)

\* Replay starts at 0: at the known end, or after a film of unknown length.
PlayPosition ==
  LET d == Duration[room.row.media]
  IN IF (d > 0 /\ Expected(room.row) >= d) \/ (d = 0 /\ room.sessionEnded)
     THEN 0 ELSE Expected(room.row)

SettledButCountdown == [World EXCEPT !.room.pause = NoPause]

\* A world where the countdown and the pause request are dropped.
Settled == [World EXCEPT !.room.countdownS = NoCountdown, !.room.pause = NoPause]

Play ==
  /\ LiveControl
  /\ room.row.brk = NoBreak
  /\ ~room.row.playing \/ CountingDown(room.row)
  /\ IF room.sessionEnded
     THEN \E w \in DropNextPoll(Settled) : \E v \in OpenSession(w) :
            \E x \in IF v.ok THEN StartCountdown(v, PlayPosition) ELSE {v} : Commit(x)
     ELSE \E w \in SetPlayback(Settled, PlayPosition, TRUE, room.row.rate, now) : Commit(w)

Pause ==
  /\ LiveControl
  /\ room.row.brk = NoBreak
  /\ \E w \in SetPlayback(Settled, Expected(room.row), FALSE, room.row.rate, now) : Commit(w)

\* Seek keeps a running countdown's instant; after the film it keeps still.
Seek ==
  /\ LiveControl
  /\ room.row.brk = NoBreak
  /\ \E pos \in Positions :
       \E w \in IF CountingDown(room.row)
                THEN SetPlayback(World, pos, TRUE, room.row.rate, room.row.upd)
                ELSE SetPlayback([World EXCEPT !.room.countdownS = NoCountdown], pos,
                                 room.row.playing /\ ~room.sessionEnded, room.row.rate, now) :
         Commit(w)

SetRate ==
  /\ LiveControl
  /\ room.row.brk = NoBreak
  /\ room.row.media \notin Companion
  /\ \E rate \in Rates :
       \E w \in IF CountingDown(room.row)
                THEN SetPlayback(World, room.row.pos, TRUE, rate, room.row.upd)
                ELSE SetPlayback(World, Expected(room.row), room.row.playing, rate, now) :
         Commit(w)

\* wsBreakLocked: on an error the break is taken off the copy again.
TakeBreak ==
  /\ LiveControl
  /\ ~room.sessionEnded
  /\ room.row.brk = NoBreak
  /\ LET begun == [Settled EXCEPT !.room.row.brk = now + BreakLen]
     IN \E w \in SetPlayback(begun, Expected(room.row), FALSE, room.row.rate, now) :
          Commit(IF w.ok THEN w ELSE [w EXCEPT !.room.row.brk = NoBreak])

ControllerEndsBreak ==
  /\ UserActs
  /\ \E w \in EndBreak(World) : Commit(w)

ChangeMedia ==
  /\ UserActs
  /\ room.row.status # "ended"
  /\ \E m \in Media : \E w \in ApplyMedia(World, m) : Commit(w)

End ==
  /\ UserActs
  /\ \E w \in EndRoom(World) : Commit(w)

-----------------------------------------------------------------------------
(* What viewers do *)

RequestPause ==
  /\ UserActs
  /\ room.row.status = "live"
  /\ room.row.playing
  /\ room.pause = NoPause
  /\ room' = [room EXCEPT !.pause = now]
  /\ UNCHANGED <<now, row, open, nsess, pollRows, online, lastClient>>

\* The requester or a controller withdraws it, or the host turns requests off.
CancelPauseRequest ==
  /\ Loaded
  /\ room.pause # NoPause
  /\ room' = [room EXCEPT !.pause = NoPause]
  /\ UNCHANGED <<now, row, open, nsess, pollRows, online, lastClient>>

\* wsMediaEndedLocked: a player's word counts when the clock agrees.
ReportMediaEnded ==
  /\ LiveControl
  /\ ~room.sessionEnded
  /\ LET d == Duration[room.row.media]
     IN d > 0 => Expected(room.row) >= d - EndSlack
  /\ \E w \in MediaEnded(World) : Commit(w)

CreatePoll ==
  /\ UserActs
  /\ room.row.status # "ended"
  /\ room.poll = "none"
  /\ \E w \in InsertPoll(World, "custom") : Commit(w)

\* handlePollPick: a controller plays an option; the status is not looked at.
PickPoll ==
  /\ UserActs
  /\ room.poll # "none"
  /\ \E m \in Media : \E w \in ClosePoll(World) : \E v \in ApplyMedia(w, m) : Commit(v)

\* finishPollLocked: a "next" poll of an open room plays its winner.
FinishPoll ==
  /\ Loaded
  /\ room.poll # "none"
  /\ \E w \in ClosePoll(World) :
       IF room.poll = "next" /\ room.row.status \in {"live", "lobby"}
       THEN /\ Budget
            /\ \E m \in Media : \E v \in ApplyMedia(w, m) : Commit(v)
       ELSE Commit(w)

-----------------------------------------------------------------------------
(* What the ticker and the sweeper do *)

TickBreakOfPlaying(w) ==
  IF w.room.row.brk # NoBreak /\ w.room.row.playing THEN EndBreak(w) ELSE {w}

TickBreak(w) ==
  IF w.room.row.brk # NoBreak /\ now >= w.room.row.brk THEN EndBreak(w) ELSE {w}

TickTimers(w) ==
  [w EXCEPT !.room.countdownS = IF now >= @ THEN NoCountdown ELSE @,
            !.room.pause = IF @ # NoPause /\ now - @ > PauseTTL THEN NoPause ELSE @]

TickMediaEndCompanion(w, atEnd) ==
  IF ~w.room.sessionEnded /\ w.room.row.playing /\ atEnd /\ w.room.row.media \in Companion
  THEN MediaEnded(w) ELSE {w}

\* The clock ends a companion room's film at once, a sync room's after Grace.
\* atEnd was computed at the head of the tick.
TickMediaEnd(w, atEnd) ==
  LET r == w.room.row
  IN IF /\ ~w.room.sessionEnded /\ r.playing /\ atEnd
        /\ r.media \in Companion \/ RawPosition(r) >= Duration[r.media] + Grace
     THEN MediaEnded(w) ELSE {w}

\* tickRoom.
Tick ==
  /\ Loaded
  /\ room.row.status = "live"
  /\ \E w \in TickBreak(World) :
       \E v \in TickMediaEnd(TickTimers(w), AtEnd(room.row)) : Commit(v)

UnusedLobby == row.status = "lobby" /\ ~online

Unused == row.status \in {"lobby", "live"} /\ ~online

\* sweep 2 and 4: rooms nobody is in, schedules nobody opened.
SweepUnused ==
  /\ Loaded
  /\ \/ Unused
     \/ row.status = "scheduled" /\ room.row.status = "scheduled"
  /\ \E w \in EndRoom(World) : Commit(w)

\* sweep loads the room it looks into.
SweepLoad == row.status # "ended" /\ Load

\* sweep 5 on a row that is not the room's open poll.
SweepStalePoll ==
  /\ Loaded
  /\ \E kind \in pollRows \ {room.poll} : pollRows' = pollRows \ {kind}
  /\ UNCHANGED <<now, row, open, nsess, room, online, lastClient>>

-----------------------------------------------------------------------------
(* handleCreate leaves the room scheduled or in its lobby. *)
Init ==
  /\ now = 1
  /\ row \in {[status |-> s, media |-> m, pos |-> 0, playing |-> FALSE, rate |-> 1,
               upd |-> 1, ver |-> 0, brk |-> NoBreak, sid |-> NoSession] :
                s \in {"scheduled", "lobby"}, m \in Media}
  /\ open = {}
  /\ nsess = 0
  /\ pollRows = {}
  /\ room = NotLoaded
  /\ online = FALSE
  /\ lastClient = 1

HostNext ==
  \/ OpenRoom \/ Start \/ Play \/ Pause \/ Seek \/ SetRate \/ TakeBreak
  \/ ControllerEndsBreak \/ ChangeMedia \/ End

ViewerNext ==
  RequestPause \/ CancelPauseRequest \/ ReportMediaEnded \/ CreatePoll \/ PickPoll \/ FinishPoll

SystemNext ==
  \/ Load \/ Evict \/ Crash \/ Connect \/ Disconnect \/ ExternalEnd \/ CheckExternalEnd
  \/ AdvanceTime \/ Tick \/ SweepUnused \/ SweepStalePoll

Next == HostNext \/ ViewerNext \/ SystemNext

Spec == Init /\ [][Next]_vars

(***************************************************************************)
(* Time passes; the ticker runs every second and the sweeper every 30.  A  *)
(* room stays loaded for at least IdleWindow, so whenever it is loaded     *)
(* again and again the ticker and the sweeper do reach it: strong          *)
(* fairness.  A clock unit is longer than the ticker's second: time does   *)
(* not move on while the tick that ends a loaded room's break is due.      *)
(***************************************************************************)
BreakIsDue ==
  Loaded /\ room.row.status = "live" /\ room.row.brk # NoBreak /\ now >= room.row.brk

TimelyNext == Next /\ (now' # now => ~BreakIsDue)

Fairness ==
  /\ WF_vars(AdvanceTime /\ ~BreakIsDue)
  /\ WF_vars(SweepLoad)
  /\ WF_vars(CheckExternalEnd)
  /\ SF_vars(Tick)
  /\ SF_vars(SweepUnused)

FairSpec == Init /\ [][TimelyNext]_vars /\ Fairness
-----------------------------------------------------------------------------
(* Properties *)

\* What a client sees: the copy of a loaded room, the row of any other.
View == IF Loaded THEN room.row ELSE row

\* Every variable keeps its type.
TypeOK ==
  /\ now \in Nat
  /\ row \in Row
  /\ open \subseteq 1..nsess
  /\ nsess \in Nat
  /\ pollRows \subseteq PollKinds
  /\ Loaded => room \in LiveRoom
  /\ online \in BOOLEAN
  /\ lastClient \in Nat

\* A room on a break stands still, in the copy and in the row, whichever
\* statements fail: no control, media change, reload or end leaves a running
\* clock under a break (wsControlLocked refuses, the others drop the break).
BreakStopsClock ==
  /\ row.brk # NoBreak => ~row.playing
  /\ Loaded /\ room.row.brk # NoBreak => ~room.row.playing

\* The countdown shown in a snapshot (countdown_start_ms) is the instant the
\* clock really starts at: no seek, rate, pause or media change leaves a
\* pending countdown behind for a clock that stands or started elsewhere.
CountdownIsClock ==
  Loaded /\ room.row.status = "live" /\ room.countdownS > now =>
    room.row.playing /\ room.row.upd = room.countdownS

\* The two rules of the clock that hold whichever statements fail: what a break
\* stops stays stopped, and a countdown says when the clock starts.
ClockIsHeld == BreakStopsClock /\ CountdownIsClock

\* The same of a room whose fields are in range.
RoomIsSound == TypeOK /\ ClockIsHeld

\* The "what next" vote is open only after the film: the sweeper, which plays
\* its winner, never switches a film people are watching.
NextPollOnlyAfterFilm ==
  Loaded /\ room.row.status = "live" /\ room.poll = "next" =>
    room.sessionEnded /\ ~room.row.playing

\* Whatever runs or is on a break is part of an open viewing session.
WatchingIsRecorded ==
  Loaded /\ room.row.status = "live" /\ (room.row.playing \/ room.row.brk # NoBreak) =>
    room.row.sid \in open /\ ~room.sessionEnded

\* A viewing session is recorded for as long as its film is watched, and the
\* vote on the next film belongs to the time after it.
FilmsAreRecorded == WatchingIsRecorded /\ NextPollOnlyAfterFilm

\* At most one session of the room is open, the one the row points at, and the
\* loaded room knows whether it is.
OneOpenSession ==
  /\ open \subseteq {row.sid}
  /\ Loaded => room.row.sid = row.sid /\ room.sessionEnded = SessionOver(row)

\* hub.go: "DB writes happen under mu so the in-memory copy and the row never
\* diverge" - until the admin panel ends the row.
MemoryMirrorsRow ==
  Loaded /\ row.status # "ended" => room.row = row

\* One open poll per room: the loaded room has the one that is open in the
\* database, so no poll closes or is answered twice and none is forgotten.
OneOpenPoll ==
  Loaded => pollRows = {room.poll} \ {"none"}

\* The loaded room knows of its row, its session and its poll what the database
\* does, through every sequence of handlers, sweeps, reloads and crashes.
DatabaseAgrees == MemoryMirrorsRow /\ OneOpenSession /\ OneOpenPoll

\* Nothing is played, stopped or voted on but what the database has a record of.
RecordsAgree == DatabaseAgrees /\ FilmsAreRecorded

Rank(s) == CASE s = "scheduled" -> 0 [] s = "lobby" -> 1 [] s = "live" -> 2 [] s = "ended" -> 3

\* scheduled, lobby, live, ended: neither the row nor what clients see ever
\* goes back, across reloads, crashes, failed statements and external ends.
LifecycleForward ==
  [][/\ Rank(row'.status) >= Rank(row.status)
     /\ Rank(View'.status) >= Rank(View.status)]_vars

\* Clients order playback frames by version: a clock change they see in a live
\* room comes with a larger version.
ClockChangesBumpVersion ==
  [][View.status = "live" /\ View'.status = "live" =>
       \/ View'.ver > View.ver
       \/ <<View'.pos, View'.playing, View'.rate, View'.upd>>
            = <<View.pos, View.playing, View.rate, View.upd>>]_vars

\* The refinement mapping: a loaded room is seen through its copy, any other
\* through its row; an ended room is over, whatever its clock was left at.
Film ==
  IF View.status = "ended" THEN "over"
  ELSE IF View.sid = NoSession THEN "none"
  ELSE IF (IF Loaded THEN room.sessionEnded ELSE row.sid \notin open) THEN "over" ELSE "running"

Party == INSTANCE WatchParty WITH
  status <- View.status,
  film <- Film,
  playing <- View.status = "live" /\ View.playing,
  onBreak <- View.status = "live" /\ View.brk # NoBreak

\* The room implements what it promises (every statement succeeding): loading,
\* evicting, crashing and reloading are invisible.
ImplementsParty == Party!Spec

OnBreak == View.status = "live" /\ View.brk # NoBreak
FilmRuns == View.status = "live" /\ View.playing /\ Duration[View.media] > 0

\* A break ends, even when everyone leaves during it.
BreakEnds == OnBreak ~> ~OnBreak

\* A film of known length does not run past its end for ever.
FilmEnds == FilmRuns ~> ~FilmRuns

\* A room everyone left for good is ended.
EmptyRoomEnds == <>[](~online) => <>(View.status = "ended")

\* An end written by the admin panel reaches the loaded room.
ExternalEndIsAdopted == Loaded /\ row.status = "ended" ~> ~Loaded \/ room.row.status = "ended"

\* Breaks, films and abandoned rooms all come to an end, whether or not the room
\* stays loaded, and a loaded room learns that it has been ended.
EverythingEnds == BreakEnds /\ FilmEnds /\ EmptyRoomEnds /\ ExternalEndIsAdopted

-----------------------------------------------------------------------------
(* What the documents and comments promise and the code does not keep: see *)
(* README.md.                                                             *)

\* docs/WATCH_PARTY.md: a reload rebuilds the same state - a clock that starts
\* in the future is announced as a countdown.
FutureClockIsCountdown ==
  Loaded /\ room.row.status = "live" /\ CountingDown(room.row) =>
    room.countdownS = room.row.upd

\* docs/WATCH_PARTY.md on the clock: every change of what a playback frame says
\* - the end of a break included - bumps the version.
EveryChangeBumpsVersion ==
  [][View.status = "live" /\ View'.status = "live" /\ View'.ver = View.ver =>
       <<View'.pos, View'.playing, View'.rate, View'.upd, View'.brk>>
         = <<View.pos, View.playing, View.rate, View.upd, View.brk>>]_vars
=============================================================================
