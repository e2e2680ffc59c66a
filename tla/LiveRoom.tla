------------------------------ MODULE LiveRoom ------------------------------
(***************************************************************************)
(* Live rooms: connections, the registry of who is live where, the host's   *)
(* grace period and the hand-over between devices (websocket/live_hub.go,   *)
(* live_handler.go, live_transfer.go).  The hub's goroutine takes           *)
(* registrations, unregistrations and events one at a time; grace timers,   *)
(* hand-over timers, UPDATEs in goroutines of their own and HTTP handlers   *)
(* run beside it.                                                           *)
(***************************************************************************)
EXTENDS Integers, FiniteSets

CONSTANTS
  Rooms,
  Users,
  Devices,
  Conns,       \* WebSocket connections: as many at once as these, used again
  Timers,      \* grace timers, reused
  HostOf,      \* the host each room was opened by
  Admins,      \* platform administrators
  Scenarios,   \* what may happen, and the bounds it may happen within
  None

\* Besides coming and going: people are put out and rooms ended ("moderation"),
\* there is another host ("transfers"), roles change ("roles"), users change
\* devices ("handover") and rooms ("switching"), statements fail ("failures").
\* Bounds: rooms that are used, grace timers at once, statements under way at
\* once, restarts.
ScenarioSet ==
  [events : SUBSET {"moderation", "transfers", "roles", "handover", "switching", "failures"},
   rooms : SUBSET Rooms, timers : Nat, writes : Nat, crashes : Nat]

ASSUME LiveAssumption ==
  /\ HostOf \in [Rooms -> Users]
  /\ Admins \subseteq Users
  /\ Scenarios \subseteq ScenarioSet
  /\ None \notin Conns \cup Timers \cup Users

VARIABLES
  client,     \* the connections
  rooms,      \* who is in which room, by which connection
  liveUsers,  \* each user's current connection
  hostGrace,  \* each room's planned end, if any
  timer,      \* the timers, and the callbacks they started
  hub,        \* the host, gone, whom the hub's goroutine has still to deal with
  xfers,      \* codes waiting to be typed in on another device
  status,     \* live_rooms.status
  host,       \* live_rooms.host_user_id
  role,       \* those whose live_room_participants.role is host
  active,     \* the users live_room_participants has as active
  banned,     \* live_room_bans
  writes,     \* UPDATEs and INSERTs that have not reached the database yet
  crashes,    \* restarts so far
  scenario    \* what may happen, chosen at the start

memory == <<client, rooms, liveUsers, hostGrace, timer, xfers>>
database == <<status, host, role, active, banned, writes>>
bounds == <<crashes, scenario>>
vars == <<memory, hub, database, bounds>>

\* "unused", "allowed" by the precheck, "checked" by the handler, "open",
\* "leaving" (its reader has stopped).  Of the roles, host is told from others.
NoClient ==
  [stage |-> "unused", user |-> None, room |-> None, device |-> None, host |-> FALSE,
   deliberate |-> FALSE, transferring |-> FALSE, done |-> FALSE, out |-> FALSE, told |-> FALSE]

\* What remains of a connection whose reader has been unregistered.
OverButNotForgotten(c) == [client[c] EXCEPT !.stage = "unused"]
Over(c) == NoClient

Stopped == [stage |-> "stopped", room |-> None]
In(t, stage, r) == timer[t] = [stage |-> stage, room |-> r]

Current(c) == client[c].stage # "unused" /\ rooms[client[c].room][client[c].user] = c
Connected(r, u) == rooms[r][u] # None
Members(r) == {u \in Users : Connected(r, u)}

\* The database after a statement, which may have failed: nobody looks.
After(old, new) == IF "failures" \in scenario.events THEN {old, new} ELSE {new}

\* A SELECT of host_user_id: None if it fails.
HostRead(r) == After(None, host[r])

-----------------------------------------------------------------------------
(* Grace *)

\* cancelHostGraceEnd: a timer that has fired cannot be stopped any more.
Cancelled(r) ==
  [t \in Timers |->
     IF t = hostGrace[r] /\ timer[t].stage = "running" THEN Stopped ELSE timer[t]]

StopsOnly(r) ==
  /\ UNCHANGED hostGrace
  /\ timer' = Cancelled(r)

CancelGrace(r) ==
  /\ hostGrace' = [hostGrace EXCEPT ![r] = None]
  /\ timer' = Cancelled(r)

\* scheduleHostGraceEnd: a room has one planned end.
ScheduleGrace(r) ==
  IF hostGrace[r] # None
    THEN UNCHANGED <<hostGrace, timer>>
    ELSE \E t \in Timers :
           /\ timer[t] = Stopped
           /\ Cardinality({v \in Timers : timer[v] # Stopped}) < scenario.timers
           /\ timer' = [timer EXCEPT ![t] = [stage |-> "running", room |-> r]]
           /\ hostGrace' = [hostGrace EXCEPT ![r] = t]

\* endLiveRoom, in the database and with the clients told.
EndRows(r) ==
  /\ status' \in After(status, [status EXCEPT ![r] = "ended"])
  /\ active' \in After(active, [active EXCEPT ![r] = {}])

EndLiveRoom(r) == CancelGrace(r) /\ EndRows(r)

Fire(t) ==
  /\ timer[t].stage = "running"
  /\ timer' = [timer EXCEPT ![t].stage = "fired"]
  /\ UNCHANGED <<client, rooms, liveUsers, hostGrace, xfers, database, hub, bounds>>

\* The callback first forgets the room's planned end, whichever it is.
BeginEnd(t) ==
  /\ timer[t].stage = "fired"
  /\ hostGrace' = [hostGrace EXCEPT ![timer[t].room] = None]
  /\ timer' = [timer EXCEPT ![t].stage = "checking"]
  /\ UNCHANGED <<client, rooms, liveUsers, xfers, database, hub, bounds>>

\* ... then asks whether the host the database names, if it answers, is
\* connected ...
CheckHost(t) ==
  /\ timer[t].stage = "checking"
  /\ \E u \in HostRead(timer[t].room) :
       timer' = [timer EXCEPT ![t] =
         IF u # None /\ Connected(timer[t].room, u) THEN Stopped ELSE [@ EXCEPT !.stage = "ending"]]
  /\ UNCHANGED <<client, rooms, liveUsers, hostGrace, xfers, database, hub, bounds>>

\* ... and ends the room.
EndByGrace(t) ==
  /\ timer[t].stage = "ending"
  /\ LET r == timer[t].room IN
       /\ hostGrace' = [hostGrace EXCEPT ![r] = None]
       /\ timer' = [Cancelled(r) EXCEPT ![t] = Stopped]
       /\ EndRows(r)
  /\ UNCHANGED <<client, rooms, liveUsers, xfers, host, role, banned, writes, hub, bounds>>

\* ForceEndRoom: an administrator, or the backend.
ForceEndRoom(r) ==
  /\ "moderation" \in scenario.events
  /\ EndLiveRoom(r)
  /\ UNCHANGED <<client, rooms, liveUsers, xfers, host, role, banned, writes, hub, bounds>>

-----------------------------------------------------------------------------
(* Connecting *)

Joining(c, u, r, d) ==
  client' = [client EXCEPT ![c] =
    [NoClient EXCEPT !.stage = "allowed", !.user = u, !.room = r, !.device = d]]

\* LivePrecheck: nobody of this user is live, or the same device is.
Precheck(c, u, r, d) ==
  /\ r \in scenario.rooms
  /\ client[c] = NoClient
  /\ liveUsers[u] # None => client[liveUsers[u]].device = d
  /\ Joining(c, u, r, d)
  /\ UNCHANGED <<rooms, liveUsers, hostGrace, timer, xfers, database, hub, bounds>>

\* HandleWebSocket up to the registration: an administrator who takes no part
\* is made a broadcaster.  A SELECT that fails finds no row.
Check(c) ==
  /\ client[c].stage = "allowed"
  /\ LET u == client[c].user
         r == client[c].room
     IN
       /\ FALSE \in After(FALSE, u \in banned[r])
       /\ \/ /\ u \in active[r]
             /\ client' = [client EXCEPT ![c].stage = "checked", ![c].host = u \in role[r]]
             /\ UNCHANGED <<role, active>>
          \/ /\ FALSE \in After(FALSE, u \in active[r])
             /\ u \in Admins
             /\ client' = [client EXCEPT ![c].stage = "checked"]
             /\ role' \in After(role, [role EXCEPT ![r] = @ \ {u}])
             /\ active' \in After(active, [active EXCEPT ![r] = @ \cup {u}])
  /\ UNCHANGED <<rooms, liveUsers, hostGrace, timer, xfers, status, host, banned, writes, hub, bounds>>

Refuse(c) ==
  /\ client[c].stage = "allowed"
  /\ LET u == client[c].user
         r == client[c].room
     IN
       \/ u \in banned[r]
       \/ FALSE \in After(FALSE, u \in active[r]) /\ FALSE \in After(FALSE, u \in Admins)
  /\ client' = [client EXCEPT ![c] = NoClient]
  /\ UNCHANGED <<rooms, liveUsers, hostGrace, timer, xfers, database, hub, bounds>>

\* Run, Register: the newest connection takes the user's place in the room
\* and in the registry; a host's cancels the planned end.
Register(c) ==
  /\ hub = None
  /\ client[c].stage = "checked"
  /\ LET u == client[c].user
         r == client[c].room
     IN
       /\ client' = [client EXCEPT ![c].stage = "open"]
       /\ rooms' = [rooms EXCEPT ![r][u] = c]
       /\ liveUsers' = [liveUsers EXCEPT ![u] = c]
       /\ IF client[c].host THEN CancelGrace(r) ELSE UNCHANGED <<hostGrace, timer>>
  /\ UNCHANGED <<xfers, database, hub, bounds>>

-----------------------------------------------------------------------------
(* Leaving *)

\* The reader stops: a close frame says so on purpose, anything else does not.
Close(c, deliberate) ==
  /\ client[c].stage = "open"
  /\ client' = [client EXCEPT ![c].stage = "leaving", ![c].deliberate = deliberate]
  /\ UNCHANGED <<rooms, liveUsers, hostGrace, timer, xfers, database, hub, bounds>>

\* closeSend was called: the writer closes the connection.
Closed(c) ==
  /\ client[c].done
  /\ \E deliberate \in BOOLEAN : Close(c, deliberate)

LeavesAlways(c) == TRUE
LeavesUnlessClosed(c) == Current(c) /\ ~client[c].done

\* Only the connection that holds the user's place leaves the room.
Leaves(c) == Current(c)

IsHostByRole(c, seen) == client[c].host

\* Whoever was host and whom the database still names - or says nothing about.
IsRoomHost(c, seen) == client[c].host /\ seen \in {client[c].user, None}

\* Run, Unregister, for the reader of c or for somebody who put c out: out of
\* the maps; who was host is then looked up.
Unregister(c) ==
  /\ hub = None
  /\ client[c].stage = "leaving" \/ client[c].out
  /\ LET u == client[c].user
         r == client[c].room
     IN
       /\ client' = [client EXCEPT ![c] =
            IF client[c].stage = "leaving" /\ ~client[c].out THEN Over(c)
            ELSE [client[c] EXCEPT !.out = FALSE, !.done = @ \/ Leaves(c)]]
       /\ rooms' = IF Leaves(c) THEN [rooms EXCEPT ![r][u] = None] ELSE rooms
       /\ liveUsers' = IF liveUsers[u] = c THEN [liveUsers EXCEPT ![u] = None] ELSE liveUsers
       /\ \E seen \in HostRead(r) :
            hub' = IF Leaves(c) /\ IsRoomHost(c, seen)
                     THEN [room |-> r, user |-> u, seen |-> seen,
                           ends |-> client[c].deliberate /\ ~client[c].transferring]
                     ELSE None
  /\ UNCHANGED <<hostGrace, timer, xfers, database, bounds>>

\* ... and the room ends, if that was on purpose, or waits for the host.
HostLeft ==
  /\ hub # None
  /\ hub' = None
  /\ \/ hub.ends /\ EndLiveRoom(hub.room)
     \/ ~hub.ends /\ ScheduleGrace(hub.room) /\ UNCHANGED <<status, active>>
  /\ UNCHANGED <<client, rooms, liveUsers, xfers, host, role, banned, writes, bounds>>

\* KickUser, EnforceBlock, a client that does not empty its queue.
PutOut(c) ==
  /\ "moderation" \in scenario.events
  /\ Current(c)
  /\ ~client[c].out
  /\ \E slow \in BOOLEAN : client' = [client EXCEPT ![c].out = TRUE, ![c].done = @ \/ slow]
  /\ UNCHANGED <<rooms, liveUsers, hostGrace, timer, xfers, database, hub, bounds>>

-----------------------------------------------------------------------------
(* Events of hosts and administrators *)

\* canModerate, of the connection that holds the sender's place.
MayModerate(r, u) ==
  /\ Connected(r, u)
  /\ client[rooms[r][u]].host \/ u \in Admins

\* u sends an event to room r: by any of its connections that is open.
Sends(r, u) ==
  \E c \in Conns : client[c].stage = "open" /\ client[c].user = u /\ client[c].room = r

Later(w) ==
  /\ Cardinality(writes \cup w) <= scenario.writes
  /\ writes' = writes \cup w

HostRow(r, u) == [kind |-> "host", room |-> r, user |-> u]
RoleRow(r, u, b) == [kind |-> "role", room |-> r, user |-> u, host |-> b]
BanRow(r, u) == [kind |-> "ban", room |-> r, user |-> u]

\* transfer_host: roles change at once if the target is here; the rows follow
\* in goroutines of their own, whether it is or not.
TransferHost(r, u, target) ==
  /\ "transfers" \in scenario.events
  /\ hub = None
  /\ Sends(r, u)
  /\ MayModerate(r, u)
  /\ LET sender == rooms[r][u]
         washost == client[sender].host
     IN
       /\ client' = IF Connected(r, target)
                      THEN [client EXCEPT ![rooms[r][target]].host = TRUE,
                                          ![sender].host = @ /\ ~washost]
                      ELSE client
       /\ Later({HostRow(r, target), RoleRow(r, target, TRUE)}
                \cup IF washost THEN {RoleRow(r, u, FALSE)} ELSE {})
  /\ UNCHANGED <<rooms, liveUsers, hostGrace, timer, xfers, status, host, role, active, banned, hub, bounds>>

\* kick_from_live: the ban follows in a goroutine of its own.
KickFromLive(r, u, target) ==
  /\ "moderation" \in scenario.events
  /\ hub = None
  /\ Sends(r, u)
  /\ MayModerate(r, u)
  /\ Connected(r, target)
  /\ client' = [client EXCEPT ![rooms[r][target]].out = TRUE]
  /\ Later({BanRow(r, target)})
  /\ UNCHANGED <<rooms, liveUsers, hostGrace, timer, xfers, status, host, role, active, banned, hub, bounds>>

\* request_approved, from anybody; kick_speaker, from a moderator: the target
\* is a broadcaster or a listener from now on, in memory only.
SetRole(r, u, target) ==
  /\ "roles" \in scenario.events
  /\ hub = None
  /\ Sends(r, u)
  /\ Connected(r, target)
  /\ client' = [client EXCEPT ![rooms[r][target]].host = FALSE]
  /\ UNCHANGED <<rooms, liveUsers, hostGrace, timer, xfers, database, hub, bounds>>

\* One of those statements reaches the database, in any order, or is lost.
Written(w) ==
  /\ w \in writes
  /\ writes' = writes \ {w}
  /\ host' \in After(host, IF w.kind = "host" THEN [host EXCEPT ![w.room] = w.user] ELSE host)
  /\ role' \in After(role, IF w.kind # "role" THEN role
           ELSE [role EXCEPT ![w.room] = IF w.host THEN @ \cup {w.user} ELSE @ \ {w.user}])
  /\ banned' \in After(banned,
       IF w.kind = "ban" THEN [banned EXCEPT ![w.room] = @ \cup {w.user}] ELSE banned)
  /\ UNCHANGED <<memory, status, active, hub, bounds>>

-----------------------------------------------------------------------------
(* From device to device, and from room to room *)

\* GenerateXferCode, for the room the user is live in.
GenerateXferCode(u) ==
  /\ "handover" \in scenario.events
  /\ liveUsers[u] # None
  /\ xfers' = [xfers EXCEPT ![u] = client[liveUsers[u]].room]
  /\ UNCHANGED <<client, rooms, liveUsers, hostGrace, timer, database, hub, bounds>>

\* CancelXfer, or the code runs out.
CancelXfer(u) ==
  /\ xfers[u] # None
  /\ xfers' = [xfers EXCEPT ![u] = None]
  /\ UNCHANGED <<client, rooms, liveUsers, hostGrace, timer, database, hub, bounds>>

\* forceLeaveUser: the client is told to leave, and closed in three seconds.
ForceLeave(u, r, cs, transferring) ==
  LET old == liveUsers[u] IN
    IF old = None \/ client[old].room # r THEN cs
    ELSE [cs EXCEPT ![old].told = TRUE, ![old].transferring = @ \/ transferring]

Takes(c, u, r, d) ==
  [client EXCEPT ![c] = [NoClient EXCEPT !.stage = "allowed", !.user = u, !.room = r, !.device = d]]

\* ConfirmXfer: the code is right; the new device may join.
ConfirmXfer(c, u, d) ==
  /\ client[c] = NoClient
  /\ xfers[u] # None
  /\ client' = ForceLeave(u, xfers[u], Takes(c, u, xfers[u], d), TRUE)
  /\ xfers' = [xfers EXCEPT ![u] = None]
  /\ UNCHANGED <<rooms, liveUsers, hostGrace, timer, database, hub, bounds>>

\* SwitchLiveAway: out of one room, then into another.
SwitchLiveAway(c, u, r, d) ==
  /\ "switching" \in scenario.events
  /\ r \in scenario.rooms
  /\ client[c] = NoClient
  /\ liveUsers[u] # None
  /\ client[liveUsers[u]].room # r
  /\ client' = ForceLeave(u, client[liveUsers[u]].room, Takes(c, u, r, d), FALSE)
  /\ UNCHANGED <<rooms, liveUsers, hostGrace, timer, xfers, database, hub, bounds>>

\* Three seconds later: if it is still the user's current connection it is closed.
LeaveTimeout(c) ==
  /\ client[c].told
  /\ client' = [client EXCEPT ![c].told = FALSE,
                              ![c].done = @ \/ liveUsers[client[c].user] = c]
  /\ UNCHANGED <<rooms, liveUsers, hostGrace, timer, xfers, database, hub, bounds>>

-----------------------------------------------------------------------------
\* The process stops: connections, timers and unsent statements are lost.
Crash ==
  /\ crashes < scenario.crashes
  /\ crashes' = crashes + 1
  /\ client' = [c \in Conns |-> NoClient]
  /\ rooms' = [r \in Rooms |-> [u \in Users |-> None]]
  /\ liveUsers' = [u \in Users |-> None]
  /\ hub' = None
  /\ hostGrace' = [r \in Rooms |-> None]
  /\ timer' = [t \in Timers |-> Stopped]
  /\ xfers' = [u \in Users |-> None]
  /\ writes' = {}
  /\ UNCHANGED <<status, host, role, active, banned, scenario>>

Init ==
  /\ client = [c \in Conns |-> NoClient]
  /\ rooms = [r \in Rooms |-> [u \in Users |-> None]]
  /\ liveUsers = [u \in Users |-> None]
  /\ hub = None
  /\ hostGrace = [r \in Rooms |-> None]
  /\ timer = [t \in Timers |-> Stopped]
  /\ xfers = [u \in Users |-> None]
  /\ status = [r \in Rooms |-> "live"]
  /\ host = HostOf
  /\ role = [r \in Rooms |-> {HostOf[r]}]
  /\ active = [r \in Rooms |-> Users]
  /\ banned = [r \in Rooms |-> {}]
  /\ writes = {}
  /\ crashes = 0
  /\ scenario \in Scenarios

Next ==
  \/ \E c \in Conns, u \in Users, r \in Rooms, d \in Devices :
       Precheck(c, u, r, d) \/ SwitchLiveAway(c, u, r, d)
  \/ \E c \in Conns : Check(c) \/ Refuse(c) \/ Register(c) \/ Unregister(c) \/ PutOut(c) \/ LeaveTimeout(c)
  \/ \E c \in Conns, deliberate \in BOOLEAN : Close(c, deliberate)
  \/ HostLeft
  \/ \E r \in Rooms, u, v \in Users : TransferHost(r, u, v) \/ KickFromLive(r, u, v) \/ SetRole(r, u, v)
  \/ \E w \in writes : Written(w)
  \/ \E u \in Users : GenerateXferCode(u) \/ CancelXfer(u)
  \/ \E c \in Conns, u \in Users, d \in Devices : ConfirmXfer(c, u, d)
  \/ \E t \in Timers : Fire(t) \/ BeginEnd(t) \/ CheckHost(t) \/ EndByGrace(t)
  \/ \E r \in Rooms : ForceEndRoom(r)
  \/ Crash

Spec == Init /\ [][Next]_vars

\* The hub's goroutine takes what waits, timers fire and their callbacks run,
\* statements reach the database, a closed connection's reader stops.  Clients
\* need not do anything.
Fairness ==
  /\ \A c \in Conns :
       /\ WF_vars(Check(c) \/ Refuse(c))
       /\ WF_vars(Register(c))
       /\ WF_vars(Unregister(c))
       /\ WF_vars(Closed(c))
       /\ WF_vars(LeaveTimeout(c))
  /\ \A t \in Timers : WF_vars(Fire(t) \/ BeginEnd(t) \/ CheckHost(t) \/ EndByGrace(t))
  /\ WF_vars(HostLeft)
  /\ WF_vars(\E w \in writes : Written(w))

FairSpec == Spec /\ Fairness

-----------------------------------------------------------------------------
(* Properties *)

TypeOK ==
  /\ \A c \in Conns :
       /\ client[c].stage \in {"unused", "allowed", "checked", "open", "leaving"}
       /\ client[c].stage = "unused" => client[c] = NoClient
       /\ client[c].stage # "unused" => client[c].user \in Users /\ client[c].room \in Rooms
  /\ \A r \in Rooms, u \in Users : rooms[r][u] # None => rooms[r][u] \in Conns
  /\ \A u \in Users : liveUsers[u] # None => liveUsers[u] \in Conns
  /\ \A t \in Timers : timer[t].stage \in {"stopped", "running", "fired", "checking", "ending"}
  /\ status \in [Rooms -> {"live", "ended"}]
  /\ host \in [Rooms -> Users]
  /\ {role, active, banned} \subseteq [Rooms -> SUBSET Users]
  /\ Cardinality(writes) <= scenario.writes
  /\ crashes \in 0..scenario.crashes
  /\ hub # None =>
       /\ hub.room \in Rooms
       /\ hub.user \in Users
       /\ hub.seen \in Users \cup {None}

\* Register, Unregister: whom the registry calls live is in that room, by that
\* connection - whichever of a user's connections comes and goes first.
RegistryIsInRoom ==
  \A u \in Users : liveUsers[u] # None =>
    rooms[client[liveUsers[u]].room][u] = liveUsers[u]

\* Unregister: the place in a room is held by a connection of that user to that
\* room which is not over.
PlacesAreHeld ==
  \A r \in Rooms, u \in Users : Connected(r, u) =>
    LET c == rooms[r][u] IN
      client[c].stage \in {"open", "leaving"} /\ client[c].user = u /\ client[c].room = r

\* scheduleHostGraceEnd: a planned end has its timer, so it comes or is called off.
GraceHasTimer ==
  \A r \in Rooms : hostGrace[r] # None =>
    In(hostGrace[r], "running", r) \/ In(hostGrace[r], "fired", r)

\* Whatever connects, leaves, is put out or ends, nothing is left behind in the
\* hub's maps: no place without its connection, no planned end without a timer.
NothingIsLeftBehind == TypeOK /\ PlacesAreHeld /\ GraceHasTimer

\* Unregister: nobody's leaving ends a room whose host is connected - not even
\* that of somebody whose connection still thinks it is host (live_hub.go:456) -
\* as long as the host the hub has read is the host: unless the SELECT has
\* failed, or the row is written before the UPDATE.
GuestsDoNotEnd ==
  [][\A r \in Rooms :
       status'[r] # status[r] /\ hub' # hub /\ Connected(r, host[r]) => hub.seen # host[r]]_vars

\* live_hub.go: a host who is not back when the grace period is over has the
\* room ended - a room does not stay live for ever without its host.
AwayHostEndsRoom ==
  \A r \in Rooms :
    [](Connected(r, host[r]) => []<>(Connected(r, host[r]) \/ status[r] = "ended"))

-----------------------------------------------------------------------------
(* What the documents and comments promise and the code does not keep: see *)
(* README.md.                                                             *)

\* Run, Unregister: who has left ends no room whose host is connected.
GuestsNeverEnd ==
  [][\A r \in Rooms :
       status'[r] # status[r] /\ hub' # hub => ~Connected(r, host[r])]_vars

\* live_hub.go: a host who is back has the planned end called off.
BackInTime ==
  [][\A r \in Rooms :
       (\E t \in Timers : In(t, "ending", r) /\ timer'[t] # timer[t]) /\ status[r] = "live"
         => ~Connected(r, host[r]) \/ status'[r] = "live"]_vars

\* transfer_host: the room has one host.
OneHost ==
  \A r \in Rooms :
    Cardinality({u \in Members(r) : client[rooms[r][u]].host}) <= 1

\* live_transfer.go: a user is in one live room at a time, on one device.
OneLivePerUser ==
  \A c, d \in Conns :
    client[c].stage = "open" /\ client[d].stage = "open" /\ client[c].user = client[d].user => c = d

\* forceLeaveUser: a client told to leave is closed even if it does not answer.
ToldClientsGo ==
  \A c \in Conns : client[c].told ~> client[c].stage # "open"
=============================================================================
