--------------------------- MODULE LiveRoomProofs ---------------------------
(***************************************************************************)
(* Theorems about the live rooms.                                          *)
(*                                                                         *)
(* LiveRoom, for any rooms, users, devices, connections and timers and     *)
(* whatever a scenario lets happen: the registry of who is live names the  *)
(* connection that holds the user's place, nothing is left behind in the   *)
(* hub's maps, and whoever takes the room along in leaving is the host of  *)
(* record, as far as the hub's SELECT tells.                               *)
(*                                                                         *)
(* MafiaGame, for any players and bounds: no copy of the game breaks its   *)
(* rules, however the goroutines interleave; and while handlers run one    *)
(* after the other, nothing is undone, no defence is cut short, and no     *)
(* decided game stays running.                                             *)
(***************************************************************************)
EXTENDS LiveRoom, MafiaGame, FiniteSetTheorems, TLAPS

Clients ==
  [stage : {"unused", "allowed", "checked", "open", "leaving"},
   user : Users \cup {None}, room : Rooms \cup {None}, device : Devices \cup {None},
   host : BOOLEAN, deliberate : BOOLEAN, transferring : BOOLEAN, done : BOOLEAN,
   out : BOOLEAN, told : BOOLEAN]

(* A timer that is not at rest is some room's.                            *)
Ticking == [stage : {"running", "fired", "checking", "ending"}, room : Rooms]
TimerStates == {Stopped} \cup Ticking

(* The statements on their way.                                           *)
Rows ==
  [kind : {"host"}, room : Rooms, user : Users]
    \cup [kind : {"role"}, room : Rooms, user : Users, host : BOOLEAN]
    \cup [kind : {"ban"}, room : Rooms, user : Users]

(* A connection in use is some user's, to some room.                      *)
ClientTyped(x) ==
  /\ x \in Clients
  /\ x.stage = "unused" => x = NoClient
  /\ x.stage # "unused" => x.user \in Users /\ x.room \in Rooms

(* A connection the hub knows, that u made to room r.                     *)
Holds(x, u, r) == x.stage \in {"open", "leaving"} /\ x.user = u /\ x.room = r

(* The hub's two maps of connections: whoever the registry names holds the*)
(* place it came for.  RegistryIsInRoom alone would not do: a connection  *)
(* that is used again must not be in the registry still.                  *)
ConnInv ==
  /\ client \in [Conns -> Clients]
  /\ \A c \in Conns : ClientTyped(client[c])
  /\ rooms \in [Rooms -> [Users -> Conns \cup {None}]]
  /\ liveUsers \in [Users -> Conns \cup {None}]
  /\ \A r \in Rooms, u \in Users : rooms[r][u] # None => Holds(client[rooms[r][u]], u, r)
  /\ \A u \in Users : liveUsers[u] # None =>
       \E r \in Rooms : rooms[r][u] = liveUsers[u]

(* The planned ends and their timers.                                     *)
GraceInv ==
  /\ hostGrace \in [Rooms -> Timers \cup {None}]
  /\ timer \in [Timers -> TimerStates]
  /\ GraceHasTimer

(* The database, the codes and what bounds the behaviour.                 *)
DataInv ==
  /\ xfers \in [Users -> Rooms \cup {None}]
  /\ status \in [Rooms -> {"live", "ended"}]
  /\ host \in [Rooms -> Users]
  /\ role \in [Rooms -> SUBSET Users]
  /\ active \in [Rooms -> SUBSET Users]
  /\ banned \in [Rooms -> SUBSET Users]
  /\ writes \subseteq Rows /\ IsFiniteSet(writes)
  /\ Cardinality(writes) <= scenario.writes
  /\ scenario \in ScenarioSet
  /\ crashes \in 0..scenario.crashes

(* A host the hub has still to deal with is out of the room, and was its  *)
(* host, as far as the hub knows.                                         *)
HubInv ==
  hub # None =>
    /\ hub.room \in Rooms /\ hub.user \in Users /\ hub.seen \in {hub.user, None}
    /\ rooms[hub.room][hub.user] = None

IInv == ConnInv /\ GraceInv /\ DataInv /\ HubInv

(* A statement that nobody looks after has been carried out, or has not.  *)
LEMMA AfterEither ==
  ASSUME NEW old, NEW new, NEW x \in After(old, new)
  PROVE  x = old \/ x = new
  BY DEF After

-----------------------------------------------------------------------------
(* Connections                                                            *)

(* Whom the registry names holds a place.                                 *)
LEMMA RegistryHolds ==
  ASSUME ConnInv, NEW u \in Users, liveUsers[u] # None
  PROVE  /\ liveUsers[u] \in Conns
         /\ client[liveUsers[u]].room \in Rooms
         /\ Holds(client[liveUsers[u]], u, client[liveUsers[u]].room)
         /\ rooms[client[liveUsers[u]].room][u] = liveUsers[u]
<1>1. PICK r \in Rooms : rooms[r][u] = liveUsers[u]
  BY DEF ConnInv
<1>2. Holds(client[liveUsers[u]], u, r)
  BY <1>1 DEF ConnInv
<1> QED
  BY <1>1, <1>2 DEF ConnInv, Holds

(* Whoever is not known to the hub holds no place and is not registered.  *)
LEMMA UnknownHoldsNothing ==
  ASSUME ConnInv, NEW c \in Conns, client[c].stage \notin {"open", "leaving"}
  PROVE  /\ \A r \in Rooms, u \in Users : rooms[r][u] # c
         /\ \A u \in Users : liveUsers[u] # c
<1>1. c # None
  BY LiveAssumption
<1>2. ASSUME NEW r \in Rooms, NEW u \in Users PROVE rooms[r][u] # c
  BY <1>1 DEF ConnInv, Holds
<1>3. ASSUME NEW u \in Users PROVE liveUsers[u] # c
  BY <1>1, RegistryHolds DEF Holds
<1> QED
  BY <1>2, <1>3

(* Steps that move nobody: those the hub knows stay whose they were.      *)
LEMMA NobodyMoves ==
  ASSUME ConnInv, UNCHANGED <<rooms, liveUsers>>,
         client' \in [Conns -> Clients],
         \A c \in Conns : client'[c] # client[c] => ClientTyped(client'[c]),
         \A c \in Conns : client[c].stage \in {"open", "leaving"} =>
           Holds(client'[c], client[c].user, client[c].room)
  PROVE  ConnInv'
<1>1. \A c \in Conns : ClientTyped(client'[c])
  BY DEF ConnInv
<1>2. ASSUME NEW r \in Rooms, NEW u \in Users, rooms'[r][u] # None
      PROVE  Holds(client'[rooms'[r][u]], u, r)
  <2>1. rooms[r][u] \in Conns /\ Holds(client[rooms[r][u]], u, r)
    BY <1>2 DEF ConnInv
  <2> QED
    BY <2>1 DEF Holds
<1> QED
  BY <1>1, <1>2 DEF ConnInv, ClientTyped

(* A connection marked one way or another is still whose it was.          *)
SameOwner(x, y) ==
  y \in Clients /\ y.stage = x.stage /\ y.user = x.user /\ y.room = x.room

(* A flag set on a connection leaves it whose it was.                     *)
LEMMA FlagsKeepOwner ==
  ASSUME NEW x \in Clients, NEW b \in BOOLEAN
  PROVE  /\ SameOwner(x, [x EXCEPT !.out = b])
         /\ SameOwner(x, [x EXCEPT !.done = b])
         /\ SameOwner(x, [x EXCEPT !.host = b])
         /\ SameOwner(x, [x EXCEPT !.told = b])
         /\ SameOwner(x, [x EXCEPT !.transferring = b])
         /\ SameOwner(x, [x EXCEPT !.out = TRUE, !.done = @ \/ b])
         /\ SameOwner(x, [x EXCEPT !.told = FALSE, !.done = @ \/ b])
         /\ SameOwner(x, [x EXCEPT !.told = TRUE, !.transferring = @ \/ b])
  BY DEF SameOwner, Clients

(* Flags set on connections in use move nobody.                           *)
LEMMA FlagsMoveNobody ==
  ASSUME ConnInv, UNCHANGED <<rooms, liveUsers>>,
         client' = [c \in Conns |-> client'[c]],
         \A c \in Conns :
           \/ client'[c] = client[c]
           \/ client[c].stage # "unused" /\ SameOwner(client[c], client'[c])
  PROVE  ConnInv'
<1>1. client \in [Conns -> Clients] /\ \A c \in Conns : ClientTyped(client[c])
  BY DEF ConnInv
<1>2. \A c \in Conns : client'[c] \in Clients
  BY <1>1 DEF SameOwner
<1>3. client' \in [Conns -> Clients]
  BY <1>2
<1>4. \A c \in Conns : client'[c] # client[c] => ClientTyped(client'[c])
  BY <1>1 DEF SameOwner, ClientTyped
<1>5. \A c \in Conns : client[c].stage \in {"open", "leaving"} =>
        Holds(client'[c], client[c].user, client[c].room)
  BY DEF SameOwner, Holds
<1> QED
  BY <1>3, <1>4, <1>5, NobodyMoves

(* A record put in the place of one.                                      *)
LEMMA PutAt ==
  ASSUME NEW S, NEW f, f = [e \in S |-> f[e]], NEW c \in S, NEW x,
         NEW g, g = [f EXCEPT ![c] = x]
  PROVE  g = [e \in S |-> g[e]] /\ g[c] = x /\ \A e \in S \ {c} : g[e] = f[e]
  OBVIOUS

(* One connection the hub knows is marked.                                *)
LEMMA OneMarked ==
  ASSUME ConnInv, UNCHANGED <<rooms, liveUsers>>, NEW c \in Conns, NEW x,
         client[c].stage # "unused", SameOwner(client[c], x),
         client' = [client EXCEPT ![c] = x]
  PROVE  ConnInv'
<1>1. client = [e \in Conns |-> client[e]]
  BY DEF ConnInv
<1>2. /\ client' = [e \in Conns |-> client'[e]]
      /\ client'[c] = x /\ \A e \in Conns \ {c} : client'[e] = client[e]
  BY <1>1, PutAt
<1> QED
  BY <1>2, FlagsMoveNobody

(* Each action keeps ConnInv; first those that only mark connections.     *)
LEMMA PutOutConn ==
  ASSUME ConnInv, NEW c \in Conns, PutOut(c)
  PROVE  ConnInv'
<1>1. PICK slow \in BOOLEAN :
        client' = [client EXCEPT ![c].out = TRUE, ![c].done = @ \/ slow]
  BY DEF PutOut
<1> DEFINE x == [client[c] EXCEPT !.out = TRUE, !.done = @ \/ slow]
<1>2. client' = [client EXCEPT ![c] = x]
  BY <1>1 DEF ConnInv
<1>3. client[c] \in Clients
  BY DEF ConnInv
<1>4. SameOwner(client[c], x)
  BY <1>3, FlagsKeepOwner
<1>5. client[c].stage # "unused" /\ UNCHANGED <<rooms, liveUsers>>
  BY DEF PutOut, Current
<1> HIDE DEF x
<1> QED
  BY <1>2, <1>4, <1>5, OneMarked

(* The three seconds are over: closed or not, it is where it was.         *)
LEMMA LeaveTimeoutConn ==
  ASSUME ConnInv, NEW c \in Conns, LeaveTimeout(c)
  PROVE  ConnInv'
<1> DEFINE b == liveUsers[client[c].user] = c
           x == [client[c] EXCEPT !.told = FALSE, !.done = @ \/ b]
<1>1. client' = [client EXCEPT ![c].told = FALSE, ![c].done = @ \/ b]
  BY DEF LeaveTimeout
<1>2. b \in BOOLEAN
  OBVIOUS
<1> HIDE DEF b
<1>3. client' = [client EXCEPT ![c] = x]
  BY <1>1 DEF ConnInv
<1>4. client[c] \in Clients
  BY DEF ConnInv
<1>5. SameOwner(client[c], x)
  BY <1>2, <1>4, FlagsKeepOwner
<1>6. client[c].stage # "unused" /\ UNCHANGED <<rooms, liveUsers>>
  BY DEF LeaveTimeout, ConnInv, ClientTyped, NoClient
<1> HIDE DEF x
<1> QED
  BY <1>3, <1>5, <1>6, OneMarked

(* The connection that holds a place is one the hub knows.                *)
LEMMA PlaceKnown ==
  ASSUME ConnInv, NEW r \in Rooms, NEW u \in Users, Connected(r, u)
  PROVE  /\ rooms[r][u] \in Conns /\ client[rooms[r][u]] \in Clients
         /\ client[rooms[r][u]].stage # "unused"
  BY DEF Connected, ConnInv, Holds

(* Whoever is kicked keeps the place until the hub takes it away.         *)
LEMMA KickConn ==
  ASSUME ConnInv, NEW r \in Rooms, NEW u \in Users, NEW v \in Users,
         KickFromLive(r, u, v)
  PROVE  ConnInv'
<1> DEFINE c == rooms[r][v]
           x == [client[c] EXCEPT !.out = TRUE]
<1>1. /\ client' = [client EXCEPT ![c].out = TRUE] /\ UNCHANGED <<rooms, liveUsers>>
      /\ Connected(r, v)
  BY DEF KickFromLive
<1>2. client' = [client EXCEPT ![c] = x]
  BY <1>1 DEF ConnInv
<1>3. c \in Conns /\ client[c].stage # "unused" /\ SameOwner(client[c], x)
  BY <1>1, PlaceKnown, FlagsKeepOwner
<1> HIDE DEF c, x
<1> QED
  BY <1>1, <1>2, <1>3, OneMarked

(* So does whoever is made a broadcaster or a listener.                   *)
LEMMA SetRoleConn ==
  ASSUME ConnInv, NEW r \in Rooms, NEW u \in Users, NEW v \in Users, SetRole(r, u, v)
  PROVE  ConnInv'
<1> DEFINE c == rooms[r][v]
           x == [client[c] EXCEPT !.host = FALSE]
<1>1. /\ client' = [client EXCEPT ![c].host = FALSE] /\ UNCHANGED <<rooms, liveUsers>>
      /\ Connected(r, v)
  BY DEF SetRole
<1>2. client' = [client EXCEPT ![c] = x]
  BY <1>1 DEF ConnInv
<1>3. c \in Conns /\ client[c].stage # "unused" /\ SameOwner(client[c], x)
  BY <1>1, PlaceKnown, FlagsKeepOwner
<1> HIDE DEF c, x
<1> QED
  BY <1>1, <1>2, <1>3, OneMarked

(* Two connections, which may be one, get their host flag set.            *)
HandedOver(cs, c, e, b) == [cs EXCEPT ![c].host = TRUE, ![e].host = @ /\ b]

(* Such a change of hosts moves neither.                                  *)
LEMMA TwoMarked ==
  ASSUME NEW cs \in [Conns -> Clients], NEW c \in Conns, NEW e \in Conns, NEW b \in BOOLEAN,
         NEW new, new = HandedOver(cs, c, e, b)
  PROVE  /\ new = [d \in Conns |-> new[d]]
         /\ \A d \in Conns \ {c, e} : new[d] = cs[d]
         /\ \A d \in Conns : SameOwner(cs[d], new[d])
<1>1. new = [d \in Conns |-> new[d]]
  BY DEF HandedOver
<1>2. \A d \in Conns \ {c, e} : new[d] = cs[d]
  BY DEF HandedOver
<1>3. SameOwner(cs[e], new[e])
  <2>1. CASE c = e
    <3>1. \/ new[e] = [[cs[e] EXCEPT !.host = TRUE] EXCEPT !.host = @ /\ b]
          \/ new[e] = [cs[e] EXCEPT !.host = @ /\ b]
      BY <2>1 DEF HandedOver
    <3> DEFINE y == [cs[e] EXCEPT !.host = TRUE]
    <3>2. SameOwner(cs[e], y) /\ y \in Clients
      BY FlagsKeepOwner DEF SameOwner
    <3>3. (cs[e].host /\ b) \in BOOLEAN /\ (y.host /\ b) \in BOOLEAN
      OBVIOUS
    <3> HIDE DEF y
    <3>4. SameOwner(y, [y EXCEPT !.host = @ /\ b])
      BY <3>2, <3>3, FlagsKeepOwner
    <3>5. SameOwner(cs[e], [y EXCEPT !.host = @ /\ b])
      BY <3>2, <3>4 DEF SameOwner
    <3>6. SameOwner(cs[e], [cs[e] EXCEPT !.host = @ /\ b])
      BY <3>3, FlagsKeepOwner
    <3> QED
      BY <3>1, <3>5, <3>6 DEF y
  <2>2. CASE c # e
    <3>1. new[e] = [cs[e] EXCEPT !.host = @ /\ b]
      BY <2>2 DEF HandedOver
    <3>2. (cs[e].host /\ b) \in BOOLEAN
      OBVIOUS
    <3> QED
      BY <3>1, <3>2, FlagsKeepOwner
  <2> QED
    BY <2>1, <2>2
<1>4. c # e => SameOwner(cs[c], new[c])
  <2>1. c # e => new[c] = [cs[c] EXCEPT !.host = TRUE]
    BY DEF HandedOver
  <2> QED
    BY <2>1, FlagsKeepOwner
<1>5. \A d \in Conns \ {c, e} : SameOwner(cs[d], new[d])
  BY <1>2 DEF SameOwner
<1> QED
  BY <1>1, <1>2, <1>3, <1>4, <1>5

(* The transfer marks the sender and, if it is here, the target.          *)
LEMMA TransferHostConn ==
  ASSUME ConnInv, NEW r \in Rooms, NEW u \in Users, NEW v \in Users,
         TransferHost(r, u, v)
  PROVE  ConnInv'
<1> DEFINE c == rooms[r][v]
           e == rooms[r][u]
           b == ~client[e].host
<1>1. UNCHANGED <<rooms, liveUsers>> /\ Connected(r, u)
  BY DEF TransferHost, MayModerate
<1>2. CASE ~Connected(r, v)
  <2>1. client' = client
    BY <1>2 DEF TransferHost
  <2> QED
    BY <1>1, <2>1, FlagsMoveNobody DEF ConnInv
<1>3. CASE Connected(r, v)
  <2>1. client' = HandedOver(client, c, e, b)
    BY <1>3 DEF TransferHost, HandedOver
  <2>2. /\ c \in Conns /\ client[c].stage # "unused"
        /\ e \in Conns /\ client[e].stage # "unused"
    BY <1>1, <1>3, PlaceKnown
  <2>3. client \in [Conns -> Clients]
    BY DEF ConnInv
  <2>0. b \in BOOLEAN
    OBVIOUS
  <2> HIDE DEF b, c, e
  <2>4. /\ client' = [d \in Conns |-> client'[d]]
        /\ \A d \in Conns \ {c, e} : client'[d] = client[d]
        /\ \A d \in Conns : SameOwner(client[d], client'[d])
    BY <2>0, <2>1, <2>2, <2>3, TwoMarked
  <2> QED
    BY <1>1, <2>2, <2>4, FlagsMoveNobody
<1> QED
  BY <1>2, <1>3

(* A connection is used again, and another may be marked.                 *)
LEMMA TakenConn ==
  ASSUME ConnInv, UNCHANGED <<rooms, liveUsers>>,
         NEW c \in Conns, client[c].stage \notin {"open", "leaving"}, NEW x, ClientTyped(x),
         client' = [e \in Conns |-> client'[e]], client'[c] = x,
         \A e \in Conns \ {c} :
           \/ client'[e] = client[e]
           \/ client[e].stage # "unused" /\ SameOwner(client[e], client'[e])
  PROVE  ConnInv'
<1>1. client \in [Conns -> Clients] /\ \A e \in Conns : ClientTyped(client[e])
  BY DEF ConnInv
<1>2. \A e \in Conns : client'[e] \in Clients
  BY <1>1 DEF SameOwner, ClientTyped
<1>3. client' \in [Conns -> Clients]
  BY <1>2
<1>4. \A e \in Conns : client'[e] # client[e] => ClientTyped(client'[e])
  BY <1>1 DEF SameOwner, ClientTyped
<1>5. \A e \in Conns : client[e].stage \in {"open", "leaving"} =>
        Holds(client'[e], client[e].user, client[e].room)
  BY DEF SameOwner, Holds
<1> QED
  BY <1>3, <1>4, <1>5, NobodyMoves

(* A connection on its way in is well formed.                             *)
LEMMA JoiningIsClient ==
  ASSUME NEW u \in Users, NEW r \in Rooms, NEW d \in Devices
  PROVE  ClientTyped([NoClient EXCEPT !.stage = "allowed", !.user = u, !.room = r, !.device = d])
  BY DEF ClientTyped, Clients, NoClient

(* A connection the hub does not know yet displaces nobody.               *)
LEMMA PrecheckConn ==
  ASSUME ConnInv, NEW c \in Conns, NEW u \in Users, NEW r \in Rooms, NEW d \in Devices,
         Precheck(c, u, r, d)
  PROVE  ConnInv'
<1> DEFINE x == [NoClient EXCEPT !.stage = "allowed", !.user = u, !.room = r, !.device = d]
<1>1. client' = [client EXCEPT ![c] = x] /\ client[c] = NoClient
      /\ UNCHANGED <<rooms, liveUsers>>
  BY DEF Precheck, Joining
<1>2. ClientTyped(x) /\ NoClient.stage = "unused"
  BY JoiningIsClient DEF NoClient
<1>3. client = [e \in Conns |-> client[e]]
  BY DEF ConnInv
<1> HIDE DEF x
<1>4. /\ client' = [e \in Conns |-> client'[e]]
      /\ client'[c] = x /\ \A e \in Conns \ {c} : client'[e] = client[e]
  BY <1>1, <1>3, PutAt
<1> QED
  BY <1>1, <1>2, <1>4, TakenConn

(* forceLeaveUser reaches the connection that the registry names, if any. *)
LEMMA HandOverConn ==
  ASSUME ConnInv, NEW c \in Conns, NEW u \in Users, NEW d \in Devices,
         NEW r \in Rooms, NEW from, NEW moving \in BOOLEAN,
         client[c] = NoClient, UNCHANGED <<rooms, liveUsers>>,
         client' = ForceLeave(u, from, Takes(c, u, r, d), moving)
  PROVE  ConnInv'
<1> DEFINE x == [NoClient EXCEPT !.stage = "allowed", !.user = u, !.room = r, !.device = d]
           cs == Takes(c, u, r, d)
           old == liveUsers[u]
           y == [cs[old] EXCEPT !.told = TRUE, !.transferring = @ \/ moving]
<1>1. cs = [client EXCEPT ![c] = x]
  BY DEF Takes
<1>2. ClientTyped(x) /\ NoClient.stage = "unused"
  BY JoiningIsClient DEF NoClient
<1>3. client = [e \in Conns |-> client[e]]
  BY DEF ConnInv
<1> HIDE DEF x
<1>4. /\ cs = [e \in Conns |-> cs[e]]
      /\ cs[c] = x /\ \A e \in Conns \ {c} : cs[e] = client[e]
  <2> HIDE DEF cs
  <2> QED
    BY <1>1, <1>3, PutAt
<1> HIDE DEF cs
<1>5. client[c].stage \notin {"open", "leaving"}
  BY <1>2
<1>6. CASE old = None \/ client[old].room # from
  <2>1. client' = cs
    BY <1>6 DEF ForceLeave, cs
  <2> QED
    BY <1>2, <1>4, <1>5, <2>1, TakenConn
<1>7. CASE ~(old = None \/ client[old].room # from)
  <2>1. old \in Conns /\ client[old].stage # "unused" /\ client[old] \in Clients
    BY <1>7, RegistryHolds DEF Holds, ConnInv
  <2>2. old # c
    BY <1>2, <2>1
  <2>3. client' = [cs EXCEPT ![old].told = TRUE, ![old].transferring = @ \/ moving]
    BY <1>7 DEF ForceLeave, cs
  <2>4. cs[old] = client[old]
    BY <1>4, <2>1, <2>2
  <2>5. SameOwner(client[old], y)
    BY <2>1, <2>4, FlagsKeepOwner
  <2>6. client' = [cs EXCEPT ![old] = y]
    BY <1>4, <2>1, <2>3
  <2> HIDE DEF y, old
  <2>7. /\ client' = [e \in Conns |-> client'[e]]
        /\ client'[old] = y /\ \A e \in Conns \ {old} : client'[e] = cs[e]
    BY <1>4, <2>1, <2>6, PutAt
  <2> QED
    BY <1>2, <1>4, <1>5, <2>1, <2>2, <2>5, <2>7, TakenConn
<1> QED
  BY <1>6, <1>7

(* A user changes rooms.                                                  *)
LEMMA SwitchConn ==
  ASSUME ConnInv, NEW c \in Conns, NEW u \in Users, NEW r \in Rooms, NEW d \in Devices,
         SwitchLiveAway(c, u, r, d)
  PROVE  ConnInv'
<1>1. /\ client[c] = NoClient /\ UNCHANGED <<rooms, liveUsers>>
      /\ client' = ForceLeave(u, client[liveUsers[u]].room, Takes(c, u, r, d), FALSE)
  BY DEF SwitchLiveAway
<1> QED
  BY <1>1, HandOverConn

(* A user changes devices.                                                *)
LEMMA ConfirmConn ==
  ASSUME ConnInv, NEW c \in Conns, NEW u \in Users, NEW d \in Devices,
         xfers[u] \in Rooms \cup {None}, ConfirmXfer(c, u, d)
  PROVE  ConnInv'
<1>1. /\ client[c] = NoClient /\ UNCHANGED <<rooms, liveUsers>> /\ xfers[u] \in Rooms
      /\ client' = ForceLeave(u, xfers[u], Takes(c, u, xfers[u], d), TRUE)
  BY DEF ConfirmXfer
<1> QED
  BY <1>1, HandOverConn

(* One connection goes on to its next stage.                              *)
LEMMA OneChanges ==
  ASSUME ConnInv, UNCHANGED <<rooms, liveUsers>>, NEW c \in Conns, NEW x, ClientTyped(x),
         client[c].stage \in {"open", "leaving"} => Holds(x, client[c].user, client[c].room),
         client' = [client EXCEPT ![c] = x]
  PROVE  ConnInv'
<1>1. client = [e \in Conns |-> client[e]] /\ \A e \in Conns : ClientTyped(client[e])
  BY DEF ConnInv
<1>2. /\ client' = [e \in Conns |-> client'[e]]
      /\ client'[c] = x /\ \A e \in Conns \ {c} : client'[e] = client[e]
  BY <1>1, PutAt
<1>3. \A e \in Conns : client'[e] \in Clients
  BY <1>1, <1>2 DEF ClientTyped
<1>4. client' \in [Conns -> Clients]
  BY <1>2, <1>3
<1>5. \A e \in Conns : client[e].stage \in {"open", "leaving"} =>
        Holds(client'[e], client[e].user, client[e].room)
  BY <1>2 DEF Holds
<1> QED
  BY <1>2, <1>4, <1>5, NobodyMoves

(* The handler lets a connection in or makes it a broadcaster.            *)
LEMMA CheckConn ==
  ASSUME ConnInv, NEW c \in Conns, Check(c)
  PROVE  ConnInv'
<1>1. /\ client[c].stage = "allowed" /\ client[c] \in Clients /\ ClientTyped(client[c])
      /\ UNCHANGED <<rooms, liveUsers>>
  BY DEF Check, ConnInv
<1>2. \/ client' = [client EXCEPT ![c].stage = "checked",
                                 ![c].host = client[c].user \in role[client[c].room]]
      \/ client' = [client EXCEPT ![c].stage = "checked"]
  BY DEF Check
<1>3. \E h \in BOOLEAN :
        client' = [client EXCEPT ![c] = [client[c] EXCEPT !.stage = "checked", !.host = h]]
  <2> DEFINE h == client[c].user \in role[client[c].room]
  <2>1. h \in BOOLEAN /\ client[c].host \in BOOLEAN
    BY <1>1 DEF Clients
  <2>2. client \in [Conns -> Clients]
    BY DEF ConnInv
  <2>3. CASE client' = [client EXCEPT ![c].stage = "checked", ![c].host = h]
    <3> HIDE DEF h
    <3>1. client' = [client EXCEPT ![c] = [client[c] EXCEPT !.stage = "checked", !.host = h]]
      BY <2>3, <2>2
    <3> QED
      BY <2>1, <3>1
  <2>4. CASE client' = [client EXCEPT ![c].stage = "checked"]
    <3>1. [client[c] EXCEPT !.stage = "checked"]
            = [client[c] EXCEPT !.stage = "checked", !.host = client[c].host]
      BY <1>1 DEF Clients
    <3>2. client' = [client EXCEPT ![c] = [client[c] EXCEPT !.stage = "checked"]]
      BY <2>4
    <3> QED
      BY <2>1, <3>1, <3>2
  <2> QED
    BY <1>2, <2>3, <2>4
<1>4. PICK h \in BOOLEAN :
        client' = [client EXCEPT ![c] = [client[c] EXCEPT !.stage = "checked", !.host = h]]
  BY <1>3
<1> DEFINE x == [client[c] EXCEPT !.stage = "checked", !.host = h]
<1>5. ClientTyped(x)
  BY <1>1 DEF ClientTyped, Clients
<1> HIDE DEF x
<1> QED
  BY <1>1, <1>4, <1>5, OneChanges DEF x

(* A refused connection was not known to the hub.                         *)
LEMMA RefuseConn ==
  ASSUME ConnInv, NEW c \in Conns, Refuse(c)
  PROVE  ConnInv'
<1>1. client[c].stage = "allowed" /\ client' = [client EXCEPT ![c] = NoClient]
      /\ UNCHANGED <<rooms, liveUsers>>
  BY DEF Refuse
<1>2. ClientTyped(NoClient)
  BY DEF ClientTyped, Clients, NoClient
<1> QED
  BY <1>1, <1>2, OneChanges

(* Whose reader has stopped holds the place until it is unregistered.     *)
LEMMA CloseConn ==
  ASSUME ConnInv, NEW c \in Conns, NEW deliberate \in BOOLEAN, Close(c, deliberate)
  PROVE  ConnInv'
<1> DEFINE x == [client[c] EXCEPT !.stage = "leaving", !.deliberate = deliberate]
<1>1. client[c].stage = "open" /\ client[c] \in Clients /\ ClientTyped(client[c])
  BY DEF Close, ConnInv
<1>2. client' = [client EXCEPT ![c] = x] /\ UNCHANGED <<rooms, liveUsers>>
  BY DEF Close, ConnInv
<1>3. ClientTyped(x) /\ Holds(x, client[c].user, client[c].room)
  BY <1>1 DEF ClientTyped, Clients, Holds
<1> HIDE DEF x
<1> QED
  BY <1>2, <1>3, OneChanges

(* The newest connection takes the place and the name in the registry.    *)
LEMMA RegisterConn ==
  ASSUME ConnInv, NEW c \in Conns, Register(c)
  PROVE  ConnInv'
<1> DEFINE u == client[c].user
           r == client[c].room
           x == [client[c] EXCEPT !.stage = "open"]
<1>1. /\ client[c].stage = "checked" /\ client[c] \in Clients /\ ClientTyped(client[c])
      /\ client' = [client EXCEPT ![c] = x]
      /\ rooms' = [rooms EXCEPT ![r][u] = c]
      /\ liveUsers' = [liveUsers EXCEPT ![u] = c]
  BY DEF Register, ConnInv
<1>2. u \in Users /\ r \in Rooms /\ c # None
  BY <1>1, LiveAssumption DEF ClientTyped
<1>3. ClientTyped(x) /\ Holds(x, u, r)
  BY <1>1, <1>2 DEF ClientTyped, Clients, Holds
<1>4. /\ \A s \in Rooms, v \in Users : rooms[s][v] # c
      /\ \A v \in Users : liveUsers[v] # c
  BY <1>1, UnknownHoldsNothing
<1>5. client = [e \in Conns |-> client[e]] /\ \A e \in Conns : ClientTyped(client[e])
  BY DEF ConnInv
<1> HIDE DEF x
<1>6. /\ client' = [e \in Conns |-> client'[e]]
      /\ client'[c] = x /\ \A e \in Conns \ {c} : client'[e] = client[e]
  BY <1>1, <1>5, PutAt
<1>7. \A e \in Conns : ClientTyped(client'[e])
  BY <1>3, <1>5, <1>6
<1>8. client' \in [Conns -> Clients]
  BY <1>6, <1>7 DEF ClientTyped
<1> HIDE DEF u, r
<1>9. /\ rooms' \in [Rooms -> [Users -> Conns \cup {None}]]
      /\ rooms'[r][u] = c
      /\ \A s \in Rooms, v \in Users : s # r \/ v # u => rooms'[s][v] = rooms[s][v]
  BY <1>1, <1>2 DEF ConnInv
<1>10. /\ liveUsers' \in [Users -> Conns \cup {None}]
       /\ liveUsers'[u] = c
       /\ \A v \in Users \ {u} : liveUsers'[v] = liveUsers[v]
  BY <1>1, <1>2 DEF ConnInv
<1>11. ASSUME NEW s \in Rooms, NEW v \in Users, rooms'[s][v] # None
       PROVE  Holds(client'[rooms'[s][v]], v, s)
  <2>1. CASE s = r /\ v = u
    BY <1>3, <1>6, <1>9, <2>1
  <2>2. CASE s # r \/ v # u
    <3>1. rooms'[s][v] = rooms[s][v] /\ rooms[s][v] \in Conns \ {c}
      BY <1>4, <1>9, <1>11, <2>2 DEF ConnInv
    <3> QED
      BY <1>6, <1>11, <3>1 DEF ConnInv
  <2> QED
    BY <2>1, <2>2
<1>12. ASSUME NEW v \in Users, liveUsers'[v] # None
       PROVE  \E s \in Rooms : rooms'[s][v] = liveUsers'[v]
  <2>1. CASE v = u
    BY <1>2, <1>9, <1>10, <2>1
  <2>2. CASE v # u
    <3>1. PICK s \in Rooms : rooms[s][v] = liveUsers[v]
      BY <1>10, <1>12, <2>2 DEF ConnInv
    <3> QED
      BY <1>9, <1>10, <2>2, <3>1
  <2> QED
    BY <2>1, <2>2
<1> QED
  BY <1>7, <1>8, <1>9, <1>10, <1>11, <1>12 DEF ConnInv

(* What becomes of the connection whose unregistration is taken.          *)
LEMMA UnregisterLeaves ==
  ASSUME ConnInv, NEW c \in Conns, Unregister(c)
  PROVE  \E x : /\ client' = [client EXCEPT ![c] = x]
                /\ x = NoClient \/ SameOwner(client[c], x)
                /\ client[c].stage # "unused"
<1> DEFINE gone == client[c].stage = "leaving" /\ ~client[c].out
           b == Leaves(c)
           marked == [client[c] EXCEPT !.out = FALSE, !.done = @ \/ b]
<1>1. client \in [Conns -> Clients] /\ client[c] \in Clients
  BY DEF ConnInv
<1>2. client' = [client EXCEPT ![c] =
        IF client[c].stage = "leaving" /\ ~client[c].out THEN NoClient
        ELSE [client[c] EXCEPT !.out = FALSE, !.done = @ \/ Leaves(c)]]
  BY Zenon DEF Unregister, Over
<1>3. client[c].stage # "unused"
  BY DEF Unregister, ConnInv, ClientTyped, NoClient
<1>4. (client[c].done \/ b) \in BOOLEAN
  OBVIOUS
<1>5. SameOwner(client[c], [client[c] EXCEPT !.out = FALSE, !.done = @ \/ b])
  <2> DEFINE y == [client[c] EXCEPT !.out = FALSE]
             z == [y EXCEPT !.done = @ \/ b]
  <2>1. SameOwner(client[c], y)
    BY <1>1, FlagsKeepOwner
  <2>2. y \in Clients /\ (y.done \/ b) \in BOOLEAN
    BY <2>1 DEF SameOwner
  <2>3. SameOwner(y, z)
    <3> HIDE DEF y
    <3> QED
      BY <2>2, FlagsKeepOwner
  <2>4. [client[c] EXCEPT !.out = FALSE, !.done = @ \/ b] = z
    BY <1>1
  <2> QED
    BY <2>1, <2>3, <2>4 DEF SameOwner
<1>6. client' = [client EXCEPT ![c] = IF gone THEN NoClient ELSE marked]
  BY <1>2, Zenon
<1> HIDE DEF gone, marked
<1>7. client' = [client EXCEPT ![c] = NoClient] \/ client' = [client EXCEPT ![c] = marked]
  BY <1>6
<1> QED
  BY <1>3, <1>5, <1>7 DEF marked

(* Only the connection that holds the place gives it up, and the name in  *)
(* the registry goes with the connection it names.                        *)
LEMMA UnregisterConn ==
  ASSUME ConnInv, NEW c \in Conns, Unregister(c)
  PROVE  ConnInv'
<1> DEFINE u == client[c].user
           r == client[c].room
<1>1. PICK x : /\ client' = [client EXCEPT ![c] = x]
               /\ x = NoClient \/ SameOwner(client[c], x)
               /\ client[c].stage # "unused"
  BY UnregisterLeaves
<1>2. u \in Users /\ r \in Rooms /\ c # None
  BY <1>1, LiveAssumption DEF ConnInv, ClientTyped
<1>3. client = [e \in Conns |-> client[e]] /\ \A e \in Conns : ClientTyped(client[e])
  BY DEF ConnInv
<1>4. ClientTyped(x)
  <2>1. CASE x = NoClient
    BY <2>1 DEF ClientTyped, Clients, NoClient
  <2>2. CASE SameOwner(client[c], x)
    BY <1>1, <1>3, <2>2 DEF ClientTyped, SameOwner
  <2> QED
    BY <1>1, <2>1, <2>2
<1>5. /\ client' = [e \in Conns |-> client'[e]]
      /\ client'[c] = x /\ \A e \in Conns \ {c} : client'[e] = client[e]
  BY <1>1, <1>3, PutAt
<1>6. \A e \in Conns : ClientTyped(client'[e])
  BY <1>3, <1>4, <1>5
<1>7. client' \in [Conns -> Clients]
  BY <1>5, <1>6 DEF ClientTyped
<1>8. /\ rooms' = IF rooms[r][u] = c THEN [rooms EXCEPT ![r][u] = None] ELSE rooms
      /\ liveUsers' = IF liveUsers[u] = c THEN [liveUsers EXCEPT ![u] = None] ELSE liveUsers
  BY <1>1 DEF Unregister, Leaves, Current
<1>9. /\ \A s \in Rooms, v \in Users : rooms[s][v] = c => s = r /\ v = u
      /\ \A v \in Users : liveUsers[v] = c => v = u
  <2>1. ASSUME NEW s \in Rooms, NEW v \in Users, rooms[s][v] = c PROVE s = r /\ v = u
    BY <1>2, <2>1 DEF ConnInv, Holds
  <2>2. ASSUME NEW v \in Users, liveUsers[v] = c PROVE v = u
    BY <1>2, <2>2, RegistryHolds DEF Holds
  <2> QED
    BY <2>1, <2>2
<1> HIDE DEF u, r
<1>10. /\ rooms' \in [Rooms -> [Users -> Conns \cup {None}]]
       /\ \A s \in Rooms, v \in Users :
            rooms'[s][v] = IF rooms[s][v] = c THEN None ELSE rooms[s][v]
  BY <1>2, <1>8, <1>9 DEF ConnInv
<1>11. /\ liveUsers' \in [Users -> Conns \cup {None}]
       /\ \A v \in Users : liveUsers'[v] = IF liveUsers[v] = c THEN None ELSE liveUsers[v]
  BY <1>2, <1>8, <1>9 DEF ConnInv
<1>12. ASSUME NEW s \in Rooms, NEW v \in Users, rooms'[s][v] # None
       PROVE  Holds(client'[rooms'[s][v]], v, s)
  <2>1. rooms'[s][v] = rooms[s][v] /\ rooms[s][v] \in Conns \ {c}
    BY <1>10, <1>12 DEF ConnInv
  <2> QED
    BY <1>5, <1>12, <2>1 DEF ConnInv
<1>13. ASSUME NEW v \in Users, liveUsers'[v] # None
       PROVE  \E s \in Rooms : rooms'[s][v] = liveUsers'[v]
  <2>1. liveUsers'[v] = liveUsers[v] /\ liveUsers[v] # c
    BY <1>11, <1>13
  <2>2. PICK s \in Rooms : rooms[s][v] = liveUsers[v]
    BY <1>13, <2>1 DEF ConnInv
  <2> QED
    BY <1>10, <2>1, <2>2
<1> QED
  BY <1>6, <1>7, <1>10, <1>11, <1>12, <1>13 DEF ConnInv

(* What leaves the connections alone, or forgets them all.                *)
LEMMA StillConn ==
  ASSUME ConnInv, UNCHANGED <<client, rooms, liveUsers>>
  PROVE  ConnInv'
  BY DEF ConnInv, ClientTyped, Holds

(* Nothing is left after a restart.                                       *)
LEMMA CrashConn ==
  ASSUME client' = [c \in Conns |-> NoClient],
         rooms' = [r \in Rooms |-> [u \in Users |-> None]],
         liveUsers' = [u \in Users |-> None]
  PROVE  ConnInv'
<1>1. ClientTyped(NoClient)
  BY DEF ClientTyped, Clients, NoClient
<1>2. client' \in [Conns -> Clients] /\ \A c \in Conns : ClientTyped(client'[c])
  BY <1>1 DEF ClientTyped
<1> QED
  BY <1>2 DEF ConnInv

-----------------------------------------------------------------------------
(* Planned ends                                                           *)

(* A planned end has its own timer.                                       *)
LEMMA PlannedTimer ==
  ASSUME GraceInv, NEW r \in Rooms, hostGrace[r] # None
  PROVE  /\ hostGrace[r] \in Timers
         /\ timer[hostGrace[r]].room = r
         /\ timer[hostGrace[r]].stage \in {"running", "fired"}
<1>1. \/ timer[hostGrace[r]] = [stage |-> "running", room |-> r]
      \/ timer[hostGrace[r]] = [stage |-> "fired", room |-> r]
  BY DEF GraceInv, GraceHasTimer, In
<1>2. hostGrace[r] \in Timers
  BY DEF GraceInv
<1> QED
  BY <1>1, <1>2

(* Calling one off leaves the others with their timers.                   *)
LEMMA CancelledKeeps ==
  ASSUME GraceInv, NEW r \in Rooms
  PROVE  /\ Cancelled(r) \in [Timers -> TimerStates]
         /\ \A s \in Rooms \ {r} : hostGrace[s] # None =>
              Cancelled(r)[hostGrace[s]] = timer[hostGrace[s]]
<1>1. ASSUME NEW s \in Rooms, s # r, hostGrace[s] # None
      PROVE  hostGrace[s] \in Timers /\ hostGrace[s] # hostGrace[r]
  <2>1. timer[hostGrace[s]].room = s
    BY <1>1, PlannedTimer
  <2>2. hostGrace[r] # None => timer[hostGrace[r]].room = r
    BY PlannedTimer
  <2> QED
    BY <1>1, <2>1, <2>2 DEF GraceInv
<1>2. Stopped \in TimerStates
  BY DEF Stopped, TimerStates
<1> QED
  BY <1>1, <1>2 DEF Cancelled, GraceInv

(* A planned end called off.                                              *)
LEMMA CancelGraceKeeps ==
  ASSUME GraceInv, NEW r \in Rooms, CancelGrace(r)
  PROVE  GraceInv'
<1>1. /\ hostGrace' \in [Rooms -> Timers \cup {None}] /\ hostGrace'[r] = None
      /\ \A s \in Rooms \ {r} : hostGrace'[s] = hostGrace[s]
      /\ timer' = Cancelled(r)
  BY DEF CancelGrace, GraceInv
<1>2. GraceHasTimer'
  BY <1>1, CancelledKeeps DEF GraceInv, GraceHasTimer, In
<1> QED
  BY <1>1, <1>2, CancelledKeeps DEF GraceInv

(* A planned end takes a timer that is at rest, so nobody else's.         *)
LEMMA ScheduleGraceKeeps ==
  ASSUME GraceInv, NEW r \in Rooms, ScheduleGrace(r)
  PROVE  GraceInv'
<1>1. CASE UNCHANGED <<hostGrace, timer>>
  BY <1>1 DEF GraceInv, GraceHasTimer, In
<1>2. CASE hostGrace[r] = None
  <2>1. PICK t \in Timers :
          /\ timer[t] = Stopped
          /\ timer' = [timer EXCEPT ![t] = [stage |-> "running", room |-> r]]
          /\ hostGrace' = [hostGrace EXCEPT ![r] = t]
    BY <1>2 DEF ScheduleGrace
  <2>2. /\ hostGrace' \in [Rooms -> Timers \cup {None}] /\ hostGrace'[r] = t
        /\ \A s \in Rooms \ {r} : hostGrace'[s] = hostGrace[s]
    BY <2>1 DEF GraceInv
  <2>3. /\ timer' \in [Timers -> TimerStates]
        /\ timer'[t] = [stage |-> "running", room |-> r]
        /\ \A v \in Timers \ {t} : timer'[v] = timer[v]
    BY <2>1 DEF GraceInv, TimerStates, Ticking
  <2>4. ASSUME NEW s \in Rooms \ {r}, hostGrace[s] # None
        PROVE  hostGrace[s] \in Timers \ {t}
    <3>1. timer[hostGrace[s]].stage # "stopped"
      BY <2>4, PlannedTimer
    <3> QED
      BY <2>1, <2>4, <3>1 DEF GraceInv, Stopped
  <2>5. GraceHasTimer'
    BY <2>2, <2>3, <2>4 DEF GraceInv, GraceHasTimer, In
  <2> QED
    BY <2>2, <2>3, <2>5 DEF GraceInv
<1> QED
  BY <1>1, <1>2 DEF ScheduleGrace

(* The callback of a timer takes the plan of its room with it.            *)
LEMMA TimersKeep ==
  ASSUME GraceInv, NEW t \in Timers,
         Fire(t) \/ BeginEnd(t) \/ CheckHost(t) \/ EndByGrace(t)
  PROVE  GraceInv'
<1>1. /\ timer[t] \in TimerStates /\ t # None
      /\ timer[t].stage # "stopped" => timer[t] \in Ticking
  BY LiveAssumption DEF GraceInv, TimerStates, Stopped
<1>2. CASE Fire(t)
  <2> DEFINE x == [stage |-> "fired", room |-> timer[t].room]
  <2>0. [timer[t] EXCEPT !.stage = "fired"] = x /\ x \in TimerStates
    BY <1>1, <1>2 DEF Fire, TimerStates, Ticking
  <2>1. /\ timer' \in [Timers -> TimerStates]
        /\ timer'[t] = x
        /\ \A v \in Timers \ {t} : timer'[v] = timer[v]
        /\ hostGrace' = hostGrace
    BY <1>2, <2>0 DEF Fire, GraceInv
  <2>2. ASSUME NEW r \in Rooms, hostGrace[r] = t
        PROVE  timer'[t] = [stage |-> "fired", room |-> r]
    <3>1. timer[t].room = r
      BY <1>1, <2>2, PlannedTimer
    <3> QED
      BY <1>1, <2>1, <3>1
  <2>3. GraceHasTimer'
    BY <2>1, <2>2 DEF GraceInv, GraceHasTimer, In
  <2> QED
    BY <2>1, <2>3 DEF GraceInv
<1>3. CASE BeginEnd(t)
  <2>1. /\ timer' \in [Timers -> TimerStates]
        /\ \A v \in Timers \ {t} : timer'[v] = timer[v]
    <3>1. [timer[t] EXCEPT !.stage = "checking"] \in TimerStates
      BY <1>1, <1>3 DEF BeginEnd, TimerStates, Ticking
    <3> QED
      BY <1>3, <3>1 DEF BeginEnd, GraceInv
  <2>2. /\ hostGrace' \in [Rooms -> Timers \cup {None}]
        /\ \A r \in Rooms : r = timer[t].room => hostGrace'[r] = None
        /\ \A r \in Rooms : r # timer[t].room => hostGrace'[r] = hostGrace[r]
    BY <1>3 DEF BeginEnd, GraceInv
  <2>3. \A r \in Rooms : hostGrace[r] = t => r = timer[t].room
    BY <1>1, PlannedTimer
  <2>4. GraceHasTimer'
    BY <2>1, <2>2, <2>3 DEF GraceInv, GraceHasTimer, In
  <2> QED
    BY <2>1, <2>2, <2>4 DEF GraceInv
<1>4. ASSUME timer[t].stage \in {"checking", "ending"}
      PROVE  \A r \in Rooms : hostGrace[r] # t
  BY <1>1, <1>4, PlannedTimer
<1>5. CASE CheckHost(t)
  <2>1. \E x \in TimerStates :
          timer' = [timer EXCEPT ![t] = x]
    <3>1. [timer[t] EXCEPT !.stage = "ending"] \in TimerStates /\ Stopped \in TimerStates
      BY <1>1, <1>5 DEF CheckHost, TimerStates, Ticking
    <3>2. PICK u \in HostRead(timer[t].room) :
            timer' = [timer EXCEPT ![t] =
              IF u # None /\ Connected(timer[t].room, u) THEN Stopped
              ELSE [@ EXCEPT !.stage = "ending"]]
      BY <1>5 DEF CheckHost
    <3>3. \/ timer' = [timer EXCEPT ![t] = Stopped]
          \/ timer' = [timer EXCEPT ![t] = [timer[t] EXCEPT !.stage = "ending"]]
      BY <3>2
    <3> QED
      BY <3>1, <3>3
  <2>2. /\ timer' \in [Timers -> TimerStates]
        /\ \A v \in Timers \ {t} : timer'[v] = timer[v]
        /\ hostGrace' = hostGrace
    BY <1>5, <2>1 DEF CheckHost, GraceInv
  <2>3. \A r \in Rooms : hostGrace[r] # t
    BY <1>4, <1>5 DEF CheckHost
  <2>4. GraceHasTimer'
    BY <2>2, <2>3 DEF GraceInv, GraceHasTimer, In
  <2> QED
    BY <2>2, <2>4 DEF GraceInv
<1>6. CASE EndByGrace(t)
  <2> DEFINE r == timer[t].room
  <2>1. /\ hostGrace' = [hostGrace EXCEPT ![r] = None]
        /\ timer' = [Cancelled(r) EXCEPT ![t] = Stopped]
    BY <1>6 DEF EndByGrace
  <2>2. \A s \in Rooms : hostGrace[s] # t
    BY <1>4, <1>6 DEF EndByGrace
  <2>3. /\ timer' \in [Timers -> TimerStates]
        /\ \A s \in Rooms \ {r} : hostGrace[s] # None =>
             timer'[hostGrace[s]] = timer[hostGrace[s]]
    <3>1. timer[t] # Stopped /\ Stopped \in TimerStates
      BY <1>6 DEF EndByGrace, Stopped, TimerStates
    <3>2. Cancelled(r) \in [Timers -> TimerStates]
      BY <3>1 DEF Cancelled, GraceInv
    <3>3. ASSUME NEW s \in Rooms, s # r, hostGrace[s] # None
          PROVE  timer'[hostGrace[s]] = timer[hostGrace[s]]
      <4>1. /\ hostGrace[s] \in Timers \ {t}
            /\ timer[hostGrace[s]].room = s
        BY <2>2, <3>3, PlannedTimer
      <4>2. hostGrace[s] = hostGrace[r] /\ timer[hostGrace[s]].stage = "running" => FALSE
        <5>1. r \in Rooms
          BY <1>1, <1>6 DEF EndByGrace, Ticking
        <5> QED
          BY <3>3, <4>1, <5>1, PlannedTimer
      <4> QED
        BY <2>1, <4>1, <4>2 DEF Cancelled, GraceInv
    <3> QED
      BY <2>1, <3>1, <3>2, <3>3
  <2>4. /\ hostGrace' \in [Rooms -> Timers \cup {None}]
        /\ \A s \in Rooms : s = r => hostGrace'[s] = None
        /\ \A s \in Rooms : s # r => hostGrace'[s] = hostGrace[s]
    BY <2>1 DEF GraceInv
  <2> HIDE DEF r
  <2>5. GraceHasTimer'
    BY <2>3, <2>4 DEF GraceInv, GraceHasTimer, In
  <2> QED
    BY <2>3, <2>4, <2>5 DEF GraceInv
<1> QED
  BY <1>2, <1>3, <1>5, <1>6

(* What leaves planned ends and timers alone.                             *)
LEMMA StillGrace ==
  ASSUME GraceInv, UNCHANGED <<hostGrace, timer>>
  PROVE  GraceInv'
  BY DEF GraceInv, GraceHasTimer, In

(* A restart forgets both.                                                *)
LEMMA CrashGrace ==
  ASSUME hostGrace' = [r \in Rooms |-> None], timer' = [t \in Timers |-> Stopped]
  PROVE  GraceInv'
  BY DEF GraceInv, GraceHasTimer, In, Stopped, TimerStates
-----------------------------------------------------------------------------
(* The database                                                           *)

(* What leaves the rows alone.                                            *)
LEMMA StillData ==
  ASSUME DataInv, UNCHANGED <<xfers, status, host, role, active, banned, writes, bounds>>
  PROVE  DataInv'
  BY DEF DataInv, bounds

(* A room's end is recorded as one.                                       *)
LEMMA EndRowsKeep ==
  ASSUME DataInv, NEW r \in Rooms, EndRows(r)
  PROVE  /\ status' \in [Rooms -> {"live", "ended"}]
         /\ active' \in [Rooms -> SUBSET Users]
  BY AfterEither DEF DataInv, EndRows

(* Ending a room touches its own rows only.                               *)
LEMMA EndRowsData ==
  ASSUME DataInv, NEW r \in Rooms, EndRows(r),
         UNCHANGED <<xfers, host, role, banned, writes, bounds>>
  PROVE  DataInv'
  BY EndRowsKeep DEF DataInv, bounds

(* No more statements are on their way than may be.                       *)
LEMMA LaterKeeps ==
  ASSUME DataInv, NEW w \in SUBSET Rows, IsFiniteSet(w), Later(w), scenario' = scenario
  PROVE  /\ writes' \subseteq Rows /\ IsFiniteSet(writes')
         /\ Cardinality(writes') <= scenario'.writes
  BY FS_Union DEF DataInv, Later

(* Statements on their way change no row yet.                             *)
LEMMA LaterData ==
  ASSUME DataInv, NEW w \in SUBSET Rows, IsFiniteSet(w), Later(w),
         UNCHANGED <<xfers, status, host, role, active, banned, bounds>>
  PROVE  DataInv'
  BY LaterKeeps DEF DataInv, bounds

(* A transfer sends two rows, or three.                                   *)
LEMMA TransferHostData ==
  ASSUME DataInv, NEW r \in Rooms, NEW u \in Users, NEW v \in Users,
         TransferHost(r, u, v)
  PROVE  DataInv'
<1> DEFINE rest == IF client[rooms[r][u]].host THEN {RoleRow(r, u, FALSE)} ELSE {}
           w == {HostRow(r, v), RoleRow(r, v, TRUE)} \cup rest
<1>1. Later(w) /\ UNCHANGED <<xfers, status, host, role, active, banned, bounds>>
  BY DEF TransferHost
<1>2. HostRow(r, v) \in Rows /\ RoleRow(r, v, TRUE) \in Rows /\ RoleRow(r, u, FALSE) \in Rows
  BY DEF HostRow, RoleRow, Rows
<1>3. rest \in SUBSET Rows /\ IsFiniteSet(rest)
  BY <1>2, FS_EmptySet, FS_Singleton
<1>4. IsFiniteSet({HostRow(r, v), RoleRow(r, v, TRUE)})
  <2>1. IsFiniteSet({HostRow(r, v)}) /\ IsFiniteSet({RoleRow(r, v, TRUE)})
    BY FS_Singleton
  <2>2. {HostRow(r, v), RoleRow(r, v, TRUE)} = {HostRow(r, v)} \cup {RoleRow(r, v, TRUE)}
    OBVIOUS
  <2> HIDE DEF rest, w
  <2> QED
    BY <2>1, <2>2, FS_Union
<1> HIDE DEF rest
<1>5. w \in SUBSET Rows /\ IsFiniteSet(w)
  BY <1>2, <1>3, <1>4, FS_Union
<1> HIDE DEF w
<1> QED
  BY <1>1, <1>5, LaterData

(* A kick sends one.                                                      *)
LEMMA KickData ==
  ASSUME DataInv, NEW r \in Rooms, NEW u \in Users, NEW v \in Users,
         KickFromLive(r, u, v)
  PROVE  DataInv'
<1>1. /\ Later({BanRow(r, v)})
      /\ UNCHANGED <<xfers, status, host, role, active, banned, bounds>>
  BY DEF KickFromLive
<1>2. BanRow(r, v) \in Rows
  BY DEF BanRow, Rows
<1> QED
  BY <1>1, <1>2, FS_Singleton, LaterData

(* Each statement is written into the row it is about.                    *)
LEMMA WrittenData ==
  ASSUME DataInv, NEW w \in writes, Written(w)
  PROVE  DataInv'
<1>1. /\ writes' = writes \ {w}
      /\ UNCHANGED <<xfers, status, active, scenario, crashes>>
  BY DEF Written, memory, bounds
<1>2. w \in Rows
  BY DEF DataInv
<1>3. w.room \in Rooms /\ w.user \in Users
  BY <1>2 DEF Rows
<1>4. host' \in [Rooms -> Users]
  <2>1. host' = host \/ host' = [host EXCEPT ![w.room] = w.user]
    BY AfterEither DEF Written
  <2> QED
    BY <1>3, <2>1 DEF DataInv
<1>5. banned' \in [Rooms -> SUBSET Users]
  <2>1. banned' = banned \/ banned' = [banned EXCEPT ![w.room] = @ \cup {w.user}]
    BY AfterEither DEF Written
  <2> QED
    BY <1>3, <2>1 DEF DataInv
<1>6. role' \in [Rooms -> SUBSET Users]
  <2>1. \/ role' = role
        \/ role' = [role EXCEPT ![w.room] = @ \cup {w.user}]
        \/ role' = [role EXCEPT ![w.room] = @ \ {w.user}]
    BY AfterEither DEF Written
  <2> QED
    BY <1>3, <2>1 DEF DataInv
<1>7. IsFiniteSet(writes') /\ Cardinality(writes') <= Cardinality(writes)
  BY <1>1, FS_Subset DEF DataInv
<1>8. /\ Cardinality(writes') \in Nat /\ Cardinality(writes) \in Nat
      /\ scenario.writes \in Nat
  BY <1>7, FS_CardinalityType DEF DataInv, ScenarioSet
<1> QED
  BY <1>1, <1>4, <1>5, <1>6, <1>7, <1>8 DEF DataInv

(* The handler may write who takes part.                                  *)
LEMMA CheckData ==
  ASSUME ConnInv, DataInv, NEW c \in Conns, Check(c)
  PROVE  DataInv'
<1> DEFINE u == client[c].user
           r == client[c].room
<1>1. UNCHANGED <<xfers, status, host, banned, writes, bounds>>
  BY DEF Check
<1>2. /\ role' = role \/ role' = [role EXCEPT ![r] = @ \ {u}]
      /\ active' = active \/ active' = [active EXCEPT ![r] = @ \cup {u}]
  BY AfterEither DEF Check
<1>3. u \in Users
  BY DEF Check, ConnInv, ClientTyped
<1> HIDE DEF u, r
<1>4. role' \in [Rooms -> SUBSET Users] /\ active' \in [Rooms -> SUBSET Users]
  BY <1>2, <1>3 DEF DataInv
<1> QED
  BY <1>1, <1>4 DEF DataInv, bounds

(* A code is for a room its user is live in.                              *)
LEMMA XferData ==
  ASSUME ConnInv, DataInv, NEW u \in Users, GenerateXferCode(u) \/ CancelXfer(u)
  PROVE  DataInv'
<1>1. UNCHANGED <<status, host, role, active, banned, writes, bounds>>
  BY DEF GenerateXferCode, CancelXfer, database
<1>2. \E x \in Rooms \cup {None} : xfers' = [xfers EXCEPT ![u] = x]
  <2>1. CASE GenerateXferCode(u)
    BY <2>1, RegistryHolds DEF GenerateXferCode
  <2>2. CASE CancelXfer(u)
    BY <2>2 DEF CancelXfer
  <2> QED
    BY <2>1, <2>2
<1>3. xfers' \in [Users -> Rooms \cup {None}]
  BY <1>2 DEF DataInv
<1> QED
  BY <1>1, <1>3 DEF DataInv, bounds

(* A code is used up.                                                     *)
LEMMA ConfirmData ==
  ASSUME DataInv, NEW c \in Conns, NEW u \in Users, NEW d \in Devices, ConfirmXfer(c, u, d)
  PROVE  DataInv'
<1>1. /\ xfers' = [xfers EXCEPT ![u] = None]
      /\ UNCHANGED <<status, host, role, active, banned, writes, bounds>>
  BY DEF ConfirmXfer, database
<1>2. xfers' \in [Users -> Rooms \cup {None}]
  BY <1>1 DEF DataInv
<1> QED
  BY <1>1, <1>2 DEF DataInv, bounds

(* A restart loses what was on its way and leaves the rows.               *)
LEMMA CrashData ==
  ASSUME DataInv, Crash
  PROVE  DataInv'
<1>1. /\ crashes < scenario.crashes /\ crashes' = crashes + 1
      /\ xfers' = [u \in Users |-> None] /\ writes' = {}
      /\ UNCHANGED <<status, host, role, active, banned, scenario>>
  BY DEF Crash
<1>2. scenario.crashes \in Nat /\ scenario.writes \in Nat
  BY DEF DataInv, ScenarioSet
<1>3. crashes' \in 0..scenario'.crashes
  BY <1>1, <1>2 DEF DataInv
<1>4. IsFiniteSet(writes') /\ Cardinality(writes') <= scenario'.writes
  BY <1>1, <1>2, FS_EmptySet
<1> QED
  BY <1>1, <1>3, <1>4 DEF DataInv
-----------------------------------------------------------------------------
(* The host the hub has still to deal with                                *)

(* What leaves the hub alone, and the places.                             *)
LEMMA StillHub ==
  ASSUME HubInv, UNCHANGED <<hub, rooms>>
  PROVE  HubInv'
  BY DEF HubInv

(* There is nobody.                                                       *)
LEMMA NobodyLeft ==
  ASSUME hub' = None
  PROVE  HubInv'
  BY DEF HubInv

(* Whoever is to be dealt with has given up the place.                    *)
LEMMA UnregisterHub ==
  ASSUME ConnInv, NEW c \in Conns, Unregister(c)
  PROVE  HubInv'
<1> DEFINE u == client[c].user
           r == client[c].room
<1>1. u \in Users /\ r \in Rooms
  BY DEF Unregister, ConnInv, ClientTyped, NoClient
<1>2. PICK seen \in HostRead(r) :
        hub' = IF Leaves(c) /\ IsRoomHost(c, seen)
                 THEN [room |-> r, user |-> u, seen |-> seen,
                       ends |-> client[c].deliberate /\ ~client[c].transferring]
                 ELSE None
  BY DEF Unregister
<1>3. Leaves(c) => rooms' = [rooms EXCEPT ![r][u] = None]
  BY DEF Unregister
<1>4. CASE ~(Leaves(c) /\ IsRoomHost(c, seen))
  BY <1>2, <1>4, NobodyLeft
<1>5. CASE Leaves(c) /\ IsRoomHost(c, seen)
  <2>1. seen \in {u, None}
    BY <1>5 DEF IsRoomHost
  <2>2. hub'.room = r /\ hub'.user = u /\ hub'.seen = seen
    BY <1>2, <1>5
  <2> HIDE DEF u, r
  <2>3. rooms'[r][u] = None
    BY <1>1, <1>3, <1>5 DEF ConnInv
  <2> QED
    BY <1>1, <2>1, <2>2, <2>3 DEF HubInv
<1> QED
  BY <1>4, <1>5
-----------------------------------------------------------------------------
(* Every step                                                             *)

(* At the start.                                                          *)
LEMMA InitHolds == Init => IInv
<1> SUFFICES ASSUME Init PROVE IInv
  OBVIOUS
<1>1. ClientTyped(NoClient)
  BY DEF ClientTyped, Clients, NoClient
<1>2. ConnInv
  BY <1>1 DEF Init, ConnInv, ClientTyped
<1>3. GraceInv
  BY DEF Init, GraceInv, GraceHasTimer, TimerStates
<1>4. DataInv
  <2>1. scenario.crashes \in Nat /\ scenario.writes \in Nat /\ scenario \in ScenarioSet
    BY LiveAssumption DEF Init, ScenarioSet
  <2>2. IsFiniteSet(writes) /\ Cardinality(writes) <= scenario.writes
    BY <2>1, FS_EmptySet DEF Init
  <2> QED
    BY <2>1, <2>2, LiveAssumption DEF Init, DataInv
<1>5. HubInv
  BY DEF Init, HubInv
<1> QED
  BY <1>2, <1>3, <1>4, <1>5 DEF IInv

(* What a connection does on its way in, and what is done to it.          *)
LEMMA ArrivalKeeps ==
  ASSUME IInv, NEW c \in Conns, NEW u \in Users, NEW r \in Rooms, NEW d \in Devices,
         Precheck(c, u, r, d) \/ SwitchLiveAway(c, u, r, d)
  PROVE  IInv'
<1>1. UNCHANGED <<hostGrace, timer>> /\ UNCHANGED <<hub, rooms>>
  BY DEF Precheck, SwitchLiveAway
<1>2. UNCHANGED <<xfers, status, host, role, active, banned, writes, bounds>>
  BY DEF Precheck, SwitchLiveAway, database
<1>3. ConnInv'
  BY PrecheckConn, SwitchConn DEF IInv
<1> QED
  BY <1>1, <1>2, <1>3, StillGrace, StillData, StillHub DEF IInv

(* A code typed in on another device.                                     *)
LEMMA ConfirmKeeps ==
  ASSUME IInv, NEW c \in Conns, NEW u \in Users, NEW d \in Devices, ConfirmXfer(c, u, d)
  PROVE  IInv'
<1>1. /\ UNCHANGED <<hostGrace, timer>> /\ UNCHANGED <<hub, rooms>>
      /\ xfers[u] \in Rooms \cup {None}
  BY DEF ConfirmXfer, IInv, DataInv
<1> QED
  BY <1>1, ConfirmConn, StillGrace, ConfirmData, StillHub DEF IInv

(* The newest connection takes the place; a host's calls off the end.     *)
LEMMA RegisterKeeps ==
  ASSUME IInv, NEW c \in Conns, Register(c)
  PROVE  IInv'
<1>1. client[c].room \in Rooms
  BY DEF Register, IInv, ConnInv, ClientTyped
<1>2. CancelGrace(client[c].room) \/ UNCHANGED <<hostGrace, timer>>
  BY DEF Register
<1>3. GraceInv'
  BY <1>1, <1>2, CancelGraceKeeps, StillGrace DEF IInv
<1>4. UNCHANGED <<xfers, status, host, role, active, banned, writes, bounds>> /\ hub' = None
  BY DEF Register, database
<1> QED
  BY <1>3, <1>4, RegisterConn, StillData, NobodyLeft DEF IInv

(* A place given up leaves the rows and the plans to the hub.             *)
LEMMA UnregisterKeeps ==
  ASSUME IInv, NEW c \in Conns, Unregister(c)
  PROVE  IInv'
<1>1. UNCHANGED <<hostGrace, timer>>
  BY DEF Unregister
<1>2. UNCHANGED <<xfers, status, host, role, active, banned, writes, bounds>>
  BY DEF Unregister, database
<1> QED
  BY <1>1, <1>2, UnregisterConn, UnregisterHub, StillGrace, StillData DEF IInv

(* The hub ends the room or plans its end.                                *)
LEMMA HostLeftKeeps ==
  ASSUME IInv, HostLeft
  PROVE  IInv'
<1> DEFINE r == hub.room
<1>1. r \in Rooms /\ hub' = None
  BY DEF HostLeft, IInv, HubInv
<1>2. UNCHANGED <<xfers, host, role, banned, writes, bounds>>
      /\ UNCHANGED <<client, rooms, liveUsers>>
  BY DEF HostLeft
<1>3. \/ EndLiveRoom(r)
      \/ ScheduleGrace(r) /\ UNCHANGED <<status, active>>
  BY DEF HostLeft
<1> HIDE DEF r
<1>4. GraceInv'
  BY <1>1, <1>3, CancelGraceKeeps, ScheduleGraceKeeps DEF IInv, EndLiveRoom
<1>5. DataInv'
  <2>1. EndRows(r) \/ UNCHANGED <<status, active>>
    BY <1>3 DEF EndLiveRoom
  <2> QED
    BY <1>1, <1>2, <2>1, EndRowsData, StillData DEF IInv
<1> QED
  BY <1>1, <1>2, <1>4, <1>5, StillConn, NobodyLeft DEF IInv

(* Steps of one connection that neither take nor give up a place.         *)
LEMMA ConnectionKeeps ==
  ASSUME IInv, NEW c \in Conns,
         \/ Check(c) \/ Refuse(c) \/ PutOut(c) \/ LeaveTimeout(c)
         \/ \E deliberate \in BOOLEAN : Close(c, deliberate)
  PROVE  IInv'
<1>1. UNCHANGED <<hostGrace, timer>> /\ UNCHANGED <<hub, rooms>>
  BY DEF Check, Refuse, PutOut, LeaveTimeout, Close
<1>2. ConnInv'
  BY CheckConn, RefuseConn, PutOutConn, LeaveTimeoutConn, CloseConn DEF IInv
<1>3. ~Check(c) => UNCHANGED <<xfers, status, host, role, active, banned, writes, bounds>>
  BY DEF Refuse, PutOut, LeaveTimeout, Close, database
<1> QED
  BY <1>1, <1>2, <1>3, StillGrace, CheckData, StillData, StillHub DEF IInv

(* What members send.                                                     *)
LEMMA EventKeeps ==
  ASSUME IInv, NEW r \in Rooms, NEW u \in Users, NEW v \in Users,
         TransferHost(r, u, v) \/ KickFromLive(r, u, v) \/ SetRole(r, u, v)
  PROVE  IInv'
<1>1. UNCHANGED <<hostGrace, timer>> /\ UNCHANGED <<hub, rooms>>
  BY DEF TransferHost, KickFromLive, SetRole
<1>2. ConnInv'
  BY TransferHostConn, KickConn, SetRoleConn DEF IInv
<1>3. SetRole(r, u, v) => UNCHANGED <<xfers, status, host, role, active, banned, writes, bounds>>
  BY DEF SetRole, database
<1> QED
  BY <1>1, <1>2, <1>3, StillGrace, TransferHostData, KickData, StillData, StillHub DEF IInv

(* What happens beside the hub's goroutine, to no connection.             *)
LEMMA BesideKeeps ==
  ASSUME IInv,
         \/ \E w \in writes : Written(w)
         \/ \E u \in Users : GenerateXferCode(u) \/ CancelXfer(u)
  PROVE  IInv'
<1>1. UNCHANGED <<client, rooms, liveUsers, hostGrace, timer, hub>>
  BY DEF Written, GenerateXferCode, CancelXfer, memory
<1>2. DataInv'
  BY WrittenData, XferData DEF IInv
<1> QED
  BY <1>1, <1>2, StillConn, StillGrace, StillHub DEF IInv

(* A timer and its callback.                                              *)
LEMMA TimerKeeps ==
  ASSUME IInv, NEW t \in Timers,
         Fire(t) \/ BeginEnd(t) \/ CheckHost(t) \/ EndByGrace(t)
  PROVE  IInv'
<1>1. UNCHANGED <<client, rooms, liveUsers, hub>>
  BY DEF Fire, BeginEnd, CheckHost, EndByGrace
<1>2. GraceInv'
  BY TimersKeep DEF IInv
<1>3. DataInv'
  <2>1. CASE EndByGrace(t)
    <3>1. timer[t].room \in Rooms
      BY <2>1 DEF EndByGrace, IInv, GraceInv, TimerStates, Stopped, Ticking
    <3>2. EndRows(timer[t].room) /\ UNCHANGED <<xfers, host, role, banned, writes, bounds>>
      BY <2>1 DEF EndByGrace
    <3> QED
      BY <3>1, <3>2, EndRowsData DEF IInv
  <2>2. CASE ~EndByGrace(t)
    <3>1. UNCHANGED <<xfers, status, host, role, active, banned, writes, bounds>>
      BY <2>2 DEF Fire, BeginEnd, CheckHost, database
    <3> QED
      BY <3>1, StillData DEF IInv
  <2> QED
    BY <2>1, <2>2
<1> QED
  BY <1>1, <1>2, <1>3, StillConn, StillHub DEF IInv

(* An administrator ends a room.                                          *)
LEMMA ForceEndKeeps ==
  ASSUME IInv, NEW r \in Rooms, ForceEndRoom(r)
  PROVE  IInv'
<1>1. /\ CancelGrace(r) /\ EndRows(r) /\ UNCHANGED <<client, rooms, liveUsers, hub>>
      /\ UNCHANGED <<xfers, host, role, banned, writes, bounds>>
  BY DEF ForceEndRoom, EndLiveRoom
<1> QED
  BY <1>1, StillConn, CancelGraceKeeps, EndRowsData, StillHub DEF IInv

(* The process stops.                                                     *)
LEMMA CrashKeeps ==
  ASSUME IInv, Crash
  PROVE  IInv'
<1>1. /\ client' = [c \in Conns |-> NoClient]
      /\ rooms' = [r \in Rooms |-> [u \in Users |-> None]]
      /\ liveUsers' = [u \in Users |-> None]
      /\ hostGrace' = [r \in Rooms |-> None]
      /\ timer' = [t \in Timers |-> Stopped]
      /\ hub' = None
  BY DEF Crash
<1> QED
  BY <1>1, CrashConn, CrashGrace, CrashData, NobodyLeft DEF IInv

(* One case for each kind of action.                                      *)
LEMMA StepKeeps == IInv /\ [Next]_vars => IInv'
<1> SUFFICES ASSUME IInv, [Next]_vars PROVE IInv'
  OBVIOUS
<1>1. ASSUME NEW c \in Conns, NEW u \in Users, NEW r \in Rooms, NEW d \in Devices,
             Precheck(c, u, r, d) \/ SwitchLiveAway(c, u, r, d)
      PROVE  IInv'
  BY <1>1, ArrivalKeeps
<1>2. ASSUME NEW c \in Conns,
             \/ Check(c) \/ Refuse(c) \/ PutOut(c) \/ LeaveTimeout(c)
             \/ \E deliberate \in BOOLEAN : Close(c, deliberate)
      PROVE  IInv'
  BY <1>2, ConnectionKeeps
<1>3. ASSUME NEW c \in Conns, Register(c) \/ Unregister(c)
      PROVE  IInv'
  BY <1>3, RegisterKeeps, UnregisterKeeps
<1>4. ASSUME NEW r \in Rooms, NEW u \in Users, NEW v \in Users,
             TransferHost(r, u, v) \/ KickFromLive(r, u, v) \/ SetRole(r, u, v)
      PROVE  IInv'
  BY <1>4, EventKeeps
<1>5. CASE \/ \E w \in writes : Written(w)
           \/ \E u \in Users : GenerateXferCode(u) \/ CancelXfer(u)
  BY <1>5, BesideKeeps
<1>6. ASSUME NEW c \in Conns, NEW u \in Users, NEW d \in Devices, ConfirmXfer(c, u, d)
      PROVE  IInv'
  BY <1>6, ConfirmKeeps
<1>7. ASSUME NEW t \in Timers, Fire(t) \/ BeginEnd(t) \/ CheckHost(t) \/ EndByGrace(t)
      PROVE  IInv'
  BY <1>7, TimerKeeps
<1>8. ASSUME NEW r \in Rooms, ForceEndRoom(r)
      PROVE  IInv'
  BY <1>8, ForceEndKeeps
<1>9. CASE Crash
  BY <1>9, CrashKeeps
<1>10. CASE HostLeft
  BY <1>10, HostLeftKeeps
<1>11. CASE UNCHANGED vars
  <2>1. /\ UNCHANGED <<client, rooms, liveUsers, hostGrace, timer, hub>>
        /\ UNCHANGED <<xfers, status, host, role, active, banned, writes, bounds>>
    BY <1>11 DEF vars, memory, database
  <2> QED
    BY <2>1, StillConn, StillGrace, StillData, StillHub DEF IInv
<1> QED
  BY <1>1, <1>2, <1>3, <1>4, <1>5, <1>6, <1>7, <1>8, <1>9, <1>10, <1>11, Zenon DEF Next

(* The inductive invariant.                                               *)
LEMMA Invariant == Spec => []IInv
  BY InitHolds, StepKeeps, PTL DEF Spec

-----------------------------------------------------------------------------
(* What is guaranteed                                                     *)

(* Whom the registry calls live is in that room, by that connection -     *)
(* however a user's connections come, go, replace and put out one another.*)
THEOREM RegistryRule == Spec => []RegistryIsInRoom
<1>1. IInv => RegistryIsInRoom
  BY RegistryHolds DEF IInv, RegistryIsInRoom
<1> QED
  BY <1>1, Invariant, PTL

(* No place is left without a connection that is not over yet, and no     *)
(* planned end without a timer that brings it or is called off.           *)
THEOREM NothingLeftRule == Spec => []NothingIsLeftBehind
<1>1. ConnInv => PlacesAreHeld
  <2> SUFFICES ASSUME ConnInv, NEW r \in Rooms, NEW u \in Users, Connected(r, u)
               PROVE  Holds(client[rooms[r][u]], u, r)
    BY DEF PlacesAreHeld, Holds
  <2> QED
    BY DEF ConnInv, Connected
<1>2. IInv => TypeOK
  <2> SUFFICES ASSUME IInv PROVE TypeOK
    OBVIOUS
  <2>1. \A c \in Conns :
          /\ client[c].stage \in {"unused", "allowed", "checked", "open", "leaving"}
          /\ client[c].stage = "unused" => client[c] = NoClient
          /\ client[c].stage # "unused" => client[c].user \in Users /\ client[c].room \in Rooms
    BY DEF IInv, ConnInv, ClientTyped, Clients
  <2>2. \A t \in Timers : timer[t].stage \in {"stopped", "running", "fired", "checking", "ending"}
    BY DEF IInv, GraceInv, TimerStates, Ticking, Stopped
  <2>3. /\ \A r \in Rooms, u \in Users : rooms[r][u] # None => rooms[r][u] \in Conns
        /\ \A u \in Users : liveUsers[u] # None => liveUsers[u] \in Conns
    BY DEF IInv, ConnInv
  <2>4. hub # None =>
          hub.room \in Rooms /\ hub.user \in Users /\ hub.seen \in Users \cup {None}
    BY DEF IInv, HubInv
  <2> QED
    BY <2>1, <2>2, <2>3, <2>4 DEF IInv, DataInv, TypeOK
<1>3. IInv => NothingIsLeftBehind
  BY <1>1, <1>2 DEF IInv, GraceInv, NothingIsLeftBehind
<1> QED
  BY <1>3, Invariant, PTL

(* When the hub has somebody's leaving end a room, then not while the host *)
(* of record is connected whom it has read: the one it has read as the    *)
(* host is the one who left.                                              *)
THEOREM GuestRule == Spec => GuestsDoNotEnd
<1> DEFINE A == \A r \in Rooms :
                  status'[r] # status[r] /\ hub' # hub /\ Connected(r, host[r])
                    => hub.seen # host[r]
<1>1. IInv /\ [Next]_vars => A
  <2> SUFFICES ASSUME IInv, [Next]_vars, NEW r \in Rooms,
                      status'[r] # status[r], hub' # hub, Connected(r, host[r]),
                      hub.seen = host[r]
               PROVE  FALSE
    OBVIOUS
  <2>1. HostLeft
    <3> SUFFICES ASSUME ~HostLeft, ~Crash PROVE FALSE
      BY DEF Crash
    <3>1. ~(\E c \in Conns, v \in Users, q \in Rooms, d \in Devices :
              Precheck(c, v, q, d) \/ SwitchLiveAway(c, v, q, d))
      BY DEF Precheck, SwitchLiveAway
    <3>2. ~(\E c \in Conns : Check(c) \/ Refuse(c) \/ PutOut(c) \/ LeaveTimeout(c))
      BY DEF Check, Refuse, PutOut, LeaveTimeout
    <3>3. ~(\E c \in Conns : Register(c) \/ Unregister(c))
      BY DEF Register, Unregister, database
    <3>4. ~(\E c \in Conns, deliberate \in BOOLEAN : Close(c, deliberate))
      BY DEF Close
    <3>5. ~(\E q \in Rooms, v, x \in Users :
              TransferHost(q, v, x) \/ KickFromLive(q, v, x) \/ SetRole(q, v, x))
      <4>1. \A q \in Rooms, v, x \in Users : TransferHost(q, v, x) => hub' = hub
        BY Zenon DEF TransferHost
      <4>2. \A q \in Rooms, v, x \in Users :
              KickFromLive(q, v, x) \/ SetRole(q, v, x) => hub' = hub
        BY DEF KickFromLive, SetRole
      <4> QED
        BY <4>1, <4>2
    <3>6. ~(\E w \in writes : Written(w))
      BY DEF Written
    <3>7. ~(\E v \in Users : GenerateXferCode(v) \/ CancelXfer(v))
      BY DEF GenerateXferCode, CancelXfer
    <3>8. ~(\E c \in Conns, v \in Users, d \in Devices : ConfirmXfer(c, v, d))
      BY DEF ConfirmXfer
    <3>9. ~(\E t \in Timers : Fire(t) \/ BeginEnd(t) \/ CheckHost(t) \/ EndByGrace(t))
      BY DEF Fire, BeginEnd, CheckHost, EndByGrace
    <3>10. ~(\E q \in Rooms : ForceEndRoom(q))
      BY DEF ForceEndRoom
    <3>11. ~UNCHANGED vars
      BY DEF vars
    <3> QED
      BY <3>1, <3>2, <3>3, <3>4, <3>5, <3>6, <3>7, <3>8, <3>9, <3>10, <3>11, Zenon DEF Next
  <2> DEFINE s == hub.room
             u == hub.user
  <2>2. /\ s \in Rooms /\ u \in Users /\ hub.seen \in {u, None}
        /\ rooms[s][u] = None
    BY <2>1 DEF HostLeft, IInv, HubInv
  <2>3. EndRows(s)
    BY <2>1 DEF HostLeft, EndLiveRoom
  <2>4. r = s
    <3>1. status' = [status EXCEPT ![s] = "ended"]
      BY <2>3, AfterEither DEF EndRows
    <3> QED
      BY <3>1 DEF IInv, DataInv
  <2>5. host[r] = u
    <3>1. host[r] \in Users /\ None \notin Users
      BY LiveAssumption DEF IInv, DataInv
    <3> QED
      BY <2>2, <3>1
  <2> QED
    BY <2>2, <2>4, <2>5 DEF Connected
<1> QED
  BY <1>1, Invariant, PTL DEF Spec, GuestsDoNotEnd

-----------------------------------------------------------------------------
(* MafiaGame: the rules every copy of the game keeps *)

(* At most one living don, and living mafia have one once somebody died.  *)
OneDon(g) ==
  /\ \A p, q \in g.alive : g.role[p] = "don" /\ g.role[q] = "don" => p = q
  /\ g.alive # DOMAIN g.role /\ AliveMafia(g) # {} => \E p \in g.alive : g.role[p] = "don"

Defended(g) == g.phase = "defense" => g.turn < Len(g.trial)

SoundGames(P) == {g \in Games(P) : Defended(g) /\ OneDon(g)}

(* h has the roles of g, and the same players live.                       *)
SameCast(g, h) == h.role = g.role /\ h.alive = g.alive

(* Who has won, and the don, depend on the roles and the living alone.    *)
LEMMA SameCastOneDon ==
  ASSUME NEW g, NEW h, SameCast(g, h)
  PROVE  /\ OneDon(g) => OneDon(h)
         /\ AliveMafia(h) = AliveMafia(g)
         /\ Winner(h) = Winner(g)
BY DEF SameCast, OneDon, AliveMafia, AliveTown, Winner

(* What the operators of MafiaGame leave of a copy.                       *)
LEMMA InPhaseFacts ==
  ASSUME NEW P, NEW g \in Games(P), NEW phase \in Phases
  PROVE  LET h == InPhase(g, phase)
         IN /\ h \in Games(P) /\ SameCast(g, h) /\ h.phase = phase
            /\ h.trial = g.trial /\ h.turn = g.turn
BY DEF InPhase, Games, SameCast

LEMMA VotesResetFacts ==
  ASSUME NEW P, NEW g \in Games(P)
  PROVE  LET h == VotesReset(g)
         IN /\ h \in Games(P) /\ SameCast(g, h) /\ h.phase = g.phase
            /\ h.trial = g.trial /\ h.turn = g.turn
<1>1. NoVotes \in UNION {[voters -> P] : voters \in SUBSET P}
  <2>1. NoVotes \in [{} -> P]
    BY DEF NoVotes
  <2> QED BY <2>1
<1> QED BY <1>1 DEF VotesReset, Games, SameCast

LEMMA TrialResetFacts ==
  ASSUME NEW P, NEW g \in Games(P)
  PROVE  LET h == TrialReset(g)
         IN /\ h \in Games(P) /\ SameCast(g, h) /\ h.phase = g.phase
            /\ h.trial = <<>> /\ h.turn = 0
<1>1. <<>> \in Seq(P)
  OBVIOUS
<1> QED BY <1>1 DEF TrialReset, Games, SameCast

LEMMA DayOfFacts ==
  ASSUME NEW P, NEW g \in Games(P)
  PROVE  DayOf(g) \in Games(P) /\ SameCast(g, DayOf(g)) /\ DayOf(g).phase = "day"
<1>1. PICK h : h = InPhase(g, "day")
  OBVIOUS
<1>2. PICK k : k = VotesReset(h)
  OBVIOUS
<1>3. h \in Games(P) /\ SameCast(g, h) /\ h.phase = "day"
  BY <1>1, InPhaseFacts DEF Phases
<1>4. k \in Games(P) /\ SameCast(h, k) /\ k.phase = "day"
  BY <1>2, <1>3, VotesResetFacts
<1>5. TrialReset(k) \in Games(P) /\ SameCast(k, TrialReset(k)) /\ TrialReset(k).phase = "day"
  BY <1>4, TrialResetFacts
<1>6. DayOf(g) = TrialReset(k)
  BY <1>1, <1>2 DEF DayOf
<1> QED BY <1>3, <1>4, <1>5, <1>6 DEF SameCast

LEMMA NightOfFacts ==
  ASSUME NEW P, NEW g \in Games(P)
  PROVE  NightOf(g) \in Games(P) /\ SameCast(g, NightOf(g)) /\ NightOf(g).phase = "night"
<1>1. PICK h : h = InPhase(g, "night")
  OBVIOUS
<1>2. PICK k : k = VotesReset(h)
  OBVIOUS
<1>3. PICK l : l = TrialReset(k)
  OBVIOUS
<1>4. h \in Games(P) /\ SameCast(g, h) /\ h.phase = "night"
  BY <1>1, InPhaseFacts DEF Phases
<1>5. k \in Games(P) /\ SameCast(h, k) /\ k.phase = "night"
  BY <1>2, <1>4, VotesResetFacts
<1>6. l \in Games(P) /\ SameCast(k, l) /\ l.phase = "night"
  BY <1>3, <1>5, TrialResetFacts
<1>7. NightOf(g) = [l EXCEPT !.day = @ + 1, !.don = NoOne, !.det = NoOne]
  BY <1>1, <1>2, <1>3 DEF NightOf
<1>8. NightOf(g) \in Games(P) /\ SameCast(l, NightOf(g)) /\ NightOf(g).phase = "night"
  <2>1. l.day \in Nat /\ l.day + 1 \in Nat
    BY <1>6 DEF Games
  <2>2. NightOf(g) \in Games(P)
    BY <1>6, <1>7, <2>1 DEF Games
  <2>3. SameCast(l, NightOf(g)) /\ NightOf(g).phase = "night"
    BY <1>6, <1>7 DEF Games, SameCast
  <2> QED BY <2>2, <2>3
<1> QED BY <1>4, <1>5, <1>6, <1>8 DEF SameCast

LEMMA FirstDayOfFacts ==
  ASSUME NEW P, NEW g \in Games(P)
  PROVE  /\ FirstDayOf(g) \in Games(P) /\ SameCast(g, FirstDayOf(g))
         /\ FirstDayOf(g).phase = "day"
<1>1. PICK h : h = [g EXCEPT !.day = IF @ = 0 THEN 1 ELSE @, !.ready = {}]
  OBVIOUS
<1>2. h \in Games(P) /\ SameCast(g, h)
  BY <1>1 DEF Games, SameCast
<1>3. FirstDayOf(g) = DayOf(h)
  BY <1>1 DEF FirstDayOf
<1> QED BY <1>2, <1>3, DayOfFacts DEF SameCast

LEMMA EndedOfFacts ==
  ASSUME NEW P, NEW g \in Games(P)
  PROVE  EndedOf(g) \in Games(P) /\ SameCast(g, EndedOf(g)) /\ EndedOf(g).phase = "ended"
<1>1. PICK h : h = InPhase(g, "ended")
  OBVIOUS
<1>2. h \in Games(P) /\ SameCast(g, h) /\ h.phase = "ended"
  BY <1>1, InPhaseFacts DEF Phases
<1>3. Winner(g) \in {"none", "town", "mafia"}
  BY DEF Winner
<1>4. EndedOf(g) = [h EXCEPT !.winner = Winner(g)]
  BY <1>1 DEF EndedOf
<1> QED BY <1>2, <1>3, <1>4 DEF Games, SameCast

LEMMA KilledFacts ==
  ASSUME NEW P, NEW g \in Games(P), NEW p
  PROVE  LET h == Killed(g, p)
         IN /\ h \in Games(P) /\ h.role = g.role /\ h.alive = g.alive \ {p}
            /\ h.phase = g.phase /\ h.trial = g.trial /\ h.turn = g.turn
            /\ h.det = g.det
BY DEF Killed, Games

(* Two living dons would both have lived before.                          *)
AtMostOneDon(g) == \A p, q \in g.alive : g.role[p] = "don" /\ g.role[q] = "don" => p = q

(* After the deaths, the don's succession.                                *)
LEMMA ReassignedFacts ==
  ASSUME NEW P, NEW g \in Games(P), AtMostOneDon(g), NEW h \in Reassigned(g)
  PROVE  /\ h \in Games(P) /\ OneDon(h) /\ h.alive = g.alive
         /\ h.phase = g.phase /\ h.trial = g.trial /\ h.turn = g.turn
<1>1. CASE AliveMafia(g) = {} \/ \E p \in g.alive : g.role[p] = "don"
  BY <1>1 DEF Reassigned, OneDon, AtMostOneDon
<1>2. CASE ~(AliveMafia(g) = {} \/ \E p \in g.alive : g.role[p] = "don")
  <2>1. PICK p \in AliveMafia(g) : h = [g EXCEPT !.role[p] = "don"]
    BY <1>2 DEF Reassigned
  <2>2. g.role \in [P -> RoleNames] /\ g.alive \subseteq P
    BY DEF Games
  <2>3. p \in g.alive /\ p \in P
    BY <2>1, <2>2 DEF AliveMafia
  <2>4. h = [g EXCEPT !.role = [g.role EXCEPT ![p] = "don"]]
    BY <2>1
  <2>5. [g.role EXCEPT ![p] = "don"] \in [P -> RoleNames]
    BY <2>2 DEF RoleNames
  <2>6. /\ h \in Games(P) /\ h.alive = g.alive /\ h.role = [g.role EXCEPT ![p] = "don"]
        /\ h.phase = g.phase /\ h.trial = g.trial /\ h.turn = g.turn
    BY <2>4, <2>5 DEF Games
  <2>7. \A q \in g.alive : h.role[q] = "don" <=> q = p
    BY <1>2, <2>2, <2>3, <2>6
  <2>8. OneDon(h)
    BY <2>3, <2>6, <2>7 DEF OneDon
  <2> QED BY <2>6, <2>8
<1> QED BY <1>1, <1>2

(* resolveNight: two deaths at most, and the succession after them.       *)
LEMMA NightResolvedFacts ==
  ASSUME NEW P, NEW g \in Games(P), AtMostOneDon(g), NEW h \in NightResolved(g)
  PROVE  h \in Games(P) /\ OneDon(h) /\ h.alive \subseteq g.alive /\ h.phase = g.phase
                        /\ h.trial = g.trial /\ h.turn = g.turn
<1>1. PICK shot : shot = IF g.don \in g.alive THEN Killed(g, g.don) ELSE g
  OBVIOUS
<1>2. PICK after : after = IF /\ g.det \in AliveMafia(shot)
                              /\ \E p \in shot.alive : g.role[p] = "detective"
                           THEN Killed(shot, g.det) ELSE shot
  OBVIOUS
<1>3. /\ shot \in Games(P) /\ shot.role = g.role /\ shot.alive \subseteq g.alive
      /\ shot.phase = g.phase /\ shot.trial = g.trial /\ shot.turn = g.turn
  BY <1>1, KilledFacts
<1>4. /\ after \in Games(P) /\ after.role = g.role /\ after.alive \subseteq g.alive
      /\ after.phase = g.phase /\ after.trial = g.trial /\ after.turn = g.turn
  BY <1>2, <1>3, KilledFacts
<1>5. AtMostOneDon(after)
  BY <1>4 DEF AtMostOneDon
<1>6. PICK k \in Reassigned(after) : h = [k EXCEPT !.don = NoOne, !.det = NoOne]
  BY <1>1, <1>2 DEF NightResolved
<1>7. /\ k \in Games(P) /\ OneDon(k) /\ k.alive = after.alive
      /\ k.phase = after.phase /\ k.trial = after.trial /\ k.turn = after.turn
  BY <1>4, <1>5, <1>6, ReassignedFacts
<1>8. /\ h \in Games(P) /\ SameCast(k, h)
      /\ h.phase = k.phase /\ h.trial = k.trial /\ h.turn = k.turn
  BY <1>6, <1>7 DEF Games, SameCast
<1>9. OneDon(h)
  BY <1>7, <1>8, SameCastOneDon
<1> QED BY <1>4, <1>7, <1>8, <1>9 DEF SameCast

LEMMA FirstVoteFacts ==
  ASSUME NEW P, IsFiniteSet(P), NEW g \in Games(P), NEW h \in FirstVoteResolved(g)
  PROVE  h \in Games(P) /\ SameCast(g, h) /\ h.turn = 0 /\ h.phase = g.phase
<1>1. PICK t \in Trials(g) : h = [g EXCEPT !.trial = t, !.turn = 0]
  BY DEF FirstVoteResolved
<1>2. Accused(g) \subseteq P
  BY DEF Accused, Games
<1>3. Cardinality(Accused(g)) \in Nat
  BY <1>2, FS_Subset, FS_CardinalityType
<1>4. t \in [1..Cardinality(Accused(g)) -> P]
  BY <1>1, <1>2 DEF Trials
<1>5. t \in Seq(P)
  BY <1>3, <1>4
<1> QED BY <1>1, <1>5 DEF Games, SameCast

-----------------------------------------------------------------------------
(* MafiaGame: what a handler writes *)

Ops(P) == [op : {"save"}, game : SoundGames(P)] \cup [op : {"clear"}] \cup [op : {"advance"}]

(* The copy that write i of w finds, if the writes before it succeed.     *)
Found(a, w, i) == IF i = 1 THEN a ELSE w[i - 1].game

(* Goroutine r may write h over g: nobody revives, and only the hub and the*)
(* timer move the game on; who leaves can but end it.                     *)
Goes(r, g, h) ==
  /\ h.alive \subseteq g.alive
  /\ r \in {Hub, Timer} \/ h.phase = "ended" \/ (h.phase = g.phase /\ h.turn = g.turn)

(* What r may have to write when the copy is a: a phase is advanced, and  *)
(* the game cleared, last of all; a defence that the timer opens is its   *)
(* last word.                                                             *)
Plan(P, r, a, w) ==
  /\ w \in Seq(Ops(P))
  /\ \A i \in 1..Len(w) :
       /\ w[i].op = "save" => Goes(r, Found(a, w, i), w[i].game)
       /\ w[i].op # "save" => i = Len(w)
       /\ w[i].op = "save" /\ r = Timer /\ w[i].game.phase = "defense" => i = Len(w)
       /\ w[i].op = "advance" => r \in {Hub, Timer}

(* The game goes on: nobody has won.                                      *)
Open(a) == IsGame(a) => a.phase # "ended" /\ Winner(a) = "none"

(* If all the writes succeed, the game they leave goes on, or none is left.*)
Settled(a, w) ==
  /\ w = <<>> => Open(a)
  /\ w # <<>> =>
       /\ w[Len(w)].op = "save" => Open(w[Len(w)].game)
       /\ w[Len(w)].op = "advance" => Open(Found(a, w, Len(w)))

LEMMA PlanEmpty ==
  ASSUME NEW P, NEW r, NEW a
  PROVE  Plan(P, r, a, <<>>) /\ (Settled(a, <<>>) <=> Open(a))
BY DEF Plan, Settled

LEMMA PlanClear ==
  ASSUME NEW P, NEW r, NEW a
  PROVE  Plan(P, r, a, <<Clear>>) /\ Settled(a, <<Clear>>)
<1>1. Clear \in Ops(P) /\ Clear.op = "clear"
  BY DEF Clear, Ops
<1>2. PICK w : w = <<Clear>>
  OBVIOUS
<1>3. w \in Seq(Ops(P)) /\ Len(w) = 1 /\ w # <<>> /\ w[1] = Clear
  BY <1>1, <1>2
<1>4. Plan(P, r, a, w) /\ Settled(a, w)
  BY <1>1, <1>3 DEF Plan, Settled
<1> QED BY <1>2, <1>4

LEMMA PlanAdvance ==
  ASSUME NEW P, NEW r \in {Hub, Timer}, NEW a
  PROVE  Plan(P, r, a, <<Advance>>) /\ (Open(a) => Settled(a, <<Advance>>))
<1>1. Advance \in Ops(P) /\ Advance.op = "advance"
  BY DEF Advance, Ops
<1>2. PICK w : w = <<Advance>>
  OBVIOUS
<1>3. w \in Seq(Ops(P)) /\ Len(w) = 1 /\ w[1] = Advance
  BY <1>1, <1>2
<1>4. Plan(P, r, a, w) /\ (Open(a) => Settled(a, w))
  BY <1>1, <1>3 DEF Plan, Settled, Found
<1> QED BY <1>2, <1>4

(* A save before a plan.                                                  *)
LEMMA PlanFirst ==
  ASSUME NEW P, NEW r, NEW a, NEW h \in SoundGames(P), NEW w,
         Goes(r, a, h), Plan(P, r, h, w),
         r = Timer /\ h.phase = "defense" => w = <<>>
  PROVE  /\ Plan(P, r, a, <<Save(h)>> \o w)
         /\ Settled(h, w) => Settled(a, <<Save(h)>> \o w)
<1>1. PICK s : s = Save(h)
  OBVIOUS
<1>2. s \in Ops(P) /\ s.op = "save" /\ s.game = h
  BY <1>1 DEF Save, Ops
<1>3. PICK v : v = <<s>> \o w
  OBVIOUS
<1>4. w \in Seq(Ops(P))
  BY DEF Plan
<1>5. /\ v \in Seq(Ops(P)) /\ Len(v) = Len(w) + 1 /\ v[1] = s
      /\ \A i \in 1..Len(w) : v[i + 1] = w[i]
  BY <1>2, <1>3, <1>4
<1>6. ASSUME NEW i \in 1..Len(w) PROVE Found(a, v, i + 1) = Found(h, w, i)
  BY <1>2, <1>4, <1>5 DEF Found
<1>7. ASSUME NEW i \in 1..Len(v)
      PROVE  /\ v[i].op = "save" => Goes(r, Found(a, v, i), v[i].game)
             /\ v[i].op # "save" => i = Len(v)
             /\ v[i].op = "save" /\ r = Timer /\ v[i].game.phase = "defense" => i = Len(v)
             /\ v[i].op = "advance" => r \in {Hub, Timer}
  <2>1. CASE i = 1
    <3>1. Found(a, v, i) = a
      BY <2>1 DEF Found
    <3>2. w = <<>> => Len(v) = 1
      BY <1>5
    <3> QED BY <1>2, <1>5, <2>1, <3>1, <3>2
  <2>2. CASE i # 1
    <3>1. PICK j \in 1..Len(w) : i = j + 1
      <4>1. i - 1 \in 1..Len(w) /\ i = (i - 1) + 1
        BY <1>4, <1>5, <2>2
      <4> QED BY <4>1
    <3>2. /\ w[j].op = "save" => Goes(r, Found(h, w, j), w[j].game)
          /\ w[j].op # "save" => j = Len(w)
          /\ w[j].op = "save" /\ r = Timer /\ w[j].game.phase = "defense" => j = Len(w)
          /\ w[j].op = "advance" => r \in {Hub, Timer}
      BY DEF Plan
    <3>3. v[i] = w[j] /\ Found(a, v, i) = Found(h, w, j) /\ (j = Len(w) => i = Len(v))
      BY <1>4, <1>5, <1>6, <3>1
    <3> QED BY <3>2, <3>3
  <2> QED BY <2>1, <2>2
<1>8. Plan(P, r, a, v)
  BY <1>5, <1>7 DEF Plan
<1>9. Settled(h, w) => Settled(a, v)
  <2>1. CASE w = <<>>
    <3>1. Len(v) = 1 /\ v # <<>> /\ v[Len(v)] = s
      BY <1>5, <2>1
    <3> QED BY <1>2, <2>1, <3>1 DEF Settled
  <2>2. CASE w # <<>>
    <3>1. Len(w) \in 1..Len(w) /\ Len(v) = Len(w) + 1
      BY <1>4, <1>5, <2>2
    <3>2. v[Len(v)] = w[Len(w)] /\ Found(a, v, Len(v)) = Found(h, w, Len(w)) /\ v # <<>>
      BY <1>5, <1>6, <3>1
    <3> QED BY <2>2, <3>2 DEF Settled
  <2> QED BY <2>1, <2>2
<1> QED BY <1>1, <1>3, <1>8, <1>9

(* A save alone.                                                          *)
LEMMA PlanSave ==
  ASSUME NEW P, NEW r, NEW a, NEW h \in SoundGames(P), Goes(r, a, h)
  PROVE  Plan(P, r, a, <<Save(h)>>) /\ (Open(h) => Settled(a, <<Save(h)>>))
<1>1. Plan(P, r, h, <<>>) /\ (Settled(h, <<>>) <=> Open(h))
  BY PlanEmpty
<1>2. <<Save(h)>> \o <<>> = <<Save(h)>>
  OBVIOUS
<1> QED BY <1>1, <1>2, PlanFirst

(* checkAndFinish: a decided game is ended and cleared.                   *)
LEMMA PlanFinish ==
  ASSUME NEW P, NEW r, NEW h \in SoundGames(P), NEW rest, Plan(P, r, h, rest)
  PROVE  /\ Plan(P, r, h, FinishOr(h, rest))
         /\ (Winner(h) = "none" => Settled(h, rest)) => Settled(h, FinishOr(h, rest))
<1>1. CASE Winner(h) = "none"
  BY <1>1 DEF FinishOr
<1>2. CASE Winner(h) # "none"
  <2>1. PICK e : e = EndedOf(h)
    OBVIOUS
  <2>2. e \in Games(P) /\ SameCast(h, e) /\ e.phase = "ended"
    BY <2>1, EndedOfFacts DEF SoundGames
  <2>3. e \in SoundGames(P) /\ Goes(r, h, e)
    BY <2>2, SameCastOneDon DEF SoundGames, Defended, SameCast, Goes
  <2>4. Plan(P, r, e, <<Clear>>) /\ Settled(e, <<Clear>>)
    BY PlanClear
  <2>5. /\ Plan(P, r, h, <<Save(e)>> \o <<Clear>>)
        /\ Settled(h, <<Save(e)>> \o <<Clear>>)
    BY <2>2, <2>3, <2>4, PlanFirst
  <2>6. FinishOr(h, rest) = <<Save(e)>> \o <<Clear>>
    BY <1>2, <2>1 DEF FinishOr
  <2> QED BY <2>5, <2>6
<1> QED BY <1>1, <1>2

-----------------------------------------------------------------------------
(* MafiaGame: the end of a phase *)

LEMMA SoundFromCast ==
  ASSUME NEW P, NEW g \in SoundGames(P), NEW h \in Games(P), SameCast(g, h),
         h.phase # "defense" \/ h.turn < Len(h.trial)
  PROVE  /\ h \in SoundGames(P)
         /\ \A r \in {Hub, Timer} : Goes(r, g, h)
         /\ Open(g) /\ IsGame(g) /\ h.phase # "ended" => Open(h)
BY SameCastOneDon DEF SoundGames, Defended, SameCast, Goes, Open

LEMMA NightOverPlan ==
  ASSUME NEW P, NEW g \in SoundGames(P), NEW r \in {Hub, Timer}, g.phase = "night",
         NEW w \in NightOver(g)
  PROVE  Plan(P, r, g, w) /\ Settled(g, w)
<1>1. PICK h \in NightResolved(g) : w = <<Save(h)>> \o FinishOr(h, <<Save(DayOf(h))>>)
  BY DEF NightOver
<1>2. h \in Games(P) /\ OneDon(h) /\ h.alive \subseteq g.alive /\ h.phase = "night"
  <2>1. g \in Games(P) /\ AtMostOneDon(g)
    BY DEF SoundGames, OneDon, AtMostOneDon
  <2> QED BY <1>1, <2>1, NightResolvedFacts
<1>3. h \in SoundGames(P) /\ Goes(r, g, h)
  BY <1>2 DEF SoundGames, Defended, Goes
<1>4. PICK d : d = DayOf(h)
  OBVIOUS
<1>5. d \in Games(P) /\ SameCast(h, d) /\ d.phase = "day"
  BY <1>2, <1>4, DayOfFacts
<1>6. d \in SoundGames(P) /\ Goes(r, h, d)
  BY <1>3, <1>5, SoundFromCast
<1>7. Winner(h) = "none" => Open(d)
  BY <1>5, SameCastOneDon DEF Open
<1>8. /\ Plan(P, r, h, <<Save(d)>>)
      /\ Winner(h) = "none" => Settled(h, <<Save(d)>>)
  BY <1>6, <1>7, PlanSave
<1>9. Plan(P, r, h, FinishOr(h, <<Save(d)>>)) /\ Settled(h, FinishOr(h, <<Save(d)>>))
  BY <1>3, <1>8, PlanFinish
<1> QED BY <1>1, <1>2, <1>3, <1>4, <1>9, PlanFirst

LEMMA NightFollows ==
  ASSUME NEW P, NEW g \in SoundGames(P), NEW r \in {Hub, Timer}
  PROVE  /\ Plan(P, r, g, <<Save(NightOf(g))>>)
         /\ Winner(g) = "none" => Settled(g, <<Save(NightOf(g))>>)
<1>1. PICK n : n = NightOf(g)
  OBVIOUS
<1>2. n \in Games(P) /\ SameCast(g, n) /\ n.phase = "night"
  BY <1>1, NightOfFacts DEF SoundGames
<1>3. n \in SoundGames(P) /\ Goes(r, g, n)
  BY <1>2, SoundFromCast
<1>4. Winner(g) = "none" => Open(n)
  BY <1>2, SameCastOneDon DEF Open
<1> QED BY <1>1, <1>3, <1>4, PlanSave

LEMMA FinalVoteOverPlan ==
  ASSUME NEW P, NEW g \in SoundGames(P), NEW r \in {Hub, Timer}, g.phase = "final",
         NEW w \in FinalVoteOver(g)
  PROVE  Plan(P, r, g, w) /\ (Winner(g) = "none" => Settled(g, w))
<1>1. CASE Condemned(g) = {}
  <2>1. PICK t : t = TrialReset(g)
    OBVIOUS
  <2>2. t \in Games(P) /\ SameCast(g, t) /\ t.phase = "final"
    BY <2>1, TrialResetFacts DEF SoundGames
  <2>3. t \in SoundGames(P) /\ Goes(r, g, t)
    BY <2>2, SoundFromCast
  <2>4. PICK n : n = NightOf(g)
    OBVIOUS
  <2>5. n \in Games(P) /\ SameCast(g, n) /\ n.phase = "night"
    BY <2>4, NightOfFacts DEF SoundGames
  <2>6. SameCast(t, n)
    BY <2>2, <2>5 DEF SameCast
  <2>7. n \in SoundGames(P) /\ Goes(r, t, n)
    BY <2>3, <2>5, <2>6, SoundFromCast
  <2>8. Winner(g) = "none" => Open(n)
    BY <2>5, SameCastOneDon DEF Open
  <2>9. Plan(P, r, t, <<Save(n)>>) /\ (Winner(g) = "none" => Settled(t, <<Save(n)>>))
    BY <2>7, <2>8, PlanSave
  <2>10. /\ Plan(P, r, g, <<Save(t)>> \o <<Save(n)>>)
         /\ Winner(g) = "none" => Settled(g, <<Save(t)>> \o <<Save(n)>>)
    BY <2>2, <2>3, <2>9, PlanFirst
  <2>11. w = <<Save(t)>> \o <<Save(n)>>
    BY <1>1, <2>1, <2>4 DEF FinalVoteOver
  <2> QED BY <2>10, <2>11
<1>2. CASE Condemned(g) # {}
  <2>0. PICK p \in Condemned(g) :
          \E h \in Reassigned(Killed(g, p)) :
            LET out == InPhase(TrialReset(h), "execution")
            IN w = <<Save(out)>> \o FinishOr(out, <<>>)
    BY <1>2 DEF FinalVoteOver
  <2>1. PICK h \in Reassigned(Killed(g, p)) :
          LET out == InPhase(TrialReset(h), "execution")
          IN w = <<Save(out)>> \o FinishOr(out, <<>>)
    BY <2>0
  <2>2. /\ Killed(g, p) \in Games(P) /\ AtMostOneDon(Killed(g, p))
        /\ Killed(g, p).alive \subseteq g.alive
    BY KilledFacts DEF SoundGames, OneDon, AtMostOneDon
  <2>3. h \in Games(P) /\ OneDon(h) /\ h.alive \subseteq g.alive
    BY <2>1, <2>2, ReassignedFacts
  <2>4. PICK t : t = TrialReset(h)
    OBVIOUS
  <2>5. t \in Games(P) /\ SameCast(h, t)
    BY <2>3, <2>4, TrialResetFacts
  <2>6. PICK out : out = InPhase(t, "execution")
    OBVIOUS
  <2>7. out \in Games(P) /\ SameCast(t, out) /\ out.phase = "execution"
    BY <2>5, <2>6, InPhaseFacts DEF Phases
  <2>8. out \in SoundGames(P) /\ Goes(r, g, out)
    <3>1. SameCast(h, out)
      BY <2>5, <2>7 DEF SameCast
    <3>2. OneDon(out)
      BY <2>3, <3>1, SameCastOneDon
    <3> QED BY <2>3, <2>7, <3>1, <3>2 DEF SoundGames, Defended, Goes, SameCast
  <2>9. Winner(out) = "none" => Open(out)
    BY <2>7 DEF Open
  <2>10. Plan(P, r, out, <<>>) /\ (Winner(out) = "none" => Settled(out, <<>>))
    BY <2>9, PlanEmpty
  <2>11. Plan(P, r, out, FinishOr(out, <<>>)) /\ Settled(out, FinishOr(out, <<>>))
    BY <2>8, <2>10, PlanFinish
  <2>12. w = <<Save(out)>> \o FinishOr(out, <<>>)
    BY <2>1, <2>4, <2>6
  <2> QED BY <2>7, <2>8, <2>11, <2>12, PlanFirst
<1> QED BY <1>1, <1>2

LEMMA VoteOverPlan ==
  ASSUME NEW P, IsFiniteSet(P), NEW g \in SoundGames(P), NEW r \in {Hub, Timer},
         g.phase = "vote", NEW w \in VoteOver(g)
  PROVE  Plan(P, r, g, w) /\ (Winner(g) = "none" => Settled(g, w))
<1>1. PICK h \in FirstVoteResolved(g) :
        w = IF h.trial = <<>> THEN <<Save(NightOf(h))>> ELSE <<Save(InPhase(h, "defense"))>>
  BY DEF VoteOver
<1>2. h \in Games(P) /\ SameCast(g, h) /\ h.turn = 0 /\ h.phase = "vote"
  BY <1>1, FirstVoteFacts DEF SoundGames
<1>3. PICK n : n = IF h.trial = <<>> THEN NightOf(h) ELSE InPhase(h, "defense")
  OBVIOUS
<1>4. /\ n \in Games(P) /\ SameCast(h, n) /\ n.phase # "ended"
      /\ n.phase # "defense" \/ n.turn < Len(n.trial)
  <2>1. CASE h.trial = <<>>
    BY <1>2, <1>3, <2>1, NightOfFacts
  <2>2. CASE h.trial # <<>>
    <3>1. /\ n \in Games(P) /\ SameCast(h, n) /\ n.phase = "defense"
          /\ n.turn = h.turn /\ n.trial = h.trial
      BY <1>2, <1>3, <2>2, InPhaseFacts DEF Phases
    <3>2. n.trial \in Seq(P)
      BY <3>1 DEF Games
    <3>3. n.turn < Len(n.trial)
      BY <1>2, <2>2, <3>1, <3>2
    <3> QED BY <3>1, <3>3
  <2> QED BY <2>1, <2>2
<1>5. SameCast(g, n)
  BY <1>2, <1>4 DEF SameCast
<1>6. n \in SoundGames(P) /\ Goes(r, g, n)
  BY <1>4, <1>5, SoundFromCast
<1>7. Winner(g) = "none" => Open(n)
  BY <1>4, <1>5, SameCastOneDon DEF Open
<1>8. w = <<Save(n)>>
  BY <1>1, <1>3
<1> QED BY <1>6, <1>7, <1>8, PlanSave

LEMMA DefenseOverPlan ==
  ASSUME NEW P, NEW g \in SoundGames(P), NEW r \in {Hub, Timer}, g.phase = "defense"
  PROVE  /\ Plan(P, r, g, DefenseOver(g))
         /\ Winner(g) = "none" => Settled(g, DefenseOver(g))
<1>1. PICK h : h = [g EXCEPT !.turn = @ + 1]
  OBVIOUS
<1>2. /\ h \in Games(P) /\ SameCast(g, h) /\ h.turn = g.turn + 1 /\ h.trial = g.trial
  BY <1>1 DEF SoundGames, Games, SameCast
<1>3. PICK v : v = VotesReset(h)
  OBVIOUS
<1>4. v \in Games(P) /\ SameCast(h, v)
  BY <1>2, <1>3, VotesResetFacts
<1>5. PICK n : n = IF g.turn + 1 < Len(g.trial) THEN InPhase(h, "defense")
                   ELSE InPhase(v, "final")
  OBVIOUS
<1>6. /\ n \in Games(P) /\ SameCast(g, n) /\ n.phase # "ended"
      /\ n.phase # "defense" \/ n.turn < Len(n.trial)
  <2>1. CASE g.turn + 1 < Len(g.trial)
    <3>1. /\ n \in Games(P) /\ SameCast(h, n) /\ n.phase = "defense"
          /\ n.turn = h.turn /\ n.trial = h.trial
      BY <1>2, <1>5, <2>1, InPhaseFacts DEF Phases
    <3> QED BY <1>2, <2>1, <3>1 DEF SameCast
  <2>2. CASE ~(g.turn + 1 < Len(g.trial))
    <3>1. n \in Games(P) /\ SameCast(v, n) /\ n.phase = "final"
      BY <1>4, <1>5, <2>2, InPhaseFacts DEF Phases
    <3> QED BY <1>2, <1>4, <3>1 DEF SameCast
  <2> QED BY <2>1, <2>2
<1>7. n \in SoundGames(P) /\ Goes(r, g, n)
  BY <1>6, SoundFromCast
<1>8. Winner(g) = "none" => Open(n)
  BY <1>6, SameCastOneDon DEF Open
<1>9. DefenseOver(g) = <<Save(n)>>
  BY <1>1, <1>3, <1>5 DEF DefenseOver
<1> QED BY <1>7, <1>8, <1>9, PlanSave

(* advancePhase: whatever the phase, a sound copy leads to sound copies.  *)
LEMMA AdvancedPlan ==
  ASSUME NEW P, IsFiniteSet(P), NEW g \in SoundGames(P), NEW r \in {Hub, Timer},
         NEW w \in Advanced(g)
  PROVE  /\ Plan(P, r, g, w)
         /\ g.phase # "ended" /\ Winner(g) = "none" => Settled(g, w)
<1>0. g \in Games(P) /\ g.phase \in Phases
  BY DEF SoundGames, Games
<1>1. CASE g.phase = "intro"
  <2>1. PICK n : n = FirstDayOf(g)
    OBVIOUS
  <2>2. n \in Games(P) /\ SameCast(g, n) /\ n.phase = "day"
    BY <1>0, <2>1, FirstDayOfFacts
  <2>3. n \in SoundGames(P) /\ Goes(r, g, n)
    BY <2>2, SoundFromCast
  <2>4. Winner(g) = "none" => Open(n)
    BY <2>2, SameCastOneDon DEF Open
  <2>5. w = <<Save(n)>>
    BY <1>1, <2>1 DEF Advanced
  <2> QED BY <2>3, <2>4, <2>5, PlanSave
<1>2. CASE g.phase = "night"
  BY <1>2, NightOverPlan DEF Advanced
<1>3. CASE g.phase = "day"
  <2>1. PICK v : v = VotesReset(g)
    OBVIOUS
  <2>2. PICK t : t = TrialReset(v)
    OBVIOUS
  <2>3. PICK n : n = InPhase(t, "vote")
    OBVIOUS
  <2>4. v \in Games(P) /\ SameCast(g, v)
    BY <1>0, <2>1, VotesResetFacts
  <2>5. t \in Games(P) /\ SameCast(v, t)
    BY <2>2, <2>4, TrialResetFacts
  <2>6. n \in Games(P) /\ SameCast(t, n) /\ n.phase = "vote"
    BY <2>3, <2>5, InPhaseFacts DEF Phases
  <2>7. SameCast(g, n)
    BY <2>4, <2>5, <2>6 DEF SameCast
  <2>8. n \in SoundGames(P) /\ Goes(r, g, n)
    BY <2>6, <2>7, SoundFromCast
  <2>9. Winner(g) = "none" => Open(n)
    BY <2>6, <2>7, SameCastOneDon DEF Open
  <2>10. w = <<Save(n)>>
    BY <1>3, <2>1, <2>2, <2>3 DEF Advanced
  <2> QED BY <2>8, <2>9, <2>10, PlanSave
<1>4. CASE g.phase = "vote"
  BY <1>4, VoteOverPlan DEF Advanced
<1>5. CASE g.phase = "defense"
  <2>1. w = DefenseOver(g)
    BY <1>5 DEF Advanced
  <2> QED BY <1>5, <2>1, DefenseOverPlan
<1>6. CASE g.phase = "final"
  BY <1>6, FinalVoteOverPlan DEF Advanced
<1>7. CASE g.phase = "execution"
  <2>1. w = <<Save(NightOf(g))>>
    BY <1>7 DEF Advanced
  <2> QED BY <2>1, NightFollows
<1>8. CASE g.phase = "ended"
  <2>1. w = <<>>
    BY <1>8 DEF Advanced
  <2> QED BY <1>8, <2>1, PlanEmpty
<1> QED BY <1>0, <1>1, <1>2, <1>3, <1>4, <1>5, <1>6, <1>7, <1>8 DEF Phases

-----------------------------------------------------------------------------
(* MafiaGame: the handlers *)

(* Every copy of the game is sound, whoever runs at the same time.        *)
CopiesInv ==
  /\ table \in Tables
  /\ activeGame \in SoundGames(Players) \cup {NoGame, Bottle}
  /\ todo \in [Goroutines -> Seq(Ops(Players))]
  /\ {started, panicked} \subseteq BOOLEAN
  /\ fails \in 0..table.fails

(* Goroutine r has loaded the game and will write w.                      *)
Handled(r, w) ==
  /\ MayRun(r)
  /\ Handle(r, w)
  /\ IsGame(activeGame)
  /\ Plan(Players, r, activeGame, w)
  /\ Open(activeGame) => Settled(activeGame, w)
  /\ r = Timer => activeGame.expired

LEMMA TableFacts ==
  ASSUME CopiesInv
  PROVE  /\ IsFiniteSet(Players) /\ Players \subseteq Nat \ {0} /\ Players \subseteq AllPlayers
         /\ NoGame \notin SoundGames(Players) /\ Bottle \notin SoundGames(Players)
         /\ IsGame(activeGame) => activeGame \in SoundGames(Players)
         /\ table.fails \in Nat
BY MafiaAssumption, GameAssumption DEF CopiesInv, Players, AllPlayers, SoundGames, IsGame

LEMMA ReadyHandled ==
  ASSUME CopiesInv, Ready
  PROVE  \E w : Handled(Hub, w)
<1>1. PICK a : a = activeGame
  OBVIOUS
<1>2. MayRun(Hub) /\ IsGame(a) /\ a.phase = "intro" /\ a \in SoundGames(Players)
  BY <1>1, TableFacts DEF Ready, EventIn
<1>3. PICK p \in a.alive : \E g :
        /\ g = [a EXCEPT !.ready = a.ready \cup {p}]
        /\ Handle(Hub, <<Save(g)>> \o
             (IF g.alive \subseteq g.ready THEN <<Save(FirstDayOf(g))>> ELSE <<>>))
  BY <1>1 DEF Ready
<1>4. PICK g :
        /\ g = [a EXCEPT !.ready = a.ready \cup {p}]
        /\ Handle(Hub, <<Save(g)>> \o
             (IF g.alive \subseteq g.ready THEN <<Save(FirstDayOf(g))>> ELSE <<>>))
  BY <1>3
<1>5. g \in Games(Players) /\ SameCast(a, g) /\ g.phase = "intro"
  BY <1>2, <1>4 DEF SoundGames, Games, SameCast
<1>6. g \in SoundGames(Players) /\ Goes(Hub, a, g) /\ (Open(a) => Open(g))
  BY <1>2, <1>5, SoundFromCast
<1>7. PICK d : d = FirstDayOf(g)
  OBVIOUS
<1>8. d \in Games(Players) /\ SameCast(g, d) /\ d.phase = "day"
  BY <1>5, <1>7, FirstDayOfFacts
<1>9. IsGame(g)
  BY <1>6, TableFacts DEF IsGame
<1>10. d \in SoundGames(Players) /\ Goes(Hub, g, d) /\ (Open(g) => Open(d))
  BY <1>6, <1>8, <1>9, SoundFromCast
<1>11. PICK rest : rest = IF g.alive \subseteq g.ready THEN <<Save(d)>> ELSE <<>>
  OBVIOUS
<1>12. Plan(Players, Hub, g, rest) /\ (Open(g) => Settled(g, rest))
  BY <1>10, <1>11, PlanEmpty, PlanSave
<1>13. Hub # Timer
  BY DEF Hub, Timer
<1>14. PICK w : w = <<Save(g)>> \o rest
  OBVIOUS
<1>15. Plan(Players, Hub, a, w) /\ (Open(a) => Settled(a, w))
  BY <1>6, <1>12, <1>13, <1>14, PlanFirst
<1>16. Handled(Hub, w)
  BY <1>1, <1>2, <1>4, <1>7, <1>11, <1>13, <1>14, <1>15 DEF Handled
<1> QED BY <1>16

LEMMA NightActionHandled ==
  ASSUME CopiesInv, NightAction
  PROVE  \E w : Handled(Hub, w)
<1>1. PICK a : a = activeGame
  OBVIOUS
<1>2. MayRun(Hub) /\ IsGame(a) /\ a.phase = "night" /\ a \in SoundGames(Players)
  BY <1>1, TableFacts DEF NightAction, EventIn
<1>3. PICK g, w :
        \E target \in a.alive :
        /\ g = [a EXCEPT !.don = target] \/ g = [a EXCEPT !.det = target]
        /\ w \in Acted(g)
        /\ Handle(Hub, w)
  BY <1>1 DEF NightAction
<1>4. g \in Games(Players) /\ SameCast(a, g) /\ g.phase = "night"
  BY <1>2, <1>3 DEF SoundGames, Games, SameCast
<1>5. g \in SoundGames(Players) /\ Goes(Hub, a, g) /\ (Open(a) => Open(g))
  BY <1>2, <1>4, SoundFromCast
<1>6. Hub # Timer
  BY DEF Hub, Timer
<1>7. Plan(Players, Hub, a, w) /\ (Open(a) => Settled(a, w))
  <2>1. CASE w = <<Save(g)>>
    BY <1>5, <2>1, PlanSave
  <2>2. CASE \E v \in NightOver(g) : w = <<Save(g)>> \o v
    <3>1. PICK v \in NightOver(g) : w = <<Save(g)>> \o v
      BY <2>2
    <3>2. Plan(Players, Hub, g, v) /\ Settled(g, v)
      BY <1>4, <1>5, <3>1, NightOverPlan
    <3> QED BY <1>5, <1>6, <3>1, <3>2, PlanFirst
  <2> QED BY <1>3, <2>1, <2>2 DEF Acted
<1>8. Handled(Hub, w)
  BY <1>1, <1>2, <1>3, <1>6, <1>7 DEF Handled
<1> QED BY <1>8

LEMMA VoteHandled ==
  ASSUME CopiesInv, Vote
  PROVE  \E w : Handled(Hub, w)
<1>1. PICK a : a = activeGame
  OBVIOUS
<1>2. /\ MayRun(Hub) /\ IsGame(a) /\ a.phase \in {"vote", "final"} /\ a \in SoundGames(Players)
  BY <1>1, TableFacts DEF Vote, EventIn
<1>3. PICK p \in activeGame.alive \cap table.voters : \E target \in Targets(activeGame) \ {p} :
        LET g == [activeGame EXCEPT !.voted = @ \cup {p},
                    !.votes = [voter \in DOMAIN @ \cup {p} |->
                                 IF voter = p THEN target ELSE @[voter]]]
        IN Handle(Hub, <<Save(g)>> \o
                         (IF g.alive \subseteq g.voted THEN <<Advance>> ELSE <<>>))
  BY Zenon DEF Vote
<1>31. PICK target \in Targets(activeGame) \ {p} :
        LET g == [activeGame EXCEPT !.voted = @ \cup {p},
                    !.votes = [voter \in DOMAIN @ \cup {p} |->
                                 IF voter = p THEN target ELSE @[voter]]]
        IN Handle(Hub, <<Save(g)>> \o
                         (IF g.alive \subseteq g.voted THEN <<Advance>> ELSE <<>>))
  BY <1>3
<1>32. PICK g : g = [activeGame EXCEPT !.voted = @ \cup {p},
                       !.votes = [voter \in DOMAIN @ \cup {p} |->
                                    IF voter = p THEN target ELSE @[voter]]]
  OBVIOUS
<1>4. /\ g = [a EXCEPT !.voted = a.voted \cup {p},
                 !.votes = [voter \in DOMAIN a.votes \cup {p} |->
                              IF voter = p THEN target ELSE a.votes[voter]]]
      /\ Handle(Hub, <<Save(g)>> \o
                        (IF g.alive \subseteq g.voted THEN <<Advance>> ELSE <<>>))
  BY <1>1, <1>31, <1>32
<1>5. PICK votes : votes = [voter \in DOMAIN a.votes \cup {p} |->
                              IF voter = p THEN target ELSE a.votes[voter]]
  OBVIOUS
<1>6. a \in Games(Players) /\ p \in Players /\ target \in Players
  BY <1>1, <1>2 DEF SoundGames, Games, Targets
<1>7. votes \in UNION {[voters -> Players] : voters \in SUBSET Players}
  <2>1. PICK voters \in SUBSET Players : a.votes \in [voters -> Players]
    BY <1>6 DEF Games
  <2>2. votes \in [voters \cup {p} -> Players] /\ voters \cup {p} \in SUBSET Players
    BY <1>5, <1>6, <2>1
  <2> QED BY <2>2
<1>8. g \in Games(Players) /\ SameCast(a, g) /\ g.phase = a.phase
  BY <1>4, <1>5, <1>6, <1>7 DEF Games, SameCast
<1>9. g \in SoundGames(Players) /\ Goes(Hub, a, g) /\ (Open(a) => Open(g))
  BY <1>2, <1>8, SoundFromCast
<1>10. PICK rest : rest = IF g.alive \subseteq g.voted THEN <<Advance>> ELSE <<>>
  OBVIOUS
<1>11. Plan(Players, Hub, g, rest) /\ (Open(g) => Settled(g, rest))
  BY <1>10, PlanEmpty, PlanAdvance
<1>12. Hub # Timer
  BY DEF Hub, Timer
<1>13. PICK w : w = <<Save(g)>> \o rest
  OBVIOUS
<1>14. Plan(Players, Hub, a, w) /\ (Open(a) => Settled(a, w))
  BY <1>9, <1>11, <1>12, <1>13, PlanFirst
<1>15. Handled(Hub, w)
  BY <1>1, <1>2, <1>4, <1>10, <1>12, <1>13, <1>14 DEF Handled
<1> QED BY <1>15

LEMMA HubHandled ==
  ASSUME CopiesInv, EndDefense \/ Cancel
  PROVE  \E w : Handled(Hub, w)
<1>1. Hub # Timer
  BY DEF Hub, Timer
<1>2. CASE EndDefense
  <2>1. Handled(Hub, <<Advance>>)
    BY <1>1, <1>2, PlanAdvance DEF EndDefense, EventIn, Handled
  <2> QED BY <2>1
<1>3. CASE Cancel
  <2>1. Handled(Hub, <<Clear>>)
    BY <1>1, <1>3, PlanClear DEF Cancel, Handled
  <2> QED BY <2>1
<1> QED BY <1>2, <1>3

LEMMA TimerHandled ==
  ASSUME CopiesInv, TimerLooks
  PROVE  \E w : Handled(Timer, w)
<1>1. Handled(Timer, <<Advance>>)
  BY PlanAdvance DEF TimerLooks, IsDue, Handled
<1> QED BY <1>1

LEMMA LeaveHandled ==
  ASSUME CopiesInv, NEW p \in AllPlayers, Leave(p)
  PROVE  \E w : Handled(p, w)
<1>1. PICK a : a = activeGame
  OBVIOUS
<1>2. MayRun(p) /\ IsGame(a) /\ a.phase # "ended" /\ a \in SoundGames(Players)
  BY <1>1, TableFacts DEF Leave
<1>3. PICK h \in Reassigned(Killed(a, p)) : Handle(p, <<Save(h)>> \o FinishOr(h, <<>>))
  BY <1>1 DEF Leave, LeftWrites
<1>4. PICK k : k = Killed(a, p)
  OBVIOUS
<1>5. /\ k \in Games(Players) /\ AtMostOneDon(k) /\ k.alive \subseteq a.alive
      /\ k.phase = a.phase /\ k.trial = a.trial /\ k.turn = a.turn
  BY <1>2, <1>4, KilledFacts DEF SoundGames, OneDon, AtMostOneDon
<1>6. /\ h \in Games(Players) /\ OneDon(h) /\ h.alive \subseteq a.alive
      /\ h.phase = a.phase /\ h.trial = a.trial /\ h.turn = a.turn
  BY <1>3, <1>4, <1>5, ReassignedFacts
<1>7. h \in SoundGames(Players) /\ Goes(p, a, h)
  BY <1>2, <1>6 DEF SoundGames, Defended, Goes
<1>8. Winner(h) = "none" => Open(h)
  BY <1>2, <1>6 DEF Open
<1>9. Plan(Players, p, h, <<>>) /\ (Winner(h) = "none" => Settled(h, <<>>))
  BY <1>8, PlanEmpty
<1>10. Plan(Players, p, h, FinishOr(h, <<>>)) /\ Settled(h, FinishOr(h, <<>>))
  BY <1>7, <1>9, PlanFinish
<1>11. p # Timer
  BY MafiaAssumption DEF AllPlayers, Timer
<1>12. PICK w : w = <<Save(h)>> \o FinishOr(h, <<>>)
  OBVIOUS
<1>13. Plan(Players, p, a, w) /\ Settled(a, w)
  BY <1>7, <1>10, <1>11, <1>12, PlanFirst
<1>14. Handled(p, w)
  BY <1>1, <1>2, <1>3, <1>11, <1>12, <1>13 DEF Handled
<1> QED BY <1>14

(* The handlers that load the game: the hub's, the timer's and the        *)
(* leavers'.                                                              *)
Loads ==
  \/ Ready \/ NightAction \/ Vote \/ EndDefense \/ Cancel \/ TimerLooks
  \/ \E p \in AllPlayers : Leave(p)

LEMMA LoadsHandled ==
  ASSUME CopiesInv, Loads
  PROVE  \E r \in Goroutines \ {Starter} : \E w : Handled(r, w)
<1>1. Hub \in Goroutines \ {Starter} /\ Timer \in Goroutines \ {Starter}
  BY DEF Hub, Timer, Starter, Goroutines
<1>2. \A p \in AllPlayers : p \in Goroutines \ {Starter}
  BY MafiaAssumption DEF AllPlayers, Starter, Goroutines
<1> QED
  BY <1>1, <1>2, ReadyHandled, NightActionHandled, VoteHandled, HubHandled, TimerHandled,
     LeaveHandled DEF Loads

-----------------------------------------------------------------------------
(* MafiaGame: the copies of the game are sound *)

(* A new game has one don at most and is open: the row of the table has one*)
(* mafia and at most one don, and more citizens than both.                *)
LEMMA NewGameSound ==
  ASSUME NEW P, IsFiniteSet(P), Cardinality(P) \in 3..12, NEW roles \in Deals(P)
  PROVE  NewGame(roles) \in SoundGames(P) /\ Open(NewGame(roles))
<1>1. /\ RolesNeeded(Cardinality(P)) <= Cardinality(P)
      /\ roles \in [P -> RoleNames]
      /\ \A part \in RoleNames :
           Cardinality({p \in P : roles[p] = part}) = RoleTable[Cardinality(P)][part]
  BY DEF Deals, RolesNeeded, RoleTable
<1>2. PICK n \in 3..12 : n = Cardinality(P)
  OBVIOUS
<1>3. n \in 3..8 /\ RoleTable[n].mafia = 1 /\ RoleTable[n].don \in {0, 1}
                 /\ (RoleTable[n].don = 1 => n >= 7)
  BY <1>1, <1>2 DEF RolesNeeded, RoleTable
<1>4. PICK M : M = {p \in P : roles[p] = "mafia"}
  OBVIOUS
<1>5. PICK D : D = {p \in P : roles[p] = "don"}
  OBVIOUS
<1>6. Cardinality(M) = 1 /\ Cardinality(D) = RoleTable[n].don
  <2>1. "mafia" \in RoleNames /\ "don" \in RoleNames
    BY DEF RoleNames
  <2>2. Cardinality(M) = RoleTable[n]["mafia"]
    BY <1>1, <1>2, <1>4, <2>1
  <2>3. Cardinality(D) = RoleTable[n]["don"]
    BY <1>1, <1>2, <1>5, <2>1
  <2> QED BY <1>3, <2>2, <2>3
<1>7. IsFiniteSet(M) /\ IsFiniteSet(D) /\ M \cap D = {} /\ M \subseteq P /\ D \subseteq P
  BY <1>4, <1>5, FS_Subset
<1>8. PICK g : g = NewGame(roles)
  OBVIOUS
<1>9. /\ g.phase = "intro" /\ g.role = roles /\ g.alive = P
      /\ g \in Games(P)
  <2>1. DOMAIN roles = P
    BY <1>1
  <2>2. NoVotes \in UNION {[voters -> P] : voters \in SUBSET P}
    <3>1. NoVotes \in [{} -> P]
      BY DEF NoVotes
    <3> QED BY <3>1
  <2>3. <<>> \in Seq(P)
    OBVIOUS
  <2> QED BY <1>1, <1>8, <2>1, <2>2, <2>3 DEF NewGame, Games, Phases
<1>10. \A p, q \in P : roles[p] = "don" /\ roles[q] = "don" => p = q
  <2>1. CASE RoleTable[n].don = 0
    <3>1. D = {}
      BY <1>6, <1>7, <2>1, FS_EmptySet
    <3> QED BY <1>5, <3>1
  <2>2. CASE RoleTable[n].don = 1
    <3>1. \E d : D = {d}
      BY <1>6, <1>7, <2>2, FS_Singleton
    <3> QED BY <1>5, <3>1
  <2> QED BY <1>3, <2>1, <2>2
<1>11. g \in SoundGames(P)
  BY <1>1, <1>9, <1>10 DEF SoundGames, Defended, OneDon
<1>12. Winner(g) = "none"
  <2>1. AliveMafia(g) = M \cup D
    BY <1>4, <1>5, <1>9 DEF AliveMafia, MafiaRoles
  <2>2. Cardinality(M \cup D) = Cardinality(M) + Cardinality(D)
    <3>1. Cardinality(M \cap D) = 0
      BY <1>7, FS_EmptySet
    <3>2. Cardinality(M \cup D) = Cardinality(M) + Cardinality(D) - Cardinality(M \cap D)
      BY <1>7, FS_Union
    <3> QED BY <1>3, <1>6, <3>1, <3>2
  <2>3. IsFiniteSet(M \cup D) /\ M \cup D \subseteq P
    BY <1>7, FS_Union
  <2>4. Cardinality(P \ (M \cup D)) = n - Cardinality(M \cup D)
    <3>1. P \cap (M \cup D) = M \cup D
      BY <2>3
    <3>2. Cardinality(P \ (M \cup D)) = Cardinality(P) - Cardinality(P \cap (M \cup D))
      BY FS_Difference
    <3> QED BY <1>2, <3>1, <3>2
  <2>5. AliveTown(g) = P \ (M \cup D)
    BY <1>9, <2>1 DEF AliveTown
  <2>6. M \cup D # {}
    BY <1>6, <1>7, FS_EmptySet
  <2> QED BY <1>3, <1>6, <2>1, <2>2, <2>4, <2>5, <2>6 DEF Winner
<1> QED BY <1>8, <1>9, <1>11, <1>12 DEF Open

(* Copies that differ in their clocks, their votes or their actions only. *)
Alike(g, h) == SameCast(g, h) /\ h.phase = g.phase /\ h.turn = g.turn

LEMMA OutOfTimeFacts ==
  ASSUME NEW P, NEW t \in Ops(P)
  PROVE  /\ OutOfTime(t) \in Ops(P) /\ OutOfTime(t).op = t.op
         /\ t.op = "save" => Alike(t.game, OutOfTime(t).game)
<1>1. CASE t.op = "save" /\ Instant(t.game) = Instant(activeGame)
  <2>1. PICK g \in SoundGames(P) : g = t.game /\ t = [op |-> "save", game |-> g]
    BY <1>1 DEF Ops
  <2>2. PICK h : h = [g EXCEPT !.expired = TRUE]
    OBVIOUS
  <2>3. h \in Games(P) /\ Alike(g, h) /\ h.trial = g.trial
    BY <2>1, <2>2 DEF SoundGames, Games, Alike, SameCast
  <2>4. h \in SoundGames(P)
    BY <2>3, SameCastOneDon DEF SoundGames, Defended, Alike
  <2>5. OutOfTime(t) = [op |-> "save", game |-> h]
    BY <1>1, <2>1, <2>2 DEF OutOfTime
  <2> QED BY <2>1, <2>3, <2>4, <2>5 DEF Ops
<1>2. CASE ~(t.op = "save" /\ Instant(t.game) = Instant(activeGame))
  BY <1>2 DEF OutOfTime, Alike, SameCast
<1> QED BY <1>1, <1>2

LEMMA ExpireFacts ==
  ASSUME CopiesInv, Expire
  PROVE  /\ activeGame' \in SoundGames(Players) /\ Alike(activeGame, activeGame')
         /\ todo' \in [Goroutines -> Seq(Ops(Players))]
         /\ \A r \in Goroutines :
              /\ Len(todo'[r]) = Len(todo[r])
              /\ \A i \in 1..Len(todo[r]) : todo'[r][i] = OutOfTime(todo[r][i])
<1>1. PICK a : a = activeGame
  OBVIOUS
<1>2. a \in SoundGames(Players)
  BY <1>1, TableFacts DEF Expire
<1>3. PICK h : h = [a EXCEPT !.expired = TRUE]
  OBVIOUS
<1>4. activeGame' = h
  BY <1>1, <1>3 DEF Expire
<1>5. h \in Games(Players) /\ Alike(a, h) /\ h.trial = a.trial
  BY <1>2, <1>3 DEF SoundGames, Games, Alike, SameCast
<1>6. h \in SoundGames(Players)
  BY <1>2, <1>5, SameCastOneDon DEF SoundGames, Defended, Alike
<1>7. ASSUME NEW r \in Goroutines
      PROVE  /\ todo'[r] \in Seq(Ops(Players)) /\ Len(todo'[r]) = Len(todo[r])
             /\ \A i \in 1..Len(todo[r]) : todo'[r][i] = OutOfTime(todo[r][i])
  <2>1. PICK w : w = todo[r]
    OBVIOUS
  <2>2. w \in Seq(Ops(Players))
    BY <2>1 DEF CopiesInv
  <2>3. todo'[r] = [i \in 1..Len(w) |-> OutOfTime(w[i])]
    BY <2>1, <2>2 DEF Expire
  <2>4. \A i \in 1..Len(w) : OutOfTime(w[i]) \in Ops(Players)
    BY <2>2, OutOfTimeFacts
  <2> QED BY <2>1, <2>2, <2>3, <2>4
<1>8. todo' \in [Goroutines -> Seq(Ops(Players))]
  <2>1. todo' = [r \in Goroutines |-> todo'[r]]
    BY DEF Expire
  <2> QED BY <1>7, <2>1
<1> QED BY <1>1, <1>4, <1>5, <1>6, <1>7, <1>8

(* Every step keeps the copies sound.                                     *)
LEMMA CopiesStep ==
  ASSUME CopiesInv, [GameNext]_gameVars
  PROVE  CopiesInv'
<1>t. todo \in [Goroutines -> Seq(Ops(Players))]
  BY DEF CopiesInv
<1>1. CASE Loads
  <2>1. PICK r \in Goroutines, w \in Seq(Ops(Players)) : Handled(r, w)
    BY <1>1, LoadsHandled DEF Handled, Plan
  <2>2. todo' \in [Goroutines -> Seq(Ops(Players))]
    BY <1>t, <2>1 DEF Handled, Handle
  <2> QED BY <2>1, <2>2 DEF Handled, Handle, CopiesInv, Players
<1>2. CASE Start
  <2>1. todo' \in [Goroutines -> Seq(Ops(Players))]
    <3>1. CASE Deals(Players) = {}
      BY <1>2, <1>t, <3>1 DEF Start
    <3>2. CASE Deals(Players) # {}
      <4>1. PICK roles \in Deals(Players) :
              todo' = [todo EXCEPT ![Starter] = <<Save(NewGame(roles))>>]
        BY <1>2, <3>2 DEF Start
      <4>2. NewGame(roles) \in SoundGames(Players)
        BY <1>2, TableFacts, NewGameSound DEF Start
      <4>3. <<Save(NewGame(roles))>> \in Seq(Ops(Players))
        BY <4>2 DEF Save, Ops
      <4> QED BY <1>t, <4>1, <4>3
    <3> QED BY <3>1, <3>2
  <2>2. {started', panicked'} \subseteq BOOLEAN
    BY <1>2 DEF Start
  <2> QED BY <1>2, <2>1, <2>2 DEF Start, CopiesInv, Players
<1>3. CASE SpinBottle \/ StopGame
  BY <1>3 DEF SpinBottle, StopGame, CopiesInv, Players
<1>4. CASE Expire
  <2>1. UNCHANGED <<started, panicked, fails, table>>
    BY <1>4 DEF Expire
  <2> QED BY <1>4, <2>1, ExpireFacts DEF CopiesInv, Players
<1>5. ASSUME NEW r \in Goroutines, Write(r)
      PROVE  CopiesInv'
  <2>1. todo[r] \in Seq(Ops(Players)) /\ todo[r] # <<>>
    BY <1>5, <1>t DEF Write
  <2>2. Tail(todo[r]) \in Seq(Ops(Players)) /\ Head(todo[r]) \in Ops(Players)
    BY <2>1
  <2>3. todo' \in [Goroutines -> Seq(Ops(Players))]
    BY <1>5, <1>t, <2>2 DEF Write
  <2>4. activeGame' \in SoundGames(Players) \cup {NoGame, Bottle}
    BY <1>5, <2>2 DEF Write, Ops
  <2> QED BY <1>5, <2>3, <2>4 DEF Write, CopiesInv, Players
<1>6. ASSUME NEW r \in Goroutines, WriteFails(r)
      PROVE  CopiesInv'
  <2>1. todo[r] \in Seq(Ops(Players)) /\ todo[r] # <<>>
    BY <1>6, <1>t DEF WriteFails
  <2>2. Tail(todo[r]) \in Seq(Ops(Players))
    BY <2>1
  <2>3. todo' \in [Goroutines -> Seq(Ops(Players))]
    BY <1>6, <1>t, <2>2 DEF WriteFails
  <2>4. fails' \in 0..table.fails
    BY <1>6, TableFacts DEF WriteFails, CopiesInv
  <2> QED BY <1>6, <2>3, <2>4 DEF WriteFails, CopiesInv, Players
<1>7. ASSUME NEW r \in Goroutines, Load(r)
      PROVE  CopiesInv'
  <2>1. todo[r] \in Seq(Ops(Players)) /\ todo[r] # <<>>
    BY <1>7, <1>t DEF Load
  <2>2. Tail(todo[r]) \in Seq(Ops(Players))
    BY <2>1
  <2>3. PICK w : /\ w \in IF IsGame(activeGame) THEN Advanced(activeGame) ELSE {<<>>}
                 /\ todo' = [todo EXCEPT ![r] = w \o Tail(todo[r])]
    BY <1>7 DEF Load
  <2>4. w \in Seq(Ops(Players))
    <3>1. CASE IsGame(activeGame)
      <4>1. activeGame \in SoundGames(Players) /\ IsFiniteSet(Players)
        BY <3>1, TableFacts
      <4>2. Plan(Players, Hub, activeGame, w)
        BY <2>3, <3>1, <4>1, AdvancedPlan
      <4> QED BY <4>2 DEF Plan
    <3>2. CASE ~IsGame(activeGame)
      BY <2>3, <3>2
    <3> QED BY <3>1, <3>2
  <2>5. w \o Tail(todo[r]) \in Seq(Ops(Players))
    BY <2>2, <2>4
  <2>6. todo' \in [Goroutines -> Seq(Ops(Players))]
    BY <1>t, <2>3, <2>5
  <2> QED BY <1>7, <2>6 DEF Load, CopiesInv, Players
<1>8. CASE UNCHANGED gameVars
  BY <1>8 DEF gameVars, CopiesInv, Players
<1> QED BY <1>1, <1>2, <1>3, <1>4, <1>5, <1>6, <1>7, <1>8 DEF GameNext, Loads

LEMMA CopiesInit == GameInit => CopiesInv
<1>1. ASSUME GameInit PROVE CopiesInv
  <2>1. todo \in [Goroutines -> Seq(Ops(Players))]
    BY <1>1 DEF GameInit
  <2>2. table.fails \in Nat
    BY <1>1, MafiaAssumption DEF GameInit
  <2>3. {started, panicked} \subseteq BOOLEAN
    BY <1>1 DEF GameInit
  <2>4. fails \in 0..table.fails
    BY <1>1, <2>2 DEF GameInit
  <2> QED BY <1>1, <2>1, <2>3, <2>4 DEF GameInit, CopiesInv
<1> QED BY <1>1

LEMMA CopiesAreSound ==
  ASSUME CopiesInv
  PROVE  CopiesKeepRules
<1>1. ASSUME NEW r \in Goroutines, NEW t \in ToSet(todo[r])
      PROVE  t \in Ops(Players)
  <2>1. todo[r] \in Seq(Ops(Players))
    BY DEF CopiesInv
  <2> QED BY <1>1, <2>1 DEF ToSet
<1>2. Copies \subseteq SoundGames(Players)
  <2>1. ASSUME NEW g \in Copies PROVE g \in SoundGames(Players)
    <3>1. CASE g = activeGame
      BY <2>1, <3>1 DEF Copies, CopiesInv
    <3>2. CASE g # activeGame
      <4>1. \E r \in Goroutines : \E t \in ToSet(todo[r]) : t.op = "save" /\ g = t.game
        BY <2>1, <3>2 DEF Copies
      <4> QED BY <1>1, <4>1 DEF Ops
    <3> QED BY <3>1, <3>2
  <2> QED BY <2>1
<1>3. \A r \in Goroutines : \A t \in ToSet(todo[r]) : t.op \in {"save", "clear", "advance"}
  BY <1>1 DEF Ops
<1>4. WellFormed
  BY <1>2, <1>3 DEF WellFormed, GameTypeOK, DefenseHasDefender, CopiesInv, SoundGames, Defended
<1>5. OneDonOnceSomeoneDied
  <2>1. SUFFICES ASSUME NEW g \in Copies
                 PROVE  LET dons == {p \in g.alive : g.role[p] = "don"}
                        IN /\ Cardinality(dons) <= 1
                           /\ g.alive # DOMAIN g.role /\ AliveMafia(g) # {} => dons # {}
    BY DEF OneDonOnceSomeoneDied
  <2>2. PICK dons : dons = {p \in g.alive : g.role[p] = "don"}
    OBVIOUS
  <2>3. OneDon(g)
    BY <1>2 DEF SoundGames
  <2>4. dons = {} \/ \E p : dons = {p}
    <3>1. CASE dons = {}
      BY <3>1
    <3>2. CASE dons # {}
      <4>1. PICK p \in g.alive : g.role[p] = "don"
        BY <2>2, <3>2
      <4>2. \A q \in g.alive : g.role[q] = "don" => q = p
        BY <2>3, <4>1 DEF OneDon
      <4>3. dons = {p}
        BY <2>2, <4>1, <4>2
      <4> QED BY <4>3
    <3> QED BY <3>1, <3>2
  <2>5. Cardinality(dons) <= 1
    <3>1. Cardinality(dons) \in {0, 1}
      BY <2>4, FS_EmptySet, FS_Singleton
    <3> QED BY <3>1
  <2>6. g.alive # DOMAIN g.role /\ AliveMafia(g) # {} => dons # {}
    BY <2>2, <2>3 DEF OneDon
  <2> QED BY <2>2, <2>5, <2>6
<1> QED BY <1>4, <1>5 DEF CopiesKeepRules

(* Whatever gets lost between goroutines, every copy of the game that is  *)
(* stored or about to be is well-typed, has a defender for its defence, never*)
(* two dons, and a don among the living mafia once somebody died: for any *)
(* tables, players and widths, and with any number of failing writes.     *)
THEOREM CopiesRule == GameSpec => []CopiesKeepRules
<1>1. CopiesInv /\ [GameNext]_gameVars => CopiesInv'
  BY CopiesStep
<1>2. CopiesInv => CopiesKeepRules
  BY CopiesAreSound
<1> QED BY CopiesInit, <1>1, <1>2, PTL DEF GameSpec

-----------------------------------------------------------------------------
(* MafiaGame: handlers one after the other *)

(* What r still has to write fits the game in the database.               *)
Follows(P, r, a, w) ==
  /\ r # Starter => Plan(P, r, a, w) /\ (w # <<>> => IsGame(a))
  /\ r = Starter => w = <<>> \/ (~IsGame(a) /\ Len(w) = 1 /\ w[1].op = "save")
  /\ r = Timer /\ w # <<>> /\ IsGame(a) /\ a.phase = "defense" => a.expired

Others(r) == Goroutines \ {r}

(* At most one goroutine has something to write, it fits, and unless a write*)
(* failed it leaves a game that goes on.                                  *)
OrderInv ==
  table.width = 1 =>
    /\ \A r \in Goroutines : Follows(Players, r, activeGame, todo[r])
    /\ \A r, s \in Goroutines : todo[r] # <<>> /\ todo[s] # <<>> => r = s
    /\ fails = 0 => \A r \in Goroutines :
                      (\A s \in Others(r) : todo[s] = <<>>) => Settled(activeGame, todo[r])

(* The next write of a plan succeeds ...                                  *)
LEMMA PlanWritten ==
  ASSUME NEW P, NEW r, NEW a, NEW w, Plan(P, r, a, w), w # <<>>, w[1].op = "save"
  PROVE  /\ Goes(r, a, w[1].game) /\ w[1].game \in SoundGames(P)
         /\ Plan(P, r, w[1].game, Tail(w))
         /\ Settled(a, w) => Settled(w[1].game, Tail(w))
         /\ r = Timer /\ w[1].game.phase = "defense" => Tail(w) = <<>>
<1>1. PICK h : h = w[1].game
  OBVIOUS
<1>2. PICK v : v = Tail(w)
  OBVIOUS
<1>3. w \in Seq(Ops(P)) /\ Len(w) \in Nat \ {0} /\ w[1] \in Ops(P)
  BY DEF Plan
<1>4. /\ v \in Seq(Ops(P)) /\ Len(v) = Len(w) - 1
      /\ \A i \in 1..Len(v) : v[i] = w[i + 1]
  BY <1>2, <1>3
<1>5. \A i \in 1..Len(v) : Found(h, v, i) = Found(a, w, i + 1)
  BY <1>1, <1>3, <1>4 DEF Found
<1>6. Goes(r, a, h) /\ h \in SoundGames(P)
  <2>1. Found(a, w, 1) = a /\ 1 \in 1..Len(w)
    BY <1>3 DEF Found
  <2>2. h \in SoundGames(P)
    BY <1>1, <1>3 DEF Ops
  <2> QED BY <1>1, <2>1, <2>2 DEF Plan
<1>7. ASSUME NEW i \in 1..Len(v)
      PROVE  /\ v[i].op = "save" => Goes(r, Found(h, v, i), v[i].game)
             /\ v[i].op # "save" => i = Len(v)
             /\ v[i].op = "save" /\ r = Timer /\ v[i].game.phase = "defense" => i = Len(v)
             /\ v[i].op = "advance" => r \in {Hub, Timer}
  <2>1. PICK j : j = i + 1
    OBVIOUS
  <2>2. j \in 1..Len(w) /\ v[i] = w[j] /\ Found(h, v, i) = Found(a, w, j)
        /\ (j = Len(w) => i = Len(v))
    BY <1>3, <1>4, <1>5, <2>1
  <2>3. /\ w[j].op = "save" => Goes(r, Found(a, w, j), w[j].game)
        /\ w[j].op # "save" => j = Len(w)
        /\ w[j].op = "save" /\ r = Timer /\ w[j].game.phase = "defense" => j = Len(w)
        /\ w[j].op = "advance" => r \in {Hub, Timer}
    BY <2>2 DEF Plan
  <2> QED BY <2>2, <2>3
<1>8. Plan(P, r, h, v)
  BY <1>4, <1>7 DEF Plan
<1>9. Settled(a, w) => Settled(h, v)
  <2>1. CASE v = <<>>
    <3>1. Len(w) = 1
      BY <1>3, <1>4, <2>1
    <3> QED BY <1>1, <2>1, <3>1 DEF Settled
  <2>2. CASE v # <<>>
    <3>1. Len(v) \in 1..Len(v) /\ Len(v) + 1 = Len(w)
      BY <1>3, <1>4, <2>2
    <3>2. v[Len(v)] = w[Len(w)] /\ Found(h, v, Len(v)) = Found(a, w, Len(w))
      BY <1>4, <1>5, <3>1
    <3> QED BY <2>2, <3>2 DEF Settled
  <2> QED BY <2>1, <2>2
<1>10. r = Timer /\ h.phase = "defense" => v = <<>>
  <2>1. r = Timer /\ h.phase = "defense" => Len(w) = 1
    <3>1. 1 \in 1..Len(w)
      BY <1>3
    <3> QED BY <1>1, <3>1 DEF Plan
  <2> QED BY <1>3, <1>4, <2>1
<1> QED BY <1>1, <1>2, <1>6, <1>8, <1>9, <1>10

(* ... or fails.                                                          *)
LEMMA PlanSkipped ==
  ASSUME NEW P, NEW r, NEW a, NEW w, Plan(P, r, a, w), w # <<>>, w[1].op = "save"
  PROVE  Plan(P, r, a, Tail(w))
<1>1. PICK h : h = w[1].game
  OBVIOUS
<1>2. PICK v : v = Tail(w)
  OBVIOUS
<1>3. Goes(r, a, h) /\ Plan(P, r, h, v)
  BY <1>1, <1>2, PlanWritten
<1>4. ASSUME NEW i \in 1..Len(v), v[i].op = "save"
      PROVE  Goes(r, Found(a, v, i), v[i].game)
  <2>1. Goes(r, Found(h, v, i), v[i].game)
    BY <1>3, <1>4 DEF Plan
  <2>2. CASE i = 1
    <3>1. Found(a, v, i) = a /\ Found(h, v, i) = h
      BY <2>2 DEF Found
    <3>2. PICK k : k = v[i].game
      OBVIOUS
    <3>3. Goes(r, h, k)
      BY <2>1, <3>1, <3>2
    <3>4. Goes(r, a, k)
      BY <1>3, <3>3 DEF Goes
    <3> QED BY <3>1, <3>2, <3>4
  <2>3. CASE i # 1
    <3>1. Found(a, v, i) = Found(h, v, i)
      BY <2>3 DEF Found
    <3> QED BY <2>1, <3>1
  <2> QED BY <2>2, <2>3
<1>5. Plan(P, r, a, v)
  BY <1>3, <1>4 DEF Plan
<1> QED BY <1>2, <1>5

LEMMA TailOfOne ==
  ASSUME NEW S, NEW w \in Seq(S), Len(w) = 1
  PROVE  Tail(w) = <<>>
<1>1. PICK v : v = Tail(w)
  OBVIOUS
<1>2. v \in Seq(S) /\ Len(v) = 0
  <2>1. w # <<>>
    OBVIOUS
  <2>2. Tail(w) \in Seq(S) /\ Len(Tail(w)) = Len(w) - 1
    BY <2>1
  <2> QED BY <1>1, <2>2
<1>3. v = <<>>
  BY <1>2
<1> QED BY <1>1, <1>3

LEMMA PlanEnded ==
  ASSUME NEW P, NEW r, NEW a, NEW w, Plan(P, r, a, w), w # <<>>, w[1].op # "save"
  PROVE  Len(w) = 1 /\ Tail(w) = <<>>
<1>1. w \in Seq(Ops(P)) /\ 1 \in 1..Len(w)
  BY DEF Plan
<1>2. Len(w) = 1
  BY <1>1 DEF Plan
<1> QED BY <1>1, <1>2, TailOfOne

(* When the time of a phase is up, the plans are the same.                *)
LEMMA PlanOutOfTime ==
  ASSUME NEW P, NoGame \notin SoundGames(P), Bottle \notin SoundGames(P),
         NEW r, NEW a, NEW b, Alike(a, b), IsGame(a),
         NEW w, NEW v \in Seq(Ops(P)), Plan(P, r, a, w), Len(v) = Len(w),
         \A i \in 1..Len(w) : v[i] = OutOfTime(w[i])
  PROVE  Plan(P, r, b, v) /\ (Settled(a, w) /\ w # <<>> => Settled(b, v))
<1>1. w \in Seq(Ops(P)) /\ (w = <<>> <=> v = <<>>)
  BY DEF Plan
<1>2. ASSUME NEW i \in 1..Len(w)
      PROVE  /\ v[i].op = w[i].op
             /\ w[i].op = "save" => Alike(w[i].game, v[i].game)
  <2>1. w[i] \in Ops(P)
    BY <1>1
  <2> QED BY <2>1, OutOfTimeFacts
<1>3. ASSUME NEW i \in 1..Len(w)
      PROVE  Alike(Found(a, w, i), Found(b, v, i))
  <2>1. CASE i = 1
    BY <2>1 DEF Found
  <2>2. CASE i # 1
    <3>1. i - 1 \in 1..Len(w) /\ i - 1 # Len(w)
      BY <1>1, <2>2
    <3>2. w[i - 1].op = "save"
      BY <3>1 DEF Plan
    <3>3. Alike(w[i - 1].game, v[i - 1].game)
      BY <1>2, <3>1, <3>2
    <3> QED BY <2>2, <3>3 DEF Found
  <2> QED BY <2>1, <2>2
<1>4. ASSUME NEW i \in 1..Len(v)
      PROVE  /\ v[i].op = "save" => Goes(r, Found(b, v, i), v[i].game)
             /\ v[i].op # "save" => i = Len(v)
             /\ v[i].op = "save" /\ r = Timer /\ v[i].game.phase = "defense" => i = Len(v)
             /\ v[i].op = "advance" => r \in {Hub, Timer}
  <2>1. /\ w[i].op = "save" => Goes(r, Found(a, w, i), w[i].game)
        /\ w[i].op # "save" => i = Len(w)
        /\ w[i].op = "save" /\ r = Timer /\ w[i].game.phase = "defense" => i = Len(w)
        /\ w[i].op = "advance" => r \in {Hub, Timer}
    BY DEF Plan
  <2>2. ASSUME v[i].op = "save"
        PROVE  /\ Goes(r, Found(b, v, i), v[i].game)
               /\ v[i].game.phase = w[i].game.phase
    <3>1. PICK f, g, h, k : /\ f = Found(a, w, i) /\ g = w[i].game
                            /\ h = Found(b, v, i) /\ k = v[i].game
      OBVIOUS
    <3>2. Goes(r, f, g) /\ Alike(f, h) /\ Alike(g, k)
      BY <1>2, <1>3, <2>1, <2>2, <3>1
    <3>3. Goes(r, h, k) /\ k.phase = g.phase
      BY <3>2 DEF Goes, Alike, SameCast
    <3> QED BY <3>1, <3>3
  <2> QED BY <1>2, <2>1, <2>2
<1>5. Plan(P, r, b, v)
  BY <1>4 DEF Plan
<1>6. ASSUME Settled(a, w), w # <<>>
      PROVE  Settled(b, v)
  <2>1. Len(w) \in 1..Len(w)
    BY <1>1, <1>6
  <2>2. \A g, h : Alike(g, h) /\ IsGame(g) /\ Open(g) => Open(h)
    BY SameCastOneDon DEF Alike, Open
  <2>3. v[Len(v)].op = w[Len(w)].op /\ v # <<>>
    BY <1>1, <1>2, <1>6, <2>1
  <2>4. w[Len(w)].op = "save" => IsGame(w[Len(w)].game)
    BY <1>1, <2>1 DEF Ops, IsGame
  <2>5. IsGame(Found(a, w, Len(w)))
    <3>1. CASE Len(w) = 1
      BY <3>1 DEF Found
    <3>2. CASE Len(w) # 1
      <4>1. Len(w) - 1 \in 1..Len(w) /\ Len(w) - 1 # Len(w)
        BY <2>1, <3>2
      <4>2. w[Len(w) - 1].op = "save" /\ w[Len(w) - 1] \in Ops(P)
        BY <1>1, <4>1 DEF Plan
      <4>3. IsGame(w[Len(w) - 1].game)
        BY <4>2 DEF Ops, IsGame
      <4> QED BY <3>2, <4>3 DEF Found
    <3> QED BY <3>1, <3>2
  <2>6. w[Len(w)].op = "save" => Open(v[Len(v)].game)
    BY <1>2, <1>6, <2>1, <2>2, <2>4 DEF Settled
  <2>7. w[Len(w)].op = "advance" => Open(Found(b, v, Len(v)))
    BY <1>3, <1>6, <2>1, <2>2, <2>5 DEF Settled
  <2> QED BY <2>3, <2>6, <2>7 DEF Settled
<1> QED BY <1>5, <1>6

(* While one handler runs at a time, one that begins finds all at rest.   *)
LEMMA AllAtRest ==
  ASSUME OrderInv, table.width = 1, NEW r \in Goroutines, MayRun(r)
  PROVE  \A s \in Goroutines : todo[s] = <<>>
<1>1. PICK busy : busy = {s \in Goroutines : ~Idle(s)}
  OBVIOUS
<1>2. Cardinality(busy) < 1
  BY <1>1 DEF MayRun
<1>3. \A s, t \in busy : s = t
  BY <1>1 DEF OrderInv, Idle
<1>4. CASE busy = {}
  BY <1>1, <1>4 DEF Idle
<1>5. CASE busy # {}
  <2>1. PICK s : s \in busy
    BY <1>5
  <2>2. busy = {s}
    BY <1>3, <2>1
  <2>3. Cardinality(busy) = 1
    BY <2>2, FS_Singleton
  <2> QED BY <1>2, <2>3
<1> QED BY <1>4, <1>5

LEMMA FollowsEmpty ==
  ASSUME NEW P, NEW r, NEW a
  PROVE  Follows(P, r, a, <<>>)
BY PlanEmpty DEF Follows

(* Whatever one goroutine writes next, the others have nothing to write.  *)
LEMMA OrderOne ==
  ASSUME NEW r \in Goroutines, \A s \in Others(r) : todo'[s] = <<>>,
         Follows(Players', r, activeGame', todo'[r]),
         fails' = 0 => Settled(activeGame', todo'[r])
  PROVE  OrderInv'
<1>1. \A s \in Goroutines : Follows(Players', s, activeGame', todo'[s])
  BY FollowsEmpty DEF Others
<1>2. \A s, t \in Goroutines : todo'[s] # <<>> /\ todo'[t] # <<>> => s = t
  BY DEF Others
<1>3. ASSUME fails' = 0, NEW s \in Goroutines, \A t \in Others(s) : todo'[t] = <<>>
      PROVE  Settled(activeGame', todo'[s])
  <2>1. CASE s = r
    BY <1>3, <2>1
  <2>2. CASE s # r
    <3>1. todo'[s] = <<>> /\ todo'[r] = <<>>
      BY <1>3, <2>2 DEF Others
    <3> QED BY <1>3, <3>1
  <2> QED BY <2>1, <2>2
<1> QED BY <1>1, <1>2, <1>3 DEF OrderInv

LEMMA OthersAtRest ==
  ASSUME OrderInv, table.width = 1, NEW r \in Goroutines, todo[r] # <<>>
  PROVE  \A s \in Others(r) : todo[s] = <<>>
BY DEF OrderInv, Others

(* The game as it is when all are at rest.                                *)
LEMMA OpenAtRest ==
  ASSUME OrderInv, table.width = 1, \A s \in Goroutines : todo[s] = <<>>, fails = 0
  PROVE  Open(activeGame)
<1>1. Hub \in Goroutines
  BY DEF Goroutines
<1>2. Settled(activeGame, todo[Hub])
  BY <1>1 DEF OrderInv, Others
<1> QED BY <1>1, <1>2 DEF Settled

LEMMA OrderHandled ==
  ASSUME CopiesInv, OrderInv, table.width = 1,
         NEW r \in Goroutines \ {Starter}, NEW w, Handled(r, w)
  PROVE  OrderInv'
<1>1. \A s \in Goroutines : todo[s] = <<>>
  BY AllAtRest DEF Handled
<1>2. /\ todo' = [todo EXCEPT ![r] = w]
      /\ UNCHANGED <<activeGame, started, panicked, fails, table>>
  BY DEF Handled, Handle
<1>3. todo'[r] = w /\ \A s \in Others(r) : todo'[s] = <<>>
  BY <1>1, <1>2 DEF CopiesInv, Others
<1>4. Follows(Players', r, activeGame', w)
  BY <1>2 DEF Handled, Follows, Players
<1>5. fails' = 0 => Settled(activeGame', w)
  BY <1>1, <1>2, OpenAtRest DEF Handled
<1> QED BY <1>3, <1>4, <1>5, OrderOne

LEMMA OrderStart ==
  ASSUME CopiesInv, OrderInv, table.width = 1, Start
  PROVE  OrderInv'
<1>1. Starter \in Goroutines
  BY DEF Goroutines
<1>2. \A s \in Goroutines : todo[s] = <<>>
  BY <1>1, AllAtRest DEF Start
<1>3. activeGame' = activeGame /\ fails' = fails /\ ~IsGame(activeGame)
  BY DEF Start, IsGame
<1>4. CASE Deals(Players) = {}
  <2>1. todo' = todo
    BY <1>4 DEF Start
  <2>2. Follows(Players', Starter, activeGame', todo'[Starter])
    BY <1>1, <1>2, <2>1, FollowsEmpty
  <2>3. fails' = 0 => Settled(activeGame', todo'[Starter])
    BY <1>1, <1>2, <1>3, <2>1 DEF Settled, Open
  <2> QED BY <1>1, <1>2, <2>1, <2>2, <2>3, OrderOne DEF Others
<1>5. CASE Deals(Players) # {}
  <2>1. PICK roles \in Deals(Players) :
          todo' = [todo EXCEPT ![Starter] = <<Save(NewGame(roles))>>]
    BY <1>5 DEF Start
  <2>2. Open(NewGame(roles))
    BY <2>1, TableFacts, NewGameSound DEF Start
  <2>3. PICK w : w = <<Save(NewGame(roles))>>
    OBVIOUS
  <2>4. Len(w) = 1 /\ w # <<>> /\ w[1].op = "save" /\ w[1].game = NewGame(roles)
    BY <2>3 DEF Save
  <2>5. todo'[Starter] = w /\ \A s \in Others(Starter) : todo'[s] = <<>>
    BY <1>1, <1>2, <2>1, <2>3 DEF CopiesInv, Others
  <2>6. Starter # Timer
    BY DEF Starter, Timer
  <2>7. Follows(Players', Starter, activeGame', w)
    BY <1>3, <2>4, <2>6 DEF Follows
  <2>8. Settled(activeGame', w)
    BY <2>2, <2>4 DEF Settled
  <2> QED BY <1>1, <2>5, <2>7, <2>8, OrderOne
<1> QED BY <1>4, <1>5

LEMMA OrderBottle ==
  ASSUME OrderInv, table.width = 1, SpinBottle \/ StopGame
  PROVE  OrderInv' /\ ~IsGame(activeGame') /\ \A s \in Goroutines : todo[s] = <<>>
<1>1. Hub \in Goroutines
  BY DEF Goroutines
<1>2. \A s \in Goroutines : todo[s] = <<>>
  BY <1>1, AllAtRest DEF SpinBottle, StopGame
<1>3. todo' = todo /\ ~IsGame(activeGame')
  BY DEF SpinBottle, StopGame, IsGame
<1>4. Follows(Players', Hub, activeGame', todo'[Hub])
  BY <1>1, <1>2, <1>3, FollowsEmpty
<1>5. Settled(activeGame', todo'[Hub])
  BY <1>1, <1>2, <1>3 DEF Settled, Open
<1> QED BY <1>1, <1>2, <1>3, <1>4, <1>5, OrderOne DEF Others

LEMMA OrderExpire ==
  ASSUME CopiesInv, OrderInv, table.width = 1, Expire
  PROVE  OrderInv'
<1>1. /\ IsGame(activeGame) /\ activeGame'.expired /\ fails' = fails
      /\ Alike(activeGame, activeGame') /\ Players' = Players
  <2>1. activeGame \in Games(Players) /\ activeGame' = [activeGame EXCEPT !.expired = TRUE]
    BY TableFacts DEF Expire, SoundGames
  <2>2. activeGame'.expired
    BY <2>1 DEF Games
  <2> QED BY <2>2, ExpireFacts DEF Expire, Players
<1>2. ASSUME NEW r \in Goroutines
      PROVE  /\ todo'[r] \in Seq(Ops(Players)) /\ todo[r] \in Seq(Ops(Players))
             /\ Len(todo'[r]) = Len(todo[r])
             /\ \A i \in 1..Len(todo[r]) : todo'[r][i] = OutOfTime(todo[r][i])
  BY ExpireFacts DEF CopiesInv
<1>3. ASSUME NEW r \in Goroutines
      PROVE  todo'[r] = <<>> <=> todo[r] = <<>>
  BY <1>2
<1>4. ASSUME NEW r \in Goroutines, r # Starter
      PROVE  /\ Plan(Players, r, activeGame', todo'[r])
             /\ Settled(activeGame, todo[r]) /\ todo[r] # <<>>
                  => Settled(activeGame', todo'[r])
  <2>1. PICK a, b, w, v : a = activeGame /\ b = activeGame' /\ w = todo[r] /\ v = todo'[r]
    OBVIOUS
  <2>2. /\ Alike(a, b) /\ IsGame(a) /\ v \in Seq(Ops(Players)) /\ Len(v) = Len(w)
        /\ \A i \in 1..Len(w) : v[i] = OutOfTime(w[i])
    BY <1>1, <1>2, <2>1
  <2>3. Plan(Players, r, a, w)
    BY <1>4, <2>1 DEF OrderInv, Follows
  <2>4. Plan(Players, r, b, v) /\ (Settled(a, w) /\ w # <<>> => Settled(b, v))
    BY <2>2, <2>3, TableFacts, PlanOutOfTime
  <2> QED BY <2>1, <2>4
<1>5. ASSUME NEW r \in Goroutines
      PROVE  Follows(Players', r, activeGame', todo'[r])
  <2>1. CASE r = Starter
    <3>1. todo[r] = <<>>
      BY <1>1, <2>1 DEF OrderInv, Follows
    <3> QED BY <1>3, <3>1, FollowsEmpty
  <2>2. CASE r # Starter
    <3>1. IsGame(activeGame')
      BY TableFacts, ExpireFacts DEF IsGame
    <3> QED BY <1>1, <1>4, <2>2, <3>1 DEF Follows
  <2> QED BY <2>1, <2>2
<1>6. Open(activeGame) => Open(activeGame')
  BY <1>1, SameCastOneDon DEF Alike, Open
<1>7. ASSUME NEW r \in Goroutines, fails' = 0, \A s \in Others(r) : todo'[s] = <<>>
      PROVE  Settled(activeGame', todo'[r])
  <2>1. Settled(activeGame, todo[r])
    BY <1>1, <1>3, <1>7 DEF OrderInv, Others
  <2>2. CASE todo[r] = <<>>
    BY <1>3, <1>6, <2>1, <2>2 DEF Settled
  <2>3. CASE todo[r] # <<>>
    <3>1. r # Starter
      BY <1>1, <2>3 DEF OrderInv, Follows
    <3> QED BY <1>4, <2>1, <2>3, <3>1
  <2> QED BY <2>2, <2>3
<1>8. \A r, s \in Goroutines : todo'[r] # <<>> /\ todo'[s] # <<>> => r = s
  BY <1>3 DEF OrderInv
<1> QED BY <1>5, <1>7, <1>8 DEF OrderInv

(* The next write of the one goroutine at work, when it is a copy.        *)
LEMMA OrderWrite ==
  ASSUME CopiesInv, OrderInv, table.width = 1, NEW r \in Goroutines, Write(r)
  PROVE  OrderInv'
<1>1. PICK w : w = todo[r]
  OBVIOUS
<1>2. w # <<>> /\ w \in Seq(Ops(Players)) /\ Head(w) = w[1]
  BY <1>1 DEF Write, CopiesInv
<1>3. /\ todo'[r] = Tail(w) /\ fails' = fails /\ Players' = Players
      /\ \A s \in Others(r) : todo'[s] = <<>>
  BY <1>1, <1>2, OthersAtRest DEF Write, CopiesInv, Others, Players
<1>4. fails = 0 => Settled(activeGame, w)
  BY <1>1, <1>2, OthersAtRest DEF OrderInv
<1>5. Follows(Players, r, activeGame, w)
  BY <1>1 DEF OrderInv
<1>6. CASE r = Starter
  <2>1. Len(w) = 1 /\ w[1].op = "save"
    BY <1>2, <1>5, <1>6 DEF Follows
  <2>2. Tail(w) = <<>> /\ activeGame' = w[1].game
    BY <1>1, <1>2, <2>1, TailOfOne DEF Write
  <2>3. Settled(activeGame, w) => Settled(activeGame', <<>>)
    BY <1>2, <2>1, <2>2 DEF Settled
  <2> QED BY <1>3, <1>4, <2>2, <2>3, FollowsEmpty, OrderOne
<1>7. CASE r # Starter /\ w[1].op = "save"
  <2>1. activeGame' = w[1].game
    BY <1>1, <1>2, <1>7 DEF Write
  <2>2. Plan(Players, r, activeGame, w)
    BY <1>5, <1>7 DEF Follows
  <2>3. /\ activeGame' \in SoundGames(Players)
        /\ Plan(Players, r, activeGame', Tail(w))
        /\ Settled(activeGame, w) => Settled(activeGame', Tail(w))
        /\ r = Timer /\ activeGame'.phase = "defense" => Tail(w) = <<>>
    BY <1>2, <1>7, <2>1, <2>2, PlanWritten
  <2>4. IsGame(activeGame')
    BY <2>3, TableFacts DEF IsGame
  <2>5. Follows(Players', r, activeGame', Tail(w))
    BY <1>3, <1>7, <2>3, <2>4 DEF Follows
  <2> QED BY <1>3, <1>4, <2>3, <2>5, OrderOne
<1>8. CASE r # Starter /\ w[1].op # "save"
  <2>1. Tail(w) = <<>>
    BY <1>2, <1>5, <1>8, PlanEnded DEF Follows
  <2>2. ~IsGame(activeGame')
    BY <1>1, <1>2, <1>8 DEF Write, IsGame
  <2>3. Settled(activeGame', <<>>)
    BY <2>2 DEF Settled, Open
  <2> QED BY <1>3, <2>1, <2>3, FollowsEmpty, OrderOne
<1> QED BY <1>6, <1>7, <1>8

LEMMA OrderWriteFails ==
  ASSUME CopiesInv, OrderInv, table.width = 1, NEW r \in Goroutines, WriteFails(r)
  PROVE  OrderInv'
<1>1. PICK w : w = todo[r]
  OBVIOUS
<1>2. w # <<>> /\ w \in Seq(Ops(Players))
  BY <1>1 DEF WriteFails, CopiesInv
<1>3. /\ todo'[r] = Tail(w) /\ activeGame' = activeGame /\ Players' = Players
      /\ \A s \in Others(r) : todo'[s] = <<>>
  BY <1>1, <1>2, OthersAtRest DEF WriteFails, CopiesInv, Others, Players
<1>4. fails' # 0
  BY DEF WriteFails, CopiesInv
<1>5. Follows(Players, r, activeGame, w)
  BY <1>1 DEF OrderInv
<1>6. Follows(Players', r, activeGame', Tail(w))
  <2>1. CASE r = Starter
    <3>1. Len(w) = 1
      BY <1>2, <1>5, <2>1 DEF Follows
    <3>2. Tail(w) = <<>>
      BY <1>2, <3>1, TailOfOne
    <3> QED BY <3>2, FollowsEmpty
  <2>2. CASE r # Starter
    <3>1. Plan(Players, r, activeGame, w) /\ IsGame(activeGame)
      BY <1>2, <1>5, <2>2 DEF Follows
    <3>2. Plan(Players, r, activeGame, Tail(w))
      <4>1. CASE w[1].op = "save"
        BY <1>2, <3>1, <4>1, PlanSkipped
      <4>2. CASE w[1].op # "save"
        <5>1. Tail(w) = <<>>
          BY <1>2, <3>1, <4>2, PlanEnded
        <5> QED BY <5>1, PlanEmpty
      <4> QED BY <4>1, <4>2
    <3> QED BY <1>2, <1>3, <1>5, <2>2, <3>1, <3>2 DEF Follows
  <2> QED BY <2>1, <2>2
<1> QED BY <1>3, <1>4, <1>6, OrderOne

LEMMA OrderLoad ==
  ASSUME CopiesInv, OrderInv, table.width = 1, NEW r \in Goroutines, Load(r)
  PROVE  OrderInv'
<1>1. PICK w : w = todo[r]
  OBVIOUS
<1>2. w # <<>> /\ w \in Seq(Ops(Players)) /\ Head(w) = w[1] /\ w[1].op = "advance"
  BY <1>1 DEF Load, CopiesInv
<1>3. Follows(Players, r, activeGame, w)
  BY <1>1 DEF OrderInv
<1>4. r # Starter /\ Plan(Players, r, activeGame, w) /\ IsGame(activeGame)
  BY <1>2, <1>3 DEF Follows
<1>5. Len(w) = 1 /\ Tail(w) = <<>>
  BY <1>2, <1>4, PlanEnded
<1>6. r \in {Hub, Timer}
  BY <1>2, <1>4, <1>5 DEF Plan
<1>7. PICK v \in Advanced(activeGame) : todo' = [todo EXCEPT ![r] = v \o Tail(w)]
  BY <1>1, <1>4 DEF Load
<1>8. /\ Plan(Players, r, activeGame, v)
      /\ activeGame.phase # "ended" /\ Winner(activeGame) = "none" => Settled(activeGame, v)
  BY <1>4, <1>6, TableFacts, AdvancedPlan
<1>9. v \o Tail(w) = v
  BY <1>5, <1>8 DEF Plan
<1>10. /\ todo'[r] = v /\ activeGame' = activeGame /\ fails' = fails /\ Players' = Players
       /\ \A s \in Others(r) : todo'[s] = <<>>
  BY <1>1, <1>2, <1>7, <1>9, OthersAtRest DEF Load, CopiesInv, Others, Players
<1>11. fails = 0 => Settled(activeGame, w)
  BY <1>1, <1>2, OthersAtRest DEF OrderInv
<1>12. fails = 0 => Settled(activeGame, v)
  BY <1>2, <1>4, <1>5, <1>8, <1>11 DEF Settled, Found, Open
<1>13. Follows(Players', r, activeGame', v)
  BY <1>2, <1>3, <1>4, <1>8, <1>10 DEF Follows
<1> QED BY <1>10, <1>12, <1>13, OrderOne

LEMMA OrderStep ==
  ASSUME CopiesInv, OrderInv, [GameNext]_gameVars
  PROVE  OrderInv'
<1>0. table' = table
  <2>1. ASSUME Loads PROVE table' = table
    BY <2>1, LoadsHandled DEF Handled, Handle
  <2> QED BY <2>1 DEF GameNext, Loads, Start, SpinBottle, StopGame, Expire, Write, WriteFails,
                      Load, gameVars
<1>1. CASE table.width # 1
  BY <1>0, <1>1 DEF OrderInv
<1>2. CASE table.width = 1
  <2>1. CASE Loads
    BY <1>2, <2>1, LoadsHandled, OrderHandled
  <2>2. CASE Start
    BY <1>2, <2>2, OrderStart
  <2>3. CASE SpinBottle \/ StopGame
    BY <1>2, <2>3, OrderBottle
  <2>4. CASE Expire
    BY <1>2, <2>4, OrderExpire
  <2>5. CASE \E r \in Goroutines : Write(r) \/ WriteFails(r) \/ Load(r)
    BY <1>2, <2>5, OrderWrite, OrderWriteFails, OrderLoad
  <2>6. CASE UNCHANGED gameVars
    BY <2>6 DEF gameVars, OrderInv, Players
  <2> QED BY <2>1, <2>2, <2>3, <2>4, <2>5, <2>6, Zenon DEF GameNext, Loads
<1> QED BY <1>1, <1>2

LEMMA OrderInit ==
  ASSUME GameInit
  PROVE  OrderInv
<1>1. \A r \in Goroutines : todo[r] = <<>>
  BY DEF GameInit
<1>2. ~IsGame(activeGame)
  BY DEF GameInit, IsGame
<1>3. \A r \in Goroutines : Follows(Players, r, activeGame, todo[r])
  BY <1>1, FollowsEmpty
<1>4. \A r \in Goroutines : Settled(activeGame, todo[r])
  BY <1>1, <1>2 DEF Settled, Open
<1> QED BY <1>1, <1>3, <1>4 DEF OrderInv

LEMMA UndecidedInOrder ==
  ASSUME OrderInv
  PROVE  UndecidedWhileRunning
<1>1. (\A s \in Goroutines : todo[s] = <<>>) /\ fails = 0 /\ table.width = 1
        => Open(activeGame)
  BY OpenAtRest
<1> QED BY <1>1 DEF UndecidedWhileRunning, Quiet, Idle, Open

(* While handlers run one after the other and no write fails, a game that is*)
(* in the database between handlers is neither ended nor decided.         *)
THEOREM UndecidedRule == GameSpec => []UndecidedWhileRunning
<1>1. GameInit => CopiesInv /\ OrderInv
  BY CopiesInit, OrderInit
<1>2. CopiesInv /\ OrderInv /\ [GameNext]_gameVars => (CopiesInv /\ OrderInv)'
  BY CopiesStep, OrderStep
<1>3. OrderInv => UndecidedWhileRunning
  BY UndecidedInOrder
<1> QED BY <1>1, <1>2, <1>3, PTL DEF GameSpec

-----------------------------------------------------------------------------
(* MafiaGame: what one step may change *)

(* The two action properties, of one step.                                *)
UndoesNothing == table.width = 1 => NobodyRevives /\ NoGameReturns

KeepsTurn ==
  /\ table.width = 1 /\ IsGame(activeGame) /\ IsGame(activeGame')
  /\ activeGame.phase = "defense" /\ ~activeGame.expired
  /\ <<activeGame.phase, activeGame.turn>> # <<activeGame'.phase, activeGame'.turn>>
  => todo[Hub] # <<>> \/ activeGame'.phase = "ended"

LEMMA SameGame ==
  ASSUME activeGame' = activeGame
  PROVE  UndoesNothing /\ KeepsTurn
BY DEF UndoesNothing, KeepsTurn, NobodyRevives, NoGameReturns

LEMMA WriteChanges ==
  ASSUME CopiesInv, OrderInv, NEW r \in Goroutines, Write(r)
  PROVE  UndoesNothing /\ KeepsTurn
<1>1. PICK w : w = todo[r]
  OBVIOUS
<1>2. w # <<>> /\ w \in Seq(Ops(Players)) /\ Head(w) = w[1]
  BY <1>1 DEF Write, CopiesInv
<1>3. CASE table.width # 1
  BY <1>3 DEF UndoesNothing, KeepsTurn
<1>4. CASE table.width = 1
  <2>1. Follows(Players, r, activeGame, w)
    BY <1>1, <1>4 DEF OrderInv
  <2>2. CASE r = Starter
    <3>1. ~IsGame(activeGame) /\ todo[Starter] # <<>>
      BY <1>1, <1>2, <2>1, <2>2 DEF Follows
    <3> QED BY <3>1 DEF UndoesNothing, KeepsTurn, NobodyRevives, NoGameReturns
  <2>3. CASE r # Starter /\ w[1].op = "save"
    <3>1. IsGame(activeGame) /\ Plan(Players, r, activeGame, w) /\ activeGame' = w[1].game
      BY <1>1, <1>2, <2>1, <2>3 DEF Follows, Write
    <3>2. Goes(r, activeGame, activeGame')
      BY <1>2, <2>3, <3>1, PlanWritten
    <3>3. UndoesNothing
      BY <3>1, <3>2 DEF UndoesNothing, NobodyRevives, NoGameReturns, Goes
    <3>4. r = Timer /\ activeGame.phase = "defense" => activeGame.expired
      BY <1>2, <2>1, <3>1 DEF Follows
    <3>5. KeepsTurn
      BY <1>1, <1>2, <3>2, <3>4 DEF KeepsTurn, Goes
    <3> QED BY <3>3, <3>5
  <2>4. CASE r # Starter /\ w[1].op # "save"
    <3>1. ~IsGame(activeGame')
      BY <1>1, <1>2, <2>4 DEF Write, IsGame
    <3> QED BY <3>1 DEF UndoesNothing, KeepsTurn, NobodyRevives, NoGameReturns
  <2> QED BY <2>2, <2>3, <2>4
<1> QED BY <1>3, <1>4

LEMMA StepChanges ==
  ASSUME CopiesInv, OrderInv, [GameNext]_gameVars
  PROVE  UndoesNothing /\ KeepsTurn
<1>1. CASE Loads
  BY <1>1, LoadsHandled, SameGame DEF Handled, Handle
<1>2. CASE Start
  BY <1>2, SameGame DEF Start
<1>3. CASE SpinBottle \/ StopGame
  <2>1. ~IsGame(activeGame')
    BY <1>3 DEF SpinBottle, StopGame, IsGame
  <2> QED BY <2>1 DEF UndoesNothing, KeepsTurn, NobodyRevives, NoGameReturns
<1>4. CASE Expire
  <2>1. Alike(activeGame, activeGame') /\ IsGame(activeGame)
    BY <1>4, ExpireFacts DEF Expire
  <2> QED BY <2>1 DEF UndoesNothing, KeepsTurn, NobodyRevives, NoGameReturns, Alike, SameCast
<1>5. ASSUME NEW r \in Goroutines, Write(r) \/ WriteFails(r) \/ Load(r)
      PROVE  UndoesNothing /\ KeepsTurn
  BY <1>5, WriteChanges, SameGame DEF WriteFails, Load
<1>6. CASE UNCHANGED gameVars
  BY <1>6, SameGame DEF gameVars
<1> QED BY <1>1, <1>2, <1>3, <1>4, <1>5, <1>6, Zenon DEF GameNext, Loads

(* While handlers run one after the other, no player comes back to life and*)
(* no game comes back that was cancelled, stopped or finished.            *)
THEOREM UndoneRule == GameSpec => NothingIsUndone
<1>1. GameInit => CopiesInv /\ OrderInv
  BY CopiesInit, OrderInit
<1>2. CopiesInv /\ OrderInv /\ [GameNext]_gameVars => (CopiesInv /\ OrderInv)'
  BY CopiesStep, OrderStep
<1>3. CopiesInv /\ OrderInv /\ [GameNext]_gameVars
        => [table.width = 1 => NobodyRevives /\ NoGameReturns]_gameVars
  BY StepChanges DEF UndoesNothing
<1> QED BY <1>1, <1>2, <1>3, PTL DEF GameSpec, NothingIsUndone

(* While handlers run one after the other, a defence whose minute is not over*)
(* ends by the hub, that is by the defender, or with the game.            *)
THEOREM DefenseRule == GameSpec => DefenseTurnKept
<1>1. GameInit => CopiesInv /\ OrderInv
  BY CopiesInit, OrderInit
<1>2. CopiesInv /\ OrderInv /\ [GameNext]_gameVars => (CopiesInv /\ OrderInv)'
  BY CopiesStep, OrderStep
<1>3. CopiesInv /\ OrderInv /\ [GameNext]_gameVars
        => [/\ table.width = 1 /\ IsGame(activeGame) /\ IsGame(activeGame')
            /\ activeGame.phase = "defense" /\ ~activeGame.expired
            /\ <<activeGame.phase, activeGame.turn>> # <<activeGame'.phase, activeGame'.turn>>
            => todo[Hub] # <<>> \/ activeGame'.phase = "ended"]_gameVars
  BY StepChanges DEF KeepsTurn
<1> QED BY <1>1, <1>2, <1>3, PTL DEF GameSpec, DefenseTurnKept
=============================================================================
