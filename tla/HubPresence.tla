---------------------------- MODULE HubPresence ----------------------------
(***************************************************************************)
(* The connections of the message hub and what other parts of the system   *)
(* know of them: websocket/hub.go (register, unregister, shutdown),        *)
(* presence.go (the user_presences row) and the presence half of           *)
(* cluster.go (the Redis record ws:presence:<user>, with a 90 s life that  *)
(* every instance renews each 30 s for the users it holds).                *)
(*                                                                         *)
(* The hub's map is changed under a lock by one goroutine.  Everything it  *)
(* tells the outside world is told from goroutines started there and never *)
(* waited for: `tasks` holds those that have not run yet, and they run in  *)
(* any order.                                                              *)
(***************************************************************************)
EXTENDS Naturals, FiniteSets

CONSTANTS
  Nodes,      \* instances of the messenger behind one Redis and one database
  Users,
  Conns,      \* websocket connections that may ever be made
  TTL,        \* cache.TTLWSPresence, in periods of cache.WSPresenceRefresh
  Scenarios,  \* bounds: how many chat frames arrive, Redis writes fail, clients
              \* are evicted and instances stop, and whether rows are looked at
  None

ScenarioSet == [frames: Nat, lost: Nat, evictions: Nat, stops: Nat, rows: BOOLEAN]

ASSUME TTLAssumption == TTL \in Nat \ {0, 1}
ASSUME ScenariosAssumption == Scenarios \subseteq ScenarioSet

VARIABLES
  conn,     \* each connection: whose, where, how far, its socket, its open chat
  clients,  \* Hub.clients of each node
  run,      \* each node: is it up, shutting down, or stopped
  due,      \* the nodes whose presence heartbeat is due in this period
  key,      \* the Redis record of each user
  row,      \* user_presences.is_online of each user
  tasks,    \* goroutines started and not finished
  bounds    \* the scenario of this behaviour, and what is left of it

vars == <<conn, clients, run, due, key, row, tasks, bounds>>

(* `step` is where the connection's reader and the hub have got to: taken  *)
(* (from the register channel, the map not changed yet), open (registered),*)
(* leaving (the reader is over, waits in unregister), gone.  `evict`: an   *)
(* eviction of this client waits in unregister.                            *)
Connections ==
  [node: Nodes, user: Users, socket: BOOLEAN, chat: BOOLEAN, evict: {"no", "queued", "done"},
   step: {"unused", "taken", "open", "leaving", "gone"}]

(* A goroutine started for a connection: "online" and "offline" write the  *)
(* row, "set" writes the record, "get" reads it to see whether it may be   *)
(* deleted, "del" deletes it.  `no` tells goroutines of a kind apart.      *)
Tasks ==
  [kind: {"online", "offline", "set", "get", "del"}, node: Nodes, user: Users,
   by: Conns, chat: BOOLEAN, no: Nat]

Records == [node: Nodes, chat: BOOLEAN, age: 0 .. TTL - 1]

(* Every variable ranges over the values the code gives it.                *)
TypeOK ==
  /\ conn \in [Conns -> Connections]
  /\ clients \in [Nodes -> [Users -> Conns \cup {None}]]
  /\ run \in [Nodes -> {"up", "stopping", "stopped"}]
  /\ due \subseteq Nodes
  /\ key \in [Users -> Records \cup {None}]
  /\ row \in [Users -> BOOLEAN]
  /\ \A t \in tasks : t \in Tasks
  /\ bounds \in ScenarioSet

Init ==
  /\ conn \in [Conns -> {c \in Connections : /\ c.step = "unused" /\ ~c.socket
                                             /\ ~c.chat /\ c.evict = "no"}]
  /\ clients = [n \in Nodes |-> [u \in Users |-> None]]
  /\ run = [n \in Nodes |-> "up"]
  /\ due = {}
  /\ key = [u \in Users |-> None]
  /\ row = [u \in Users |-> FALSE]
  /\ tasks = {}
  /\ bounds \in Scenarios

Running(n) == run[n] # "stopped"

Current(c) == clients[conn[c].node][conn[c].user]

Go(kind, c, chat, no) ==
  [kind |-> kind, node |-> conn[c].node, user |-> conn[c].user, by |-> c,
   chat |-> chat, no |-> no]

(* The goroutine that writes the row, where the scenario looks at rows.    *)
GoRow(kind, c, no) == IF bounds.rows THEN {Go(kind, c, FALSE, no)} ELSE {}

---------------------------------------------------------------------------
(* Connections                                                             *)

(* The hub's one goroutine is not inside registerClient.                  *)
HubIsFree(n) == \A c \in Conns : ~(conn[c].node = n /\ conn[c].step = "taken")

(* HandleWebSocket, Run: the handshake is done and the hub takes the       *)
(* client, whose pumps start.  The server accepts until the process ends.  *)
Dial(c) ==
  /\ conn[c].step = "unused"
  /\ Running(conn[c].node)
  /\ HubIsFree(conn[c].node)
  /\ conn' = [conn EXCEPT ![c].step = "taken", ![c].socket = TRUE]
  /\ UNCHANGED <<clients, run, due, key, row, tasks, bounds>>

(* registerClient: an older client of the user leaves the map and its      *)
(* socket is closed; the new one is told to the database and to Redis.     *)
Register(c) ==
  /\ conn[c].step = "taken"
  /\ conn' = [x \in Conns |->
       IF x = c THEN [conn[x] EXCEPT !.step = "open"]
       ELSE IF x = Current(c) THEN [conn[x] EXCEPT !.socket = FALSE] ELSE conn[x]]
  /\ clients' = [clients EXCEPT ![conn[c].node][conn[c].user] = c]
  /\ tasks' = tasks \cup {Go("set", c, FALSE, 0)} \cup GoRow("online", c, 0)
  /\ UNCHANGED <<run, due, key, row, bounds>>

(* The peer, the network or the write pump closes the socket.              *)
Break(c) ==
  /\ conn[c].socket
  /\ conn' = [conn EXCEPT ![c].socket = FALSE]
  /\ UNCHANGED <<clients, run, due, key, row, tasks, bounds>>

(* The read pump meets the closed socket and its defer goes to unregister. *)
ReadEnds(c) ==
  /\ conn[c].step = "open"
  /\ ~conn[c].socket
  /\ conn' = [conn EXCEPT ![c].step = "leaving"]
  /\ UNCHANGED <<clients, run, due, key, row, tasks, bounds>>

(* trySend on a full buffer with a frame that may not be dropped: the      *)
(* client is queued for eviction, once.  It is in the map, or some sender  *)
(* still holds it from a moment when it was.                               *)
Slow(c) ==
  /\ conn[c].step \in {"open", "leaving"}
  /\ conn[c].evict = "no"
  /\ bounds.evictions > 0
  /\ conn' = [conn EXCEPT ![c].evict = "queued"]
  /\ bounds' = [bounds EXCEPT !.evictions = @ - 1]
  /\ UNCHANGED <<clients, run, due, key, row, tasks>>

(* SetActiveChat and SetActiveGroupChat, from a frame this connection's    *)
(* reader holds: they look the user up, and change the client that is in   *)
(* the map now.                                                            *)
ChatFrame(c) ==
  /\ conn[c].step \in {"taken", "open"}
  /\ bounds.frames > 0
  /\ Current(c) # None
  /\ \E chat \in BOOLEAN :
       /\ conn' = [conn EXCEPT ![Current(c)].chat = chat]
       /\ tasks' = tasks \cup {Go("set", c, chat, bounds.frames)}
  /\ bounds' = [bounds EXCEPT !.frames = @ - 1]
  /\ UNCHANGED <<clients, run, due, key, row>>

(* Mutant: a client that was replaced takes its successor with it.         *)
IsCurrentAnybody(c) == Current(c) # None

IsCurrent(c) == Current(c) = c

(* unregisterClient: only the client that is in the map leaves it and is   *)
(* told to the outside; a replaced one closes what is its own.             *)
Forget(c) ==
  IF IsCurrent(c)
  THEN /\ clients' = [clients EXCEPT ![conn[c].node][conn[c].user] = None]
       /\ tasks' = tasks \cup {Go("get", c, FALSE, 0)} \cup GoRow("offline", c, 0)
  ELSE UNCHANGED <<clients, tasks>>

UnregisterRead(c) ==
  /\ conn[c].step = "leaving"
  /\ HubIsFree(conn[c].node)
  /\ Forget(c)
  /\ conn' = [conn EXCEPT ![c].step = "gone"]
  /\ UNCHANGED <<run, due, key, row, bounds>>

UnregisterEvicted(c) ==
  /\ conn[c].evict = "queued"
  /\ Running(conn[c].node)
  /\ HubIsFree(conn[c].node)
  /\ Forget(c)
  /\ conn' = [conn EXCEPT ![c].evict = "done", ![c].socket = FALSE]
  /\ UNCHANGED <<run, due, key, row, bounds>>

---------------------------------------------------------------------------
(* The goroutines                                                          *)

(* setUserOnline and setUserOfflineNow: each is one upsert of the row.     *)
WriteRow(t) ==
  /\ t.kind \in {"online", "offline"}
  /\ row' = [row EXCEPT ![t.user] = (t.kind = "online")]
  /\ tasks' = tasks \ {t}
  /\ UNCHANGED <<conn, clients, run, due, key, bounds>>

(* writePresence: SET with a fresh life.                                   *)
WriteRecord(t) ==
  /\ t.kind = "set"
  /\ key' = [key EXCEPT ![t.user] = [node |-> t.node, chat |-> t.chat, age |-> 0]]
  /\ tasks' = tasks \ {t}
  /\ UNCHANGED <<conn, clients, run, due, row, bounds>>

(* clearPresence: GET first; a record of another instance is left alone.   *)
ReadRecord(t) ==
  /\ t.kind = "get"
  /\ tasks' = (tasks \ {t}) \cup
       (IF key[t.user] # None /\ key[t.user].node = t.node
        THEN {[t EXCEPT !.kind = "del"]} ELSE {})
  /\ UNCHANGED <<conn, clients, run, due, key, row, bounds>>

(* ... and then DEL, whatever the record has become since.                 *)
DeleteRecord(t) ==
  /\ t.kind = "del"
  /\ key' = [key EXCEPT ![t.user] = None]
  /\ tasks' = tasks \ {t}
  /\ UNCHANGED <<conn, clients, run, due, row, bounds>>

(* Redis does not answer in time, and the error is not looked at.          *)
Lose(t) ==
  /\ t.kind \in {"set", "get", "del"}
  /\ bounds.lost > 0
  /\ tasks' = tasks \ {t}
  /\ bounds' = [bounds EXCEPT !.lost = @ - 1]
  /\ UNCHANGED <<conn, clients, run, due, key, row>>

---------------------------------------------------------------------------
(* The presence heartbeat and time                                         *)

(* Mutant: the heartbeat only prolongs what is there.                      *)
RefreshedExisting(n) == {u \in Users : clients[n][u] # None /\ key[u] # None}

(* refreshAllPresence writes for every client in the map.                  *)
Refreshed(n) == {u \in Users : clients[n][u] # None}

Refresh(n) ==
  /\ n \in due
  /\ Running(n)
  /\ key' = [u \in Users |->
       IF u \in Refreshed(n)
       THEN [node |-> n, chat |-> conn[clients[n][u]].chat, age |-> 0] ELSE key[u]]
  /\ due' = due \ {n}
  /\ UNCHANGED <<conn, clients, run, row, tasks, bounds>>

RefreshLost(n) ==
  /\ n \in due
  /\ Running(n)
  /\ bounds.lost > 0
  /\ due' = due \ {n}
  /\ bounds' = [bounds EXCEPT !.lost = @ - 1]
  /\ UNCHANGED <<conn, clients, run, key, row, tasks>>

(* Mutant: a record is written without a life.                             *)
OlderForever(r) == r

(* Mutant: the record outlives its time by a period.                       *)
OlderLate(r) ==
  IF r = None THEN None
  ELSE IF r.age > TTL THEN None ELSE [r EXCEPT !.age = @ + 1]

(* What a record has become a period later.                                *)
Older(r) ==
  IF r = None THEN None
  ELSE IF r.age + 1 = TTL THEN None ELSE [r EXCEPT !.age = @ + 1]

(* A period of 30 s passes: every instance that runs has had its turn.     *)
Tick ==
  /\ due = {}
  /\ due' = {n \in Nodes : Running(n)}
  /\ key' = [u \in Users |-> Older(key[u])]
  /\ UNCHANGED <<conn, clients, run, row, tasks, bounds>>

---------------------------------------------------------------------------
(* Instances come and go                                                   *)

Held(n) == {clients[n][u] : u \in Users} \ {None}

(* Hub.Shutdown: the clients of a snapshot are told to close (their write  *)
(* pumps do, so their sockets break), their records are cleared and one    *)
(* statement writes their rows offline, in a goroutine that is waited for  *)
(* 15 s.  The map stays as it is: the readers that end still unregister.   *)
Shutdown(n) ==
  /\ run[n] = "up"
  /\ bounds.stops > 0
  /\ bounds' = [bounds EXCEPT !.stops = @ - 1]
  /\ run' = [run EXCEPT ![n] = "stopping"]
  /\ conn' = [c \in Conns |-> IF c \in Held(n) THEN [conn[c] EXCEPT !.socket = FALSE] ELSE conn[c]]
  /\ tasks' = tasks \cup UNION {{Go("get", c, FALSE, 1)} \cup GoRow("offline", c, 1) : c \in Held(n)}
  /\ UNCHANGED <<clients, due, key, row>>

(* What is left when the process of n has ended: no map, no goroutines,    *)
(* and every connection to it is gone.                                     *)
Ended(n) ==
  /\ run' = [run EXCEPT ![n] = "stopped"]
  /\ clients' = [clients EXCEPT ![n] = [u \in Users |-> None]]
  /\ conn' = [c \in Conns |->
       IF conn[c].node = n /\ conn[c].step # "unused"
       THEN [conn[c] EXCEPT !.step = "gone", !.socket = FALSE] ELSE conn[c]]
  /\ tasks' = {t \in tasks : t.node # n}
  /\ due' = due \ {n}
  /\ UNCHANGED <<key, row>>

Exit(n) ==
  /\ run[n] = "stopping"
  /\ Ended(n)
  /\ UNCHANGED bounds

Crash(n) ==
  /\ run[n] = "up"
  /\ bounds.stops > 0
  /\ Ended(n)
  /\ bounds' = [bounds EXCEPT !.stops = @ - 1]

(* main: a new process, and unless PRESENCE_RESET_ON_BOOT=false it writes  *)
(* every row offline, of whichever instance.                               *)
Boot(n) ==
  /\ run[n] = "stopped"
  /\ run' = [run EXCEPT ![n] = "up"]
  /\ \E reset \in BOOLEAN : row' = [u \in Users |-> row[u] /\ ~reset]
  /\ UNCHANGED <<conn, clients, due, key, tasks, bounds>>

Next ==
  \/ \E c \in Conns :
       \/ Dial(c) \/ Register(c) \/ Break(c) \/ ReadEnds(c) \/ Slow(c)
       \/ ChatFrame(c) \/ UnregisterRead(c) \/ UnregisterEvicted(c)
  \/ \E t \in tasks :
       \/ WriteRow(t) \/ WriteRecord(t) \/ ReadRecord(t) \/ DeleteRecord(t) \/ Lose(t)
  \/ \E n \in Nodes :
       \/ Refresh(n) \/ RefreshLost(n) \/ Shutdown(n) \/ Exit(n) \/ Crash(n) \/ Boot(n)
  \/ Tick

(* The hub's goroutine and the readers run on, a goroutine that was        *)
(* started runs, and the heartbeat's timer fires.  Nobody has to dial, to  *)
(* close or to stop.                                                       *)
Fairness ==
  /\ \A c \in Conns :
       WF_vars(Register(c)) /\ WF_vars(ReadEnds(c))
       /\ WF_vars(UnregisterRead(c)) /\ WF_vars(UnregisterEvicted(c))
  /\ WF_vars(\E t \in tasks : WriteRow(t) \/ WriteRecord(t) \/ ReadRecord(t) \/ DeleteRecord(t))
  /\ \A n \in Nodes : WF_vars(Refresh(n) \/ RefreshLost(n))
  /\ WF_vars(Tick)

Spec == Init /\ [][Next]_vars
FairSpec == Spec /\ Fairness

---------------------------------------------------------------------------
(* Properties                                                              *)

(* A connection whose pumps run and whose socket is open is the one the    *)
(* hub delivers to, however replaced clients, late unregisters and         *)
(* evictions follow one another: nobody sits on an open socket that no     *)
(* message can reach (registerClient, unregisterClient).                   *)
NobodyIsDeaf ==
  \A c \in Conns : conn[c].step = "open" /\ conn[c].socket => IsCurrent(c)

(* Every map, record and goroutine keeps its form, and nobody is deaf.     *)
HubIsSound == TypeOK /\ NobodyIsDeaf

(* The connections through which a user can still be reached.              *)
Live(u) == {c \in Conns : conn[c].user = u /\ conn[c].step \in {"taken", "open", "leaving"}}

(* The user is on connection c for good: it is open, stays so, has this    *)
(* chat open, and the user has no other.                                   *)
Stays(c, chat) ==
  /\ Live(conn[c].user) = {c}
  /\ conn[c].step = "open"
  /\ conn[c].socket
  /\ conn[c].chat = chat

Shown(c, chat) ==
  /\ key[conn[c].user] # None
  /\ key[conn[c].user].node = conn[c].node
  /\ key[conn[c].user].chat = chat

(* A user who stays on one connection, whatever record an earlier visit to *)
(* this or another instance left, lost or deleted too late, ends up with a *)
(* record that names this instance and the chat open there, and it stays   *)
(* (refreshAllPresence against clearPresence's GET and DEL, and against    *)
(* the writes of SetActiveChat, which may overtake each other).            *)
PresenceHeals ==
  \A c \in Conns : \A chat \in BOOLEAN : <>[]Stays(c, chat) => <>[]Shown(c, chat)

(* A user who is gone from every instance is forgotten in Redis, though    *)
(* the instance stopped without a word, the DEL was lost or a SET came     *)
(* after it: no "zombie online" stays (cache/keys.go, TTLWSPresence).      *)
GoneIsForgotten ==
  \A u \in Users : <>[](Live(u) = {}) => <>[](key[u] = None)

(* What Redis says of a user settles on the truth, whoever stays or goes.  *)
PresenceSettles == PresenceHeals /\ GoneIsForgotten

(* Not kept by the code, and checked by no run that is to pass: once all   *)
(* that was started has run, a user with an open connection is online in   *)
(* the database.                                                           *)
RowShowsConnected ==
  \A c \in Conns :
    /\ bounds.rows
    /\ conn[c].step = "open" /\ conn[c].socket
    /\ tasks = {}
    => row[conn[c].user]

=============================================================================
