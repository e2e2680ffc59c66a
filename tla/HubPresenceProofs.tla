-------------------------- MODULE HubPresenceProofs --------------------------
(***************************************************************************)
(* What holds of the hub's connections for any instances, users,           *)
(* connections, life of the Redis record and scenario of troubles: every   *)
(* variable keeps its type, and nobody sits on an open socket that the hub *)
(* does not deliver to.                                                    *)
(*                                                                         *)
(* The two together are inductive.  That a socket which is open belongs to *)
(* the client in the map is kept by registering because the client that is *)
(* replaced has its socket closed in the same step, and by unregistering   *)
(* because only the client in the map takes its entry along.               *)
(***************************************************************************)
EXTENDS HubPresence, TLAPS

-----------------------------------------------------------------------------
(* Goroutines that are started have the form of goroutines.                *)
LEMMA GoIsTask ==
  ASSUME TypeOK, NEW c \in Conns,
         NEW kind \in {"online", "offline", "set", "get", "del"},
         NEW chat \in BOOLEAN, NEW no \in Nat
  PROVE  /\ Go(kind, c, chat, no) \in Tasks
         /\ \A t \in GoRow(kind, c, no) : t \in Tasks
<1>1. conn[c] \in Connections
  BY DEF TypeOK
<1>2. conn[c].node \in Nodes /\ conn[c].user \in Users
  BY <1>1 DEF Connections
<1>3. Go(kind, c, chat, no) \in Tasks
  BY <1>2 DEF Go, Tasks
<1>4. Go(kind, c, FALSE, no) \in Tasks
  BY <1>2 DEF Go, Tasks
<1> QED
  BY <1>3, <1>4 DEF GoRow

(* A step that leaves connections and map alone makes nobody deaf.         *)
LEMMA SameConnections ==
  ASSUME NobodyIsDeaf, UNCHANGED <<conn, clients>>
  PROVE  NobodyIsDeaf'
  BY DEF NobodyIsDeaf, IsCurrent, Current

(* Nor does one that opens no connection, opens no socket, moves none, and *)
(* leaves the map alone.                                                   *)
LEMMA NothingOpens ==
  ASSUME NobodyIsDeaf, UNCHANGED clients,
         \A c \in Conns : /\ conn'[c].node = conn[c].node
                          /\ conn'[c].user = conn[c].user
                          /\ conn'[c].step = "open" => conn[c].step = "open"
                          /\ conn'[c].socket => conn[c].socket \/ conn'[c].step # "open"
  PROVE  NobodyIsDeaf'
  BY DEF NobodyIsDeaf, IsCurrent, Current

-----------------------------------------------------------------------------
(* The map with one entry changed.                                         *)
LEMMA MapExcept ==
  ASSUME NEW f \in [Nodes -> [Users -> Conns \cup {None}]],
         NEW n \in Nodes, NEW u \in Users, NEW v \in Conns \cup {None}
  PROVE  LET g == [f EXCEPT ![n][u] = v]
         IN  /\ g \in [Nodes -> [Users -> Conns \cup {None}]]
             /\ \A m \in Nodes, w \in Users :
                  g[m][w] = IF m = n /\ w = u THEN v ELSE f[m][w]
  OBVIOUS

(* Connections                                                             *)

LEMMA DialKeeps ==
  ASSUME HubIsSound, NEW c \in Conns, Dial(c)
  PROVE  HubIsSound'
<1>1. conn[c] \in Connections
  BY DEF HubIsSound, TypeOK
<1>2. [conn[c] EXCEPT !.step = "taken", !.socket = TRUE] \in Connections
  BY <1>1 DEF Connections
<1>3. conn' = [conn EXCEPT ![c] = [conn[c] EXCEPT !.step = "taken", !.socket = TRUE]]
  BY <1>1 DEF Dial, HubIsSound, TypeOK, Connections
<1>4. TypeOK'
  BY <1>2, <1>3 DEF HubIsSound, TypeOK, Dial
<1>5. NobodyIsDeaf'
  <2>1. \A x \in Conns : /\ conn'[x].node = conn[x].node
                         /\ conn'[x].user = conn[x].user
                         /\ conn'[x].step = "open" => conn[x].step = "open"
                         /\ conn'[x].socket => conn[x].socket \/ conn'[x].step # "open"
    BY <1>1, <1>3 DEF HubIsSound, TypeOK, Connections
  <2> QED
    BY <2>1, NothingOpens DEF HubIsSound, Dial
<1> QED
  BY <1>4, <1>5 DEF HubIsSound

LEMMA RegisterKeeps ==
  ASSUME HubIsSound, NEW c \in Conns, Register(c)
  PROVE  HubIsSound'
<1>1. conn[c] \in Connections /\ conn[c].node \in Nodes /\ conn[c].user \in Users
  BY DEF HubIsSound, TypeOK, Connections
<1>2. \A x \in Conns : /\ conn'[x] \in Connections
                       /\ conn'[x].node = conn[x].node
                       /\ conn'[x].user = conn[x].user
                       /\ x # c => conn'[x].step = conn[x].step
                       /\ x # c /\ conn'[x].socket => conn[x].socket /\ x # Current(c)
  <2>1. \A x \in Conns : conn[x] \in Connections
    BY DEF HubIsSound, TypeOK
  <2> SUFFICES ASSUME NEW x \in Conns
               PROVE  /\ conn'[x] \in Connections
                      /\ conn'[x].node = conn[x].node
                      /\ conn'[x].user = conn[x].user
                      /\ x # c => conn'[x].step = conn[x].step
                      /\ x # c /\ conn'[x].socket => conn[x].socket /\ x # Current(c)
    OBVIOUS
  <2>2. CASE x = c
    <3>1. conn'[x] = [conn[x] EXCEPT !.step = "open"]
      BY <2>2 DEF Register
    <3> QED
      BY <2>1, <2>2, <3>1 DEF Connections
  <2>3. CASE x # c /\ x = Current(c)
    <3>1. conn'[x] = [conn[x] EXCEPT !.socket = FALSE]
      BY <2>3 DEF Register
    <3> QED
      BY <2>1, <2>3, <3>1 DEF Connections
  <2>4. CASE x # c /\ x # Current(c)
    <3>1. conn'[x] = conn[x]
      BY <2>4 DEF Register
    <3> QED
      BY <2>1, <2>4, <3>1
  <2> QED
    BY <2>2, <2>3, <2>4
<1>3. clients' = [clients EXCEPT ![conn[c].node][conn[c].user] = c]
  BY DEF Register
<1>4. TypeOK'
  <2>1. conn' \in [Conns -> Connections]
    BY <1>2 DEF Register
  <2>2. clients' \in [Nodes -> [Users -> Conns \cup {None}]]
    <3>1. clients \in [Nodes -> [Users -> Conns \cup {None}]]
      BY DEF HubIsSound, TypeOK
    <3> QED
      BY <1>1, <1>3, <3>1, MapExcept
  <2>3. \A t \in tasks' : t \in Tasks
    <3>1. Go("set", c, FALSE, 0) \in Tasks /\ \A t \in GoRow("online", c, 0) : t \in Tasks
      BY GoIsTask DEF HubIsSound
    <3> QED
      BY <3>1 DEF Register, HubIsSound, TypeOK
  <2> QED
    BY <2>1, <2>2, <2>3 DEF Register, HubIsSound, TypeOK
<1>5. NobodyIsDeaf'
  <2> SUFFICES ASSUME NEW x \in Conns, conn'[x].step = "open", conn'[x].socket
               PROVE  clients'[conn'[x].node][conn'[x].user] = x
    BY DEF NobodyIsDeaf, IsCurrent, Current
  <2>1. CASE x = c
    BY <1>1, <1>2, <1>3, <2>1 DEF HubIsSound, TypeOK
  <2>2. CASE x # c
    <3>1. clients[conn[x].node][conn[x].user] = x /\ x # Current(c)
      BY <1>2, <2>2 DEF HubIsSound, NobodyIsDeaf, IsCurrent, Current
    <3>2. conn[x].node # conn[c].node \/ conn[x].user # conn[c].user
      BY <3>1 DEF Current
    <3>3. conn[x].node \in Nodes /\ conn[x].user \in Users
      BY DEF HubIsSound, TypeOK, Connections
    <3>4. clients'[conn[x].node][conn[x].user] = clients[conn[x].node][conn[x].user]
      BY <1>1, <1>3, <3>2, <3>3 DEF HubIsSound, TypeOK
    <3> QED
      BY <1>2, <3>1, <3>4
  <2> QED
    BY <2>1, <2>2
<1> QED
  BY <1>4, <1>5 DEF HubIsSound

(* Steps that change fields of one connection, and leave the map alone.    *)
LEMMA OneConnectionKeeps ==
  ASSUME HubIsSound, NEW c \in Conns,
         Break(c) \/ ReadEnds(c) \/ Slow(c) \/ ChatFrame(c)
  PROVE  HubIsSound'
<1>0. \A x \in Conns : conn[x] \in Connections
  BY DEF HubIsSound, TypeOK
<1>1. CASE Break(c)
  <2>0. conn' \in [Conns -> Connections]
    <3>1. [conn[c] EXCEPT !.socket = FALSE] \in Connections
      BY <1>0 DEF Connections
    <3> QED
      BY <1>1, <3>1 DEF Break, HubIsSound, TypeOK
  <2>1. TypeOK'
    BY <1>1, <2>0 DEF Break, HubIsSound, TypeOK
  <2>2. NobodyIsDeaf'
    BY <1>0, <1>1, NothingOpens DEF Break, HubIsSound, TypeOK, Connections
  <2> QED
    BY <2>1, <2>2 DEF HubIsSound
<1>2. CASE ReadEnds(c)
  <2>0. conn' \in [Conns -> Connections]
    <3>1. [conn[c] EXCEPT !.step = "leaving"] \in Connections
      BY <1>0 DEF Connections
    <3> QED
      BY <1>2, <3>1 DEF ReadEnds, HubIsSound, TypeOK
  <2>1. TypeOK'
    BY <1>2, <2>0 DEF ReadEnds, HubIsSound, TypeOK
  <2>2. NobodyIsDeaf'
    BY <1>0, <1>2, NothingOpens DEF ReadEnds, HubIsSound, TypeOK, Connections
  <2> QED
    BY <2>1, <2>2 DEF HubIsSound
<1>3. CASE Slow(c)
  <2>0. bounds' \in ScenarioSet
    BY <1>3 DEF Slow, HubIsSound, TypeOK, ScenarioSet
  <2>1. conn' \in [Conns -> Connections]
    <3>1. [conn[c] EXCEPT !.evict = "queued"] \in Connections
      BY <1>0 DEF Connections
    <3> QED
      BY <1>3, <3>1 DEF Slow, HubIsSound, TypeOK
  <2>2. TypeOK'
    BY <1>3, <2>0, <2>1 DEF Slow, HubIsSound, TypeOK
  <2>3. NobodyIsDeaf'
    BY <1>0, <1>3, NothingOpens DEF Slow, HubIsSound, TypeOK, Connections
  <2> QED
    BY <2>2, <2>3 DEF HubIsSound
<1>4. CASE ChatFrame(c)
  <2>0. bounds.frames \in Nat /\ bounds' \in ScenarioSet
    BY <1>4 DEF ChatFrame, HubIsSound, TypeOK, ScenarioSet
  <2>1. Current(c) \in Conns
    <3>1. conn[c].node \in Nodes /\ conn[c].user \in Users
      BY <1>0 DEF Connections
    <3>2. Current(c) # None
      BY <1>4 DEF ChatFrame
    <3> QED
      BY <3>1, <3>2 DEF HubIsSound, TypeOK, Current
  <2>2. PICK chat \in BOOLEAN :
          /\ conn' = [conn EXCEPT ![Current(c)].chat = chat]
          /\ tasks' = tasks \cup {Go("set", c, chat, bounds.frames)}
    BY <1>4 DEF ChatFrame
  <2>3. Go("set", c, chat, bounds.frames) \in Tasks
    BY <2>0, GoIsTask DEF HubIsSound
  <2>4. conn' \in [Conns -> Connections]
    BY <1>0, <2>1, <2>2 DEF HubIsSound, TypeOK, Connections
  <2>5. TypeOK'
    BY <1>4, <2>0, <2>2, <2>3, <2>4 DEF ChatFrame, HubIsSound, TypeOK
  <2>6. \A x \in Conns : /\ conn'[x].node = conn[x].node
                         /\ conn'[x].user = conn[x].user
                         /\ conn'[x].step = conn[x].step
                         /\ conn'[x].socket = conn[x].socket
    BY <1>0, <2>1, <2>2 DEF HubIsSound, TypeOK, Connections
  <2>7. NobodyIsDeaf'
    BY <1>4, <2>6, NothingOpens DEF ChatFrame, HubIsSound
  <2> QED
    BY <2>5, <2>7 DEF HubIsSound
<1> QED
  BY <1>1, <1>2, <1>3, <1>4

(* Unregistering takes an entry out of the map only for the connection     *)
(* that is over.                                                           *)
LEMMA ForgetKeeps ==
  ASSUME HubIsSound, NEW c \in Conns, Forget(c),
         conn' \in [Conns -> Connections],
         \A x \in Conns : /\ conn'[x].node = conn[x].node
                          /\ conn'[x].user = conn[x].user
                          /\ conn'[x].step = "open" => conn[x].step = "open"
                          /\ conn'[x].socket => conn[x].socket,
         ~(conn'[c].step = "open" /\ conn'[c].socket),
         UNCHANGED <<run, due, key, row, bounds>>
  PROVE  HubIsSound'
<1>1. conn[c].node \in Nodes /\ conn[c].user \in Users
  BY DEF HubIsSound, TypeOK, Connections
<1>2. /\ \A t \in tasks' : t \in Tasks
      /\ clients' \in [Nodes -> [Users -> Conns \cup {None}]]
      /\ \A n \in Nodes, u \in Users : clients'[n][u] = clients[n][u] \/ clients[n][u] = c
  <2>1. Go("get", c, FALSE, 0) \in Tasks /\ \A t \in GoRow("offline", c, 0) : t \in Tasks
    BY GoIsTask DEF HubIsSound
  <2>2. CASE IsCurrent(c)
    <3>1. /\ clients' = [clients EXCEPT ![conn[c].node][conn[c].user] = None]
          /\ tasks' = tasks \cup {Go("get", c, FALSE, 0)} \cup GoRow("offline", c, 0)
      BY <2>2 DEF Forget
    <3>2. \A t \in tasks' : t \in Tasks
      BY <2>1, <3>1 DEF HubIsSound, TypeOK
    <3>3. clients \in [Nodes -> [Users -> Conns \cup {None}]]
      BY DEF HubIsSound, TypeOK
    <3>4. /\ clients' \in [Nodes -> [Users -> Conns \cup {None}]]
          /\ \A m \in Nodes, w \in Users :
               clients'[m][w] = IF m = conn[c].node /\ w = conn[c].user
                                THEN None ELSE clients[m][w]
      BY <1>1, <3>1, <3>3, MapExcept
    <3>5. clients[conn[c].node][conn[c].user] = c
      BY <2>2 DEF IsCurrent, Current
    <3> QED
      BY <3>2, <3>4, <3>5
  <2>3. CASE ~IsCurrent(c)
    BY <2>3 DEF Forget, HubIsSound, TypeOK
  <2> QED
    BY <2>2, <2>3
<1>3. TypeOK'
  BY <1>2 DEF HubIsSound, TypeOK
<1>4. NobodyIsDeaf'
  <2> SUFFICES ASSUME NEW x \in Conns, conn'[x].step = "open", conn'[x].socket
               PROVE  clients'[conn'[x].node][conn'[x].user] = x
    BY DEF NobodyIsDeaf, IsCurrent, Current
  <2>1. clients[conn[x].node][conn[x].user] = x
    BY DEF HubIsSound, NobodyIsDeaf, IsCurrent, Current
  <2>2. conn[x].node \in Nodes /\ conn[x].user \in Users /\ x # c
    BY DEF HubIsSound, TypeOK, Connections
  <2> QED
    BY <1>2, <2>1, <2>2
<1> QED
  BY <1>3, <1>4 DEF HubIsSound

LEMMA UnregisterKeeps ==
  ASSUME HubIsSound, NEW c \in Conns, UnregisterRead(c) \/ UnregisterEvicted(c)
  PROVE  HubIsSound'
<1>0. \A x \in Conns : conn[x] \in Connections
  BY DEF HubIsSound, TypeOK
<1>1. CASE UnregisterRead(c)
  <2>1. /\ conn' \in [Conns -> Connections]
        /\ \A x \in Conns : /\ conn'[x].node = conn[x].node
                            /\ conn'[x].user = conn[x].user
                            /\ conn'[x].step = "open" => conn[x].step = "open"
                            /\ conn'[x].socket => conn[x].socket
        /\ conn'[c].step # "open"
    BY <1>0, <1>1 DEF UnregisterRead, HubIsSound, TypeOK, Connections
  <2> QED
    BY <1>1, <2>1, ForgetKeeps DEF UnregisterRead
<1>2. CASE UnregisterEvicted(c)
  <2>1. /\ conn' \in [Conns -> Connections]
        /\ \A x \in Conns : /\ conn'[x].node = conn[x].node
                            /\ conn'[x].user = conn[x].user
                            /\ conn'[x].step = "open" => conn[x].step = "open"
                            /\ conn'[x].socket => conn[x].socket
        /\ ~conn'[c].socket
    <3>1. conn' = [conn EXCEPT ![c] = [conn[c] EXCEPT !.evict = "done", !.socket = FALSE]]
      BY <1>0, <1>2 DEF UnregisterEvicted, HubIsSound, TypeOK, Connections
    <3>2. [conn[c] EXCEPT !.evict = "done", !.socket = FALSE] \in Connections
      BY <1>0 DEF Connections
    <3> QED
      BY <1>0, <3>1, <3>2 DEF HubIsSound, TypeOK, Connections
  <2> QED
    BY <1>2, <2>1, ForgetKeeps DEF UnregisterEvicted
<1> QED
  BY <1>1, <1>2

-----------------------------------------------------------------------------
(* Goroutines, heartbeat and time                                          *)

LEMMA TaskKeeps ==
  ASSUME HubIsSound, NEW t \in tasks,
         WriteRow(t) \/ WriteRecord(t) \/ ReadRecord(t) \/ DeleteRecord(t) \/ Lose(t)
  PROVE  HubIsSound'
<1>0. t \in Tasks /\ t.user \in Users /\ t.node \in Nodes /\ t.chat \in BOOLEAN
  BY DEF HubIsSound, TypeOK, Tasks
<1>1. NobodyIsDeaf'
  <2>1. UNCHANGED <<conn, clients>>
    BY DEF WriteRow, WriteRecord, ReadRecord, DeleteRecord, Lose
  <2> QED
    BY <2>1, SameConnections DEF HubIsSound
<1>2. CASE WriteRow(t)
  BY <1>0, <1>1, <1>2 DEF WriteRow, HubIsSound, TypeOK
<1>3. CASE WriteRecord(t)
  <2>1. [node |-> t.node, chat |-> t.chat, age |-> 0] \in Records
    BY <1>0, TTLAssumption DEF Records
  <2>2. key' \in [Users -> Records \cup {None}]
    BY <1>3, <2>1 DEF WriteRecord, HubIsSound, TypeOK
  <2> QED
    BY <1>1, <1>3, <2>2 DEF WriteRecord, HubIsSound, TypeOK
<1>4. CASE ReadRecord(t)
  <2>1. [t EXCEPT !.kind = "del"] \in Tasks
    BY <1>0 DEF Tasks
  <2> QED
    BY <1>1, <1>4, <2>1 DEF ReadRecord, HubIsSound, TypeOK
<1>5. CASE DeleteRecord(t)
  BY <1>0, <1>1, <1>5 DEF DeleteRecord, HubIsSound, TypeOK
<1>6. CASE Lose(t)
  <2>1. bounds' \in ScenarioSet
    BY <1>6 DEF Lose, HubIsSound, TypeOK, ScenarioSet
  <2> QED
    BY <1>1, <1>6, <2>1 DEF Lose, HubIsSound, TypeOK
<1> QED
  BY <1>2, <1>3, <1>4, <1>5, <1>6

LEMMA HeartbeatKeeps ==
  ASSUME HubIsSound, NEW n \in Nodes, Refresh(n) \/ RefreshLost(n)
  PROVE  HubIsSound'
<1>1. NobodyIsDeaf'
  <2>1. UNCHANGED <<conn, clients>>
    BY DEF Refresh, RefreshLost
  <2> QED
    BY <2>1, SameConnections DEF HubIsSound
<1>2. CASE Refresh(n)
  <2>1. ASSUME NEW u \in Users
        PROVE  key'[u] \in Records \cup {None}
    <3>0. key'[u] = IF u \in Refreshed(n)
                    THEN [node |-> n, chat |-> conn[clients[n][u]].chat, age |-> 0]
                    ELSE key[u]
      BY <1>2 DEF Refresh
    <3>1. CASE u \in Refreshed(n)
      <4>1. clients[n][u] \in Conns
        BY <3>1 DEF Refreshed, HubIsSound, TypeOK
      <4>2. conn[clients[n][u]] \in Connections
        BY <4>1 DEF HubIsSound, TypeOK
      <4>3. conn[clients[n][u]].chat \in BOOLEAN
        BY <4>2 DEF Connections
      <4> QED
        BY <3>0, <3>1, <4>3, TTLAssumption DEF Records
    <3>2. CASE u \notin Refreshed(n)
      BY <3>0, <3>2 DEF HubIsSound, TypeOK
    <3> QED
      BY <3>1, <3>2
  <2>2. key' \in [Users -> Records \cup {None}]
    BY <1>2, <2>1 DEF Refresh
  <2> QED
    BY <1>1, <1>2, <2>2 DEF Refresh, HubIsSound, TypeOK
<1>3. CASE RefreshLost(n)
  <2>1. bounds' \in ScenarioSet
    BY <1>3 DEF RefreshLost, HubIsSound, TypeOK, ScenarioSet
  <2> QED
    BY <1>1, <1>3, <2>1 DEF RefreshLost, HubIsSound, TypeOK
<1> QED
  BY <1>2, <1>3

LEMMA TickKeeps ==
  ASSUME HubIsSound, Tick
  PROVE  HubIsSound'
<1>1. NobodyIsDeaf'
  BY SameConnections DEF Tick, HubIsSound
<1>2. ASSUME NEW u \in Users
      PROVE  Older(key[u]) \in Records \cup {None}
  <2>1. key[u] \in Records \cup {None}
    BY DEF HubIsSound, TypeOK
  <2>2. ASSUME key[u] \in Records, key[u].age + 1 # TTL
        PROVE  [key[u] EXCEPT !.age = @ + 1] \in Records
    BY <2>2, TTLAssumption DEF Records
  <2> QED
    BY <2>1, <2>2 DEF Older
<1>3. key' \in [Users -> Records \cup {None}]
  BY <1>2 DEF Tick
<1>4. TypeOK'
  BY <1>3 DEF Tick, HubIsSound, TypeOK
<1> QED
  BY <1>1, <1>4 DEF HubIsSound

-----------------------------------------------------------------------------
(* Instances come and go                                                   *)

LEMMA ShutdownKeeps ==
  ASSUME HubIsSound, NEW n \in Nodes, Shutdown(n)
  PROVE  HubIsSound'
<1>1. \A x \in Conns : /\ conn'[x] \in Connections
                       /\ conn'[x].node = conn[x].node
                       /\ conn'[x].user = conn[x].user
                       /\ conn'[x].step = conn[x].step
                       /\ conn'[x].socket => conn[x].socket
  <2>1. \A x \in Conns : conn[x] \in Connections
    BY DEF HubIsSound, TypeOK
  <2>2. ASSUME NEW x \in Conns
        PROVE  conn'[x] = IF x \in Held(n) THEN [conn[x] EXCEPT !.socket = FALSE] ELSE conn[x]
    BY DEF Shutdown
  <2> QED
    BY <2>1, <2>2 DEF Connections
<1>2. \A t \in tasks' : t \in Tasks
  <2>1. ASSUME NEW c \in Held(n)
        PROVE  \A t \in {Go("get", c, FALSE, 1)} \cup GoRow("offline", c, 1) : t \in Tasks
    <3>1. c \in Conns
      BY DEF Held, HubIsSound, TypeOK
    <3> QED
      BY <3>1, GoIsTask DEF HubIsSound
  <2> QED
    BY <2>1 DEF Shutdown, HubIsSound, TypeOK
<1>3. bounds' \in ScenarioSet
  BY DEF Shutdown, HubIsSound, TypeOK, ScenarioSet
<1>4. TypeOK'
  <2>1. conn' \in [Conns -> Connections]
    BY <1>1 DEF Shutdown
  <2> QED
    BY <1>2, <1>3, <2>1 DEF Shutdown, HubIsSound, TypeOK
<1>5. NobodyIsDeaf'
  BY <1>1, NothingOpens DEF Shutdown, HubIsSound
<1> QED
  BY <1>4, <1>5 DEF HubIsSound

(* When a process ends its connections end with it, and those of the other *)
(* instances keep their entries.                                           *)
LEMMA EndedKeeps ==
  ASSUME HubIsSound, NEW n \in Nodes, Ended(n), bounds' \in ScenarioSet
  PROVE  HubIsSound'
<1>1. \A x \in Conns : /\ conn'[x] \in Connections
                       /\ conn'[x].node = conn[x].node
                       /\ conn'[x].user = conn[x].user
                       /\ conn'[x].step = "open" => conn[x].step = "open" /\ conn[x].node # n
                       /\ conn'[x].socket => conn[x].socket
  <2>1. \A x \in Conns : conn[x] \in Connections
    BY DEF HubIsSound, TypeOK
  <2>2. ASSUME NEW x \in Conns
        PROVE  conn'[x] = IF conn[x].node = n /\ conn[x].step # "unused"
                          THEN [conn[x] EXCEPT !.step = "gone", !.socket = FALSE] ELSE conn[x]
    BY DEF Ended
  <2>3. ASSUME NEW r \in Connections
        PROVE  /\ [r EXCEPT !.step = "gone", !.socket = FALSE] \in Connections
               /\ [r EXCEPT !.step = "gone", !.socket = FALSE].node = r.node
               /\ [r EXCEPT !.step = "gone", !.socket = FALSE].user = r.user
               /\ [r EXCEPT !.step = "gone", !.socket = FALSE].step = "gone"
               /\ ~[r EXCEPT !.step = "gone", !.socket = FALSE].socket
    BY DEF Connections
  <2> QED
    BY <2>1, <2>2, <2>3
<1>2. TypeOK'
  <2>1. conn' \in [Conns -> Connections]
    BY <1>1 DEF Ended
  <2>2. clients' \in [Nodes -> [Users -> Conns \cup {None}]]
    BY DEF Ended, HubIsSound, TypeOK
  <2>3. \A t \in tasks' : t \in Tasks
    BY DEF Ended, HubIsSound, TypeOK
  <2> QED
    BY <2>1, <2>2, <2>3 DEF Ended, HubIsSound, TypeOK
<1>3. NobodyIsDeaf'
  <2> SUFFICES ASSUME NEW x \in Conns, conn'[x].step = "open", conn'[x].socket
               PROVE  clients'[conn'[x].node][conn'[x].user] = x
    BY DEF NobodyIsDeaf, IsCurrent, Current
  <2>1. clients[conn[x].node][conn[x].user] = x /\ conn[x].node # n
    BY <1>1 DEF HubIsSound, NobodyIsDeaf, IsCurrent, Current
  <2>2. conn[x].node \in Nodes
    BY DEF HubIsSound, TypeOK, Connections
  <2>3. clients'[conn[x].node] = clients[conn[x].node]
    BY <2>1, <2>2 DEF Ended, HubIsSound, TypeOK
  <2> QED
    BY <1>1, <2>1, <2>3
<1> QED
  BY <1>2, <1>3 DEF HubIsSound

LEMMA InstanceKeeps ==
  ASSUME HubIsSound, NEW n \in Nodes, Exit(n) \/ Crash(n) \/ Boot(n)
  PROVE  HubIsSound'
<1>1. CASE Exit(n)
  BY <1>1, EndedKeeps DEF Exit, HubIsSound, TypeOK
<1>2. CASE Crash(n)
  <2>1. bounds' \in ScenarioSet
    BY <1>2 DEF Crash, HubIsSound, TypeOK, ScenarioSet
  <2> QED
    BY <1>2, <2>1, EndedKeeps DEF Crash
<1>3. CASE Boot(n)
  <2>1. NobodyIsDeaf'
    BY <1>3, SameConnections DEF Boot, HubIsSound
  <2>2. row' \in [Users -> BOOLEAN]
    BY <1>3 DEF Boot, HubIsSound, TypeOK
  <2> QED
    BY <1>3, <2>1, <2>2 DEF Boot, HubIsSound, TypeOK
<1> QED
  BY <1>1, <1>2, <1>3

-----------------------------------------------------------------------------
LEMMA InitSound == Init => HubIsSound
<1> SUFFICES ASSUME Init PROVE HubIsSound
  OBVIOUS
<1>1. TypeOK
  BY ScenariosAssumption DEF Init, TypeOK
<1>2. \A c \in Conns : conn[c].step = "unused"
  BY DEF Init
<1> QED
  BY <1>1, <1>2 DEF HubIsSound, NobodyIsDeaf

LEMMA StutterKeeps ==
  ASSUME HubIsSound, UNCHANGED vars
  PROVE  HubIsSound'
BY DEF vars, HubIsSound, TypeOK, NobodyIsDeaf, IsCurrent, Current

(* Whatever connects, is replaced, evicted or ends, whichever goroutines   *)
(* run late or never and whichever instances stop: every open connection   *)
(* whose pumps run is the one the hub delivers to.                         *)
THEOREM HubRule == Spec => []HubIsSound
<1>1. HubIsSound /\ [Next]_vars => HubIsSound'
  <2> SUFFICES ASSUME HubIsSound, Next PROVE HubIsSound'
    BY StutterKeeps
  <2>1. ASSUME NEW c \in Conns,
               \/ Dial(c) \/ Register(c) \/ Break(c) \/ ReadEnds(c) \/ Slow(c)
               \/ ChatFrame(c) \/ UnregisterRead(c) \/ UnregisterEvicted(c)
        PROVE  HubIsSound'
    BY <2>1, DialKeeps, RegisterKeeps, OneConnectionKeeps, UnregisterKeeps
  <2>2. ASSUME NEW t \in tasks,
               WriteRow(t) \/ WriteRecord(t) \/ ReadRecord(t) \/ DeleteRecord(t) \/ Lose(t)
        PROVE  HubIsSound'
    BY <2>2, TaskKeeps
  <2>3. ASSUME NEW n \in Nodes,
               \/ Refresh(n) \/ RefreshLost(n) \/ Shutdown(n)
               \/ Exit(n) \/ Crash(n) \/ Boot(n)
        PROVE  HubIsSound'
    BY <2>3, HeartbeatKeeps, ShutdownKeeps, InstanceKeeps
  <2>4. CASE Tick
    BY <2>4, TickKeeps
  <2> QED
    BY <2>1, <2>2, <2>3, <2>4 DEF Next
<1> QED
  BY <1>1, InitSound, PTL DEF Spec
=============================================================================
