--------------------------- MODULE ClusterFanout ---------------------------
(***************************************************************************)
(* Live frames between the instances of the messenger: the publishing half *)
(* of websocket/cluster.go, with the sends of websocket/hub.go that use it *)
(* and the subscription of cache/pubsub.go.                                *)
(*                                                                         *)
(* A frame goes to the connections of its own instance first.  Then it is  *)
(* queued for a Redis channel every instance subscribes to, unless this    *)
(* instance believes it is alone; writers publish what is queued, and each *)
(* subscriber gives what others sent to its own connections.  Who is alone *)
(* is known from frames and heartbeats only.                               *)
(*                                                                         *)
(* The frames are a direct message (it goes to its sender's and to its     *)
(* receiver's connections) and the second tick it earns when the           *)
(* receiver's copy is in a buffer.  Time is counted in steps of 5 s.       *)
(***************************************************************************)
EXTENDS Naturals, Sequences, FiniteSets, SequencesExt

CONSTANTS
  Nodes,
  Conns,      \* connections that may ever be open
  NodeOf,     \* the instance and
  UserOf,     \*   the user ("sender" or "receiver") of each
  Messages,
  QueueSize,  \* clusterPublishQueueSize
  Workers,    \* clusterPublishWorkers
  Heartbeat,  \* clusterHeartbeatEvery, in steps
  PeerTTL,    \* clusterPeerTTL
  AssumeFor,  \* clusterAssumePeersFor
  Scenarios   \* bounds: messages sent, connections made or ended, publications
              \* that fail, subscriptions that break, instances that stop; and
              \* does time pass

ScenarioSet == [sends: Nat, moves: Nat, lost: Nat, breaks: Nat, stops: Nat, clock: BOOLEAN]

ASSUME ConnsAssumption ==
  /\ NodeOf \in [Conns -> Nodes]
  /\ UserOf \in [Conns -> {"sender", "receiver"}]
ASSUME NumbersAssumption ==
  /\ {QueueSize, Workers, Heartbeat, PeerTTL, AssumeFor} \subseteq Nat \ {0}
  /\ Scenarios \subseteq ScenarioSet

VARIABLES
  stage,      \* each instance: off, booting, ready (it may publish), subscribed
  uptime,     \* time since its start, up to AssumeFor
  heard,      \* time since a frame of another instance, up to PeerTTL (or never)
  beat,       \* time since its last heartbeat
  queue,      \* clusterPublishCh of each instance
  hands,      \* what its writers are publishing
  inbox,      \* what Redis has sent to its subscription
  calls,      \* frames given to local connections and not yet to publishCluster
  marks,      \* goroutines on their way to mark a message delivered
  link,       \* each connection: unused, open or closed
  got,        \* how often a frame entered the buffer of a connection
  owed,       \* the connections a frame still has to reach
  sent,       \* the messages that have been saved and are on their way
  delivered,  \* messages.delivered
  bounds      \* the scenario of this behaviour, and what is left of it

nodes == <<stage, uptime, heard, beat>>
wires == <<queue, hands, inbox>>
rows == <<got, owed, sent, delivered>>
vars == <<nodes, wires, calls, marks, link, rows, bounds>>

Frames == [type: {"new_message", "message_delivered"}, of: Messages]

To(f) == IF f.type = "new_message" THEN {"sender", "receiver"} ELSE {"sender"}

(* What goes over the channel: a frame or a heartbeat, with its origin.    *)
Wire(f, n) == [type |-> f.type, of |-> f.of, origin |-> n]
Pulse(n) == [type |-> "hb", origin |-> n]
IsPulse(w) == w.type = "hb"
FrameOf(w) == [type |-> w.type, of |-> w.of]

Wires == [type: {"new_message", "message_delivered"}, of: Messages, origin: Nodes]
           \cup [type: {"hb"}, origin: Nodes]

Running(n) == stage[n] # "off"
At(n) == {c \in Conns : NodeOf[c] = n}
Open == {c \in Conns : link[c] = "open"}

(* Every variable ranges over the values the code gives it; the queue and  *)
(* the writers keep to their numbers.                                      *)
TypeOK ==
  /\ stage \in [Nodes -> {"off", "booting", "ready", "subscribed"}]
  /\ uptime \in [Nodes -> 0 .. AssumeFor]
  /\ heard \in [Nodes -> 0 .. PeerTTL]
  /\ beat \in [Nodes -> 0 .. Heartbeat]
  /\ \A n \in Nodes :
       /\ Len(queue[n]) <= QueueSize
       /\ Cardinality(hands[n]) <= Workers
       /\ hands[n] \subseteq Wires
       /\ \A w \in ToSet(queue[n]) \cup ToSet(inbox[n]) : w \in Wires
  /\ calls \subseteq [frame: Frames, node: Nodes]
  /\ marks \subseteq [of: Messages, node: Nodes, step: {"look", "mark"}]
  /\ link \in [Conns -> {"unused", "open", "closed"}]
  /\ got \in [Conns -> [Frames -> 0 .. 2]]
  /\ owed \in [Frames -> SUBSET Conns]
  /\ delivered \subseteq sent
  /\ sent \subseteq Messages
  /\ bounds \in ScenarioSet

(* Some instances have been running for long, alone or together; the rest  *)
(* is yet to be started.  Connections matter only where something is sent. *)
Init ==
  /\ bounds \in Scenarios
  /\ \E old \in SUBSET Nodes :
       /\ stage = [n \in Nodes |-> IF n \in old THEN "subscribed" ELSE "off"]
       /\ uptime = [n \in Nodes |-> IF n \in old THEN AssumeFor ELSE 0]
       /\ heard = [n \in Nodes |-> IF n \in old /\ Cardinality(old) > 1 THEN 0 ELSE PeerTTL]
       /\ link \in [Conns -> {"unused", "open"}]
       /\ \A c \in Conns : link[c] = "open" => NodeOf[c] \in old /\ bounds.sends > 0
  /\ beat = [n \in Nodes |-> 0]
  /\ queue = [n \in Nodes |-> <<>>]
  /\ hands = [n \in Nodes |-> {}]
  /\ inbox = [n \in Nodes |-> <<>>]
  /\ calls = {}
  /\ marks = {}
  /\ got = [c \in Conns |-> [f \in Frames |-> 0]]
  /\ owed = [f \in Frames |-> {}]
  /\ sent = {}
  /\ delivered = {}

---------------------------------------------------------------------------
(* Instances and connections                                               *)

(* A process starts: it accepts connections, and its heartbeat is due.     *)
Start(n) ==
  /\ stage[n] = "off"
  /\ stage' = [stage EXCEPT ![n] = "booting"]
  /\ uptime' = [uptime EXCEPT ![n] = 0]
  /\ heard' = [heard EXCEPT ![n] = PeerTTL]
  /\ beat' = [beat EXCEPT ![n] = Heartbeat]
  /\ UNCHANGED <<wires, calls, marks, link, rows, bounds>>

(* StartClusterSubscriber: the writers run and publishing is allowed; the  *)
(* subscription is asked for after that.                                   *)
MakeReady(n) ==
  /\ stage[n] = "booting"
  /\ stage' = [stage EXCEPT ![n] = "ready"]
  /\ UNCHANGED <<uptime, heard, beat, wires, calls, marks, link, rows, bounds>>

(* SubscribeLoop: the subscription is confirmed ...                        *)
Subscribe(n) ==
  /\ stage[n] = "ready"
  /\ stage' = [stage EXCEPT ![n] = "subscribed"]
  /\ UNCHANGED <<uptime, heard, beat, wires, calls, marks, link, rows, bounds>>

(* ... or lost, to be asked for again.                                     *)
Unsubscribe(n) ==
  /\ stage[n] = "subscribed"
  /\ bounds.breaks > 0
  /\ stage' = [stage EXCEPT ![n] = "ready"]
  /\ bounds' = [bounds EXCEPT !.breaks = @ - 1]
  /\ UNCHANGED <<uptime, heard, beat, wires, calls, marks, link, rows>>

(* A process ends, with what it had in memory.                             *)
Stop(n) ==
  /\ Running(n)
  /\ bounds.stops > 0
  /\ stage' = [stage EXCEPT ![n] = "off"]
  /\ queue' = [queue EXCEPT ![n] = <<>>]
  /\ hands' = [hands EXCEPT ![n] = {}]
  /\ inbox' = [inbox EXCEPT ![n] = <<>>]
  /\ calls' = {s \in calls : s.node # n}
  /\ marks' = {t \in marks : t.node # n}
  /\ link' = [c \in Conns |-> IF c \in Open \cap At(n) THEN "closed" ELSE link[c]]
  /\ owed' = [f \in Frames |->
       IF Wire(f, n) \in ToSet(queue[n]) \cup hands[n] \/ [frame |-> f, node |-> n] \in calls
       THEN {} ELSE owed[f]]
  /\ bounds' = [bounds EXCEPT !.stops = @ - 1]
  /\ UNCHANGED <<uptime, heard, beat, got, sent, delivered>>

(* registerClient and unregisterClient, seen from here.                    *)
Connect(c) ==
  /\ link[c] = "unused"
  /\ bounds.moves > 0
  /\ Running(NodeOf[c])
  /\ link' = [link EXCEPT ![c] = "open"]
  /\ bounds' = [bounds EXCEPT !.moves = @ - 1]
  /\ UNCHANGED <<nodes, wires, calls, marks, rows>>

Disconnect(c) ==
  /\ link[c] = "open"
  /\ bounds.moves > 0
  /\ link' = [link EXCEPT ![c] = "closed"]
  /\ bounds' = [bounds EXCEPT !.moves = @ - 1]
  /\ UNCHANGED <<nodes, wires, calls, marks, rows>>

---------------------------------------------------------------------------
(* Sending                                                                 *)

(* The open connections of n that f is for.                                *)
Targets(f, n) == {c \in Open \cap At(n) : UserOf[c] \in To(f)}

(* trySend to each target: `full` are those whose buffer has no room.      *)
Give(f, targets, full) ==
  got' = [c \in Conns |->
    IF c \in targets \ full /\ got[c][f] < 2 THEN [got[c] EXCEPT ![f] = @ + 1] ELSE got[c]]

(* deliver and SendToMultipleUsers on the instance that sends: the local   *)
(* connections get the frame, the receiver's copy of a message earns it    *)
(* a mark, and publishCluster is called next.  `owed` becomes every        *)
(* connection that is open now, wherever it is, and is not full.           *)
Send(f, n, full) ==
  /\ Give(f, Targets(f, n), full)
  /\ owed' = [owed EXCEPT ![f] = {c \in Open : UserOf[c] \in To(f)} \ full]
  /\ calls' = calls \cup {[frame |-> f, node |-> n]}

Reached(f, targets, full) ==
  f.type = "new_message" /\ \E c \in targets \ full : UserOf[c] = "receiver"

(* A user's message, saved, is handed to HandleNewMessage on instance n.   *)
SendMessage(m, n) ==
  LET f == [type |-> "new_message", of |-> m]
  IN  /\ Running(n)
      /\ m \notin sent
      /\ bounds.sends > 0
      /\ bounds' = [bounds EXCEPT !.sends = @ - 1]
      /\ sent' = sent \cup {m}
      /\ \E full \in SUBSET Targets(f, n) :
           /\ Send(f, n, full)
           /\ marks' = marks \cup
                (IF Reached(f, Targets(f, n), full)
                 THEN {[of |-> m, node |-> n, step |-> "mark"]} ELSE {})
      /\ UNCHANGED <<nodes, wires, link, delivered>>

(* Mutant: a message that is marked already is marked again.               *)
UnmarkedAny(m) == TRUE

(* ... WHERE id = ? AND delivered = false.                                 *)
Unmarked(m) == m \notin delivered

(* The goroutine of maybeMarkLivePushDelivered and markRemoteDelivered: it *)
(* marks the row, and if it was the first, tells the sender.               *)
Mark(t) ==
  LET f == [type |-> "message_delivered", of |-> t.of]
  IN  /\ t.step = "mark"
      /\ marks' = marks \ {t}
      /\ delivered' = delivered \cup {t.of}
      /\ IF Unmarked(t.of)
         THEN \E full \in SUBSET Targets(f, t.node) : Send(f, t.node, full)
         ELSE UNCHANGED <<got, owed, calls>>
      /\ UNCHANGED <<nodes, wires, link, sent, bounds>>

(* clusterHasPeers                                                         *)
HasPeers(n) == uptime[n] < AssumeFor \/ heard[n] < PeerTTL

(* Mutant: a full queue makes room by dropping its oldest entry.           *)
EnqueuedOverOldest(q, w) == IF Len(q) < QueueSize THEN Append(q, w) ELSE Append(Tail(q), w)

(* Mutant: the channel has one place more.                                 *)
EnqueuedOneMore(q, w) == IF Len(q) <= QueueSize THEN Append(q, w) ELSE q

(* The send to clusterPublishCh that does not wait.                        *)
Enqueued(q, w) == IF Len(q) < QueueSize THEN Append(q, w) ELSE q

(* publishCluster: not when alone, not before the subscriber has started,  *)
(* and not into a full queue (clusterDropped counts that).                 *)
PublishCluster(s) ==
  LET n == s.node
      f == s.frame
      wanted == HasPeers(n) /\ stage[n] # "booting"
  IN  /\ s \in calls
      /\ calls' = calls \ {s}
      /\ queue' = IF wanted THEN [queue EXCEPT ![n] = Enqueued(@, Wire(f, n))] ELSE queue
      /\ owed' = IF wanted /\ Len(queue[n]) < QueueSize THEN owed
                 ELSE [owed EXCEPT ![f] = @ \cap At(n)]
      /\ UNCHANGED <<nodes, hands, inbox, marks, link, got, sent, delivered, bounds>>

(* A writer takes an entry ...                                             *)
Take(n) ==
  /\ stage[n] \in {"ready", "subscribed"}
  /\ queue[n] # <<>>
  /\ Cardinality(hands[n]) < Workers
  /\ Head(queue[n]) \notin hands[n]
  /\ hands' = [hands EXCEPT ![n] = @ \cup {Head(queue[n])}]
  /\ queue' = [queue EXCEPT ![n] = Tail(@)]
  /\ UNCHANGED <<nodes, inbox, calls, marks, link, rows, bounds>>

(* ... and publishes it to whoever is subscribed at that moment.           *)
Publish(n, w) ==
  /\ w \in hands[n]
  /\ hands' = [hands EXCEPT ![n] = @ \ {w}]
  /\ inbox' = [p \in Nodes |-> IF stage[p] = "subscribed" THEN Append(inbox[p], w) ELSE inbox[p]]
  /\ owed' = IF IsPulse(w) THEN owed
             ELSE [owed EXCEPT ![FrameOf(w)] =
                     {c \in @ : NodeOf[c] = n \/ stage[NodeOf[c]] = "subscribed"}]
  /\ UNCHANGED <<nodes, queue, calls, marks, link, got, sent, delivered, bounds>>

(* PUBLISH fails, and the error is not looked at.                          *)
PublishFails(n, w) ==
  /\ w \in hands[n]
  /\ bounds.lost > 0
  /\ hands' = [hands EXCEPT ![n] = @ \ {w}]
  /\ owed' = IF IsPulse(w) THEN owed ELSE [owed EXCEPT ![FrameOf(w)] = @ \cap At(n)]
  /\ bounds' = [bounds EXCEPT !.lost = @ - 1]
  /\ UNCHANGED <<nodes, queue, inbox, calls, marks, link, got, sent, delivered>>

---------------------------------------------------------------------------
(* Receiving                                                               *)

(* Mutants: the origin is not looked at, or only after the peer was noted. *)
IsOwnNever(w, n) == FALSE

IsOwn(w, n) == w.origin = n

(* Mutant: every frame proves a peer.                                      *)
NotesPeerAlways(w, n) == TRUE

NotesPeer(w, n) == ~IsOwn(w, n)

(* The handler of the subscription: what this instance sent is dropped, a  *)
(* heartbeat only tells that there is a peer, and a frame goes to the      *)
(* local connections and is not published again.  If any of them took a    *)
(* message, markRemoteDelivered has a look (deliverLocalRaw).              *)
Handle(n) ==
  LET w == Head(inbox[n])
  IN  /\ inbox[n] # <<>>
      /\ inbox' = [inbox EXCEPT ![n] = Tail(@)]
      /\ heard' = IF NotesPeer(w, n) THEN [heard EXCEPT ![n] = 0] ELSE heard
      /\ IF IsPulse(w) \/ IsOwn(w, n) THEN UNCHANGED <<got, owed, marks>>
         ELSE LET f == FrameOf(w)
              IN  \E full \in SUBSET Targets(f, n) :
                    /\ Give(f, Targets(f, n), full)
                    /\ owed' = [owed EXCEPT ![f] = @ \ full]
                    /\ marks' = IF f.type = "new_message" /\ full # Targets(f, n)
                                THEN marks \cup {[of |-> f.of, node |-> n, step |-> "look"]}
                                ELSE marks
      /\ UNCHANGED <<stage, uptime, beat, queue, hands, calls, link, sent, delivered, bounds>>

(* markRemoteDelivered: is the receiver on this instance now?              *)
LookForReceiver(t) ==
  /\ t.step = "look"
  /\ marks' = (marks \ {t}) \cup
       (IF \E c \in Open \cap At(t.node) : UserOf[c] = "receiver"
        THEN {[t EXCEPT !.step = "mark"]} ELSE {})
  /\ UNCHANGED <<nodes, wires, calls, link, rows, bounds>>

---------------------------------------------------------------------------
(* Time                                                                    *)

(* startClusterHeartbeat: at the start and then every 10 s.                *)
Beat(n) ==
  /\ stage[n] \in {"ready", "subscribed"}
  /\ beat[n] = Heartbeat
  /\ beat' = [beat EXCEPT ![n] = 0]
  /\ queue' = [queue EXCEPT ![n] = Enqueued(@, Pulse(n))]
  /\ UNCHANGED <<stage, uptime, heard, hands, inbox, calls, marks, link, rows, bounds>>

Idle ==
  /\ calls = {} /\ marks = {}
  /\ \A n \in Nodes : queue[n] = <<>> /\ hands[n] = {} /\ inbox[n] = <<>>

Least(a, b) == IF a < b THEN a ELSE b

(* A step of 5 s passes.  PUBLISH gives up after 2 s and a timer is on     *)
(* time, so what was under way is done by then; an instance that is not    *)
(* subscribed for as long as this counts as a broken subscription.         *)
Tick ==
  /\ bounds.clock
  /\ Idle
  /\ \A n \in Nodes : stage[n] \in {"off", "subscribed"} /\ (Running(n) => beat[n] < Heartbeat)
  /\ uptime' = [n \in Nodes |-> IF Running(n) THEN Least(uptime[n] + 1, AssumeFor) ELSE uptime[n]]
  /\ heard' = [n \in Nodes |-> IF Running(n) THEN Least(heard[n] + 1, PeerTTL) ELSE heard[n]]
  /\ beat' = [n \in Nodes |-> IF Running(n) THEN beat[n] + 1 ELSE beat[n]]
  /\ UNCHANGED <<stage, wires, calls, marks, link, rows, bounds>>

Next ==
  \/ \E n \in Nodes :
       \/ Start(n) \/ MakeReady(n) \/ Subscribe(n) \/ Unsubscribe(n) \/ Stop(n)
       \/ Take(n) \/ Handle(n) \/ Beat(n)
       \/ \E w \in hands[n] : Publish(n, w) \/ PublishFails(n, w)
       \/ \E m \in Messages : SendMessage(m, n)
  \/ \E c \in Conns : Connect(c) \/ Disconnect(c)
  \/ \E s \in calls : PublishCluster(s)
  \/ \E t \in marks : Mark(t) \/ LookForReceiver(t)
  \/ Tick

(* What runs in a process runs on, and time passes.  Nobody has to start,  *)
(* stop, connect or send.                                                  *)
Fairness ==
  /\ \A n \in Nodes :
       /\ WF_vars(MakeReady(n)) /\ WF_vars(Subscribe(n)) /\ WF_vars(Beat(n))
       /\ WF_vars(Take(n)) /\ WF_vars(Handle(n))
       /\ WF_vars(\E w \in hands[n] : Publish(n, w) \/ PublishFails(n, w))
  /\ WF_vars(\E s \in calls : PublishCluster(s))
  /\ WF_vars(\E t \in marks : Mark(t) \/ LookForReceiver(t))
  /\ WF_vars(Tick)

Spec == Init /\ [][Next]_vars
FairSpec == Spec /\ Fairness

---------------------------------------------------------------------------
(* Properties                                                              *)

(* A frame enters the buffer of a connection at most once, and so does the *)
(* tick of a message, though a user may be connected to several instances, *)
(* each of which delivers, publishes and marks ("ikiqat çatdırma yoxdur",  *)
(* cluster.go).                                                            *)
OncePerConnection ==
  \A c \in Conns : \A f \in Frames : got[c][f] <= 1

(* Once nothing is under way, a connection that was open when a frame was  *)
(* sent and still is has the frame, unless its buffer was full, its        *)
(* instance not subscribed, or the sending instance took itself for alone, *)
(* found its queue full, failed to publish or stopped: a frame that was    *)
(* queued is not lost on the way (deliverWithCluster, publishCluster).     *)
QueuedIsDelivered ==
  Idle => \A f \in Frames : \A c \in owed[f] \cap Open : got[c][f] > 0

(* What is put into a queue reaches every connection it is for, exactly    *)
(* once, within the bounds of the queues.                                  *)
FanoutIsExact == TypeOK /\ OncePerConnection /\ QueuedIsDelivered

(* Instances that have run together for as long as a start is presumed to  *)
(* take know of each other although three publications in a row failed:    *)
(* the life of 45 s covers three missed heartbeats of 10 s.                *)
PeerRemembered ==
  \A n, p \in Nodes :
    /\ bounds.breaks = 0
    /\ n # p /\ Running(n) /\ Running(p)
    /\ uptime[n] = AssumeFor /\ uptime[p] = AssumeFor
    => HasPeers(n)

(* An instance that stays alone finds out, and spends no more on the       *)
(* channel but its heartbeat ("C3 / DM-C1", cluster.go).                   *)
LonerNotices ==
  \A n \in Nodes :
    (bounds.clock /\ <>[](\A p \in Nodes : Running(p) <=> p = n)) => <>[]~HasPeers(n)

(* Instances know of each other as long as they are there, and no longer.  *)
PeersAreKnown == []PeerRemembered /\ LonerNotices

(* What markRemoteDelivered's comment says, and the code does not keep: a  *)
(* message is marked delivered only when it entered a buffer of its        *)
(* receiver, not for the sender's own copy.                                *)
TickMeansReached ==
  \A m \in delivered : \E c \in Conns :
    UserOf[c] = "receiver" /\ got[c][[type |-> "new_message", of |-> m]] > 0

=============================================================================
