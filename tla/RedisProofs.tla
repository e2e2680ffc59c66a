----------------------------- MODULE RedisProofs ----------------------------
(***************************************************************************)
(* What holds of the two modules around Redis for every value of their      *)
(* constants.  The breaker: its types with the mutex, and that a half-open  *)
(* breaker always has the call under way that will end it.  The frames      *)
(* between instances: each is in one place and on its way from one          *)
(* instance, so that it reaches a connection once, and those it is owed to. *)
(***************************************************************************)
EXTENDS CircuitBreaker, ClusterFanout, FiniteSetTheorems, TLAPS

-----------------------------------------------------------------------------
(* The breaker                                                              *)

IInv == BreakerTypeOK /\ HalfOpenHasTrial

CallType == [stage : Stages, trial : BOOLEAN]

\* The initial state satisfies the invariant.
LEMMA InitInvariant ==
  ASSUME BreakerAssumption, BreakerInit
  PROVE  IInv
  BY DEF BreakerAssumption, BreakerInit, IInv, BreakerTypeOK, HalfOpenHasTrial, NoCall, Stages

\* A step of a goroutine changes that goroutine's record alone.
LEMMA StepIsLocal ==
  ASSUME BreakerTypeOK, NEW c \in Calls, Steps(c)
  PROVE  \E r \in CallType : call' = [call EXCEPT ![c] = r]
  <1>1. call[c] \in CallType
    BY DEF BreakerTypeOK, CallType
  <1>2. \A s \in Stages : [call[c] EXCEPT !.stage = s] \in CallType
    BY <1>1 DEF CallType
  <1>3. NoCall \in CallType /\ \A t \in BOOLEAN : [stage |-> "calling", trial |-> t] \in CallType
    BY DEF NoCall, CallType, Stages
  <1>4. ASSUME NEW s \in Stages, Goes(c, s)
        PROVE  \E r \in CallType : call' = [call EXCEPT ![c] = r]
    <2>1. call' = [call EXCEPT ![c] = [call[c] EXCEPT !.stage = s]]
      BY <1>4 DEF Goes
    <2> QED
      BY <1>2, <2>1
  <1>5. ASSUME Ends(c)
        PROVE  \E r \in CallType : call' = [call EXCEPT ![c] = r]
    BY <1>3, <1>5 DEF Ends
  <1>6. ASSUME NEW t \in BOOLEAN, call' = [call EXCEPT ![c] = [stage |-> "calling", trial |-> t]]
        PROVE  \E r \in CallType : call' = [call EXCEPT ![c] = r]
    BY <1>3, <1>6
  <1>7. \/ Ends(c)
        \/ \E s \in Stages : Goes(c, s)
        \/ \E t \in BOOLEAN : call' = [call EXCEPT ![c] = [stage |-> "calling", trial |-> t]]
    BY DEF Steps, Allow, Look, Race, Answer, Success, More, Close, Clear, Fail, Stamp, Reopen,
           Count, StampCounted, OpenCounted, Stages
  <1> QED
    BY <1>4, <1>5, <1>6, <1>7

\* Only a goroutine that finds the mutex free, or has it, holds it afterwards.
LEMMA StepHolds ==
  ASSUME BreakerTypeOK, NEW c \in Calls, Steps(c), call'[c].stage \in {"counted", "marking"}
  PROVE  MutexFree \/ call[c].stage \in {"counted", "marking"}
  <1>1. call[c] \in CallType
    BY DEF BreakerTypeOK, CallType
  <1> QED
    BY <1>1 DEF BreakerTypeOK, CallType, Steps, Allow, Look, Race, Answer, Success, More, Close, Clear, Fail,
       Stamp, Reopen, Count, StampCounted, OpenCounted, Goes, Ends, Doing, NoCall

\* A step keeps the types and the mutex.
LEMMA StepTypes ==
  ASSUME BreakerAssumption, BreakerTypeOK, NEW c \in Calls, Steps(c)
  PROVE  BreakerTypeOK'
  <1>1. PICK r \in CallType : call' = [call EXCEPT ![c] = r]
    BY StepIsLocal
  <1>2. call' \in [Calls -> CallType] /\ \A d \in Calls : d # c => call'[d] = call[d]
    BY <1>1 DEF BreakerTypeOK, CallType
  <1>3. state' \in {"closed", "open", "half"} /\ cooled' \in BOOLEAN
    BY DEF BreakerTypeOK, Steps, Allow, Look, Race, Answer, Success, Close, Clear, Fail, Stamp, Reopen,
           Count, StampCounted, OpenCounted
  <1>4. errors' \in 0..Threshold
    <2>1. CASE Count(c)
      <3>1. PICK kept \in 0..errors : errors' = IF kept < Threshold THEN kept + 1 ELSE kept
        BY <2>1 DEF Count
      <3> QED
        BY <3>1 DEF BreakerTypeOK, BreakerAssumption
    <2>2. CASE ~Count(c)
      BY <2>2 DEF BreakerAssumption, BreakerTypeOK, Steps, Allow, Look, Race, Answer, Success, Close, Clear,
         Fail, Stamp, Reopen, StampCounted, OpenCounted
    <2> QED
      BY <2>1, <2>2
  <1>5. UNCHANGED <<up, outages>>
    BY DEF Steps, Allow, Look, Race, Answer, Success, Close, Clear, Fail, Stamp, Reopen, Count,
           StampCounted, OpenCounted
  <1>6. ASSUME NEW d \in Calls, NEW e \in Calls,
               {call'[d].stage, call'[e].stage} \subseteq {"counted", "marking"}
        PROVE  d = e
    <2>1. d # c /\ e # c => d = e
      BY <1>2, <1>6 DEF BreakerTypeOK
    <2>2. call'[c].stage \in {"counted", "marking"} =>
            \A f \in Calls : f # c => call'[f].stage \notin {"counted", "marking"}
      BY <1>2, StepHolds DEF BreakerTypeOK, MutexFree
    <2> QED
      BY <1>6, <2>1, <2>2
  <1> QED
    BY <1>2, <1>3, <1>4, <1>5, <1>6 DEF BreakerTypeOK, CallType

\* A step that leaves the breaker half-open leaves its trial under way.
LEMMA StepTrial ==
  ASSUME BreakerAssumption, IInv, NEW c \in Calls, Steps(c)
  PROVE  HalfOpenHasTrial'
  <1>0. BreakerTypeOK /\ HalfOpenHasTrial
    BY DEF IInv
  <1>1. PICK r \in CallType : call' = [call EXCEPT ![c] = r]
    BY <1>0, StepIsLocal
  <1>2. call[c] \in CallType /\ \A d \in Calls : d # c => call'[d] = call[d]
    BY <1>0, <1>1 DEF BreakerTypeOK, CallType
  <1> SUFFICES ASSUME state' = "half"
               PROVE  HalfOpenHasTrial'
    BY DEF HalfOpenHasTrial
  <1>3. CASE state = "half"
    <2>1. PICK d \in Calls :
            /\ call[d].trial
            /\ call[d].stage \in {"calling", "succeeded", "failed", "closing", "stamping", "opening"}
      BY <1>0, <1>3 DEF HalfOpenHasTrial
    <2>2. CASE d # c
      BY <1>2, <2>1, <2>2 DEF HalfOpenHasTrial
    <2>3. CASE d = c
      <3>1. ASSUME NEW s \in Stages, Goes(c, s)
            PROVE  call'[c].trial /\ call'[c].stage = s
        BY <1>0, <1>2, <2>1, <2>3, <3>1 DEF Goes, BreakerTypeOK, CallType
      <3>2. Answer(c) \/ Success(c) \/ Fail(c) \/ Stamp(c)
        BY <1>3, <2>1, <2>3 DEF Steps, Allow, Look, Race, Close, Clear, Reopen, Count, StampCounted,
           OpenCounted, Doing
      <3>3. Goes(c, "succeeded") \/ Goes(c, "failed") \/ Goes(c, "closing")
              \/ Goes(c, "stamping") \/ Goes(c, "opening")
        BY <1>3, <3>2 DEF Answer, Success, ClosesFrom, Fail, Stamp
      <3>4. call'[c].trial /\ call'[c].stage \in {"succeeded", "failed", "closing", "stamping", "opening"}
        BY <3>1, <3>3 DEF Stages
      <3> QED
        BY <3>4 DEF HalfOpenHasTrial
    <2> QED
      BY <2>2, <2>3
  <1>4. CASE state # "half"
    <2>0. state' # state /\ state' # "closed" /\ state' # "open"
      BY <1>4
    <2>1. Race(c) /\ state = "open"
      <3>1. Race(c)
        BY <2>0 DEF Steps, Allow, Look, Answer, Success, Close, Clear, Fail, Stamp, Reopen, Count,
           StampCounted, OpenCounted
      <3> QED
        BY <2>0, <3>1 DEF Race
    <2>2. call'[c] = [stage |-> "calling", trial |-> TRUE]
      BY <1>0, <2>1 DEF Race, BreakerTypeOK
    <2> QED
      BY <2>2 DEF HalfOpenHasTrial
  <1> QED
    BY <1>3, <1>4

\* Every step keeps the invariant.
LEMMA NextInvariant ==
  ASSUME BreakerAssumption, IInv, [BreakerNext]_breakerVars
  PROVE  IInv'
  <1>1. ASSUME NEW c \in Calls, Steps(c)
        PROVE  IInv'
    BY <1>1, StepTypes, StepTrial DEF IInv
  <1>2. CASE Cool \/ GoesDown \/ ComesUp
    <2>1. UNCHANGED <<state, call, errors>>
      BY <1>2 DEF Cool, GoesDown, ComesUp
    <2>2. cooled' \in BOOLEAN /\ up' \in BOOLEAN
      BY <1>2 DEF Cool, GoesDown, ComesUp, IInv, BreakerTypeOK
    <2>3. outages' \in 0..MaxOutages
      BY <1>2 DEF Cool, GoesDown, ComesUp, IInv, BreakerTypeOK, BreakerAssumption
    <2> QED
      BY <2>1, <2>2, <2>3 DEF IInv, BreakerTypeOK, HalfOpenHasTrial
  <1>3. CASE UNCHANGED breakerVars
    BY <1>3 DEF breakerVars, IInv, BreakerTypeOK, HalfOpenHasTrial
  <1> QED
    BY <1>1, <1>2, <1>3 DEF BreakerNext

\* Allow, Success, Failure: b.mu has one holder, and the half-open breaker, which
\* refuses every call, is never left without the trial that ends it, whatever the
\* number of goroutines.
THEOREM BreakerRule ==
  ASSUME BreakerAssumption
  PROVE  BreakerSpec => []BreakerIsSound
  <1>1. IInv => BreakerIsSound
    BY DEF IInv, BreakerIsSound
  <1> QED
    BY <1>1, InitInvariant, NextInvariant, PTL DEF BreakerSpec

-----------------------------------------------------------------------------
(* The frames between instances: the invariant                              *)

(* A frame of a message that is sent, or marked.                            *)
Started(f) == IF f.type = "new_message" THEN f.of \in sent ELSE f.of \in delivered

(* Where a frame of instance n may be: not yet with publishCluster, in the  *)
(* queue, with a writer; on its way to instance p.                          *)
Called(f, n) == [frame |-> f, node |-> n] \in calls
Queued(f, n) == Wire(f, n) \in ToSet(queue[n])
InHand(f, n) == Wire(f, n) \in hands[n]
Arriving(f, n, p) == Wire(f, n) \in ToSet(inbox[p])

Waiting(f, n) == Called(f, n) \/ Queued(f, n) \/ InHand(f, n)
Underway(f, n) == Waiting(f, n) \/ \E p \in Nodes : Arriving(f, n, p)

(* It is sent once, ...                                                     *)
Unsent(f) ==
  ~Started(f) =>
    /\ \A n \in Nodes : ~Underway(f, n)
    /\ \A c \in Conns : got[c][f] = 0

(* ... by one instance, ...                                                 *)
OneOrigin(f) == \A n, m \in Nodes : Underway(f, n) /\ Underway(f, m) => n = m

(* ... and is in one of those places, ...                                   *)
OnePlace(f) ==
  \A n \in Nodes :
    /\ Called(f, n) => ~Queued(f, n) /\ ~InHand(f, n)
    /\ Queued(f, n) => ~InHand(f, n)
    /\ Waiting(f, n) => \A p \in Nodes : ~Arriving(f, n, p)

(* ... so that those it is on its way to have not got it yet, ...           *)
NotYet(f) ==
  \A n \in Nodes, c \in Conns :
    NodeOf[c] # n /\ (Waiting(f, n) \/ Arriving(f, n, NodeOf[c])) => got[c][f] = 0

(* ... and those to whom it is owed have got it, or it is on its way.       *)
OnTheWay(f) ==
  \A c \in owed[f] :
    /\ link[c] # "unused" /\ UserOf[c] \in To(f)
    /\ link[c] = "open" /\ got[c][f] = 0 =>
         \E n \in Nodes \ {NodeOf[c]} : Waiting(f, n) \/ Arriving(f, n, NodeOf[c])

Travels(f) == Unsent(f) /\ OneOrigin(f) /\ OnePlace(f) /\ NotYet(f) /\ OnTheWay(f)

(* Nothing but heartbeats is twice in a sequence.                           *)
Once(q) == \A i, j \in DOMAIN q : q[i] = q[j] /\ ~IsPulse(q[i]) => i = j

NodesTyped ==
  /\ stage \in [Nodes -> {"off", "booting", "ready", "subscribed"}]
  /\ uptime \in [Nodes -> 0 .. AssumeFor]
  /\ heard \in [Nodes -> 0 .. PeerTTL]
  /\ beat \in [Nodes -> 0 .. Heartbeat]
  /\ bounds \in ScenarioSet

WiresTyped ==
  /\ queue \in [Nodes -> Seq(Wires)]
  /\ inbox \in [Nodes -> Seq(Wires)]
  /\ hands \in [Nodes -> SUBSET Wires]
  /\ \A n \in Nodes :
       /\ Len(queue[n]) <= QueueSize
       /\ IsFiniteSet(hands[n]) /\ Cardinality(hands[n]) <= Workers
       /\ Once(queue[n]) /\ Once(inbox[n])
       /\ \A w \in ToSet(queue[n]) \cup hands[n] : w.origin = n

RowsTyped ==
  /\ calls \subseteq [frame: Frames, node: Nodes]
  /\ marks \subseteq [of: Messages, node: Nodes, step: {"look", "mark"}]
  /\ \A t \in marks : t.of \in sent
  /\ link \in [Conns -> {"unused", "open", "closed"}]
  /\ got \in [Conns -> [Frames -> 0 .. 1]]
  /\ owed \in [Frames -> SUBSET Conns]
  /\ sent \subseteq Messages
  /\ delivered \subseteq sent

FanoutInv ==
  NodesTyped /\ WiresTyped /\ RowsTyped /\ \A f \in Frames : Travels(f)

-----------------------------------------------------------------------------
(* Sequences and frames                                                     *)

(* What is appended comes last.                                             *)
LEMMA Appended ==
  ASSUME NEW q \in Seq(Wires), NEW w \in Wires, Once(q), IsPulse(w) \/ w \notin ToSet(q)
  PROVE  /\ Append(q, w) \in Seq(Wires) /\ Once(Append(q, w))
         /\ Len(Append(q, w)) = Len(q) + 1
         /\ ToSet(Append(q, w)) = ToSet(q) \cup {w}
<1> DEFINE r == Append(q, w)
<1>1. /\ r \in Seq(Wires) /\ Len(r) = Len(q) + 1 /\ r[Len(q) + 1] = w
      /\ \A i \in 1..Len(q) : r[i] = q[i]
  OBVIOUS
<1>2. DOMAIN r = 1..(Len(q) + 1) /\ DOMAIN q = 1..Len(q) /\ Len(q) \in Nat
  BY <1>1
<1> HIDE DEF r
<1>3. Once(r)
  BY <1>1, <1>2 DEF Once, ToSet, IsPulse
<1>4. ToSet(r) \subseteq ToSet(q) \cup {w}
  BY <1>1, <1>2 DEF ToSet
<1>5. ToSet(q) \subseteq ToSet(r) /\ w \in ToSet(r)
  BY <1>1, <1>2 DEF ToSet
<1> QED
  BY <1>1, <1>3, <1>4, <1>5 DEF r

(* What is taken off comes no second time.                                  *)
LEMMA TakenOff ==
  ASSUME NEW q \in Seq(Wires), Once(q), q # <<>>
  PROVE  /\ Tail(q) \in Seq(Wires) /\ Once(Tail(q)) /\ Len(Tail(q)) = Len(q) - 1
         /\ Head(q) \in Wires
         /\ ToSet(q) = ToSet(Tail(q)) \cup {Head(q)}
         /\ ~IsPulse(Head(q)) => Head(q) \notin ToSet(Tail(q))
<1> DEFINE r == Tail(q)
<1>1. /\ r \in Seq(Wires) /\ Len(r) = Len(q) - 1 /\ Head(q) = q[1]
      /\ \A i \in 1..Len(r) : r[i] = q[i + 1]
  OBVIOUS
<1>2. DOMAIN r = 1..(Len(q) - 1) /\ DOMAIN q = 1..Len(q) /\ Len(q) \in Nat \ {0}
  BY <1>1
<1>3. Head(q) \in Wires
  BY <1>1, <1>2
<1> HIDE DEF r
<1>4. Once(r)
  <2> SUFFICES ASSUME NEW i \in DOMAIN r, NEW j \in DOMAIN r, r[i] = r[j], ~IsPulse(r[i])
               PROVE  i = j
    BY DEF Once
  <2>1. /\ i + 1 \in DOMAIN q /\ j + 1 \in DOMAIN q
        /\ q[i + 1] = r[i] /\ q[j + 1] = r[j]
    BY <1>1, <1>2
  <2>2. i + 1 = j + 1
    BY <2>1 DEF Once
  <2> QED
    BY <1>2, <2>2
<1>5. ToSet(r) \subseteq ToSet(q) /\ Head(q) \in ToSet(q)
  BY <1>1, <1>2 DEF ToSet
<1>6. ASSUME NEW i \in DOMAIN q PROVE q[i] \in ToSet(r) \cup {Head(q)}
  <2>1. CASE i = 1
    BY <1>1, <2>1
  <2>2. CASE i # 1
    <3>1. i - 1 \in DOMAIN r /\ r[i - 1] = q[i]
      BY <1>1, <1>2, <2>2
    <3> QED
      BY <3>1 DEF ToSet
  <2> QED
    BY <2>1, <2>2
<1>7. ToSet(q) = ToSet(r) \cup {Head(q)}
  BY <1>5, <1>6 DEF ToSet
<1>8. ~IsPulse(Head(q)) => Head(q) \notin ToSet(r)
  BY <1>1, <1>2 DEF Once, ToSet, IsPulse
<1> QED
  BY <1>1, <1>3, <1>4, <1>7, <1>8 DEF r

(* An empty sequence, and the entries of one.                               *)
LEMMA NothingIn == ToSet(<<>>) = {} /\ Once(<<>>) /\ <<>> \in Seq(Wires) /\ Len(<<>>) = 0
  BY DEF ToSet, Once

(* What is in a sequence of the channel is a frame or a heartbeat.          *)
LEMMA Entries ==
  ASSUME NEW q \in Seq(Wires)
  PROVE  ToSet(q) \subseteq Wires
  BY DEF ToSet

(* A frame on the channel is its message's, of its instance.                *)
LEMMA WireOf ==
  ASSUME NEW f \in Frames, NEW n \in Nodes
  PROVE  /\ Wire(f, n) \in Wires /\ ~IsPulse(Wire(f, n)) /\ Wire(f, n).origin = n
         /\ FrameOf(Wire(f, n)) = f
         /\ \A g \in Frames, m \in Nodes : Wire(f, n) = Wire(g, m) => f = g /\ n = m
<1>1. f = [type |-> f.type, of |-> f.of]
  BY DEF Frames
<1>2. ASSUME NEW g \in Frames PROVE g = [type |-> g.type, of |-> g.of]
  BY DEF Frames
<1> QED
  BY <1>1, <1>2 DEF Wire, Wires, Frames, IsPulse, FrameOf

(* What is on the channel and no heartbeat is the frame of an instance.     *)
LEMMA FrameOnWire ==
  ASSUME NEW w \in Wires
  PROVE  /\ w.origin \in Nodes
         /\ ~IsPulse(w) => FrameOf(w) \in Frames /\ w = Wire(FrameOf(w), w.origin)
  BY DEF Wires, Frames, IsPulse, FrameOf, Wire

(* A heartbeat is on the channel, and is no frame.                          *)
LEMMA PulseOnWire ==
  ASSUME NEW n \in Nodes
  PROVE  /\ Pulse(n) \in Wires /\ IsPulse(Pulse(n)) /\ Pulse(n).origin = n
         /\ \A f \in Frames, m \in Nodes : Wire(f, m) # Pulse(n)
  BY DEF Pulse, Wires, IsPulse, Wire, Frames

-----------------------------------------------------------------------------
(* What a step does to frames                                               *)

(* Where frames are does not change.                                        *)
LEMMA SamePlaces ==
  ASSUME UNCHANGED <<wires, calls>>
  PROVE  \A g, m, p :
           /\ Called(g, m)' <=> Called(g, m)
           /\ Queued(g, m)' <=> Queued(g, m)
           /\ InHand(g, m)' <=> InHand(g, m)
           /\ Arriving(g, m, p)' <=> Arriving(g, m, p)
  BY DEF wires, Called, Queued, InHand, Arriving

(* Connections come and go.                                                 *)
LEMMA StillTravel ==
  ASSUME FanoutInv, UNCHANGED <<wires, calls, got, owed, sent, delivered>>,
         \A c \in Conns :
           /\ link'[c] = "open" => link[c] \in {"open", "unused"}
           /\ link'[c] = "unused" => link[c] = "unused"
  PROVE  \A f \in Frames : Travels(f)'
<1> SUFFICES ASSUME NEW f \in Frames PROVE Travels(f)'
  OBVIOUS
<1>1. Travels(f) /\ owed \in [Frames -> SUBSET Conns]
  BY DEF FanoutInv, RowsTyped
<1>2. Started(f)' <=> Started(f)
  BY DEF Started
<1>3. OnTheWay(f)'
  <2> SUFFICES ASSUME NEW c \in owed[f]
               PROVE  /\ link'[c] # "unused" /\ UserOf[c] \in To(f)
                      /\ link'[c] = "open" /\ got[c][f] = 0 =>
                           \E n \in Nodes \ {NodeOf[c]} :
                             (Waiting(f, n) \/ Arriving(f, n, NodeOf[c]))'
    BY DEF OnTheWay
  <2>1. c \in Conns /\ link[c] # "unused" /\ UserOf[c] \in To(f)
    BY <1>1 DEF Travels, OnTheWay
  <2>2. link'[c] = "open" => link[c] = "open"
    BY <2>1
  <2>3. link[c] = "open" /\ got[c][f] = 0 =>
          \E n \in Nodes \ {NodeOf[c]} : Waiting(f, n) \/ Arriving(f, n, NodeOf[c])
    BY <1>1 DEF Travels, OnTheWay
  <2> QED
    BY <2>1, <2>2, <2>3, SamePlaces DEF Waiting
<1> QED
  BY <1>1, <1>2, <1>3, SamePlaces DEF Travels, Unsent, OneOrigin, OnePlace, NotYet, Waiting, Underway

(* What it means that a frame enters buffers.                               *)
LEMMA GiveCounts ==
  ASSUME got \in [Conns -> [Frames -> 0 .. 1]], NEW f \in Frames,
         NEW targets \in SUBSET Conns, NEW full, Give(f, targets, full),
         \A c \in targets : got[c][f] = 0
  PROVE  /\ got' \in [Conns -> [Frames -> 0 .. 1]]
         /\ \A c \in targets \ full : got'[c][f] = 1
         /\ \A c \in Conns : c \notin targets \ full => got'[c] = got[c]
         /\ \A c \in Conns : \A g \in Frames \ {f} : got'[c][g] = got[c][g]
<1> DEFINE new(c) == IF c \in targets \ full THEN [got[c] EXCEPT ![f] = @ + 1] ELSE got[c]
<1>1. got' = [c \in Conns |-> new(c)]
  BY DEF Give
<1>2. ASSUME NEW c \in Conns
      PROVE  /\ new(c) \in [Frames -> 0 .. 1]
             /\ c \in targets \ full => new(c)[f] = 1
             /\ c \notin targets \ full => new(c) = got[c]
             /\ \A g \in Frames \ {f} : new(c)[g] = got[c][g]
  OBVIOUS
<1> HIDE DEF new
<1> QED
  BY <1>1, <1>2

(* A frame is sent for the first time.                                      *)
LEMMA SendTravels ==
  ASSUME FanoutInv, NEW f \in Frames, NEW n \in Nodes, ~Started(f),
         NEW full \in SUBSET Targets(f, n), Send(f, n, full), UNCHANGED <<wires, link>>,
         \A g \in Frames : Started(g)' <=> Started(g) \/ g = f
  PROVE  /\ calls' \subseteq [frame: Frames, node: Nodes]
         /\ got' \in [Conns -> [Frames -> 0 .. 1]]
         /\ owed' \in [Frames -> SUBSET Conns]
         /\ \A g \in Frames : Travels(g)'
<1>1. /\ got \in [Conns -> [Frames -> 0 .. 1]] /\ owed \in [Frames -> SUBSET Conns]
      /\ calls \subseteq [frame: Frames, node: Nodes]
      /\ link \in [Conns -> {"unused", "open", "closed"}]
  BY DEF FanoutInv, RowsTyped
<1>2. Travels(f) /\ Unsent(f)
  BY DEF FanoutInv, Travels
<1>3. /\ \A m \in Nodes : ~Underway(f, m)
      /\ \A c \in Conns : got[c][f] = 0
  BY <1>2 DEF Unsent
<1>4. Targets(f, n) \in SUBSET Conns
  BY DEF Targets, Open
<1> DEFINE new == {c \in Open : UserOf[c] \in To(f)} \ full
<1>5. /\ Give(f, Targets(f, n), full)
      /\ owed' = [owed EXCEPT ![f] = new]
      /\ calls' = calls \cup {[frame |-> f, node |-> n]}
  BY DEF Send
<1>6. /\ got' \in [Conns -> [Frames -> 0 .. 1]]
      /\ \A c \in Targets(f, n) \ full : got'[c][f] = 1
      /\ \A c \in Conns : c \notin Targets(f, n) \ full => got'[c] = got[c]
      /\ \A c \in Conns : \A g \in Frames \ {f} : got'[c][g] = got[c][g]
  <2>1. PICK targets \in SUBSET Conns : targets = Targets(f, n)
    BY <1>4
  <2>2. Give(f, targets, full) /\ \A c \in targets : got[c][f] = 0
    BY <1>3, <1>5, <2>1
  <2>3. /\ got' \in [Conns -> [Frames -> 0 .. 1]]
        /\ \A c \in targets \ full : got'[c][f] = 1
        /\ \A c \in Conns : c \notin targets \ full => got'[c] = got[c]
        /\ \A c \in Conns : \A g \in Frames \ {f} : got'[c][g] = got[c][g]
    BY <1>1, <2>2, GiveCounts
  <2> QED
    BY <2>1, <2>3
<1>7. new \in SUBSET Conns
  BY DEF Open
<1>8. \A g \in Frames, m \in Nodes :
        /\ Called(g, m)' <=> Called(g, m) \/ (g = f /\ m = n)
        /\ Queued(g, m)' <=> Queued(g, m)
        /\ InHand(g, m)' <=> InHand(g, m)
        /\ \A p : Arriving(g, m, p)' <=> Arriving(g, m, p)
  BY <1>5 DEF wires, Called, Queued, InHand, Arriving
<1>9. ASSUME NEW g \in Frames, g # f
      PROVE  Travels(g)'
  <2>1. /\ Travels(g) /\ owed'[g] = owed[g] /\ (Started(g)' <=> Started(g))
        /\ owed[g] \subseteq Conns /\ \A c \in Conns : got'[c][g] = got[c][g]
    BY <1>1, <1>5, <1>6, <1>9 DEF FanoutInv
  <2> QED
    BY <1>8, <1>9, <2>1 DEF Travels, Unsent, OneOrigin, OnePlace, NotYet, OnTheWay, Waiting, Underway
<1>10. Travels(f)'
  <2>1. /\ Unsent(f)' /\ OneOrigin(f)' /\ OnePlace(f)'
    BY <1>3, <1>8 DEF Unsent, OneOrigin, OnePlace, Waiting, Underway
  <2>2. NotYet(f)'
    <3>1. ASSUME NEW c \in Conns, NodeOf[c] # n PROVE got'[c][f] = 0
      BY <1>3, <1>6, <3>1 DEF Targets, At
    <3> QED
      BY <1>3, <1>8, <3>1, ConnsAssumption DEF NotYet, Waiting, Underway
  <2>3. OnTheWay(f)'
    <3> SUFFICES ASSUME NEW c \in new
                 PROVE  /\ link[c] # "unused" /\ UserOf[c] \in To(f)
                        /\ got'[c][f] = 0 => n # NodeOf[c]
      <4>1. owed'[f] = new
        BY <1>1, <1>5
      <4>2. Waiting(f, n)'
        BY <1>8 DEF Waiting
      <4> HIDE DEF new
      <4> QED
        BY <4>1, <4>2 DEF OnTheWay
    <3>1. NodeOf[c] = n => got'[c][f] = 1
      BY <1>6 DEF Targets, At, Open
    <3> QED
      BY <3>1 DEF Open
  <2> QED
    BY <2>1, <2>2, <2>3 DEF Travels
<1> QED
  BY <1>1, <1>5, <1>6, <1>7, <1>9, <1>10

-----------------------------------------------------------------------------
(* The channel                                                              *)

(* A queue that is put in the place of an instance's.                       *)
LEMMA QueuePut ==
  ASSUME WiresTyped, NEW n \in Nodes, NEW q \in Seq(Wires), Once(q), Len(q) <= QueueSize,
         \A w \in ToSet(q) : w.origin = n,
         queue' = [queue EXCEPT ![n] = q], UNCHANGED <<hands, inbox>>
  PROVE  WiresTyped' /\ queue'[n] = q /\ \A m \in Nodes \ {n} : queue'[m] = queue[m]
<1>1. queue' \in [Nodes -> Seq(Wires)] /\ queue'[n] = q
      /\ \A m \in Nodes \ {n} : queue'[m] = queue[m]
  BY DEF WiresTyped
<1>2. \A m \in Nodes :
        /\ Len(queue'[m]) <= QueueSize /\ Once(queue'[m])
        /\ \A w \in ToSet(queue'[m]) : w.origin = m
  BY <1>1 DEF WiresTyped
<1> QED
  BY <1>1, <1>2 DEF WiresTyped

(* A frame that is new to the queue has a place there, if there is one.     *)
LEMMA Queueing ==
  ASSUME WiresTyped, NEW n \in Nodes, NEW w \in Wires, w.origin = n,
         IsPulse(w) \/ w \notin ToSet(queue[n]),
         queue' = [queue EXCEPT ![n] = Enqueued(@, w)], UNCHANGED <<hands, inbox>>
  PROVE  /\ WiresTyped'
         /\ \A m \in Nodes \ {n} : queue'[m] = queue[m]
         /\ ToSet(queue'[n]) = IF Len(queue[n]) < QueueSize THEN ToSet(queue[n]) \cup {w}
                               ELSE ToSet(queue[n])
<1>1. PICK q \in Seq(Wires) : q = queue[n]
  BY DEF WiresTyped
<1>2. /\ Once(q) /\ Len(q) <= QueueSize /\ \A v \in ToSet(q) : v.origin = n
      /\ IsPulse(w) \/ w \notin ToSet(q)
  BY <1>1 DEF WiresTyped
<1>3. QueueSize \in Nat /\ Len(q) \in Nat
  BY NumbersAssumption
<1>4. queue' = [queue EXCEPT ![n] = Enqueued(q, w)]
  BY <1>1
<1>5. CASE Len(q) < QueueSize
  <2>1. PICK r \in Seq(Wires) : r = Append(q, w)
    BY <1>2, Appended
  <2>2. Once(r) /\ Len(r) = Len(q) + 1 /\ ToSet(r) = ToSet(q) \cup {w}
    BY <1>2, <2>1, Appended
  <2>3. queue' = [queue EXCEPT ![n] = r]
    BY <1>4, <1>5, <2>1 DEF Enqueued
  <2>4. Len(r) <= QueueSize /\ \A v \in ToSet(r) : v.origin = n
    BY <1>2, <1>3, <1>5, <2>2
  <2>5. WiresTyped' /\ queue'[n] = r /\ \A m \in Nodes \ {n} : queue'[m] = queue[m]
    BY <2>2, <2>3, <2>4, QueuePut
  <2> QED
    BY <1>1, <1>5, <2>2, <2>5
<1>6. CASE ~(Len(q) < QueueSize)
  <2>1. queue' = [queue EXCEPT ![n] = q]
    BY <1>4, <1>6 DEF Enqueued
  <2>2. WiresTyped' /\ queue'[n] = q /\ \A m \in Nodes \ {n} : queue'[m] = queue[m]
    BY <1>2, <2>1, QueuePut
  <2> QED
    BY <1>1, <1>6, <2>2
<1> QED
  BY <1>5, <1>6

(* What frames are queued once one is, or a heartbeat.                      *)
LEMMA NowQueued ==
  ASSUME NEW n \in Nodes, NEW w, \A m \in Nodes \ {n} : queue'[m] = queue[m],
         ToSet(queue'[n]) = ToSet(queue[n]) \cup {w}
  PROVE  \A g \in Frames, m \in Nodes :
           Queued(g, m)' <=> Queued(g, m) \/ (m = n /\ Wire(g, m) = w)
  BY DEF Queued

(* publishCluster queues a frame, or gives it up for the other instances.   *)
LEMMA PublishClusterKeeps ==
  ASSUME FanoutInv, NEW s \in calls, PublishCluster(s)
  PROVE  FanoutInv'
<1>1. NodesTyped /\ WiresTyped /\ RowsTyped /\ \A g \in Frames : Travels(g)
  BY DEF FanoutInv
<1>2. PICK f \in Frames, n \in Nodes : s = [frame |-> f, node |-> n]
  BY <1>1 DEF RowsTyped
<1> DEFINE b == HasPeers(n) /\ stage[n] # "booting" /\ Len(queue[n]) < QueueSize
<1>3. /\ Called(f, n) /\ calls' = calls \ {s}
      /\ \/ /\ HasPeers(n) /\ stage[n] # "booting"
            /\ queue' = [queue EXCEPT ![n] = Enqueued(@, Wire(f, n))]
         \/ queue' = queue /\ ~b
      /\ owed' = IF b THEN owed ELSE [owed EXCEPT ![f] = @ \cap At(n)]
      /\ UNCHANGED <<nodes, hands, inbox, marks, link, got, sent, delivered, bounds>>
  BY <1>2 DEF PublishCluster, Called
<1>4. ~Queued(f, n) /\ ~InHand(f, n) /\ \A p \in Nodes : ~Arriving(f, n, p)
  BY <1>1, <1>3 DEF Travels, OnePlace, Waiting
<1>5. NodesTyped'
  BY <1>1, <1>3 DEF NodesTyped, nodes
<1>6. WiresTyped' /\ \A g \in Frames, m \in Nodes :
                       Queued(g, m)' <=> Queued(g, m) \/ (b /\ g = f /\ m = n)
  <2>1. CASE /\ HasPeers(n) /\ stage[n] # "booting"
             /\ queue' = [queue EXCEPT ![n] = Enqueued(@, Wire(f, n))]
    <3>1. /\ WiresTyped'
          /\ \A m \in Nodes \ {n} : queue'[m] = queue[m]
          /\ ToSet(queue'[n]) = IF Len(queue[n]) < QueueSize THEN ToSet(queue[n]) \cup {Wire(f, n)}
                                ELSE ToSet(queue[n])
      <4>1. /\ Wire(f, n) \in Wires /\ Wire(f, n).origin = n
            /\ Wire(f, n) \notin ToSet(queue[n])
        BY <1>4, WireOf DEF Queued
      <4> QED
        BY <1>1, <1>3, <2>1, <4>1, Queueing
    <3>2. \A g \in Frames, m \in Nodes : Wire(g, m) = Wire(f, n) <=> g = f /\ m = n
      BY WireOf
    <3>3. CASE b
      BY <3>1, <3>2, <3>3, NowQueued
    <3>4. CASE ~b
      <4>1. ASSUME NEW m \in Nodes PROVE ToSet(queue'[m]) = ToSet(queue[m])
        BY <2>1, <3>1, <3>4
      <4> QED
        BY <3>1, <3>4, <4>1 DEF Queued
    <3> QED
      BY <3>3, <3>4
  <2>2. CASE queue' = queue /\ ~b
    BY <1>1, <1>3, <2>2 DEF WiresTyped, Queued
  <2> QED
    BY <1>3, <2>1, <2>2
<1>7. RowsTyped'
  <2>1. owed' \in [Frames -> SUBSET Conns]
    BY <1>1, <1>3 DEF RowsTyped
  <2> QED
    BY <1>1, <1>3, <2>1 DEF RowsTyped
<1>8. \A g \in Frames, m \in Nodes :
        /\ Called(g, m)' <=> Called(g, m) /\ ~(g = f /\ m = n)
        /\ InHand(g, m)' <=> InHand(g, m)
        /\ \A p : Arriving(g, m, p)' <=> Arriving(g, m, p)
  BY <1>2, <1>3 DEF Called, InHand, Arriving
<1>9. owed \in [Frames -> SUBSET Conns]
  BY <1>1 DEF RowsTyped
<1> HIDE DEF b
<1>10. ASSUME NEW g \in Frames, g # f PROVE Travels(g)'
  <2>1. Travels(g) /\ owed'[g] = owed[g] /\ (Started(g)' <=> Started(g))
    BY <1>1, <1>3, <1>9, <1>10 DEF Started
  <2> QED
    BY <1>3, <1>6, <1>8, <1>10, <2>1
       DEF Travels, Unsent, OneOrigin, OnePlace, NotYet, OnTheWay, Waiting, Underway
<1>11. Travels(f)'
  <2>1. Travels(f) /\ (Started(f)' <=> Started(f))
    BY <1>1, <1>3 DEF Started
  <2>2. Unsent(f)' /\ OneOrigin(f)' /\ OnePlace(f)' /\ NotYet(f)'
    BY <1>3, <1>4, <1>6, <1>8, <2>1 DEF Travels, Unsent, OneOrigin, OnePlace, NotYet, Waiting, Underway
  <2>3. OnTheWay(f)'
    <3>1. CASE b
      BY <1>3, <1>6, <1>8, <2>1, <3>1 DEF Travels, OnTheWay, Waiting
    <3>2. CASE ~b
      <4>1. ASSUME NEW c \in owed[f] \cap At(n), link[c] = "open", got[c][f] = 0 PROVE FALSE
        BY <1>3, <2>1, <4>1 DEF At, Travels, OneOrigin, OnTheWay, Waiting, Underway
      <4>2. owed'[f] = owed[f] \cap At(n)
        BY <1>3, <1>9, <3>2
      <4> QED
        BY <1>3, <2>1, <4>1, <4>2 DEF Travels, OnTheWay
    <3> QED
      BY <3>1, <3>2
  <2> QED
    BY <2>2, <2>3 DEF Travels
<1> QED
  BY <1>5, <1>6, <1>7, <1>10, <1>11 DEF FanoutInv

(* A heartbeat takes a place in the queue, and no frame away.               *)
LEMMA BeatKeeps ==
  ASSUME FanoutInv, NEW n \in Nodes, Beat(n)
  PROVE  FanoutInv'
<1>1. /\ beat' = [beat EXCEPT ![n] = 0]
      /\ queue' = [queue EXCEPT ![n] = Enqueued(@, Pulse(n))]
      /\ UNCHANGED <<stage, uptime, heard, hands, inbox, calls, marks, link, got, owed, sent, delivered, bounds>>
  BY DEF Beat, rows
<1>2. NodesTyped /\ WiresTyped /\ RowsTyped /\ \A g \in Frames : Travels(g)
  BY DEF FanoutInv
<1>3. /\ WiresTyped'
      /\ \A m \in Nodes \ {n} : queue'[m] = queue[m]
      /\ ToSet(queue'[n]) = ToSet(queue[n]) \/ ToSet(queue'[n]) = ToSet(queue[n]) \cup {Pulse(n)}
  <2>1. Pulse(n) \in Wires /\ IsPulse(Pulse(n)) /\ Pulse(n).origin = n
    BY PulseOnWire
  <2> QED
    BY <1>1, <1>2, <2>1, Queueing
<1>4. \A g \in Frames, m \in Nodes : Queued(g, m)' <=> Queued(g, m)
  BY <1>3, PulseOnWire DEF Queued
<1>5. \A g, m :
        /\ Called(g, m)' <=> Called(g, m)
        /\ InHand(g, m)' <=> InHand(g, m)
        /\ \A p : Arriving(g, m, p)' <=> Arriving(g, m, p)
  BY <1>1 DEF Called, InHand, Arriving
<1>6. ASSUME NEW g \in Frames PROVE Travels(g)'
  <2>1. Travels(g) /\ (Started(g)' <=> Started(g)) /\ owed[g] \subseteq Conns
    BY <1>1, <1>2 DEF Started, RowsTyped
  <2> QED
    BY <1>1, <1>4, <1>5, <2>1
       DEF Travels, Unsent, OneOrigin, OnePlace, NotYet, OnTheWay, Waiting, Underway
<1>7. NodesTyped' /\ RowsTyped'
  BY <1>1, <1>2, NumbersAssumption DEF NodesTyped, RowsTyped
<1> QED
  BY <1>3, <1>6, <1>7 DEF FanoutInv

(* What a writer has in hand, and no longer has.                            *)
LEMMA HandsPut ==
  ASSUME WiresTyped, NEW n \in Nodes, NEW h \in SUBSET Wires, IsFiniteSet(h),
         Cardinality(h) <= Workers, \A w \in h : w.origin = n,
         hands' = [hands EXCEPT ![n] = h]
  PROVE  /\ hands' \in [Nodes -> SUBSET Wires]
         /\ hands'[n] = h /\ \A m \in Nodes \ {n} : hands'[m] = hands[m]
         /\ \A m \in Nodes :
              /\ IsFiniteSet(hands'[m]) /\ Cardinality(hands'[m]) <= Workers
              /\ \A w \in hands'[m] : w.origin = m
<1>1. hands' \in [Nodes -> SUBSET Wires] /\ hands'[n] = h
      /\ \A m \in Nodes \ {n} : hands'[m] = hands[m]
  BY DEF WiresTyped
<1> QED
  BY <1>1 DEF WiresTyped

(* What a writer no longer has leaves the rest as it is.                    *)
LEMMA HandEmptied ==
  ASSUME WiresTyped, NEW n \in Nodes, NEW w, hands' = [hands EXCEPT ![n] = @ \ {w}]
  PROVE  /\ hands' \in [Nodes -> SUBSET Wires]
         /\ hands'[n] = hands[n] \ {w} /\ \A m \in Nodes \ {n} : hands'[m] = hands[m]
         /\ \A m \in Nodes :
              /\ IsFiniteSet(hands'[m]) /\ Cardinality(hands'[m]) <= Workers
              /\ \A v \in hands'[m] : v.origin = m
<1>1. PICK h \in SUBSET Wires : h = hands[n] \ {w}
  BY DEF WiresTyped
<1>2. /\ IsFiniteSet(hands[n]) /\ Cardinality(hands[n]) <= Workers
      /\ \A v \in h : v.origin = n
  BY <1>1 DEF WiresTyped
<1>3. IsFiniteSet(h) /\ Cardinality(h) <= Cardinality(hands[n])
  BY <1>1, <1>2, FS_Subset
<1>4. Cardinality(h) <= Workers
  BY <1>2, <1>3, FS_CardinalityType, NumbersAssumption
<1>5. hands' = [hands EXCEPT ![n] = h]
  BY <1>1
<1> QED
  BY <1>1, <1>2, <1>3, <1>4, <1>5, HandsPut

(* A frame goes from the queue into a writer's hands.                       *)
LEMMA TakeKeeps ==
  ASSUME FanoutInv, NEW n \in Nodes, Take(n)
  PROVE  FanoutInv'
<1>1. NodesTyped /\ WiresTyped /\ RowsTyped /\ \A g \in Frames : Travels(g)
  BY DEF FanoutInv
<1>2. PICK q \in Seq(Wires) : q = queue[n] /\ Once(q) /\ q # <<>> /\ Len(q) <= QueueSize
                              /\ \A v \in ToSet(q) : v.origin = n
  BY <1>1 DEF Take, WiresTyped
<1>3. PICK r \in Seq(Wires) : r = Tail(q)
  BY <1>2, TakenOff
<1>4. PICK w \in Wires : w = Head(q)
  BY <1>2, TakenOff
<1>5. /\ Once(r) /\ Len(r) = Len(q) - 1 /\ ToSet(q) = ToSet(r) \cup {w}
      /\ ~IsPulse(w) => w \notin ToSet(r)
  BY <1>2, <1>3, <1>4, TakenOff
<1>6. /\ queue' = [queue EXCEPT ![n] = r]
      /\ hands' = [hands EXCEPT ![n] = @ \cup {w}]
      /\ w \notin hands[n] /\ Cardinality(hands[n]) < Workers
      /\ UNCHANGED <<nodes, inbox, calls, marks, link, rows, bounds>>
  BY <1>2, <1>3, <1>4 DEF Take
<1>7. PICK h \in SUBSET Wires : h = hands[n] \cup {w}
  BY <1>1 DEF WiresTyped
<1>8. IsFiniteSet(h) /\ Cardinality(h) <= Workers /\ \A v \in h : v.origin = n
  <2>1. IsFiniteSet(hands[n]) /\ \A v \in hands[n] : v.origin = n
    BY <1>1 DEF WiresTyped
  <2>2. IsFiniteSet(h) /\ Cardinality(h) = Cardinality(hands[n]) + 1
    BY <1>6, <1>7, <2>1, FS_AddElement
  <2>3. Cardinality(hands[n]) \in Nat /\ Workers \in Nat
    BY <2>1, FS_CardinalityType, NumbersAssumption
  <2> QED
    BY <1>2, <1>5, <1>6, <1>7, <2>1, <2>2, <2>3
<1>9. /\ hands' \in [Nodes -> SUBSET Wires]
      /\ hands'[n] = h /\ \A m \in Nodes \ {n} : hands'[m] = hands[m]
      /\ \A m \in Nodes :
           /\ IsFiniteSet(hands'[m]) /\ Cardinality(hands'[m]) <= Workers
           /\ \A v \in hands'[m] : v.origin = m
  <2>1. hands' = [hands EXCEPT ![n] = h]
    BY <1>6, <1>7
  <2> QED
    BY <1>1, <1>8, <2>1, HandsPut
<1>10. /\ queue' \in [Nodes -> Seq(Wires)] /\ queue'[n] = r
       /\ \A m \in Nodes \ {n} : queue'[m] = queue[m]
  BY <1>1, <1>6 DEF WiresTyped
<1>11. Len(r) <= QueueSize
  BY <1>2, <1>5, NumbersAssumption
<1>12. \A v \in ToSet(r) : v.origin = n
  BY <1>2, <1>5
<1>13. WiresTyped'
  <2>1. inbox' = inbox
    BY <1>6
  <2>2. \A m \in Nodes : /\ Len(queue'[m]) <= QueueSize /\ Once(queue'[m])
                         /\ \A v \in ToSet(queue'[m]) : v.origin = m
    BY <1>1, <1>5, <1>10, <1>11, <1>12 DEF WiresTyped
  <2> QED
    BY <1>1, <1>9, <1>10, <2>1, <2>2 DEF WiresTyped
<1>14. \A g \in Frames, m \in Nodes :
         /\ Queued(g, m)' <=> Queued(g, m) /\ ~(m = n /\ Wire(g, m) = w)
         /\ InHand(g, m)' <=> InHand(g, m) \/ (m = n /\ Wire(g, m) = w)
  <2>1. ASSUME NEW g \in Frames, NEW m \in Nodes
        PROVE  Queued(g, m)' <=> Queued(g, m) /\ ~(m = n /\ Wire(g, m) = w)
    <3>1. CASE m = n
      <4>1. ToSet(queue'[m]) = ToSet(r) /\ ToSet(queue[m]) = ToSet(r) \cup {w}
        BY <1>2, <1>5, <1>10, <3>1
      <4>2. ~IsPulse(Wire(g, m))
        BY WireOf
      <4> QED
        BY <1>5, <3>1, <4>1, <4>2 DEF Queued
    <3>2. CASE m # n
      BY <1>10, <3>2 DEF Queued
    <3> QED
      BY <3>1, <3>2
  <2>2. ASSUME NEW g \in Frames, NEW m \in Nodes
        PROVE  InHand(g, m)' <=> InHand(g, m) \/ (m = n /\ Wire(g, m) = w)
    BY <1>7, <1>9 DEF InHand
  <2> QED
    BY <2>1, <2>2
<1>15. \A g \in Frames, m \in Nodes : m = n /\ Wire(g, m) = w => Queued(g, m)
  BY <1>2, <1>5 DEF Queued
<1>16. \A g, m :
         /\ Called(g, m)' <=> Called(g, m)
         /\ \A p : Arriving(g, m, p)' <=> Arriving(g, m, p)
  BY <1>6 DEF Called, Arriving
<1>17. UNCHANGED <<stage, uptime, heard, beat, calls, marks, link, got, owed, sent, delivered, bounds>>
  BY <1>6 DEF nodes, rows
<1>18. ASSUME NEW g \in Frames PROVE Travels(g)'
  <2>1. Travels(g) /\ (Started(g)' <=> Started(g)) /\ owed[g] \subseteq Conns
    BY <1>1, <1>17 DEF Started, RowsTyped
  <2>2. \A m \in Nodes : Waiting(g, m)' <=> Waiting(g, m)
    BY <1>14, <1>15, <1>16 DEF Waiting
  <2>3. OnePlace(g)'
    BY <1>14, <1>15, <1>16, <2>1, <2>2 DEF Travels, OnePlace
  <2> QED
    BY <1>16, <1>17, <2>1, <2>2, <2>3
       DEF Travels, Unsent, OneOrigin, NotYet, OnTheWay, Underway
<1>19. NodesTyped' /\ RowsTyped'
  BY <1>1, <1>17 DEF NodesTyped, RowsTyped
<1> QED
  BY <1>13, <1>18, <1>19 DEF FanoutInv

(* What the subscribed instances are sent comes last with each of them.     *)
LEMMA InboxesFilled ==
  ASSUME WiresTyped, NEW w \in Wires, \A p \in Nodes : IsPulse(w) \/ w \notin ToSet(inbox[p]),
         inbox' = [p \in Nodes |-> IF stage[p] = "subscribed" THEN Append(inbox[p], w) ELSE inbox[p]]
  PROVE  /\ inbox' \in [Nodes -> Seq(Wires)]
         /\ \A p \in Nodes : Once(inbox'[p])
         /\ \A p \in Nodes : ToSet(inbox'[p]) = IF stage[p] = "subscribed" THEN ToSet(inbox[p]) \cup {w}
                                                ELSE ToSet(inbox[p])
<1>1. ASSUME NEW p \in Nodes
      PROVE  /\ inbox'[p] \in Seq(Wires) /\ Once(inbox'[p])
             /\ ToSet(inbox'[p]) = IF stage[p] = "subscribed" THEN ToSet(inbox[p]) \cup {w}
                                   ELSE ToSet(inbox[p])
  <2>1. PICK q \in Seq(Wires) : q = inbox[p] /\ Once(q) /\ (IsPulse(w) \/ w \notin ToSet(q))
    BY DEF WiresTyped
  <2>2. CASE stage[p] = "subscribed"
    <3>1. inbox'[p] = Append(q, w)
      BY <2>1, <2>2
    <3>2. Append(q, w) \in Seq(Wires) /\ Once(Append(q, w)) /\ ToSet(Append(q, w)) = ToSet(q) \cup {w}
      BY <2>1, Appended
    <3> QED
      BY <2>1, <2>2, <3>1, <3>2
  <2>3. CASE stage[p] # "subscribed"
    <3>1. inbox'[p] = q
      BY <2>1, <2>3
    <3> QED
      BY <2>1, <2>3, <3>1
  <2> QED
    BY <2>2, <2>3
<1>2. inbox' \in [Nodes -> Seq(Wires)]
  BY <1>1
<1> QED
  BY <1>1, <1>2

(* A frame in a writer's hands is that instance's, and nowhere else.        *)
LEMMA FrameInHand ==
  ASSUME FanoutInv, NEW n \in Nodes, NEW w \in hands[n], ~IsPulse(w)
  PROVE  /\ FrameOf(w) \in Frames /\ w = Wire(FrameOf(w), n) /\ InHand(FrameOf(w), n)
         /\ \A p \in Nodes : ~Arriving(FrameOf(w), n, p)
<1>1. w \in Wires /\ w.origin = n
  BY DEF FanoutInv, WiresTyped
<1>2. FrameOf(w) \in Frames /\ w = Wire(FrameOf(w), n)
  BY <1>1, FrameOnWire
<1>3. InHand(FrameOf(w), n)
  BY <1>2 DEF InHand
<1> QED
  BY <1>2, <1>3 DEF FanoutInv, Travels, OnePlace, Waiting

(* Redis sends a frame to those that are subscribed, and it is owed to no   *)
(* others.                                                                  *)
LEMMA PublishKeeps ==
  ASSUME FanoutInv, NEW n \in Nodes, NEW w \in hands[n], Publish(n, w)
  PROVE  FanoutInv'
<1>1. NodesTyped /\ WiresTyped /\ RowsTyped /\ \A g \in Frames : Travels(g)
  BY DEF FanoutInv
<1>2. /\ hands' = [hands EXCEPT ![n] = @ \ {w}]
      /\ inbox' = [p \in Nodes |-> IF stage[p] = "subscribed" THEN Append(inbox[p], w) ELSE inbox[p]]
      /\ UNCHANGED <<stage, uptime, heard, beat, queue, calls, marks, link, got, sent, delivered, bounds>>
  BY DEF Publish, nodes
<1>3. w \in Wires
  BY <1>1 DEF WiresTyped
<1>4. \A p \in Nodes : IsPulse(w) \/ w \notin ToSet(inbox[p])
  BY FrameInHand DEF Arriving
<1>5. /\ inbox' \in [Nodes -> Seq(Wires)]
      /\ \A p \in Nodes : Once(inbox'[p])
      /\ \A p \in Nodes : ToSet(inbox'[p]) = IF stage[p] = "subscribed" THEN ToSet(inbox[p]) \cup {w}
                                             ELSE ToSet(inbox[p])
  BY <1>1, <1>2, <1>3, <1>4, InboxesFilled
<1>6. /\ hands' \in [Nodes -> SUBSET Wires]
      /\ hands'[n] = hands[n] \ {w} /\ \A m \in Nodes \ {n} : hands'[m] = hands[m]
      /\ \A m \in Nodes :
           /\ IsFiniteSet(hands'[m]) /\ Cardinality(hands'[m]) <= Workers
           /\ \A v \in hands'[m] : v.origin = m
  BY <1>1, <1>2, HandEmptied
<1>7. WiresTyped'
  BY <1>1, <1>2, <1>5, <1>6 DEF WiresTyped
<1>8. \A g \in Frames, m \in Nodes :
        /\ Called(g, m)' <=> Called(g, m)
        /\ Queued(g, m)' <=> Queued(g, m)
        /\ InHand(g, m)' <=> InHand(g, m) /\ ~(m = n /\ Wire(g, m) = w)
        /\ \A p \in Nodes : Arriving(g, m, p)' <=>
             Arriving(g, m, p) \/ (stage[p] = "subscribed" /\ Wire(g, m) = w)
  <2>1. ASSUME NEW g \in Frames, NEW m \in Nodes
        PROVE  InHand(g, m)' <=> InHand(g, m) /\ ~(m = n /\ Wire(g, m) = w)
    <3>1. CASE m = n
      BY <1>6, <3>1 DEF InHand
    <3>2. CASE m # n
      BY <1>6, <3>2 DEF InHand
    <3> QED
      BY <3>1, <3>2
  <2>2. ASSUME NEW g \in Frames, NEW m \in Nodes, NEW p \in Nodes
        PROVE  Arriving(g, m, p)' <=>
                 Arriving(g, m, p) \/ (stage[p] = "subscribed" /\ Wire(g, m) = w)
    <3>1. CASE stage[p] = "subscribed"
      <4>1. ToSet(inbox'[p]) = ToSet(inbox[p]) \cup {w}
        BY <1>5, <3>1
      <4> QED
        BY <3>1, <4>1 DEF Arriving
    <3>2. CASE stage[p] # "subscribed"
      <4>1. ToSet(inbox'[p]) = ToSet(inbox[p])
        BY <1>5, <3>2
      <4> QED
        BY <3>2, <4>1 DEF Arriving
    <3> QED
      BY <3>1, <3>2
  <2>3. \A g \in Frames, m \in Nodes :
          (Called(g, m)' <=> Called(g, m)) /\ (Queued(g, m)' <=> Queued(g, m))
    BY <1>2 DEF Called, Queued
  <2> QED
    BY <2>1, <2>2, <2>3
<1>9. owed \in [Frames -> SUBSET Conns]
  BY <1>1 DEF RowsTyped
<1>10. NodesTyped'
  BY <1>1, <1>2 DEF NodesTyped
<1>11. CASE IsPulse(w)
  <2>1. owed' = owed
    BY <1>11 DEF Publish
  <2>2. \A g \in Frames, m \in Nodes : Wire(g, m) # w
    BY <1>11, WireOf
  <2>3. ASSUME NEW g \in Frames PROVE Travels(g)'
    <3>1. Travels(g) /\ (Started(g)' <=> Started(g)) /\ owed[g] \subseteq Conns
      BY <1>1, <1>2, <1>9 DEF Started
    <3>2. \A c \in owed[g] : c \in Conns /\ NodeOf[c] \in Nodes
      BY <3>1, ConnsAssumption
    <3> QED
      BY <1>2, <1>8, <2>1, <2>2, <3>1, <3>2, ConnsAssumption
         DEF Travels, Unsent, OneOrigin, OnePlace, NotYet, OnTheWay, Waiting, Underway
  <2> QED
    BY <1>1, <1>2, <1>7, <1>10, <2>1, <2>3 DEF FanoutInv, RowsTyped
<1>12. CASE ~IsPulse(w)
  <2>1. PICK f \in Frames : f = FrameOf(w) /\ w = Wire(f, n) /\ InHand(f, n)
                            /\ \A p \in Nodes : ~Arriving(f, n, p)
    BY <1>12, FrameInHand
  <2>2. owed' = [owed EXCEPT ![f] = {c \in @ : NodeOf[c] = n \/ stage[NodeOf[c]] = "subscribed"}]
    BY <1>12, <2>1 DEF Publish
  <2>3. /\ owed' \in [Frames -> SUBSET Conns]
        /\ \A g \in Frames \ {f} : owed'[g] = owed[g]
        /\ \A c \in owed'[f] : c \in owed[f] /\ (NodeOf[c] = n \/ stage[NodeOf[c]] = "subscribed")
    BY <1>9, <2>2
  <2>4. \A g \in Frames, m \in Nodes : Wire(g, m) = w <=> g = f /\ m = n
    BY <2>1, WireOf
  <2>5. ASSUME NEW g \in Frames, g # f PROVE Travels(g)'
    <3>1. /\ Travels(g) /\ (Started(g)' <=> Started(g)) /\ owed'[g] = owed[g]
          /\ \A c \in owed[g] : c \in Conns /\ NodeOf[c] \in Nodes
      BY <1>1, <1>2, <1>9, <2>3, <2>5, ConnsAssumption DEF Started
    <3> QED
      BY <1>2, <1>8, <2>4, <2>5, <3>1, ConnsAssumption
         DEF Travels, Unsent, OneOrigin, OnePlace, NotYet, OnTheWay, Waiting, Underway
  <2>6. Travels(f)'
    <3>1. Travels(f) /\ (Started(f)' <=> Started(f))
      BY <1>1, <1>2 DEF Started
    <3>2. \A m \in Nodes : m # n => ~Underway(f, m)
      BY <2>1, <3>1 DEF Travels, OneOrigin, Underway, Waiting
    <3>3. \A m \in Nodes : ~Waiting(f, m)'
      BY <1>8, <2>1, <2>4, <3>1, <3>2 DEF Travels, OnePlace, Waiting, Underway
    <3>4. \A m \in Nodes, p \in Nodes : Arriving(f, m, p)' <=> m = n /\ stage[p] = "subscribed"
      BY <1>8, <2>1, <2>4, <3>2 DEF Underway
    <3>5. Unsent(f)' /\ OneOrigin(f)' /\ OnePlace(f)'
      BY <1>2, <2>1, <3>1, <3>3, <3>4 DEF Travels, Unsent, OneOrigin, OnePlace, Waiting, Underway
    <3>6. NotYet(f)'
      BY <1>2, <2>1, <3>1, <3>3, <3>4, ConnsAssumption DEF Travels, NotYet, Waiting
    <3>7. OnTheWay(f)'
      <4> SUFFICES ASSUME NEW c \in owed'[f]
                   PROVE  /\ link[c] # "unused" /\ UserOf[c] \in To(f)
                          /\ link[c] = "open" /\ got[c][f] = 0 =>
                               n # NodeOf[c] /\ Arriving(f, n, NodeOf[c])'
        BY <1>2 DEF OnTheWay
      <4>1. /\ c \in owed[f] /\ NodeOf[c] \in Nodes
            /\ NodeOf[c] = n \/ stage[NodeOf[c]] = "subscribed"
        BY <1>9, <2>3, ConnsAssumption
      <4>2. link[c] = "open" /\ got[c][f] = 0 => n # NodeOf[c]
        BY <3>1, <3>2, <4>1 DEF Travels, OnTheWay, Underway
      <4> QED
        BY <3>1, <3>4, <4>1, <4>2 DEF Travels, OnTheWay
    <3> QED
      BY <3>5, <3>6, <3>7 DEF Travels
  <2> QED
    BY <1>1, <1>2, <1>7, <1>10, <2>3, <2>5, <2>6 DEF FanoutInv, RowsTyped
<1> QED
  BY <1>11, <1>12

(* A frame that is not published is owed to no connection elsewhere.        *)
LEMMA PublishFailsKeeps ==
  ASSUME FanoutInv, NEW n \in Nodes, NEW w \in hands[n], PublishFails(n, w)
  PROVE  FanoutInv'
<1>1. NodesTyped /\ WiresTyped /\ RowsTyped /\ \A g \in Frames : Travels(g)
  BY DEF FanoutInv
<1>2. /\ hands' = [hands EXCEPT ![n] = @ \ {w}]
      /\ bounds.lost > 0 /\ bounds' = [bounds EXCEPT !.lost = @ - 1]
      /\ UNCHANGED <<stage, uptime, heard, beat, queue, inbox, calls, marks, link, got, sent, delivered>>
  BY DEF PublishFails, nodes
<1>3. /\ hands' \in [Nodes -> SUBSET Wires]
      /\ hands'[n] = hands[n] \ {w} /\ \A m \in Nodes \ {n} : hands'[m] = hands[m]
      /\ \A m \in Nodes :
           /\ IsFiniteSet(hands'[m]) /\ Cardinality(hands'[m]) <= Workers
           /\ \A v \in hands'[m] : v.origin = m
  BY <1>1, <1>2, HandEmptied
<1>4. WiresTyped'
  BY <1>1, <1>2, <1>3 DEF WiresTyped
<1>5. \A g \in Frames, m \in Nodes :
        /\ Called(g, m)' <=> Called(g, m)
        /\ Queued(g, m)' <=> Queued(g, m)
        /\ InHand(g, m)' <=> InHand(g, m) /\ ~(m = n /\ Wire(g, m) = w)
        /\ \A p \in Nodes : Arriving(g, m, p)' <=> Arriving(g, m, p)
  BY <1>2, <1>3 DEF Called, Queued, InHand, Arriving
<1>6. owed \in [Frames -> SUBSET Conns]
  BY <1>1 DEF RowsTyped
<1>7. NodesTyped'
  BY <1>1, <1>2 DEF NodesTyped, ScenarioSet
<1>8. CASE IsPulse(w)
  <2>1. owed' = owed
    BY <1>8 DEF PublishFails
  <2>2. \A g \in Frames, m \in Nodes : Wire(g, m) # w
    BY <1>8, WireOf
  <2>3. ASSUME NEW g \in Frames PROVE Travels(g)'
    <3>1. /\ Travels(g) /\ (Started(g)' <=> Started(g))
          /\ \A c \in owed[g] : c \in Conns /\ NodeOf[c] \in Nodes
      BY <1>1, <1>2, <1>6, ConnsAssumption DEF Started
    <3> QED
      BY <1>2, <1>5, <2>1, <2>2, <3>1, ConnsAssumption
         DEF Travels, Unsent, OneOrigin, OnePlace, NotYet, OnTheWay, Waiting, Underway
  <2> QED
    BY <1>1, <1>2, <1>4, <1>7, <2>1, <2>3 DEF FanoutInv, RowsTyped
<1>9. CASE ~IsPulse(w)
  <2>1. PICK f \in Frames : f = FrameOf(w) /\ w = Wire(f, n) /\ InHand(f, n)
                            /\ \A p \in Nodes : ~Arriving(f, n, p)
    BY <1>9, FrameInHand
  <2>2. owed' = [owed EXCEPT ![f] = @ \cap At(n)]
    BY <1>9, <2>1 DEF PublishFails
  <2>3. /\ owed' \in [Frames -> SUBSET Conns]
        /\ \A g \in Frames \ {f} : owed'[g] = owed[g]
        /\ \A c \in owed'[f] : c \in owed[f] /\ NodeOf[c] = n
    BY <1>6, <2>2 DEF At
  <2>4. \A g \in Frames, m \in Nodes : Wire(g, m) = w <=> g = f /\ m = n
    BY <2>1, WireOf
  <2>5. ASSUME NEW g \in Frames, g # f PROVE Travels(g)'
    <3>1. /\ Travels(g) /\ (Started(g)' <=> Started(g)) /\ owed'[g] = owed[g]
          /\ \A c \in owed[g] : c \in Conns /\ NodeOf[c] \in Nodes
      BY <1>1, <1>2, <1>6, <2>3, <2>5, ConnsAssumption DEF Started
    <3> QED
      BY <1>2, <1>5, <2>4, <2>5, <3>1, ConnsAssumption
         DEF Travels, Unsent, OneOrigin, OnePlace, NotYet, OnTheWay, Waiting, Underway
  <2>6. Travels(f)'
    <3>1. Travels(f) /\ (Started(f)' <=> Started(f))
      BY <1>1, <1>2 DEF Started
    <3>2. \A m \in Nodes : m # n => ~Underway(f, m)
      BY <2>1, <3>1 DEF Travels, OneOrigin, Underway, Waiting
    <3>3. \A m \in Nodes : ~Underway(f, m)'
      BY <1>5, <2>1, <2>4, <3>1, <3>2 DEF Travels, OnePlace, Waiting, Underway
    <3>4. Unsent(f)' /\ OneOrigin(f)' /\ OnePlace(f)' /\ NotYet(f)'
      BY <1>2, <2>1, <3>1, <3>3, ConnsAssumption
         DEF Travels, Unsent, OneOrigin, OnePlace, NotYet, Waiting, Underway
    <3>5. OnTheWay(f)'
      <4> SUFFICES ASSUME NEW c \in owed'[f]
                   PROVE  /\ link[c] # "unused" /\ UserOf[c] \in To(f)
                          /\ ~(link[c] = "open" /\ got[c][f] = 0)
        BY <1>2 DEF OnTheWay
      <4>1. c \in owed[f] /\ NodeOf[c] = n
        BY <2>3
      <4> QED
        BY <3>1, <3>2, <4>1 DEF Travels, OnTheWay, Underway
    <3> QED
      BY <3>4, <3>5 DEF Travels
  <2> QED
    BY <1>1, <1>2, <1>4, <1>7, <2>3, <2>5, <2>6 DEF FanoutInv, RowsTyped
<1> QED
  BY <1>8, <1>9

(* The handler takes what is first off its inbox.                           *)
LEMMA InboxTaken ==
  ASSUME WiresTyped, NEW n \in Nodes, inbox[n] # <<>>,
         inbox' = [inbox EXCEPT ![n] = Tail(@)], UNCHANGED <<queue, hands>>
  PROVE  /\ WiresTyped'
         /\ Head(inbox[n]) \in Wires
         /\ \A g \in Frames, m \in Nodes, p \in Nodes :
              Arriving(g, m, p)' <=> Arriving(g, m, p) /\ ~(p = n /\ Wire(g, m) = Head(inbox[n]))
         /\ \A g \in Frames, m \in Nodes : Wire(g, m) = Head(inbox[n]) => Arriving(g, m, n)
<1>1. PICK q \in Seq(Wires) : q = inbox[n] /\ Once(q) /\ q # <<>>
  BY DEF WiresTyped
<1>2. PICK r \in Seq(Wires) : r = Tail(q)
  BY <1>1, TakenOff
<1>3. PICK w \in Wires : w = Head(q)
  BY <1>1, TakenOff
<1>4. /\ Once(r) /\ ToSet(q) = ToSet(r) \cup {w}
      /\ ~IsPulse(w) => w \notin ToSet(r)
  BY <1>1, <1>2, <1>3, TakenOff
<1>5. inbox' = [inbox EXCEPT ![n] = r]
  BY <1>1, <1>2
<1>6. /\ inbox' \in [Nodes -> Seq(Wires)] /\ inbox'[n] = r
      /\ \A p \in Nodes \ {n} : inbox'[p] = inbox[p]
  BY <1>5 DEF WiresTyped
<1>7. \A p \in Nodes : Once(inbox'[p])
  BY <1>4, <1>6 DEF WiresTyped
<1>8. WiresTyped'
  BY <1>6, <1>7 DEF WiresTyped
<1>9. ASSUME NEW g \in Frames, NEW m \in Nodes, NEW p \in Nodes
      PROVE  Arriving(g, m, p)' <=> Arriving(g, m, p) /\ ~(p = n /\ Wire(g, m) = w)
  <2>1. CASE p = n
    <3>1. ToSet(inbox'[p]) = ToSet(r) /\ ToSet(inbox[p]) = ToSet(r) \cup {w}
      BY <1>1, <1>4, <1>6, <2>1
    <3>2. ~IsPulse(Wire(g, m))
      BY WireOf
    <3> QED
      BY <1>4, <2>1, <3>1, <3>2 DEF Arriving
  <2>2. CASE p # n
    BY <1>6, <2>2 DEF Arriving
  <2> QED
    BY <2>1, <2>2
<1>10. \A g \in Frames, m \in Nodes : Wire(g, m) = w => Arriving(g, m, n)
  BY <1>1, <1>4 DEF Arriving
<1> QED
  BY <1>1, <1>3, <1>8, <1>9, <1>10

(* A frame of another instance enters buffers of connections here.          *)
LEMMA ForeignFrame ==
  ASSUME FanoutInv, NEW n \in Nodes, Handle(n), NEW f \in Frames, NEW o \in Nodes \ {n},
         Head(inbox[n]) = Wire(f, o)
  PROVE  /\ RowsTyped'
         /\ \A g \in Frames : Travels(g)'
<1> DEFINE w == Head(inbox[n])
<1>1. NodesTyped /\ WiresTyped /\ RowsTyped /\ \A g \in Frames : Travels(g)
  BY DEF FanoutInv
<1>2. /\ inbox[n] # <<>> /\ inbox' = [inbox EXCEPT ![n] = Tail(@)]
      /\ UNCHANGED <<queue, hands, calls, link, sent, delivered>>
  BY DEF Handle
<1>3. /\ ~IsPulse(w) /\ ~IsOwn(w, n) /\ FrameOf(w) = f
  BY WireOf DEF IsOwn
<1>4. PICK full \in SUBSET Targets(f, n) :
        /\ Give(f, Targets(f, n), full)
        /\ owed' = [owed EXCEPT ![f] = @ \ full]
        /\ marks' = IF f.type = "new_message" /\ full # Targets(f, n)
                    THEN marks \cup {[of |-> f.of, node |-> n, step |-> "look"]}
                    ELSE marks
  BY <1>3 DEF Handle
<1>5. /\ Arriving(f, o, n)
      /\ \A g \in Frames, m \in Nodes, p \in Nodes :
           Arriving(g, m, p)' <=> Arriving(g, m, p) /\ ~(p = n /\ g = f /\ m = o)
  <2>1. \A g \in Frames, m \in Nodes : Wire(g, m) = w <=> g = f /\ m = o
    BY WireOf
  <2> HIDE DEF w
  <2>2. /\ \A g \in Frames, m \in Nodes, p \in Nodes :
             Arriving(g, m, p)' <=> Arriving(g, m, p) /\ ~(p = n /\ Wire(g, m) = w)
        /\ \A g \in Frames, m \in Nodes : Wire(g, m) = w => Arriving(g, m, n)
    BY <1>1, <1>2, InboxTaken DEF w
  <2> QED
    BY <2>1, <2>2
<1>6. \A g, m :
        /\ Called(g, m)' <=> Called(g, m)
        /\ Queued(g, m)' <=> Queued(g, m)
        /\ InHand(g, m)' <=> InHand(g, m)
        /\ Waiting(g, m)' <=> Waiting(g, m)
        /\ Started(g)' <=> Started(g)
  BY <1>2 DEF Called, Queued, InHand, Waiting, Started
<1>7. /\ Started(f)
      /\ \A m \in Nodes : ~Waiting(f, m)
      /\ \A m \in Nodes : \A p \in Nodes : Arriving(f, m, p) => m = o
      /\ \A c \in Conns : NodeOf[c] = n => got[c][f] = 0
  <2>1. Unsent(f) /\ OneOrigin(f) /\ OnePlace(f) /\ NotYet(f) /\ Underway(f, o)
    BY <1>1, <1>5 DEF Travels, Underway
  <2> QED
    BY <1>5, <2>1 DEF Unsent, OneOrigin, OnePlace, NotYet, Underway
<1>8. PICK targets \in SUBSET Conns : targets = Targets(f, n)
  BY DEF Targets, Open
<1>9. /\ got' \in [Conns -> [Frames -> 0 .. 1]]
      /\ \A c \in targets \ full : got'[c][f] = 1
      /\ \A c \in Conns : c \notin targets \ full => got'[c] = got[c]
      /\ \A c \in Conns : \A g \in Frames \ {f} : got'[c][g] = got[c][g]
  <2>1. got \in [Conns -> [Frames -> 0 .. 1]]
    BY <1>1 DEF RowsTyped
  <2>2. Give(f, targets, full) /\ \A c \in targets : got[c][f] = 0
    BY <1>4, <1>7, <1>8 DEF Targets, At
  <2> QED
    BY <2>1, <2>2, GiveCounts
<1>10. owed \in [Frames -> SUBSET Conns]
  BY <1>1 DEF RowsTyped
<1>11. /\ owed' \in [Frames -> SUBSET Conns]
       /\ owed'[f] = owed[f] \ full
       /\ \A g \in Frames \ {f} : owed'[g] = owed[g]
  BY <1>4, <1>10
<1>12. /\ marks' \subseteq [of: Messages, node: Nodes, step: {"look", "mark"}]
       /\ \A t \in marks' : t.of \in sent
  <2>1. f.of \in Messages /\ (f.type = "new_message" => f.of \in sent)
    BY <1>7 DEF Frames, Started
  <2>2. /\ marks \subseteq [of: Messages, node: Nodes, step: {"look", "mark"}]
        /\ \A t \in marks : t.of \in sent
    BY <1>1 DEF RowsTyped
  <2> QED
    BY <1>4, <2>1, <2>2
<1>13. RowsTyped'
  BY <1>1, <1>2, <1>9, <1>11, <1>12 DEF RowsTyped
<1>14. ASSUME NEW g \in Frames, g # f PROVE Travels(g)'
  <2>1. /\ Travels(g) /\ owed'[g] = owed[g] /\ owed[g] \subseteq Conns
        /\ \A c \in Conns : got'[c][g] = got[c][g]
    BY <1>1, <1>9, <1>10, <1>11, <1>14
  <2>2. \A m \in Nodes : \A p \in Nodes : Arriving(g, m, p)' <=> Arriving(g, m, p)
    BY <1>5, <1>14
  <2>3. \A c \in Conns : NodeOf[c] \in Nodes
    BY ConnsAssumption
  <2>4. Unsent(g)' /\ OneOrigin(g)' /\ OnePlace(g)' /\ NotYet(g)'
    BY <1>6, <2>1, <2>2, <2>3 DEF Travels, Unsent, OneOrigin, OnePlace, NotYet, Underway
  <2>5. OnTheWay(g)'
    BY <1>2, <1>6, <2>1, <2>2, <2>3 DEF Travels, OnTheWay
  <2> QED
    BY <2>4, <2>5 DEF Travels
<1>15. Travels(f)'
  <2>1. Unsent(f)' /\ OneOrigin(f)' /\ OnePlace(f)'
    BY <1>1, <1>5, <1>6, <1>7 DEF Travels, Unsent, OneOrigin, OnePlace, Underway
  <2>2. NotYet(f)'
    <3> SUFFICES ASSUME NEW m \in Nodes, NEW c \in Conns, NodeOf[c] # m,
                        Waiting(f, m)' \/ Arriving(f, m, NodeOf[c])'
                 PROVE  got'[c][f] = 0
      BY DEF NotYet
    <3>1. NodeOf[c] \in Nodes
      BY ConnsAssumption
    <3>2. Arriving(f, m, NodeOf[c]) /\ m = o /\ NodeOf[c] # n
      BY <1>5, <1>6, <1>7, <3>1
    <3>3. got'[c] = got[c]
      BY <1>8, <1>9, <3>2 DEF Targets, At
    <3> QED
      BY <1>1, <3>2, <3>3 DEF Travels, NotYet
  <2>3. OnTheWay(f)'
    <3> SUFFICES ASSUME NEW c \in owed'[f]
                 PROVE  /\ link[c] # "unused" /\ UserOf[c] \in To(f)
                        /\ link[c] = "open" /\ got'[c][f] = 0 =>
                             \E m \in Nodes \ {NodeOf[c]} :
                               Waiting(f, m)' \/ Arriving(f, m, NodeOf[c])'
      BY <1>2 DEF OnTheWay
    <3>1. /\ c \in owed[f] /\ c \notin full /\ c \in Conns /\ NodeOf[c] \in Nodes
          /\ link[c] # "unused" /\ UserOf[c] \in To(f)
          /\ link[c] = "open" /\ got[c][f] = 0 =>
               \E m \in Nodes \ {NodeOf[c]} : Waiting(f, m) \/ Arriving(f, m, NodeOf[c])
      BY <1>1, <1>10, <1>11, ConnsAssumption DEF Travels, OnTheWay
    <3>2. CASE NodeOf[c] = n
      BY <1>8, <1>9, <3>1, <3>2 DEF Targets, At, Open
    <3>3. CASE NodeOf[c] # n
      <4>1. got'[c] = got[c]
        BY <1>8, <1>9, <3>1, <3>3 DEF Targets, At
      <4> QED
        BY <1>5, <1>6, <3>1, <3>3, <4>1
    <3> QED
      BY <3>2, <3>3
  <2> QED
    BY <2>1, <2>2, <2>3 DEF Travels
<1> QED
  BY <1>13, <1>14, <1>15

(* The subscription's handler: heartbeats and own frames are dropped,       *)
(* foreign frames given.                                                    *)
LEMMA HandleKeeps ==
  ASSUME FanoutInv, NEW n \in Nodes, Handle(n)
  PROVE  FanoutInv'
<1> DEFINE w == Head(inbox[n])
<1>1. NodesTyped /\ WiresTyped /\ RowsTyped /\ \A g \in Frames : Travels(g)
  BY DEF FanoutInv
<1>2. /\ inbox[n] # <<>> /\ inbox' = [inbox EXCEPT ![n] = Tail(@)]
      /\ heard' = [heard EXCEPT ![n] = 0] \/ heard' = heard
      /\ IsPulse(w) \/ IsOwn(w, n) => UNCHANGED <<got, owed, marks>>
      /\ UNCHANGED <<stage, uptime, beat, queue, hands, calls, link, sent, delivered, bounds>>
  BY DEF Handle
<1> HIDE DEF w
<1>3. NodesTyped'
  <2>1. 0 \in 0 .. PeerTTL
    BY NumbersAssumption
  <2>2. heard' \in [Nodes -> 0 .. PeerTTL]
    BY <1>1, <1>2, <2>1 DEF NodesTyped
  <2> QED
    BY <1>1, <1>2, <2>2 DEF NodesTyped
<1>4. /\ WiresTyped' /\ w \in Wires
      /\ \A g \in Frames, m \in Nodes, p \in Nodes :
           Arriving(g, m, p)' <=> Arriving(g, m, p) /\ ~(p = n /\ Wire(g, m) = w)
  BY <1>1, <1>2, InboxTaken DEF w
<1>5. CASE IsPulse(w) \/ IsOwn(w, n)
  <2>1. ASSUME NEW g \in Frames PROVE Travels(g)'
    <3>1. \A m \in Nodes, p \in Nodes : m # p => (Arriving(g, m, p)' <=> Arriving(g, m, p))
      BY <1>4, <1>5, WireOf DEF IsOwn
    <3>2. \A m, p \in Nodes : Arriving(g, m, p)' => Arriving(g, m, p)
      BY <1>4
    <3>3. \A m : /\ Called(g, m)' <=> Called(g, m)
                 /\ Queued(g, m)' <=> Queued(g, m)
                 /\ InHand(g, m)' <=> InHand(g, m)
                 /\ Waiting(g, m)' <=> Waiting(g, m)
      BY <1>2 DEF Called, Queued, InHand, Waiting
    <3>4. /\ Travels(g) /\ (Started(g)' <=> Started(g))
          /\ \A c \in owed[g] : c \in Conns /\ NodeOf[c] \in Nodes
      BY <1>1, <1>2, ConnsAssumption DEF Started, RowsTyped
    <3>5. Unsent(g)' /\ OneOrigin(g)' /\ OnePlace(g)' /\ NotYet(g)'
      BY <1>2, <1>5, <3>2, <3>3, <3>4, ConnsAssumption
         DEF Travels, Unsent, OneOrigin, OnePlace, NotYet, Underway
    <3>6. OnTheWay(g)'
      BY <1>2, <1>5, <3>1, <3>3, <3>4 DEF Travels, OnTheWay
    <3> QED
      BY <3>5, <3>6 DEF Travels
  <2>2. RowsTyped'
    BY <1>1, <1>2, <1>5 DEF RowsTyped
  <2> QED
    BY <1>3, <1>4, <2>1, <2>2 DEF FanoutInv
<1>6. CASE ~(IsPulse(w) \/ IsOwn(w, n))
  <2>1. PICK f \in Frames, o \in Nodes \ {n} : w = Wire(f, o)
    BY <1>4, <1>6, FrameOnWire DEF IsOwn
  <2>2. RowsTyped' /\ \A g \in Frames : Travels(g)'
    BY <2>1, ForeignFrame DEF w
  <2> QED
    BY <1>3, <1>4, <2>2 DEF FanoutInv
<1> QED
  BY <1>5, <1>6

(* What a stopped instance had in memory is gone with it.                   *)
LEMMA StopKeeps ==
  ASSUME FanoutInv, NEW n \in Nodes, Stop(n)
  PROVE  FanoutInv'
<1>1. NodesTyped /\ WiresTyped /\ RowsTyped /\ \A g \in Frames : Travels(g)
  BY DEF FanoutInv
<1>2. /\ stage' = [stage EXCEPT ![n] = "off"]
      /\ queue' = [queue EXCEPT ![n] = <<>>]
      /\ hands' = [hands EXCEPT ![n] = {}]
      /\ inbox' = [inbox EXCEPT ![n] = <<>>]
      /\ calls' = {s \in calls : s.node # n}
      /\ marks' = {t \in marks : t.node # n}
      /\ link' = [c \in Conns |-> IF c \in Open \cap At(n) THEN "closed" ELSE link[c]]
      /\ owed' = [f \in Frames |-> IF Waiting(f, n) THEN {} ELSE owed[f]]
      /\ bounds.stops > 0 /\ bounds' = [bounds EXCEPT !.stops = @ - 1]
      /\ UNCHANGED <<uptime, heard, beat, got, sent, delivered>>
  BY DEF Stop, Waiting, Called, Queued, InHand
<1>3. NodesTyped'
  <2>1. bounds' \in ScenarioSet
    <3>1. bounds \in ScenarioSet /\ bounds.stops > 0 /\ bounds' = [bounds EXCEPT !.stops = @ - 1]
      BY <1>1, <1>2 DEF NodesTyped
    <3> QED
      BY <3>1 DEF ScenarioSet
  <2> QED
    BY <1>1, <1>2, <2>1 DEF NodesTyped
<1>4. /\ queue'[n] = <<>> /\ hands'[n] = {} /\ inbox'[n] = <<>>
      /\ \A m \in Nodes \ {n} : /\ queue'[m] = queue[m] /\ hands'[m] = hands[m]
                                /\ inbox'[m] = inbox[m]
  BY <1>1, <1>2 DEF WiresTyped
<1>5. WiresTyped'
  <2>1. /\ queue' \in [Nodes -> Seq(Wires)] /\ inbox' \in [Nodes -> Seq(Wires)]
        /\ hands' \in [Nodes -> SUBSET Wires]
    BY <1>1, <1>2, NothingIn DEF WiresTyped
  <2>2. /\ Len(queue'[n]) <= QueueSize
        /\ IsFiniteSet(hands'[n]) /\ Cardinality(hands'[n]) <= Workers
        /\ Once(queue'[n]) /\ Once(inbox'[n])
        /\ \A w \in ToSet(queue'[n]) \cup hands'[n] : w.origin = n
    BY <1>4, NothingIn, FS_EmptySet, NumbersAssumption
  <2>3. ASSUME NEW m \in Nodes \ {n}
        PROVE  /\ Len(queue'[m]) <= QueueSize
               /\ IsFiniteSet(hands'[m]) /\ Cardinality(hands'[m]) <= Workers
               /\ Once(queue'[m]) /\ Once(inbox'[m])
               /\ \A w \in ToSet(queue'[m]) \cup hands'[m] : w.origin = m
    BY <1>1, <1>4 DEF WiresTyped
  <2> QED
    BY <2>1, <2>2, <2>3 DEF WiresTyped
<1>6. link' \in [Conns -> {"unused", "open", "closed"}]
      /\ \A c \in Conns : /\ link'[c] = "unused" <=> link[c] = "unused"
                          /\ link'[c] = "open" <=> link[c] = "open" /\ NodeOf[c] # n
  BY <1>1, <1>2 DEF RowsTyped, Open, At
<1>7. RowsTyped'
  <2>1. owed' \in [Frames -> SUBSET Conns]
    BY <1>1, <1>2 DEF RowsTyped
  <2>2. /\ calls' \subseteq [frame: Frames, node: Nodes]
        /\ marks' \subseteq [of: Messages, node: Nodes, step: {"look", "mark"}]
        /\ \A t \in marks' : t.of \in sent
    BY <1>1, <1>2 DEF RowsTyped
  <2> QED
    BY <1>1, <1>2, <1>6, <2>1, <2>2 DEF RowsTyped
<1>8. ASSUME NEW g \in Frames, NEW m \in Nodes
      PROVE  /\ Called(g, m)' <=> Called(g, m) /\ m # n
             /\ Queued(g, m)' <=> Queued(g, m) /\ m # n
             /\ InHand(g, m)' <=> InHand(g, m) /\ m # n
             /\ \A p \in Nodes : Arriving(g, m, p)' <=> Arriving(g, m, p) /\ p # n
  <2>1. Called(g, m)' <=> Called(g, m) /\ m # n
    BY <1>2 DEF Called
  <2>2. (Queued(g, m)' <=> Queued(g, m) /\ m # n) /\ (InHand(g, m)' <=> InHand(g, m) /\ m # n)
    <3>1. CASE m = n
      BY <1>4, <3>1, NothingIn DEF Queued, InHand
    <3>2. CASE m # n
      BY <1>4, <3>2 DEF Queued, InHand
    <3> QED
      BY <3>1, <3>2
  <2>3. ASSUME NEW p \in Nodes PROVE Arriving(g, m, p)' <=> Arriving(g, m, p) /\ p # n
    <3>1. CASE p = n
      BY <1>4, <3>1, NothingIn DEF Arriving
    <3>2. CASE p # n
      BY <1>4, <3>2 DEF Arriving
    <3> QED
      BY <3>1, <3>2
  <2> QED
    BY <2>1, <2>2, <2>3
<1>9. ASSUME NEW g \in Frames PROVE Travels(g)'
  <2>1. /\ Travels(g) /\ (Started(g)' <=> Started(g))
        /\ \A c \in owed[g] : c \in Conns /\ NodeOf[c] \in Nodes
    BY <1>1, <1>2, ConnsAssumption DEF Started, RowsTyped
  <2>2. \A m \in Nodes : Waiting(g, m)' <=> Waiting(g, m) /\ m # n
    BY <1>8 DEF Waiting
  <2>3. Unsent(g)' /\ OneOrigin(g)' /\ OnePlace(g)' /\ NotYet(g)'
    BY <1>2, <1>8, <2>1, <2>2, ConnsAssumption
       DEF Travels, Unsent, OneOrigin, OnePlace, NotYet, Underway
  <2>4. OnTheWay(g)'
    <3> SUFFICES ASSUME NEW c \in owed'[g]
                 PROVE  /\ link'[c] # "unused" /\ UserOf[c] \in To(g)
                        /\ link'[c] = "open" /\ got[c][g] = 0 =>
                             \E m \in Nodes \ {NodeOf[c]} :
                               Waiting(g, m)' \/ Arriving(g, m, NodeOf[c])'
      BY <1>2 DEF OnTheWay
    <3>1. c \in owed[g] /\ ~Waiting(g, n)
      BY <1>2
    <3>2. /\ link[c] # "unused" /\ UserOf[c] \in To(g)
          /\ link[c] = "open" /\ got[c][g] = 0 =>
               \E m \in Nodes \ {NodeOf[c]} : Waiting(g, m) \/ Arriving(g, m, NodeOf[c])
      BY <2>1, <3>1 DEF Travels, OnTheWay
    <3> QED
      BY <1>6, <1>8, <2>1, <2>2, <3>1, <3>2
  <2> QED
    BY <2>3, <2>4 DEF Travels
<1> QED
  BY <1>3, <1>5, <1>7, <1>9 DEF FanoutInv

(* A message is saved and sent, for the first time.                         *)
LEMMA SendMessageKeeps ==
  ASSUME FanoutInv, NEW m \in Messages, NEW n \in Nodes, SendMessage(m, n)
  PROVE  FanoutInv'
<1>1. NodesTyped /\ WiresTyped /\ RowsTyped
  BY DEF FanoutInv
<1>2. PICK f \in Frames : f = [type |-> "new_message", of |-> m]
  BY DEF Frames
<1>3. /\ m \notin sent /\ sent' = sent \cup {m}
      /\ bounds.sends > 0 /\ bounds' = [bounds EXCEPT !.sends = @ - 1]
      /\ UNCHANGED <<nodes, wires, link, delivered>>
  BY DEF SendMessage
<1>4. PICK full \in SUBSET Targets(f, n) :
        /\ Send(f, n, full)
        /\ marks' = marks \cup
             (IF Reached(f, Targets(f, n), full)
              THEN {[of |-> m, node |-> n, step |-> "mark"]} ELSE {})
  BY <1>2 DEF SendMessage
<1>5. ~Started(f) /\ \A g \in Frames : Started(g)' <=> Started(g) \/ g = f
  BY <1>2, <1>3 DEF Started, Frames
<1>6. /\ calls' \subseteq [frame: Frames, node: Nodes]
      /\ got' \in [Conns -> [Frames -> 0 .. 1]]
      /\ owed' \in [Frames -> SUBSET Conns]
      /\ \A g \in Frames : Travels(g)'
  BY <1>3, <1>4, <1>5, SendTravels
<1>7. /\ marks' \subseteq [of: Messages, node: Nodes, step: {"look", "mark"}]
      /\ \A t \in marks' : t.of \in sent'
  <2>1. /\ marks \subseteq [of: Messages, node: Nodes, step: {"look", "mark"}]
        /\ \A t \in marks : t.of \in sent
    BY <1>1 DEF RowsTyped
  <2>2. marks' \subseteq marks \cup {[of |-> m, node |-> n, step |-> "mark"]}
    BY <1>4
  <2> QED
    BY <1>3, <2>1, <2>2
<1>8. NodesTyped' /\ WiresTyped'
  <2>1. bounds' \in ScenarioSet
    BY <1>1, <1>3 DEF NodesTyped, ScenarioSet
  <2> QED
    BY <1>1, <1>3, <2>1 DEF NodesTyped, WiresTyped, nodes, wires
<1>9. RowsTyped'
  BY <1>1, <1>3, <1>6, <1>7 DEF RowsTyped
<1> QED
  BY <1>6, <1>8, <1>9 DEF FanoutInv

(* A message is marked, and whoever marked it first sends the tick.         *)
LEMMA MarkKeeps ==
  ASSUME FanoutInv, NEW t \in marks, Mark(t)
  PROVE  FanoutInv'
<1>1. NodesTyped /\ WiresTyped /\ RowsTyped
  BY DEF FanoutInv
<1>2. t.of \in Messages /\ t.of \in sent /\ t.node \in Nodes
  BY <1>1 DEF RowsTyped
<1>3. PICK f \in Frames : f = [type |-> "message_delivered", of |-> t.of]
  BY <1>2 DEF Frames
<1>4. /\ marks' = marks \ {t} /\ delivered' = delivered \cup {t.of}
      /\ UNCHANGED <<nodes, wires, link, sent, bounds>>
  BY DEF Mark
<1>5. NodesTyped' /\ WiresTyped'
  BY <1>1, <1>4 DEF NodesTyped, WiresTyped, nodes, wires
<1>6. CASE Unmarked(t.of)
  <2>1. PICK full \in SUBSET Targets(f, t.node) : Send(f, t.node, full)
    BY <1>3, <1>6 DEF Mark
  <2>2. ~Started(f) /\ \A g \in Frames : Started(g)' <=> Started(g) \/ g = f
    BY <1>3, <1>4, <1>6 DEF Started, Frames, Unmarked
  <2>3. /\ calls' \subseteq [frame: Frames, node: Nodes]
        /\ got' \in [Conns -> [Frames -> 0 .. 1]]
        /\ owed' \in [Frames -> SUBSET Conns]
        /\ \A g \in Frames : Travels(g)'
    <3>1. PICK n \in Nodes : n = t.node
      BY <1>2
    <3>2. full \in SUBSET Targets(f, n) /\ Send(f, n, full)
      BY <2>1, <3>1
    <3>3. UNCHANGED <<wires, link>>
      BY <1>4
    <3> QED
      BY <2>2, <3>2, <3>3, SendTravels
  <2>4. RowsTyped'
    BY <1>1, <1>2, <1>4, <2>3 DEF RowsTyped
  <2> QED
    BY <1>5, <2>3, <2>4 DEF FanoutInv
<1>7. CASE ~Unmarked(t.of)
  <2>1. UNCHANGED <<got, owed, calls, delivered>>
    BY <1>4, <1>7 DEF Mark, Unmarked
  <2>2. \A g \in Frames : Travels(g)'
    BY <1>4, <2>1, StillTravel
  <2>3. RowsTyped'
    BY <1>1, <1>4, <2>1 DEF RowsTyped
  <2> QED
    BY <1>5, <2>2, <2>3 DEF FanoutInv
<1> QED
  BY <1>6, <1>7

(* Instances start and subscribe: frames stay where they are.               *)
LEMMA NodeStepKeeps ==
  ASSUME FanoutInv, NEW n \in Nodes,
         Start(n) \/ MakeReady(n) \/ Subscribe(n) \/ Unsubscribe(n)
  PROVE  FanoutInv'
<1>1. NodesTyped /\ WiresTyped /\ RowsTyped
  BY DEF FanoutInv
<1>2. UNCHANGED <<wires, calls, marks, link, rows>>
  BY DEF Start, MakeReady, Subscribe, Unsubscribe
<1>3. UNCHANGED <<wires, calls, got, owed, sent, delivered, link>>
  BY <1>2 DEF rows
<1>4. \A f \in Frames : Travels(f)'
  BY <1>3, StillTravel
<1>5. NodesTyped'
  <2>1. 0 \in 0 .. AssumeFor /\ PeerTTL \in 0 .. PeerTTL /\ Heartbeat \in 0 .. Heartbeat
    BY NumbersAssumption
  <2>2. CASE Start(n)
    BY <1>1, <2>1, <2>2 DEF NodesTyped, Start
  <2>3. CASE MakeReady(n) \/ Subscribe(n)
    BY <1>1, <2>3 DEF NodesTyped, MakeReady, Subscribe
  <2>4. CASE Unsubscribe(n)
    BY <1>1, <2>4 DEF NodesTyped, Unsubscribe, ScenarioSet
  <2> QED
    BY <2>2, <2>3, <2>4
<1>6. WiresTyped' /\ RowsTyped'
  BY <1>1, <1>2 DEF WiresTyped, RowsTyped, wires, rows
<1> QED
  BY <1>4, <1>5, <1>6 DEF FanoutInv

(* A connection comes or goes.                                              *)
LEMMA ConnStepKeeps ==
  ASSUME FanoutInv, NEW c \in Conns, Connect(c) \/ Disconnect(c)
  PROVE  FanoutInv'
<1>1. NodesTyped /\ WiresTyped /\ RowsTyped
  BY DEF FanoutInv
<1>2. /\ \/ link[c] = "unused" /\ link' = [link EXCEPT ![c] = "open"]
         \/ link[c] = "open" /\ link' = [link EXCEPT ![c] = "closed"]
      /\ bounds.moves > 0 /\ bounds' = [bounds EXCEPT !.moves = @ - 1]
      /\ UNCHANGED <<nodes, wires, calls, marks, rows>>
  BY DEF Connect, Disconnect
<1>3. /\ link' \in [Conns -> {"unused", "open", "closed"}]
      /\ \A d \in Conns : /\ link'[d] = "open" => link[d] \in {"open", "unused"}
                          /\ link'[d] = "unused" => link[d] = "unused"
  BY <1>1, <1>2 DEF RowsTyped
<1>4. UNCHANGED <<wires, calls, got, owed, sent, delivered>>
  BY <1>2 DEF rows
<1>5. \A f \in Frames : Travels(f)'
  BY <1>3, <1>4, StillTravel
<1>6. NodesTyped' /\ WiresTyped'
  <2>1. bounds' \in ScenarioSet
    BY <1>1, <1>2 DEF NodesTyped, ScenarioSet
  <2> QED
    BY <1>1, <1>2, <2>1 DEF NodesTyped, WiresTyped, nodes, wires
<1>7. RowsTyped'
  BY <1>1, <1>2, <1>3 DEF RowsTyped, rows
<1> QED
  BY <1>5, <1>6, <1>7 DEF FanoutInv

(* The goroutine of markRemoteDelivered looks for the receiver.             *)
LEMMA LookKeeps ==
  ASSUME FanoutInv, NEW t \in marks, LookForReceiver(t)
  PROVE  FanoutInv'
<1>1. NodesTyped /\ WiresTyped /\ RowsTyped
  BY DEF FanoutInv
<1>2. /\ marks' \subseteq (marks \ {t}) \cup {[t EXCEPT !.step = "mark"]}
      /\ UNCHANGED <<nodes, wires, calls, link, rows, bounds>>
  BY DEF LookForReceiver
<1>3. UNCHANGED <<wires, calls, got, owed, sent, delivered, link>>
  BY <1>2 DEF rows
<1>4. \A f \in Frames : Travels(f)'
  BY <1>3, StillTravel
<1>5. /\ marks' \subseteq [of: Messages, node: Nodes, step: {"look", "mark"}]
      /\ \A u \in marks' : u.of \in sent
  <2>1. /\ [t EXCEPT !.step = "mark"] \in [of: Messages, node: Nodes, step: {"look", "mark"}]
        /\ [t EXCEPT !.step = "mark"].of \in sent
    BY <1>1 DEF RowsTyped
  <2> QED
    BY <1>1, <1>2, <2>1 DEF RowsTyped
<1>6. NodesTyped' /\ WiresTyped'
  BY <1>1, <1>2 DEF NodesTyped, WiresTyped, nodes, wires
<1>7. RowsTyped'
  BY <1>1, <1>3, <1>5 DEF RowsTyped
<1> QED
  BY <1>4, <1>6, <1>7 DEF FanoutInv

(* A step of time finds nothing under way.                                  *)
LEMMA TickKeeps ==
  ASSUME FanoutInv, Tick
  PROVE  FanoutInv'
<1>1. NodesTyped /\ WiresTyped /\ RowsTyped
  BY DEF FanoutInv
<1>2. UNCHANGED <<stage, wires, calls, marks, link, rows, bounds>>
  BY DEF Tick
<1>3. UNCHANGED <<wires, calls, got, owed, sent, delivered, link>>
  BY <1>2 DEF rows
<1>4. \A f \in Frames : Travels(f)'
  BY <1>3, StillTravel
<1>5. NodesTyped'
  <2>1. AssumeFor \in Nat /\ PeerTTL \in Nat /\ Heartbeat \in Nat
    BY NumbersAssumption
  <2>2. uptime' \in [Nodes -> 0 .. AssumeFor] /\ heard' \in [Nodes -> 0 .. PeerTTL]
    BY <1>1, <2>1 DEF NodesTyped, Tick, Least
  <2>3. beat' \in [Nodes -> 0 .. Heartbeat]
    BY <1>1, <2>1 DEF NodesTyped, Tick
  <2> QED
    BY <1>1, <1>2, <2>2, <2>3 DEF NodesTyped
<1>6. WiresTyped' /\ RowsTyped'
  BY <1>1, <1>2 DEF WiresTyped, RowsTyped, wires, rows
<1> QED
  BY <1>4, <1>5, <1>6 DEF FanoutInv

-----------------------------------------------------------------------------
(* The theorem                                                              *)

(* The initial states satisfy the invariant.                                *)
LEMMA FanoutStarts == Init => FanoutInv
<1> SUFFICES ASSUME Init PROVE FanoutInv
  OBVIOUS
<1>1. /\ queue = [n \in Nodes |-> <<>>] /\ hands = [n \in Nodes |-> {}]
      /\ inbox = [n \in Nodes |-> <<>>] /\ beat = [n \in Nodes |-> 0]
      /\ calls = {} /\ marks = {} /\ sent = {} /\ delivered = {}
      /\ got = [c \in Conns |-> [f \in Frames |-> 0]] /\ owed = [f \in Frames |-> {}]
      /\ bounds \in Scenarios
  BY DEF Init
<1>2. NodesTyped /\ link \in [Conns -> {"unused", "open", "closed"}]
  <2>1. PICK old \in SUBSET Nodes :
          /\ stage = [n \in Nodes |-> IF n \in old THEN "subscribed" ELSE "off"]
          /\ uptime = [n \in Nodes |-> IF n \in old THEN AssumeFor ELSE 0]
          /\ heard = [n \in Nodes |-> IF n \in old /\ Cardinality(old) > 1 THEN 0 ELSE PeerTTL]
          /\ link \in [Conns -> {"unused", "open"}]
    BY DEF Init
  <2>2. /\ AssumeFor \in 0 .. AssumeFor /\ 0 \in 0 .. AssumeFor
        /\ PeerTTL \in 0 .. PeerTTL /\ 0 \in 0 .. PeerTTL /\ 0 \in 0 .. Heartbeat
    BY NumbersAssumption
  <2>3. bounds \in ScenarioSet
    BY <1>1, NumbersAssumption
  <2> QED
    BY <1>1, <2>1, <2>2, <2>3 DEF NodesTyped
<1>3. WiresTyped
  <2>1. /\ queue \in [Nodes -> Seq(Wires)] /\ inbox \in [Nodes -> Seq(Wires)]
        /\ hands \in [Nodes -> SUBSET Wires]
    BY <1>1, NothingIn
  <2>2. ASSUME NEW n \in Nodes
        PROVE  /\ Len(queue[n]) <= QueueSize
               /\ IsFiniteSet(hands[n]) /\ Cardinality(hands[n]) <= Workers
               /\ Once(queue[n]) /\ Once(inbox[n])
               /\ \A w \in ToSet(queue[n]) \cup hands[n] : w.origin = n
    <3>1. queue[n] = <<>> /\ inbox[n] = <<>> /\ hands[n] = {}
      BY <1>1
    <3> QED
      BY <3>1, NothingIn, FS_EmptySet, NumbersAssumption
  <2> QED
    BY <2>1, <2>2 DEF WiresTyped
<1>4. RowsTyped
  BY <1>1, <1>2 DEF RowsTyped
<1>5. ASSUME NEW f \in Frames PROVE Travels(f)
  <2>1. ~Started(f) /\ owed[f] = {} /\ \A c \in Conns : got[c][f] = 0
    BY <1>1 DEF Started
  <2>2. \A m \in Nodes : /\ ~Called(f, m) /\ ~Queued(f, m) /\ ~InHand(f, m)
                         /\ \A p \in Nodes : ~Arriving(f, m, p)
    <3>1. \A m \in Nodes : queue[m] = <<>> /\ inbox[m] = <<>> /\ hands[m] = {}
      BY <1>1
    <3> QED
      BY <1>1, <3>1, NothingIn DEF Called, Queued, InHand, Arriving
  <2> QED
    BY <2>1, <2>2 DEF Travels, Unsent, OneOrigin, OnePlace, NotYet, OnTheWay, Waiting, Underway
<1> QED
  BY <1>2, <1>3, <1>4, <1>5 DEF FanoutInv

(* Every step keeps the invariant.                                          *)
LEMMA FanoutSteps ==
  ASSUME FanoutInv, [Next]_vars
  PROVE  FanoutInv'
<1>1. ASSUME NEW n \in Nodes,
             Start(n) \/ MakeReady(n) \/ Subscribe(n) \/ Unsubscribe(n) \/ Stop(n)
               \/ Take(n) \/ Handle(n) \/ Beat(n)
      PROVE  FanoutInv'
  BY <1>1, NodeStepKeeps, StopKeeps, TakeKeeps, HandleKeeps, BeatKeeps
<1>2. ASSUME NEW n \in Nodes, NEW w \in hands[n], Publish(n, w) \/ PublishFails(n, w)
      PROVE  FanoutInv'
  BY <1>2, PublishKeeps, PublishFailsKeeps
<1>3. ASSUME NEW n \in Nodes, NEW m \in Messages, SendMessage(m, n) PROVE FanoutInv'
  BY <1>3, SendMessageKeeps
<1>4. ASSUME NEW c \in Conns, Connect(c) \/ Disconnect(c) PROVE FanoutInv'
  BY <1>4, ConnStepKeeps
<1>5. ASSUME NEW s \in calls, PublishCluster(s) PROVE FanoutInv'
  BY <1>5, PublishClusterKeeps
<1>6. ASSUME NEW t \in marks, Mark(t) \/ LookForReceiver(t) PROVE FanoutInv'
  BY <1>6, MarkKeeps, LookKeeps
<1>7. CASE UNCHANGED vars
  <2>1. UNCHANGED <<nodes, wires, calls, marks, link, rows, bounds>>
    BY <1>7 DEF vars
  <2>2. UNCHANGED <<wires, calls, got, owed, sent, delivered, link>>
    BY <2>1 DEF rows
  <2>3. \A f \in Frames : Travels(f)'
    BY <2>2, StillTravel
  <2> QED
    BY <2>1, <2>3 DEF FanoutInv, NodesTyped, WiresTyped, RowsTyped, nodes, wires, rows
<1>8. CASE Next
  BY <1>1, <1>2, <1>3, <1>4, <1>5, <1>6, <1>8, TickKeeps, Zenon DEF Next
<1> QED
  BY <1>7, <1>8

(* What the invariant says once nothing is under way.                       *)
LEMMA FanoutMeans == FanoutInv => FanoutIsExact
<1> SUFFICES ASSUME FanoutInv PROVE FanoutIsExact
  OBVIOUS
<1>1. NodesTyped /\ WiresTyped /\ RowsTyped /\ \A g \in Frames : Travels(g)
  BY DEF FanoutInv
<1>2. TypeOK
  <2>1. ASSUME NEW n \in Nodes
        PROVE  /\ Len(queue[n]) <= QueueSize
               /\ Cardinality(hands[n]) <= Workers
               /\ hands[n] \subseteq Wires
               /\ \A w \in ToSet(queue[n]) \cup ToSet(inbox[n]) : w \in Wires
    <3>1. queue[n] \in Seq(Wires) /\ inbox[n] \in Seq(Wires)
      BY <1>1 DEF WiresTyped
    <3>2. ToSet(queue[n]) \subseteq Wires /\ ToSet(inbox[n]) \subseteq Wires
      BY <3>1, Entries
    <3> QED
      BY <1>1, <3>2 DEF WiresTyped
  <2>2. got \in [Conns -> [Frames -> 0 .. 2]]
    <3>1. \A c \in Conns : got[c] \in [Frames -> 0 .. 2]
      BY <1>1 DEF RowsTyped
    <3> QED
      BY <1>1, <3>1 DEF RowsTyped
  <2> QED
    BY <1>1, <2>1, <2>2 DEF TypeOK, NodesTyped, RowsTyped
<1>3. OncePerConnection
  BY <1>1 DEF OncePerConnection, RowsTyped
<1>4. QueuedIsDelivered
  <2> SUFFICES ASSUME Idle, NEW f \in Frames, NEW c \in owed[f] \cap Open
               PROVE  got[c][f] > 0
    BY DEF QueuedIsDelivered
  <2>1. c \in Conns /\ link[c] = "open" /\ NodeOf[c] \in Nodes
    BY ConnsAssumption DEF Open
  <2>2. \A m \in Nodes : ~Waiting(f, m) /\ \A p \in Nodes : ~Arriving(f, m, p)
    BY NothingIn DEF Idle, Waiting, Called, Queued, InHand, Arriving
  <2>3. got[c][f] # 0
    BY <1>1, <2>1, <2>2 DEF Travels, OnTheWay
  <2>4. got[c][f] \in 0 .. 1
    BY <1>1, <2>1 DEF RowsTyped
  <2> QED
    BY <2>3, <2>4
<1> QED
  BY <1>2, <1>3, <1>4 DEF FanoutIsExact

(* publishCluster, the writers and handleClusterFrame: the queues keep to   *)
(* their bounds, a frame enters the buffer of a connection at most once,    *)
(* and one that was queued is not lost on the way, for any number of        *)
(* instances, connections and messages, with publications that fail,        *)
(* subscriptions that break and instances that stop.                        *)
THEOREM FanoutRule == Spec => []FanoutIsExact
<1>1. FanoutInv /\ [Next]_vars => FanoutInv'
  BY FanoutSteps
<1> QED
  BY <1>1, FanoutStarts, FanoutMeans, PTL DEF Spec
=============================================================================
