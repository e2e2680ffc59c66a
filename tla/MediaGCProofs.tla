---------------------------- MODULE MediaGCProofs ----------------------------
(***************************************************************************)
(* What holds of the media collector for any keys, requests, batch size,   *)
(* failures and restarts: no mark without a message, and no row dropped     *)
(* while its object is in the bucket.                                       *)
(***************************************************************************)
EXTENDS MediaGC, TLAPS

Rows == [old : BOOLEAN, ref : BOOLEAN]

Sendings == [stage : {"open", "stored"}, key : Objects, marks : BOOLEAN]

Types ==
  /\ s3 \subseteq Objects
  /\ upload \in [Objects -> {"none", "put", "done"}]
  /\ row \in [Objects -> Rows \cup {NoRow}]
  /\ mentioned \subseteq Objects
  /\ send \in [Senders -> {Idle} \cup Sendings]
  /\ reaper \in [stage : {"resting", "sweeping"}, rows : SUBSET Objects, gone : SUBSET Objects]
  /\ crashes \in 0..MaxCrashes

\* A message that is stored but not marked yet is one that is mentioned.
StoredIsMentioned ==
  \A c \in Senders : send[c].stage = "stored" => send[c].key \in mentioned

\* Only finished uploads have rows and are swept, and what the sweep deleted
\* does not come back: an upload writes its object once.
RowsAreUploads == \A o \in Objects : row[o] # NoRow => upload[o] = "done"
SweptAreUploads == \A o \in reaper.rows \cup reaper.gone : upload[o] = "done"
GoneIsGone == reaper.gone \cap s3 = {}

IInv ==
  /\ Types
  /\ MarkedIsMentioned
  /\ StoredIsMentioned
  /\ RowsAreUploads
  /\ SweptAreUploads
  /\ GoneIsGone

-----------------------------------------------------------------------------
\* Marking a row keeps the table's type and marks no other row.
LEMMA MarkedRow ==
  ASSUME Types, NEW o \in Objects
  PROVE  /\ Marked(o) \in [Objects -> Rows \cup {NoRow}]
         /\ \A p \in Objects : Marked(o)[p] # NoRow => row[p] # NoRow
         /\ \A p \in Objects : p # o => Marked(o)[p] = row[p]
         /\ row[o] # NoRow => Marked(o)[o] \in Rows
  <1>1. CASE row[o] = NoRow
    BY <1>1 DEF Marked, Types
  <1>2. CASE row[o] # NoRow
    <2>1. row[o] \in Rows
      BY <1>2 DEF Types
    <2>2. [row[o] EXCEPT !.ref = TRUE] \in Rows
      BY <2>1 DEF Rows
    <2> QED
      BY <1>2, <2>2 DEF Marked, Types
  <1> QED
    BY <1>1, <1>2

\* The initial states satisfy the invariant.
LEMMA InitInvariant ==
  ASSUME MediaAssumption, Init
  PROVE  IInv
  BY DEF MediaAssumption, Init, IInv, Types, MarkedIsMentioned, StoredIsMentioned, RowsAreUploads,
         SweptAreUploads, GoneIsGone, Resting, Idle

\* An upload, and a day that passes, keep the invariant.
LEMMA UploadInvariant ==
  ASSUME MediaAssumption, IInv, NEW o \in Objects, Put(o) \/ Track(o) \/ Age(o)
  PROVE  IInv'
  <1> USE DEF IInv, Types, MarkedIsMentioned, StoredIsMentioned, RowsAreUploads,
              SweptAreUploads, GoneIsGone
  <1>1. CASE Put(o)
    BY <1>1 DEF Put
  <1>2. CASE Track(o)
    <2>1. [old |-> FALSE, ref |-> FALSE] \in Rows
      BY DEF Rows
    <2>2. CASE row' = row
      BY <1>2, <2>2 DEF Track
    <2>3. CASE row' = [row EXCEPT ![o] = [old |-> FALSE, ref |-> FALSE]]
      BY <1>2, <2>1, <2>3 DEF Track
    <2> QED
      BY <1>2, <2>2, <2>3 DEF Track
  <1>3. CASE Age(o)
    <2>1. row[o] \in Rows
      BY <1>3 DEF Age
    <2>2. [row[o] EXCEPT !.old = TRUE] \in Rows
      BY <2>1 DEF Rows
    <2>3. [row[o] EXCEPT !.old = TRUE].ref = row[o].ref
      BY <2>1 DEF Rows
    <2>4. row' = [row EXCEPT ![o] = [row[o] EXCEPT !.old = TRUE]]
      BY <1>3 DEF Age
    <2> QED
      BY <1>3, <2>2, <2>3, <2>4 DEF Age
  <1> QED
    BY <1>1, <1>2, <1>3

\* A send keeps it: the mark only becomes visible with the message.
LEMMA SendInvariant ==
  ASSUME MediaAssumption, IInv, NEW c \in Senders,
         \/ \E o \in Objects : OpenTx(c, o) \/ Store(c, o)
         \/ Commit(c) \/ Rollback(c) \/ Mark(c)
  PROVE  IInv'
  <1>0. Types
    BY DEF IInv
  <1>1. ASSUME NEW o \in Objects, OpenTx(c, o)
        PROVE  IInv'
    <2>1. PICK marks \in BOOLEAN :
            send' = [send EXCEPT ![c] = Sending("open", o, marks /\ row[o] # NoRow)]
      BY <1>1 DEF OpenTx
    <2>2. Sending("open", o, marks /\ row[o] # NoRow) \in Sendings
      BY DEF Sending, Sendings
    <2>3. Sending("open", o, marks /\ row[o] # NoRow).stage = "open"
      BY DEF Sending
    <2> QED
      BY <1>1, <2>1, <2>2, <2>3 DEF OpenTx, RowWhenOpened, IInv, Types, MarkedIsMentioned,
         StoredIsMentioned, RowsAreUploads, SweptAreUploads, GoneIsGone
  <1>2. ASSUME NEW o \in Objects, Store(c, o)
        PROVE  IInv'
    <2>1. Sending("stored", o, FALSE) \in Sendings /\ Sending("stored", o, FALSE).key = o
      BY DEF Sending, Sendings
    <2> QED
      BY <1>2, <2>1 DEF Store, IInv, Types, MarkedIsMentioned, StoredIsMentioned,
         RowsAreUploads, SweptAreUploads, GoneIsGone
  <1>3. CASE Commit(c)
    <2>1. send[c] \in Sendings
      BY <1>0, <1>3 DEF Commit, Types, Idle
    <2>2. send[c].key \in Objects
      BY <2>1 DEF Sendings
    <2>3. /\ row' \in [Objects -> Rows \cup {NoRow}]
          /\ \A p \in Objects : row'[p] # NoRow => row[p] # NoRow
          /\ \A p \in Objects : p # send[c].key => row'[p] = row[p]
      <3>1. row' = row \/ row' = Marked(send[c].key)
        BY <1>3 DEF Commit
      <3>2. /\ Marked(send[c].key) \in [Objects -> Rows \cup {NoRow}]
            /\ \A p \in Objects : Marked(send[c].key)[p] # NoRow => row[p] # NoRow
            /\ \A p \in Objects : p # send[c].key => Marked(send[c].key)[p] = row[p]
        BY <1>0, <2>2, MarkedRow
      <3>3. row \in [Objects -> Rows \cup {NoRow}]
        BY <1>0 DEF Types
      <3> QED
        BY <3>1, <3>2, <3>3
    <2>4. Idle.stage # "stored"
      BY DEF Idle
    <2> QED
      BY <1>3, <2>2, <2>3, <2>4 DEF Commit, IInv, Types, MarkedIsMentioned,
         StoredIsMentioned, RowsAreUploads, SweptAreUploads, GoneIsGone
  <1>4. CASE Rollback(c)
    <2>1. Idle.stage # "stored"
      BY DEF Idle
    <2> QED
      BY <1>4, <2>1 DEF Rollback, IInv, Types, MarkedIsMentioned, StoredIsMentioned,
         RowsAreUploads, SweptAreUploads, GoneIsGone
  <1>5. CASE Mark(c)
    <2>1. send[c] \in Sendings
      BY <1>0, <1>5 DEF Mark, Types, Idle
    <2>2. send[c].key \in mentioned /\ send[c].key \in Objects
      BY <1>5, <2>1 DEF Mark, IInv, StoredIsMentioned, Sendings
    <2>3. /\ row' \in [Objects -> Rows \cup {NoRow}]
          /\ \A p \in Objects : row'[p] # NoRow => row[p] # NoRow
          /\ \A p \in Objects : p # send[c].key => row'[p] = row[p]
      <3>1. row' = row \/ row' = Marked(send[c].key)
        BY <1>5 DEF Mark
      <3>2. /\ Marked(send[c].key) \in [Objects -> Rows \cup {NoRow}]
            /\ \A p \in Objects : Marked(send[c].key)[p] # NoRow => row[p] # NoRow
            /\ \A p \in Objects : p # send[c].key => Marked(send[c].key)[p] = row[p]
        BY <1>0, <2>2, MarkedRow
      <3>3. row \in [Objects -> Rows \cup {NoRow}]
        BY <1>0 DEF Types
      <3> QED
        BY <3>1, <3>2, <3>3
    <2>4. Idle.stage # "stored"
      BY DEF Idle
    <2> QED
      BY <1>5, <2>2, <2>3, <2>4 DEF Mark, IInv, Types, MarkedIsMentioned,
         StoredIsMentioned, RowsAreUploads, SweptAreUploads, GoneIsGone
  <1> QED
    BY <1>1, <1>2, <1>3, <1>4, <1>5

\* The reaper keeps it.
LEMMA ReaperInvariant ==
  ASSUME MediaAssumption, IInv,
         \/ BeginSweep \/ EndSweep \/ EndSweepFailed
         \/ \E o \in Objects : DeleteObject(o) \/ DeleteRefused(o)
  PROVE  IInv'
  <1> USE DEF IInv, Types, MarkedIsMentioned, StoredIsMentioned, RowsAreUploads,
              SweptAreUploads, GoneIsGone
  <1>1. CASE BeginSweep
    <2>1. Selected \subseteq {o \in Objects : row[o] # NoRow}
      BY DEF Selected, FirstOf, Due
    <2>2. reaper' = Resting \/ reaper' = Sweeping(Selected, {})
      BY <1>1 DEF BeginSweep, WhenNothingIsDue
    <2>3. CASE reaper' = Resting
      BY <1>1, <2>3 DEF BeginSweep, Resting
    <2>4. CASE reaper' = Sweeping(Selected, {})
      <3>1. /\ reaper' \in [stage : {"resting", "sweeping"}, rows : SUBSET Objects, gone : SUBSET Objects]
            /\ reaper'.rows \subseteq {o \in Objects : row[o] # NoRow}
            /\ reaper'.gone = {}
        BY <2>1, <2>4 DEF Sweeping
      <3>2. UNCHANGED <<s3, upload, row, mentioned, send, crashes>>
        BY <1>1 DEF BeginSweep
      <3> QED
        BY <3>1, <3>2
    <2> QED
      BY <2>2, <2>3, <2>4
  <1>2. CASE EndSweep
    <2>1. row' = [o \in Objects |-> IF o \in Forgotten THEN NoRow ELSE row[o]]
      BY <1>2 DEF EndSweep
    <2>2. /\ row' \in [Objects -> Rows \cup {NoRow}]
          /\ \A o \in Objects : row'[o] # NoRow => row'[o] = row[o]
      BY <2>1
    <2> QED
      BY <1>2, <2>2 DEF EndSweep, Resting
  <1>3. CASE EndSweepFailed
    BY <1>3 DEF EndSweepFailed, Resting
  <1>4. ASSUME NEW o \in Objects, DeleteObject(o)
        PROVE  IInv'
    BY <1>4 DEF DeleteObject, IsNext, Sweeping
  <1>5. ASSUME NEW o \in Objects, DeleteRefused(o)
        PROVE  IInv'
    BY <1>5 DEF DeleteRefused, IsNext, Sweeping
  <1> QED
    BY <1>1, <1>2, <1>3, <1>4, <1>5

\* A restart keeps it.
LEMMA CrashInvariant ==
  ASSUME MediaAssumption, IInv, Crash
  PROVE  IInv'
  BY DEF MediaAssumption, Crash, IInv, Types, MarkedIsMentioned, StoredIsMentioned,
         RowsAreUploads, SweptAreUploads, GoneIsGone, Resting, Idle

\* Every step keeps it.
LEMMA NextInvariant ==
  ASSUME MediaAssumption, IInv, [Next]_vars
  PROVE  IInv'
  <1>1. CASE Next
    BY <1>1, UploadInvariant, SendInvariant, ReaperInvariant, CrashInvariant DEF Next
  <1>2. CASE UNCHANGED vars
    BY <1>2 DEF vars, IInv, Types, MarkedIsMentioned, StoredIsMentioned, RowsAreUploads,
       SweptAreUploads, GoneIsGone
  <1> QED
    BY <1>1, <1>2

\* The inductive invariant holds in every reachable state.
THEOREM MediaInvariant ==
  ASSUME MediaAssumption
  PROVE  Spec => []IInv
  BY InitInvariant, NextInvariant, PTL DEF Spec

-----------------------------------------------------------------------------
\* MarkMediaReferenced: a committed mark always has its message, whichever
\* transactions roll back and wherever the process stops.
THEOREM MarkRule ==
  ASSUME MediaAssumption
  PROVE  Spec => []MarkedIsMentioned
  <1>1. IInv => MarkedIsMentioned
    BY DEF IInv
  <1> QED
    BY <1>1, MediaInvariant, PTL

\* sweepOnce: a row is only dropped once its object is gone from the bucket.
THEOREM SweepRule ==
  ASSUME MediaAssumption
  PROVE  Spec => TrackedUntilGone
  <1>1. ASSUME IInv, [Next]_vars
        PROVE  [\A o \in Objects : row[o] # NoRow /\ row'[o] = NoRow => o \notin s3']_vars
    <2> SUFFICES ASSUME Next, NEW o \in Objects, row[o] # NoRow, row'[o] = NoRow
                 PROVE  o \notin s3'
      BY <1>1
    <2>0. Types /\ row[o] \in Rows
      BY <1>1 DEF IInv, Types
    <2>1. CASE EndSweep
      BY <1>1, <2>1 DEF EndSweep, Forgotten, IInv, GoneIsGone
    <2>2. NoRow \notin Rows
      BY DEF MediaAssumption, Rows
    <2>3. ASSUME NEW p \in Objects, Track(p)
          PROVE  FALSE
      BY <1>1, <2>0, <2>3 DEF Track, Types, IInv, RowsAreUploads
    <2>4. ASSUME NEW p \in Objects, Age(p)
          PROVE  FALSE
      <3>1. row[p] \in Rows /\ row' = [row EXCEPT ![p] = [row[p] EXCEPT !.old = TRUE]]
        BY <2>0, <2>4 DEF Age, Types
      <3>2. [row[p] EXCEPT !.old = TRUE] \in Rows
        BY <3>1 DEF Rows
      <3>3. row'[o] \in Rows
        BY <2>0, <3>1, <3>2 DEF Types
      <3> QED
        BY <2>2, <3>3
    <2>5. ASSUME NEW c \in Senders, Commit(c) \/ Mark(c)
          PROVE  FALSE
      <3>1. row' = row \/ row' = Marked(send[c].key)
        BY <2>5 DEF Commit, Mark
      <3>2. send[c].key \in Objects
        BY <2>0, <2>5 DEF Types, Commit, Mark, Idle, Sendings
      <3>3. row'[o] \in Rows
        BY <2>0, <3>1, <3>2, MarkedRow
      <3> QED
        BY <2>2, <3>3
    <2> QED
      BY <2>1, <2>3, <2>4, <2>5 DEF Next, Put, OpenTx, RowWhenOpened, Store, Rollback,
         BeginSweep, EndSweepFailed, DeleteObject, DeleteRefused, Crash
  <1> QED
    BY <1>1, MediaInvariant, PTL DEF Spec, TrackedUntilGone
=============================================================================
