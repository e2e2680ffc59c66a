------------------------------- MODULE MediaGC -------------------------------
(***************************************************************************)
(* Orphaned media (services/media_gc.go, and the upload and send paths that *)
(* call it).  An upload writes an object to S3 and a row to                 *)
(* chat_media_objects; storing a message that names the object marks the    *)
(* row; the reaper deletes the objects, and then the rows, that stayed      *)
(* unmarked for a day.  Uploads, sends and the reaper are goroutines that   *)
(* meet only in the database.                                               *)
(***************************************************************************)
EXTENDS Integers, FiniteSets

CONSTANTS
  Objects,      \* S3 keys, numbered in the order their rows are inserted
  Senders,      \* requests that store messages
  BatchSize,    \* rows of one sweep
  MarksFail,    \* may the UPDATE that marks a row fail?
  Undeletable,  \* keys S3 always refuses to delete
  MaxCrashes,   \* bound on restarts
  NoRow

ASSUME MediaAssumption ==
  /\ Objects \subseteq Nat
  /\ IsFiniteSet(Objects)
  /\ BatchSize \in Nat \ {0}
  /\ MarksFail \in BOOLEAN
  /\ Undeletable \subseteq Objects
  /\ MaxCrashes \in Nat
  /\ NoRow \notin [old : BOOLEAN, ref : BOOLEAN]

VARIABLES
  s3,         \* the objects in the bucket
  upload,     \* "none", "put" (in the bucket, no row yet), "done"
  row,        \* chat_media_objects, by key
  mentioned,  \* the keys stored messages name
  send,       \* what each request is doing
  reaper,     \* the sweep: rows still to delete from S3, and those deleted
  crashes     \* restarts so far

vars == <<s3, upload, row, mentioned, send, reaper, crashes>>

Idle == [stage |-> "idle"]
Sending(stage, o, marks) == [stage |-> stage, key |-> o, marks |-> marks]

Resting == [stage |-> "resting", rows |-> {}, gone |-> {}]
Sweeping(rows, gone) == [stage |-> "sweeping", rows |-> rows, gone |-> gone]

Due(o) == row[o] # NoRow /\ row[o].old /\ ~row[o].ref

-----------------------------------------------------------------------------
(* Uploads *)

\* The handler writes the object.
Put(o) ==
  /\ upload[o] = "none"
  /\ s3' = s3 \cup {o}
  /\ upload' = [upload EXCEPT ![o] = "put"]
  /\ UNCHANGED <<row, mentioned, send, reaper, crashes>>

\* Track: a failed INSERT is logged and the upload succeeds all the same.
Track(o) ==
  /\ upload[o] = "put"
  /\ \A p \in Objects : p < o => upload[p] = "done"
  /\ upload' = [upload EXCEPT ![o] = "done"]
  /\ \/ row' = [row EXCEPT ![o] = [old |-> FALSE, ref |-> FALSE]]
     \/ row' = row
  /\ UNCHANGED <<s3, mentioned, send, reaper, crashes>>

\* orphanTTL passes.
Age(o) ==
  /\ row[o] # NoRow
  /\ ~row[o].old
  /\ row' = [row EXCEPT ![o].old = TRUE]
  /\ UNCHANGED <<s3, upload, mentioned, send, reaper, crashes>>

-----------------------------------------------------------------------------
(* Sends *)

\* MarkReferenced: one UPDATE of the rows there are.
Marked(o) == [row EXCEPT ![o] = IF @ = NoRow THEN NoRow ELSE [@ EXCEPT !.ref = TRUE]]

\* Another transaction has the row of o under an uncommitted UPDATE.
Locked(o) ==
  \E c \in Senders : send[c].stage = "open" /\ send[c].key = o /\ send[c].marks

MaySend(c) == send[c] = Idle

RowWhenOpenedEager(o) == Marked(o)

\* What an open transaction has written to the row, as others see it: nothing.
RowWhenOpened(o) == row

\* A direct message: in one transaction the message is stored and, in a
\* savepoint of its own, the row is marked.
OpenTx(c, o) ==
  /\ MaySend(c)
  /\ upload[o] = "done"
  /\ ~Locked(o)
  /\ row' = RowWhenOpened(o)
  /\ \E marks \in IF MarksFail THEN BOOLEAN ELSE {TRUE} :
       send' = [send EXCEPT ![c] = Sending("open", o, marks /\ row[o] # NoRow)]
  /\ UNCHANGED <<s3, upload, mentioned, reaper, crashes>>

Commit(c) ==
  /\ send[c].stage = "open"
  /\ mentioned' = mentioned \cup {send[c].key}
  /\ row' = IF send[c].marks THEN Marked(send[c].key) ELSE row
  /\ send' = [send EXCEPT ![c] = Idle]
  /\ UNCHANGED <<s3, upload, reaper, crashes>>

Rollback(c) ==
  /\ send[c].stage = "open"
  /\ send' = [send EXCEPT ![c] = Idle]
  /\ UNCHANGED <<s3, upload, row, mentioned, reaper, crashes>>

\* A group or room message (and a room's avatar): stored first ...
Store(c, o) ==
  /\ MaySend(c)
  /\ upload[o] = "done"
  /\ mentioned' = mentioned \cup {o}
  /\ send' = [send EXCEPT ![c] = Sending("stored", o, FALSE)]
  /\ UNCHANGED <<s3, upload, row, reaper, crashes>>

\* ... and marked by a second statement.
Mark(c) ==
  /\ send[c].stage = "stored"
  /\ ~Locked(send[c].key)
  /\ \/ row' = Marked(send[c].key)
     \/ MarksFail /\ row' = row
  /\ send' = [send EXCEPT ![c] = Idle]
  /\ UNCHANGED <<s3, upload, mentioned, reaper, crashes>>

-----------------------------------------------------------------------------
(* The reaper *)

\* The first BatchSize of them, by id.
FirstOf(rows) == {o \in rows : Cardinality({p \in rows : p < o}) < BatchSize}

Selected == FirstOf({o \in Objects : Due(o)})

WhenNothingIsDueStopped == [Resting EXCEPT !.stage = "stopped"]
WhenNothingIsDue == Resting

\* sweepOnce: the SELECT.
BeginSweep ==
  /\ reaper.stage = "resting"
  /\ reaper' = IF Selected = {} THEN WhenNothingIsDue ELSE Sweeping(Selected, {})
  /\ UNCHANGED <<s3, upload, row, mentioned, send, crashes>>

IsNext(o) == reaper.stage = "sweeping" /\ o \in reaper.rows /\ \A p \in reaper.rows : o <= p

DeleteObject(o) ==
  /\ IsNext(o)
  /\ o \notin Undeletable
  /\ s3' = s3 \ {o}
  /\ reaper' = Sweeping(reaper.rows \ {o}, reaper.gone \cup {o})
  /\ UNCHANGED <<upload, row, mentioned, send, crashes>>

\* S3 refuses: the row is kept for the next sweep.
DeleteRefused(o) ==
  /\ IsNext(o)
  /\ reaper' = Sweeping(reaper.rows \ {o}, reaper.gone)
  /\ UNCHANGED <<s3, upload, row, mentioned, send, crashes>>

ForgottenAlsoFailed == {o \in Objects : o \in reaper.gone \/ Due(o)}
Forgotten == reaper.gone

\* One DELETE for the rows of the deleted objects.
EndSweep ==
  /\ reaper.stage = "sweeping"
  /\ reaper.rows = {}
  /\ \A o \in reaper.gone : ~Locked(o)
  /\ row' = [o \in Objects |-> IF o \in Forgotten THEN NoRow ELSE row[o]]
  /\ reaper' = Resting
  /\ UNCHANGED <<s3, upload, mentioned, send, crashes>>

\* The DELETE fails: the rows are kept for the next sweep.
EndSweepFailed ==
  /\ reaper.stage = "sweeping"
  /\ reaper.rows = {}
  /\ \A o \in reaper.gone : ~Locked(o)
  /\ reaper' = Resting
  /\ UNCHANGED <<s3, upload, row, mentioned, send, crashes>>

-----------------------------------------------------------------------------
\* The process stops: open transactions roll back, requests and the sweep end.
Crash ==
  /\ crashes < MaxCrashes
  /\ crashes' = crashes + 1
  /\ upload' = [o \in Objects |-> IF upload[o] = "put" THEN "done" ELSE upload[o]]
  /\ send' = [c \in Senders |-> Idle]
  /\ reaper' = Resting
  /\ UNCHANGED <<s3, row, mentioned>>

Init ==
  /\ s3 = {}
  /\ upload = [o \in Objects |-> "none"]
  /\ row = [o \in Objects |-> NoRow]
  /\ mentioned = {}
  /\ send = [c \in Senders |-> Idle]
  /\ reaper = Resting
  /\ crashes = 0

Next ==
  \/ \E o \in Objects : Put(o) \/ Track(o) \/ Age(o)
  \/ \E c \in Senders, o \in Objects : OpenTx(c, o) \/ Store(c, o)
  \/ \E c \in Senders : Commit(c) \/ Rollback(c) \/ Mark(c)
  \/ BeginSweep \/ EndSweep \/ EndSweepFailed
  \/ \E o \in Objects : DeleteObject(o) \/ DeleteRefused(o)
  \/ Crash

Spec == Init /\ [][Next]_vars

\* The reaper's ticker goes on and a sweep ends; S3 and the database do not
\* fail for ever for the same object; transactions end.
Fairness ==
  /\ WF_vars(BeginSweep)
  /\ WF_vars(EndSweep \/ EndSweepFailed)
  /\ \A o \in Objects :
       /\ WF_vars(Age(o))
       /\ WF_vars(DeleteObject(o) \/ DeleteRefused(o))
       /\ SF_vars(DeleteObject(o))
       /\ SF_vars(EndSweep /\ o \in reaper.gone)
  /\ \A c \in Senders : WF_vars(Commit(c) \/ Rollback(c))

FairSpec == Spec /\ Fairness

-----------------------------------------------------------------------------
(* Properties *)

TypeOK ==
  /\ s3 \subseteq Objects
  /\ upload \in [Objects -> {"none", "put", "done"}]
  /\ \A o \in Objects : row[o] # NoRow => row[o] \in [old : BOOLEAN, ref : BOOLEAN]
  /\ mentioned \subseteq Objects
  /\ \A c \in Senders : send[c].stage \in {"idle", "open", "stored"}
  /\ reaper.stage \in {"resting", "sweeping"}
  /\ reaper.rows \cup reaper.gone \subseteq Objects
  /\ crashes \in 0..MaxCrashes

\* MarkMediaReferenced: no message, no mark - a send that is rolled back or
\* cut off never leaves its media marked (the reaper could not free it again).
MarkedIsMentioned ==
  \A o \in Objects : row[o] # NoRow /\ row[o].ref => o \in mentioned

\* sweepOnce: a row is only dropped once its object is gone from S3, whatever
\* S3 refuses and wherever the sweep is cut off.
TrackedUntilGone ==
  [][\A o \in Objects : row[o] # NoRow /\ row'[o] = NoRow => o \notin s3']_vars

\* media_gc.go: an object that has a row and that no message names is deleted
\* from S3 and from the table a day later, unless S3 always refuses that object
\* or, for ever, as many older ones as a sweep takes.
Reachable == {o \in Objects \ Undeletable : Cardinality({p \in Undeletable : p < o}) < BatchSize}

OrphansGo ==
  \A o \in Reachable :
    row[o] # NoRow /\ o \notin mentioned ~> row[o] = NoRow \/ o \in mentioned

-----------------------------------------------------------------------------
(* What the comments promise and the code does not keep: see README.md. *)

\* media_gc.go: media a stored message names is never deleted.
ReferencedMediaKept ==
  [][\A o \in mentioned \cap s3 : o \in s3']_vars

\* SendGroupMessage, SendMessage: once a send is over its media is marked, so
\* that a retry, which finds the message stored, has nothing left to do.
StoredIsMarked ==
  \A o \in mentioned :
    \/ row[o] = NoRow
    \/ row[o].ref
    \/ \E c \in Senders : send[c].stage = "stored" /\ send[c].key = o
=============================================================================
