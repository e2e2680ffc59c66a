--------------------------- MODULE DirectMessages ---------------------------
(* One conversation of two users: its row in "conversations", the rows of      *)
(* "messages" that clients write under ids they choose themselves, and the     *)
(* requests of both transports (REST and WebSocket, on any instance) that work *)
(* on them at the same time.                                                   *)
(*                                                                             *)
(* A request reads the row, and what it read is out of date when it writes.    *)
(* Sending writes single columns in one transaction; accepting, rejecting and  *)
(* every per-user setting write the WHOLE row they read back (gorm's Save).    *)
(*                                                                             *)
(* The unique index over the pair (MIGRATION_conversations_pair_unique.md) is  *)
(* assumed to be there: the pair has at most one row.                          *)
EXTENDS Integers, FiniteSets

CONSTANTS
  Ids,         \* client_message_ids
  Reqs,        \* requests under way at the same time
  Banned,      \* users with a spam ban that leaves messages alone
  MaxPending,  \* max_pending_messages of the row
  MaxSaves,    \* bound: whole-row writes of a behaviour
  NoRow, NoMessage, Elsewhere

ASSUME BoundsAssumption == MaxPending \in Nat /\ MaxSaves \in Nat /\ IsFiniteSet(Ids)

\* The columns are user1_... and user2_...: the pair is kept in order.
Users == {1, 2}
Other(u) == 3 - u

VARIABLES
  row,       \* the conversation, or NoRow
  messages,  \* what is stored under each id
  reqs,      \* what each request has read and will do next
  answers,   \* [by, id]: the sender was told that this message is sent
  fanned,    \* how often each message was passed to HandleNewMessage
  saves

vars == <<row, messages, reqs, answers, fanned, saves>>

Statuses == {"pending", "active", "restricted"}

Row == [status : Statuses, count : [Users -> Nat], previous : BOOLEAN,
        blocked : BOOLEAN]

Message == [from : Users, to : Users \cup {Elsewhere}]

ASSUME NullsAssumption ==
  NoRow \notin Row /\ NoMessage \notin Message /\ Elsewhere \notin Users

\* known: the request has read the row, and found has_previous_conversation so.
Sending  == [at : {"store"}, by : Users, via : {"rest", "ws"}, id : Ids,
             known : BOOLEAN, previous : BOOLEAN, skip : BOOLEAN]
Fanning  == [at : {"fan"}, by : Users, via : {"rest", "ws"}, id : Ids]
Saving   == [at : {"save"}, copy : Row]
Idle     == [at |-> "idle"]

TypeOK ==
  /\ row \in Row \cup {NoRow}
  /\ messages \in [Ids -> Message \cup {NoMessage}]
  /\ reqs \in [Reqs -> {Idle} \cup Sending \cup Fanning \cup Saving]
  /\ answers \subseteq [by : Users, id : Ids]
  /\ fanned \in [Ids -> Nat]
  /\ saves \in Nat

FreshRow == [status |-> "pending", count |-> [u \in Users |-> 0],
             previous |-> FALSE, blocked |-> FALSE]

\* getOrCreateConversation: the row of the pair, made when there is none.
Found == IF row = NoRow THEN FreshRow ELSE row

Init ==
  /\ row = NoRow
  /\ messages = [i \in Ids |-> NoMessage]
  /\ reqs = [r \in Reqs |-> Idle]
  /\ answers = {}
  /\ fanned = [i \in Ids |-> 0]
  /\ saves = 0

-----------------------------------------------------------------------------
(* Sending.                                                                   *)

\* checkConversationPermission: only the REST transport asks for it.
MaySend(c, u) ==
  \/ c.status = "active"
  \/ c.status = "pending" /\ c.count[u] < MaxPending

\* The request has passed the checks; "c" is the row it read.
Checked(r, u, transport, i, c, skip) ==
  reqs' = [reqs EXCEPT ![r] =
             [at |-> "store", by |-> u, via |-> transport, id |-> i,
              known |-> c # NoRow,
              previous |-> IF c = NoRow THEN FALSE ELSE c.previous,
              skip |-> skip]]

\* POST /messages up to the transaction: a pair without a row passes, and a
\* banned user's message will then not make one (ShouldSkipConversationCreate).
CheckRest(r, u, i) ==
  /\ reqs[r] = Idle
  /\ row # NoRow => ~row.blocked /\ MaySend(row, u)
  /\ Checked(r, u, "rest", i, row, row = NoRow /\ u \in Banned)
  /\ UNCHANGED <<row, messages, answers, fanned, saves>>

\* ShouldSkipConversationCreate looks for the row once more, and finds the one
\* that has been made since.
LooksAgain(r) ==
  /\ reqs[r].at = "store" /\ reqs[r].skip
  /\ row # NoRow
  /\ reqs' = [reqs EXCEPT ![r] = [@ EXCEPT !.skip = FALSE]]
  /\ UNCHANGED <<row, messages, answers, fanned, saves>>

\* send_message up to the transaction: makes the row, and knows no limit.
CheckWs(r, u, i) ==
  /\ reqs[r] = Idle
  /\ IF row = NoRow THEN u \notin Banned ELSE ~row.blocked
  /\ row' = Found
  /\ Checked(r, u, "ws", i, Found, FALSE)
  /\ UNCHANGED <<messages, answers, fanned, saves>>

\* Mutant: only a pending conversation is opened by an answer.
AppliedIfPending(c, u, previous) ==
  LET count == [c.count EXCEPT ![u] = @ + 1]
      both  == \A v \in Users : count[v] > 0
  IN [c EXCEPT
       !.count = count,
       !.previous = @ \/ both,
       !.status = IF @ # "pending" THEN @
                  ELSE IF both THEN "active"
                  ELSE IF count[u] > MaxPending THEN "restricted" ELSE @]

\* applyConversationMessageUpdate and its WebSocket twin: one more message of u.
\* "previous" is what the caller's copy says of has_previous_conversation.
Applied(c, u, previous) ==
  LET count == [c.count EXCEPT ![u] = @ + 1]
      both  == \A v \in Users : count[v] > 0
  IN [c EXCEPT
       !.count = count,
       !.previous = @ \/ (both /\ (~previous \/ c.status # "active")),
       !.status = IF both THEN "active"
                  ELSE IF @ = "pending" /\ count[u] > MaxPending
                       THEN "restricted" ELSE @]

\* Mutant: a message sent again is counted again.
RowAfterAlways(q) ==
  IF q.skip THEN row
  ELSE Applied(Found, q.by, IF q.known THEN q.previous ELSE Found.previous)

\* What the transaction of q leaves in the row. A request that has not read the
\* row reads it now.
RowAfter(q) ==
  IF messages[q.id] # NoMessage \/ q.skip THEN row
  ELSE Applied(Found, q.by, IF q.known THEN q.previous ELSE Found.previous)

\* Mutant: only the sender is compared.
SameSender(m, u) == m.from = u

\* The row stored under an id already is this very message, sent again.
SameMessage(m, u) == m.from = u /\ m.to = Other(u)

\* The transaction of both transports: insert unless the id is taken, and count.
Store(r) ==
  LET q == reqs[r] IN
  /\ q.at = "store"
  /\ messages[q.id] = NoMessage
  /\ messages' = [messages EXCEPT ![q.id] = [from |-> q.by, to |-> Other(q.by)]]
  /\ row' = RowAfter(q)
  /\ reqs' = [reqs EXCEPT ![r] =
                [at |-> "fan", by |-> q.by, via |-> q.via, id |-> q.id]]
  /\ answers' = IF q.via = "ws" THEN answers \cup {[by |-> q.by, id |-> q.id]}
                ELSE answers
  /\ UNCHANGED <<fanned, saves>>

\* The id is taken: by this message (answered like the first time) or by another
\* one (CLIENT_MESSAGE_ID_TAKEN).
StoreAgain(r) ==
  LET q == reqs[r] IN
  /\ q.at = "store"
  /\ messages[q.id] # NoMessage
  /\ row' = RowAfter(q)
  /\ answers' = IF SameMessage(messages[q.id], q.by)
                THEN answers \cup {[by |-> q.by, id |-> q.id]} ELSE answers
  /\ reqs' = [reqs EXCEPT ![r] = Idle]
  /\ UNCHANGED <<messages, fanned, saves>>

\* HandleNewMessage, after the commit; REST answers after it.
FanOut(r) ==
  LET q == reqs[r] IN
  /\ q.at = "fan"
  /\ fanned' = [fanned EXCEPT ![q.id] = @ + 1]
  /\ answers' = IF q.via = "rest" THEN answers \cup {[by |-> q.by, id |-> q.id]}
                ELSE answers
  /\ reqs' = [reqs EXCEPT ![r] = Idle]
  /\ UNCHANGED <<row, messages, saves>>

\* A statement fails and what was begun is rolled back, or the process dies.
Fails(r) ==
  /\ reqs[r] # Idle
  /\ reqs' = [reqs EXCEPT ![r] = Idle]
  /\ UNCHANGED <<row, messages, answers, fanned, saves>>

\* The table is shared: the id goes into a group, a room or another conversation.
SendElsewhere(u, i) ==
  /\ messages[i] = NoMessage
  /\ messages' = [messages EXCEPT ![i] = [from |-> u, to |-> Elsewhere]]
  /\ UNCHANGED <<row, reqs, answers, fanned, saves>>

-----------------------------------------------------------------------------
(* The handlers that write the whole row back.                                *)

ReadToSave(r, c) ==
  /\ reqs[r] = Idle
  /\ saves < MaxSaves
  /\ saves' = saves + 1
  /\ row' = Found
  /\ reqs' = [reqs EXCEPT ![r] = [at |-> "save", copy |-> c]]
  /\ UNCHANGED <<messages, answers, fanned>>

\* Mute, archive, pin, nickname, wallpaper, calls, screenshots: one user's column,
\* which is no part of the model, and every other column as it was read.
ChangeSetting(r) == ReadToSave(r, Found)

\* Mutant: a status of its own, which the column does not allow.
RejectedByName(c) == [c EXCEPT !.status = "rejected"]

\* Either of the two may accept or reject, the one who asked included.
Accepted(c) == [c EXCEPT !.status = "active", !.previous = TRUE]
Rejected(c) == [c EXCEPT !.status = "restricted"]

Accept(r) == Found.status = "pending" /\ ReadToSave(r, Accepted(Found))
Reject(r) == Found.status = "pending" /\ ReadToSave(r, Rejected(Found))

\* Save(conversation): every column, from the copy.
SaveRow(r) ==
  /\ reqs[r].at = "save"
  /\ row' = reqs[r].copy
  /\ reqs' = [reqs EXCEPT ![r] = Idle]
  /\ UNCHANGED <<messages, answers, fanned, saves>>

\* The admin panel blocks or releases the conversation.
AdminBlocks ==
  /\ row # NoRow
  /\ row' = [row EXCEPT !.blocked = ~@]
  /\ UNCHANGED <<messages, reqs, answers, fanned, saves>>

Next ==
  \/ \E r \in Reqs, u \in Users, i \in Ids : CheckRest(r, u, i) \/ CheckWs(r, u, i)
  \/ \E r \in Reqs : LooksAgain(r) \/ Store(r) \/ StoreAgain(r) \/ FanOut(r) \/ Fails(r)
  \/ \E u \in Users, i \in Ids : SendElsewhere(u, i)
  \/ \E r \in Reqs : ChangeSetting(r) \/ Accept(r) \/ Reject(r) \/ SaveRow(r)
  \/ AdminBlocks

Spec == Init /\ [][Next]_vars

-----------------------------------------------------------------------------
(* What holds however the requests interleave.                                *)

Sides(c) ==
  /\ (\A u \in Users : c.count[u] > 0) => c.status = "active"
  /\ c.status = "active" => c.previous
  /\ c.status = "pending" => \A u \in Users : c.count[u] <= MaxPending

\* The status of the row, and of every copy a handler is going to write back,
\* fits its counters: who was answered is in an active conversation, an active one
\* has a history, and a request has not outgrown the limit (conversation_handler.go
\* 526-585, with 1605-1700 overwriting it from old copies).
SidesMatchStatus ==
  /\ row # NoRow => Sides(row)
  /\ \A r \in Reqs : reqs[r].at = "save" => Sides(reqs[r].copy)

\* Row and copies are of their type, and the status fits: a whole row written back
\* over whatever happened in between (gorm's Save) leaves a sound one.
RowIsSound == TypeOK /\ SidesMatchStatus

\* A message somebody is told about, the sender by an answer or both by the fan-out,
\* is stored, from that sender to the other user, and goes out once however often
\* the client repeats it (Issue 1 and Issue 9: persist first, an id is one message).
\* The made-up 201 of a shadow ban or an admin block, which announces a message
\* that is not stored on purpose, is no answer here.
AnnouncedIsStored ==
  /\ \A a \in answers : messages[a.id] = [from |-> a.by, to |-> Other(a.by)]
  /\ \A i \in Ids : fanned[i] > 0 => /\ messages[i] # NoMessage
                                     /\ messages[i].to # Elsewhere
                                     /\ fanned[i] = 1

Sent(u) == {i \in Ids : messages[i] = [from |-> u, to |-> Other(u)]}

\* No message is counted twice, however often it is sent and whoever writes old
\* counters back: the pending limit is never reached by repeating a message.
CountedOnce ==
  row # NoRow => \A u \in Users : row.count[u] <= Cardinality(Sent(u))

-----------------------------------------------------------------------------
(* What the comments promise and the code does not keep: see README.md.       *)

\* conversation_handler.go:482-494 (Issue 14): increments are no longer lost, the
\* counters tell how many messages each user has sent.
EveryMessageCounted ==
  row # NoRow => \A u \in Users : row.count[u] = Cardinality(Sent(u))
=============================================================================
