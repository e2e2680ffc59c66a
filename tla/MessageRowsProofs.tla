--------------------------- MODULE MessageRowsProofs -------------------------
(* Theorems about MessageRows, for any number of messages, requests, handlers *)
(* and operations.  The handlers of rows leave the conversation and its sends *)
(* alone, so what is proved of DirectMessages holds of the two together.  The *)
(* invariant says of every copy of a row what it says of the row, and what a  *)
(* copy may differ in from the row it was made of: an old copy that is        *)
(* written back can take marks away, and never put one there that nobody set. *)
EXTENDS MessageRows, FiniteSetTheorems, TLAPS

(* The conversation and its sends, for any number of ids and requests and    *)
(* any limit: what is true of the row and of every copy of it that a handler *)
(* is going to write back.  A copy is a row of some time ago with a legal    *)
(* change, so writing it back cannot break what every row keeps.             *)

LEMMA OtherUser ==
  ASSUME NEW u \in Users
  PROVE  Other(u) \in Users /\ Other(u) # u /\ Users = {u, Other(u)}
  BY DEF Users, Other

LEMMA FoundIsRow ==
  ASSUME TypeOK
  PROVE  Found \in Row
  BY DEF TypeOK, Found, FreshRow, Row, Statuses, Users

LEMMA AppliedIsRow ==
  ASSUME NEW c \in Row, NEW u \in Users, NEW p \in BOOLEAN
  PROVE  Applied(c, u, p) \in Row
  <1> DEFINE count == [c.count EXCEPT ![u] = @ + 1]
             both  == \A v \in Users : count[v] > 0
             prev  == c.previous \/ (both /\ (~p \/ c.status # "active"))
             st    == IF both THEN "active"
                      ELSE IF c.status = "pending" /\ count[u] > MaxPending
                           THEN "restricted" ELSE c.status
  <1>1. count \in [Users -> Nat]
    BY DEF Row
  <1>2. both \in BOOLEAN /\ prev \in BOOLEAN
    BY DEF Row
  <1>3. st \in Statuses
    BY DEF Row, Statuses
  <1>4. Applied(c, u, p)
          = [c EXCEPT !.count = count, !.previous = prev, !.status = st]
    BY DEF Applied
  <1> HIDE DEF count, both, prev, st
  <1> QED
    BY <1>1, <1>2, <1>3, <1>4 DEF Row

\* What a transaction leaves in the row is a row.
LEMMA RowAfterIsRow ==
  ASSUME TypeOK, NEW q \in Sending
  PROVE  RowAfter(q) \in Row \cup {NoRow}
  <1>1. Found \in Row
    BY FoundIsRow
  <1>2. Found.previous \in BOOLEAN /\ q.previous \in BOOLEAN /\ q.by \in Users
    BY <1>1 DEF Row, Sending
  <1> DEFINE p == IF q.known THEN q.previous ELSE Found.previous
  <1>3. p \in BOOLEAN
    BY <1>2
  <1>4. RowAfter(q) = row \/ RowAfter(q) = Applied(Found, q.by, p)
    BY DEF RowAfter
  <1> HIDE DEF p
  <1>5. Applied(Found, q.by, p) \in Row
    BY <1>1, <1>2, <1>3, AppliedIsRow
  <1> QED
    BY <1>4, <1>5 DEF TypeOK

\* A request at a step has the fields of that step.
LEMMA RequestAt ==
  ASSUME TypeOK, NEW r \in Reqs
  PROVE  /\ reqs[r].at = "store" => reqs[r] \in Sending
         /\ reqs[r].at = "fan" => reqs[r] \in Fanning
         /\ reqs[r].at = "save" => reqs[r] \in Saving
  BY DEF TypeOK, Idle, Sending, Fanning, Saving

\* Looking again changes one field of a request that is about to store.
LEMMA LooksAgainWaits ==
  ASSUME TypeOK, NEW r \in Reqs, LooksAgain(r)
  PROVE  \E q \in Sending : q.at = "store" /\ reqs' = [reqs EXCEPT ![r] = q]
  <1>1. reqs[r] \in Sending
    BY RequestAt DEF LooksAgain
  <1>2. [reqs[r] EXCEPT !.skip = FALSE] \in Sending
    BY <1>1 DEF Sending
  <1>3. [reqs[r] EXCEPT !.skip = FALSE].at = "store"
    BY <1>1 DEF Sending
  <1> QED
    BY <1>2, <1>3 DEF LooksAgain

-----------------------------------------------------------------------------
(* Type correctness.                                                          *)

\* Every variable keeps its type, whatever the requests do.
THEOREM TypeCorrect == Spec => []TypeOK
  <1>1. Init => TypeOK
    BY DEF Init, TypeOK, Users
  <1>2. TypeOK /\ [Next]_vars => TypeOK'
    <2> SUFFICES ASSUME TypeOK, [Next]_vars PROVE TypeOK'
      OBVIOUS
    <2> USE DEF TypeOK
    <2>1. ASSUME NEW r \in Reqs, NEW u \in Users, NEW i \in Ids, CheckRest(r, u, i)
          PROVE  TypeOK'
      <3>1. row = NoRow \/ row.previous \in BOOLEAN
        BY DEF Row
      <3> DEFINE q == [at |-> "store", by |-> u, via |-> "rest", id |-> i,
                       known |-> row # NoRow,
                       previous |-> IF row = NoRow THEN FALSE ELSE row.previous,
                       skip |-> row = NoRow /\ u \in Banned]
      <3>2. q \in Sending
        BY <3>1 DEF Sending
      <3>3. reqs' = [reqs EXCEPT ![r] = q]
        BY <2>1 DEF CheckRest, Checked
      <3> HIDE DEF q
      <3> QED
        BY <2>1, <3>2, <3>3 DEF CheckRest
    <2>2. ASSUME NEW r \in Reqs, NEW u \in Users, NEW i \in Ids, CheckWs(r, u, i)
          PROVE  TypeOK'
      <3>1. Found \in Row
        BY FoundIsRow
      <3>2. Found.previous \in BOOLEAN /\ Found # NoRow
        BY <3>1, NullsAssumption DEF Row
      <3> DEFINE q == [at |-> "store", by |-> u, via |-> "ws", id |-> i,
                       known |-> Found # NoRow,
                       previous |-> IF Found = NoRow THEN FALSE ELSE Found.previous,
                       skip |-> FALSE]
      <3>3. q \in Sending
        BY <3>2 DEF Sending
      <3>4. reqs' = [reqs EXCEPT ![r] = q]
        BY <2>2 DEF CheckWs, Checked
      <3> HIDE DEF q
      <3> QED
        BY <2>2, <3>1, <3>3, <3>4 DEF CheckWs
    <2>3. ASSUME NEW r \in Reqs, Store(r) PROVE TypeOK'
      <3> DEFINE q == reqs[r]
      <3>1. q \in Sending
        BY <2>3, RequestAt DEF Store
      <3>2. q.by \in Users /\ q.via \in {"rest", "ws"} /\ q.id \in Ids
        BY <3>1 DEF Sending
      <3>3. row' \in Row \cup {NoRow}
        BY <2>3, <3>1, RowAfterIsRow DEF Store
      <3>4. [from |-> q.by, to |-> Other(q.by)] \in Message
        BY <3>2, OtherUser DEF Message
      <3>5. [at |-> "fan", by |-> q.by, via |-> q.via, id |-> q.id] \in Fanning
        BY <3>2 DEF Fanning
      <3>6. messages' \in [Ids -> Message \cup {NoMessage}]
        BY <2>3, <3>4 DEF Store
      <3>7. reqs' \in [Reqs -> {Idle} \cup Sending \cup Fanning \cup Saving]
        BY <2>3, <3>5 DEF Store
      <3>8. answers' \subseteq [by : Users, id : Ids]
        BY <2>3, <3>2 DEF Store
      <3> QED
        BY <2>3, <3>3, <3>6, <3>7, <3>8 DEF Store
    <2>4. ASSUME NEW r \in Reqs, StoreAgain(r) PROVE TypeOK'
      <3>1. reqs[r] \in Sending
        BY <2>4, RequestAt DEF StoreAgain
      <3>2. row' \in Row \cup {NoRow}
        BY <2>4, <3>1, RowAfterIsRow DEF StoreAgain
      <3> QED
        BY <2>4, <3>1, <3>2 DEF StoreAgain, Sending
    <2>5. ASSUME NEW r \in Reqs, FanOut(r) PROVE TypeOK'
      <3>1. reqs[r] \in Fanning
        BY <2>5, RequestAt DEF FanOut
      <3> QED
        BY <2>5, <3>1 DEF FanOut, Fanning
    <2>6. ASSUME NEW r \in Reqs, Fails(r) PROVE TypeOK'
      BY <2>6 DEF Fails
    <2>7. ASSUME NEW u \in Users, NEW i \in Ids, SendElsewhere(u, i) PROVE TypeOK'
      BY <2>7 DEF SendElsewhere, Message
    <2>8. ASSUME NEW r \in Reqs, NEW c \in Row, ReadToSave(r, c) PROVE TypeOK'
      <3>1. [at |-> "save", copy |-> c] \in Saving
        BY DEF Saving
      <3> QED
        BY <2>8, <3>1, FoundIsRow DEF ReadToSave
    <2>9. ASSUME NEW r \in Reqs, ChangeSetting(r) \/ Accept(r) \/ Reject(r)
          PROVE  TypeOK'
      <3>1. Found \in Row
        BY FoundIsRow
      <3>2. Accepted(Found) \in Row /\ Rejected(Found) \in Row
        BY <3>1 DEF Accepted, Rejected, Row, Statuses
      <3> QED
        BY <2>8, <2>9, <3>1, <3>2 DEF ChangeSetting, Accept, Reject
    <2>10. ASSUME NEW r \in Reqs, SaveRow(r) PROVE TypeOK'
      <3>1. reqs[r] \in Saving
        BY <2>10, RequestAt DEF SaveRow
      <3> QED
        BY <2>10, <3>1 DEF SaveRow, Saving
    <2>11. CASE AdminBlocks
      BY <2>11 DEF AdminBlocks, Row
    <2>12. ASSUME NEW r \in Reqs, LooksAgain(r) PROVE TypeOK'
      <3>1. PICK q \in Sending : reqs' = [reqs EXCEPT ![r] = q]
        BY <2>12, LooksAgainWaits
      <3> QED
        BY <2>12, <3>1 DEF LooksAgain
    <2>13. CASE UNCHANGED vars
      BY <2>13 DEF vars
    <2> QED
      BY <2>1, <2>2, <2>3, <2>4, <2>5, <2>6, <2>7, <2>9, <2>10, <2>11, <2>12, <2>13 DEF Next
  <1> QED
    BY <1>1, <1>2, PTL DEF Spec

-----------------------------------------------------------------------------
(* The status fits the counters.                                              *)

LEMMA AppliedKeepsSides ==
  ASSUME NEW c \in Row, NEW u \in Users, NEW p \in BOOLEAN, Sides(c)
  PROVE  Sides(Applied(c, u, p))
  <1> DEFINE count == [c.count EXCEPT ![u] = @ + 1]
             both  == \A v \in Users : count[v] > 0
             prev  == c.previous \/ (both /\ (~p \/ c.status # "active"))
             st    == IF both THEN "active"
                      ELSE IF c.status = "pending" /\ count[u] > MaxPending
                           THEN "restricted" ELSE c.status
             a     == Applied(c, u, p)
  <1>1. a.count = count /\ a.previous = prev /\ a.status = st
    BY DEF Applied, Row
  <1>2. c.count \in [Users -> Nat] /\ c.status \in Statuses
    BY DEF Row
  <1>3. both => st = "active" /\ prev
    BY DEF Sides
  <1>4. ASSUME ~both, st = "active" PROVE prev
    <2>1. c.status = "active"
      BY <1>2, <1>4 DEF Statuses
    <2> QED
      BY <2>1 DEF Sides
  <1>5. ASSUME st = "pending" PROVE \A v \in Users : count[v] <= MaxPending
    <2>1. c.status = "pending" /\ ~(count[u] > MaxPending)
      BY <1>5, <1>2 DEF Statuses
    <2>2. \A v \in Users : c.count[v] <= MaxPending
      BY <2>1 DEF Sides
    <2> QED
      BY <2>1, <2>2, <1>2, BoundsAssumption
  <1> HIDE DEF count, both, prev, st, a
  <1>6. (\A v \in Users : count[v] > 0) => st = "active"
    BY <1>3 DEF both
  <1>7. st = "active" => prev
    BY <1>3, <1>4
  <1>8. Sides(a)
    BY <1>1, <1>5, <1>6, <1>7 DEF Sides
  <1> QED
    BY <1>8 DEF a

LEMMA FoundKeepsSides ==
  ASSUME TypeOK, SidesMatchStatus
  PROVE  Sides(Found)
  <1>1. Sides(FreshRow)
    BY BoundsAssumption DEF Sides, FreshRow, Users
  <1> QED
    BY <1>1 DEF Found, SidesMatchStatus

LEMMA RowAfterKeepsSides ==
  ASSUME TypeOK, SidesMatchStatus, NEW q \in Sending
  PROVE  RowAfter(q) # NoRow => Sides(RowAfter(q))
  <1>1. Found \in Row /\ Sides(Found)
    BY FoundIsRow, FoundKeepsSides
  <1>2. Found.previous \in BOOLEAN /\ q.previous \in BOOLEAN /\ q.by \in Users
    BY <1>1 DEF Row, Sending
  <1> DEFINE p == IF q.known THEN q.previous ELSE Found.previous
  <1>3. p \in BOOLEAN
    BY <1>2
  <1>4. RowAfter(q) = row \/ RowAfter(q) = Applied(Found, q.by, p)
    BY DEF RowAfter
  <1> HIDE DEF p
  <1>5. Sides(Applied(Found, q.by, p))
    BY <1>1, <1>2, <1>3, AppliedKeepsSides
  <1> QED
    BY <1>4, <1>5 DEF SidesMatchStatus

\* Whichever transport sends and whoever writes an old copy back, a conversation
\* in which both have written is active, an active one has a history, and nobody
\* is above the limit in one that is pending.
THEOREM StatusFits == Spec => []SidesMatchStatus
  <1>1. Init => SidesMatchStatus
    BY DEF Init, SidesMatchStatus, Idle
  <1>2. TypeOK /\ SidesMatchStatus /\ [Next]_vars => SidesMatchStatus'
    <2> SUFFICES ASSUME TypeOK, SidesMatchStatus, [Next]_vars
                 PROVE  SidesMatchStatus'
      OBVIOUS
    <2>1. ASSUME NEW r \in Reqs, NEW q, q.at # "save",
                 reqs' = [reqs EXCEPT ![r] = q], row' # NoRow => Sides(row')
          PROVE  SidesMatchStatus'
      <3>1. \A s \in Reqs : reqs'[s].at = "save" => reqs'[s] = reqs[s]
        BY <2>1 DEF TypeOK
      <3>2. \A s \in Reqs : reqs'[s].at = "save" => Sides(reqs'[s].copy)
        BY <3>1 DEF SidesMatchStatus
      <3> QED
        BY <2>1, <3>2 DEF SidesMatchStatus, Sides
    <2>2. ASSUME NEW r \in Reqs, NEW u \in Users, NEW i \in Ids,
                 CheckRest(r, u, i) \/ CheckWs(r, u, i)
          PROVE  SidesMatchStatus'
      <3>1. row' # NoRow => Sides(row')
        BY <2>2, FoundKeepsSides DEF CheckRest, CheckWs, SidesMatchStatus
      <3>2. PICK q : q.at = "store" /\ reqs' = [reqs EXCEPT ![r] = q]
        BY <2>2 DEF CheckRest, CheckWs, Checked
      <3> QED
        BY <2>1, <3>1, <3>2
    <2>3. ASSUME NEW r \in Reqs, Store(r) PROVE SidesMatchStatus'
      <3>1. row' # NoRow => Sides(row')
        BY <2>3, RequestAt, RowAfterKeepsSides DEF Store
      <3>2. PICK q : q.at = "fan" /\ reqs' = [reqs EXCEPT ![r] = q]
        BY <2>3 DEF Store
      <3> QED
        BY <2>1, <3>1, <3>2
    <2>4. ASSUME NEW r \in Reqs, StoreAgain(r) PROVE SidesMatchStatus'
      <3>1. row' # NoRow => Sides(row')
        BY <2>4, RequestAt, RowAfterKeepsSides DEF StoreAgain
      <3> QED
        BY <2>1, <2>4, <3>1 DEF StoreAgain, Idle
    <2>5. ASSUME NEW r \in Reqs, FanOut(r) \/ Fails(r) PROVE SidesMatchStatus'
      <3>1. row' # NoRow => Sides(row')
        BY <2>5 DEF FanOut, Fails, SidesMatchStatus
      <3> QED
        BY <2>1, <2>5, <3>1 DEF FanOut, Fails, Idle
    <2>6. ASSUME NEW r \in Reqs, NEW c, Sides(c), ReadToSave(r, c)
          PROVE  SidesMatchStatus'
      <3>1. row' # NoRow => Sides(row')
        BY <2>6, FoundKeepsSides DEF ReadToSave
      <3>2. \A s \in Reqs : reqs'[s].at = "save" => Sides(reqs'[s].copy)
        BY <2>6 DEF ReadToSave, SidesMatchStatus, TypeOK
      <3> QED
        BY <3>1, <3>2 DEF SidesMatchStatus, Sides
    <2>7. ASSUME NEW r \in Reqs, ChangeSetting(r) \/ Accept(r) \/ Reject(r)
          PROVE  SidesMatchStatus'
      <3>1. Found \in Row /\ Sides(Found)
        BY FoundIsRow, FoundKeepsSides
      <3>2. Found.status = "pending" => Sides(Accepted(Found)) /\ Sides(Rejected(Found))
        <4>1. ASSUME Found.status = "pending", \A u \in Users : Found.count[u] > 0
              PROVE  FALSE
          BY <3>1, <4>1 DEF Sides
        <4> QED
          BY <3>1, <4>1 DEF Sides, Accepted, Rejected, Row
      <3> QED
        BY <2>6, <2>7, <3>1, <3>2 DEF ChangeSetting, Accept, Reject
    <2>8. ASSUME NEW r \in Reqs, SaveRow(r) PROVE SidesMatchStatus'
      <3>1. row' # NoRow => Sides(row')
        BY <2>8 DEF SaveRow, SidesMatchStatus
      <3> QED
        BY <2>1, <2>8, <3>1 DEF SaveRow, Idle
    <2>9. CASE AdminBlocks
      <3>1. row' = [row EXCEPT !.blocked = ~@] /\ row \in Row /\ reqs' = reqs
        BY <2>9 DEF AdminBlocks, TypeOK
      <3>2. /\ row'.count = row.count
            /\ row'.status = row.status
            /\ row'.previous = row.previous
        BY <3>1 DEF Row
      <3>3. Sides(row)
        BY <3>1, NullsAssumption DEF SidesMatchStatus
      <3> QED
        BY <3>1, <3>2, <3>3 DEF SidesMatchStatus, Sides
    <2>10. ASSUME NEW r \in Reqs, LooksAgain(r) PROVE SidesMatchStatus'
      <3>1. row' # NoRow => Sides(row')
        BY <2>10 DEF LooksAgain, SidesMatchStatus
      <3> QED
        BY <2>1, <2>10, <3>1, LooksAgainWaits
    <2>11. CASE UNCHANGED <<row, reqs>>
      BY <2>11 DEF SidesMatchStatus, Sides
    <2> QED
      BY <2>2, <2>3, <2>4, <2>5, <2>7, <2>8, <2>9, <2>10, <2>11
         DEF Next, SendElsewhere, vars
  <1> QED
    BY <1>1, <1>2, TypeCorrect, PTL DEF Spec

\* The whole-row writes (Save) leave a row of its type whose status fits its counters.
THEOREM RowSound == Spec => []RowIsSound
  BY TypeCorrect, StatusFits, PTL DEF RowIsSound

-----------------------------------------------------------------------------
(* What is announced is stored, once.                                         *)

Direct(i, u) == messages[i] = [from |-> u, to |-> Other(u)]

\* A message waiting for its fan-out is stored, was not fanned out before, and
\* waits in one request only: that request is the one that inserted it.
FanOnce ==
  \A r \in Reqs : reqs[r].at = "fan" =>
    /\ Direct(reqs[r].id, reqs[r].by)
    /\ fanned[reqs[r].id] = 0
    /\ \A s \in Reqs : reqs[s].at = "fan" /\ reqs[s].id = reqs[r].id => s = r

AnnouncedInv == TypeOK /\ FanOnce /\ AnnouncedIsStored

\* A row of "messages" is never changed by sending.
LEMMA StoredStays ==
  ASSUME TypeOK, [Next]_vars, NEW i \in Ids, messages[i] # NoMessage
  PROVE  messages'[i] = messages[i]
  <1>1. ASSUME NEW r \in Reqs, Store(r) PROVE messages'[i] = messages[i]
    BY <1>1 DEF Store, TypeOK
  <1>2. ASSUME NEW u \in Users, NEW j \in Ids, SendElsewhere(u, j)
        PROVE  messages'[i] = messages[i]
    BY <1>2 DEF SendElsewhere, TypeOK
  <1>3. \/ \E r \in Reqs : Store(r)
        \/ \E u \in Users, j \in Ids : SendElsewhere(u, j)
        \/ UNCHANGED messages
    BY DEF Next, vars, CheckRest, CheckWs, LooksAgain, StoreAgain, FanOut, Fails, ChangeSetting,
           Accept, Reject, ReadToSave, SaveRow, AdminBlocks
  <1> QED
    BY <1>1, <1>2, <1>3

\* A message that was announced stays what it was, and nobody else's.
LEMMA DirectIsMessage ==
  ASSUME NEW u \in Users, NEW i \in Ids, Direct(i, u)
  PROVE  messages[i] # NoMessage /\ messages[i].to # Elsewhere
  <1>1. [from |-> u, to |-> Other(u)] \in Message
    BY OtherUser DEF Message
  <1>2. Other(u) # Elsewhere
    BY OtherUser, NullsAssumption
  <1> QED
    BY <1>1, <1>2, NullsAssumption DEF Direct

\* The sender is told "sent", and both sides see the message, only for what is
\* stored from that sender to the other user; and it goes out once.
THEOREM Announced == Spec => []AnnouncedIsStored
  <1>1. Init => AnnouncedInv
    BY DEF Init, AnnouncedInv, TypeOK, FanOnce, AnnouncedIsStored, Idle, Users
  <1>2. TypeOK' /\ AnnouncedInv /\ [Next]_vars => AnnouncedInv'
    <2> SUFFICES ASSUME TypeOK', TypeOK, FanOnce, AnnouncedIsStored, [Next]_vars
                 PROVE  FanOnce' /\ AnnouncedIsStored'
      BY DEF AnnouncedInv
    <2>1. \A i \in Ids : messages[i] # NoMessage => messages'[i] = messages[i]
      BY StoredStays
    <2>2. ASSUME NEW u \in Users, NEW i \in Ids, Direct(i, u)
          PROVE  Direct(i, u)' /\ messages[i] # NoMessage
      BY <2>1, <2>2, DirectIsMessage DEF Direct
    <2>3. \A r \in Reqs : reqs[r].at = "fan" => /\ reqs[r].id \in Ids
                                               /\ reqs[r].by \in Users
      BY RequestAt DEF Fanning
    <2>4. \A a \in answers : a.id \in Ids /\ a.by \in Users
      BY DEF TypeOK
    <2>5. \A a \in answers : Direct(a.id, a.by)'
      BY <2>2, <2>4 DEF AnnouncedIsStored, Direct
    \* Requests that do not come to the fan-out keep FanOnce.
    <2>6. ASSUME NEW r \in Reqs, NEW q, q.at # "fan", UNCHANGED fanned,
                 reqs' = [reqs EXCEPT ![r] = q]
          PROVE  FanOnce'
      <3>1. \A s \in Reqs : reqs'[s].at = "fan" => reqs[s].at = "fan" /\ reqs'[s] = reqs[s]
        BY <2>6 DEF TypeOK
      <3>3. ASSUME NEW s \in Reqs, reqs'[s].at = "fan"
            PROVE  messages'[reqs'[s].id] = [from |-> reqs'[s].by, to |-> Other(reqs'[s].by)]
        <4>1. reqs[s].at = "fan" /\ reqs'[s] = reqs[s] /\ Direct(reqs[s].id, reqs[s].by)
          BY <3>1, <3>3 DEF FanOnce
        <4>2. messages[reqs[s].id] # NoMessage
          BY <4>1, <2>2, <2>3
        <4> QED
          BY <4>1, <4>2, <2>1, <2>3 DEF Direct
      <3> QED
        BY <2>6, <3>1, <3>3 DEF FanOnce, Direct
    \* Answers and fan-outs of before stay true when nothing is added to them.
    <2>7. ASSUME UNCHANGED <<answers, fanned>> PROVE AnnouncedIsStored'
      BY <2>7, <2>1, <2>5 DEF AnnouncedIsStored, Direct
    <2>8. ASSUME NEW r \in Reqs, NEW u \in Users, NEW i \in Ids,
                 CheckRest(r, u, i) \/ CheckWs(r, u, i)
          PROVE  FanOnce' /\ AnnouncedIsStored'
      <3>1. PICK q : q.at = "store" /\ reqs' = [reqs EXCEPT ![r] = q]
        BY <2>8 DEF CheckRest, CheckWs, Checked
      <3> QED
        BY <2>6, <2>7, <2>8, <3>1 DEF CheckRest, CheckWs
    <2>9. ASSUME NEW r \in Reqs, Store(r) PROVE FanOnce' /\ AnnouncedIsStored'
      <3> DEFINE q == reqs[r]
      <3>1. q.id \in Ids /\ q.by \in Users /\ messages[q.id] = NoMessage
        BY <2>9, RequestAt DEF Store, Sending
      <3>2. messages'[q.id] = [from |-> q.by, to |-> Other(q.by)]
        BY <2>9, <3>1 DEF Store, TypeOK
      <3>3. fanned[q.id] = 0 /\ fanned' = fanned
        BY <2>9, <3>1 DEF AnnouncedIsStored, TypeOK, Store
      <3>4. \A s \in Reqs : reqs[s].at = "fan" => reqs[s].id # q.id
        BY <3>1, <2>2, <2>3 DEF FanOnce
      <3>5. \A s \in Reqs : s # r => reqs'[s] = reqs[s]
        BY <2>9 DEF Store, TypeOK
      <3>6. reqs'[r].at = "fan" /\ reqs'[r].id = q.id /\ reqs'[r].by = q.by
        BY <2>9 DEF Store, TypeOK
      <3> HIDE DEF q
      <3>7. \A s \in Reqs : reqs[s].at = "fan"
               => messages'[reqs[s].id] = [from |-> reqs[s].by, to |-> Other(reqs[s].by)]
        BY <2>1, <2>2, <2>3 DEF FanOnce, Direct
      <3>8. FanOnce'
        BY <3>2, <3>3, <3>4, <3>5, <3>6, <3>7 DEF FanOnce, Direct
      <3>9. AnnouncedIsStored'
        <4>1. answers' \subseteq answers \cup {[by |-> q.by, id |-> q.id]}
          BY <2>9 DEF Store, q
        <4>2. \A a \in answers' : messages'[a.id] = [from |-> a.by, to |-> Other(a.by)]
          BY <4>1, <2>5, <3>2 DEF Direct
        <4>3. \A i \in Ids : fanned'[i] > 0 => /\ messages'[i] # NoMessage
                                              /\ messages'[i].to # Elsewhere
                                              /\ fanned'[i] = 1
          BY <2>1, <3>3 DEF AnnouncedIsStored
        <4> QED
          BY <4>2, <4>3 DEF AnnouncedIsStored
      <3> QED
        BY <3>8, <3>9
    <2>10. ASSUME NEW r \in Reqs, StoreAgain(r) PROVE FanOnce' /\ AnnouncedIsStored'
      <3>1. FanOnce'
        BY <2>6, <2>10 DEF StoreAgain, Idle
      <3> DEFINE q == reqs[r]
      <3>2. q.id \in Ids /\ q.by \in Users /\ messages[q.id] \in Message
        BY <2>10, RequestAt DEF StoreAgain, Sending, TypeOK
      <3>3. SameMessage(messages[q.id], q.by)
              => messages'[q.id] = [from |-> q.by, to |-> Other(q.by)]
        BY <2>10, <3>2 DEF StoreAgain, SameMessage, Message
      <3>4. \A a \in answers' : messages'[a.id] = [from |-> a.by, to |-> Other(a.by)]
        BY <2>5, <2>10, <3>3 DEF StoreAgain, Direct
      <3> QED
        BY <2>1, <2>10, <3>1, <3>4 DEF StoreAgain, AnnouncedIsStored
    <2>11. ASSUME NEW r \in Reqs, FanOut(r) PROVE FanOnce' /\ AnnouncedIsStored'
      <3> DEFINE q == reqs[r]
      <3>1. q.id \in Ids /\ q.by \in Users /\ Direct(q.id, q.by) /\ fanned[q.id] = 0
        BY <2>3, <2>11 DEF FanOut, FanOnce
      <3>2. messages' = messages /\ fanned'[q.id] = 1
        BY <2>11, <3>1 DEF FanOut, TypeOK
      <3>3. \A i \in Ids : i # q.id => fanned'[i] = fanned[i]
        BY <2>11 DEF FanOut, TypeOK
      <3>4. \A s \in Reqs : reqs'[s].at = "fan" => s # r /\ reqs'[s] = reqs[s]
        BY <2>11 DEF FanOut, TypeOK, Idle
      <3>5. \A s \in Reqs : s # r /\ reqs[s].at = "fan" => reqs[s].id # q.id
        BY <2>11 DEF FanOut, FanOnce
      <3>6. FanOnce'
        BY <2>3, <3>2, <3>3, <3>4, <3>5 DEF FanOnce, Direct
      <3>7. messages[q.id] # NoMessage /\ messages[q.id].to # Elsewhere
        BY <3>1, DirectIsMessage
      <3>8. answers' \subseteq answers \cup {[by |-> q.by, id |-> q.id]}
        BY <2>11 DEF FanOut
      <3>9. \A a \in answers' : messages'[a.id] = [from |-> a.by, to |-> Other(a.by)]
        BY <2>5, <3>1, <3>2, <3>8 DEF Direct
      <3>10. \A i \in Ids : fanned'[i] > 0 => /\ messages'[i] # NoMessage
                                             /\ messages'[i].to # Elsewhere
                                             /\ fanned'[i] = 1
        BY <3>2, <3>3, <3>7 DEF AnnouncedIsStored
      <3> QED
        BY <3>6, <3>9, <3>10 DEF AnnouncedIsStored
    <2>12. ASSUME NEW r \in Reqs, Fails(r) \/ SaveRow(r)
           PROVE  FanOnce' /\ AnnouncedIsStored'
      BY <2>6, <2>7, <2>12 DEF Fails, SaveRow, Idle
    <2>13. ASSUME NEW r \in Reqs, NEW c, ReadToSave(r, c)
           PROVE  FanOnce' /\ AnnouncedIsStored'
      <3>1. PICK q : q.at = "save" /\ reqs' = [reqs EXCEPT ![r] = q]
        BY <2>13 DEF ReadToSave
      <3> QED
        BY <2>6, <2>7, <2>13, <3>1 DEF ReadToSave
    <2>14. ASSUME NEW r \in Reqs, ChangeSetting(r) \/ Accept(r) \/ Reject(r)
           PROVE  FanOnce' /\ AnnouncedIsStored'
      BY <2>13, <2>14 DEF ChangeSetting, Accept, Reject
    <2>15. ASSUME NEW r \in Reqs, LooksAgain(r) PROVE FanOnce' /\ AnnouncedIsStored'
      BY <2>6, <2>7, <2>15, LooksAgainWaits DEF LooksAgain
    <2>16. CASE UNCHANGED <<reqs, answers, fanned>>
      <3>1. \A s \in Reqs : reqs[s].at = "fan"
               => messages'[reqs[s].id] = [from |-> reqs[s].by, to |-> Other(reqs[s].by)]
        BY <2>1, <2>2, <2>3 DEF FanOnce, Direct
      <3>2. FanOnce'
        BY <2>16, <3>1 DEF FanOnce, Direct
      <3> QED
        BY <2>7, <2>16, <3>2
    <2> QED
      BY <2>8, <2>9, <2>10, <2>11, <2>12, <2>14, <2>15, <2>16
         DEF Next, SendElsewhere, AdminBlocks, vars
  <1>3. AnnouncedInv => AnnouncedIsStored
    BY DEF AnnouncedInv
  <1> QED
    BY <1>1, <1>2, <1>3, TypeCorrect, PTL DEF Spec

-----------------------------------------------------------------------------
(* No message is counted twice.                                               *)

\* c counts, for each user, no more than "sent" says.
Within(c, sent) == \A u \in Users : c.count[u] <= sent[u]

SentCount == [u \in Users |-> Cardinality(Sent(u))]

CountInv ==
  /\ row # NoRow => Within(row, SentCount)
  /\ \A r \in Reqs : reqs[r].at = "save" => Within(reqs[r].copy, SentCount)

LEMMA SentIsFinite ==
  ASSUME NEW u \in Users
  PROVE  /\ IsFiniteSet(Sent(u))
         /\ Cardinality(Sent(u)) \in Nat
         /\ SentCount[u] = Cardinality(Sent(u))
  <1>1. Sent(u) \subseteq Ids
    BY DEF Sent
  <1>2. IsFiniteSet(Sent(u))
    BY <1>1, BoundsAssumption, FS_Subset
  <1> QED
    BY <1>2, FS_CardinalityType DEF SentCount

\* What a user has sent never becomes less.
LEMMA SentGrows ==
  ASSUME TypeOK, [Next]_vars, NEW u \in Users
  PROVE  SentCount[u] \in Nat /\ SentCount'[u] \in Nat /\ SentCount[u] <= SentCount'[u]
  <1>1. \A i \in Ids : messages[i] = [from |-> u, to |-> Other(u)]
                        => messages'[i] = messages[i]
    BY StoredStays, DirectIsMessage DEF Direct
  <1>2. Sent(u) \subseteq Sent(u)' /\ Sent(u)' \subseteq Ids
    BY <1>1 DEF Sent
  <1>3. IsFiniteSet(Sent(u)')
    BY <1>2, BoundsAssumption, FS_Subset
  <1>4. Cardinality(Sent(u)) <= Cardinality(Sent(u)') /\ Cardinality(Sent(u)') \in Nat
    BY <1>2, <1>3, FS_Subset, FS_CardinalityType
  <1>5. SentCount'[u] = Cardinality(Sent(u)')
    BY DEF SentCount
  <1> QED
    BY <1>4, <1>5, SentIsFinite

\* The transaction that inserts a message adds it to what its sender has sent.
LEMMA StoreAddsOne ==
  ASSUME TypeOK, [Next]_vars, NEW r \in Reqs, Store(r)
  PROVE  SentCount'[reqs[r].by] = SentCount[reqs[r].by] + 1
  <1>1. PICK u \in Users, i \in Ids : u = reqs[r].by /\ i = reqs[r].id
    BY RequestAt DEF Store, Sending
  <1>2. /\ messages[i] = NoMessage
        /\ messages' = [messages EXCEPT ![i] = [from |-> u, to |-> Other(u)]]
    BY <1>1 DEF Store
  <1>3. i \notin Sent(u)
    BY <1>2, DirectIsMessage DEF Sent, Direct
  <1>4. Sent(u)' = Sent(u) \cup {i}
    BY <1>2 DEF Sent, TypeOK
  <1>5. Cardinality(Sent(u)') = Cardinality(Sent(u)) + 1
    BY <1>3, <1>4, SentIsFinite, FS_AddElement
  <1>6. SentCount'[u] = Cardinality(Sent(u)')
    BY DEF SentCount
  <1> QED
    BY <1>1, <1>5, <1>6, SentIsFinite

\* However often a message is repeated and whichever old counters are written
\* back, nobody's counter is above the number of messages that user has sent.
THEOREM Counted == Spec => []CountedOnce
  <1>1. Init => CountInv
    BY DEF Init, CountInv, Idle
  <1>2. TypeOK /\ TypeOK' /\ CountInv /\ [Next]_vars => CountInv'
    <2> SUFFICES ASSUME TypeOK, TypeOK', CountInv, [Next]_vars PROVE CountInv'
      OBVIOUS
    <2>1. \A u \in Users : SentCount[u] \in Nat /\ SentCount'[u] \in Nat
                            /\ SentCount[u] <= SentCount'[u]
      BY SentGrows
    <2>2. ASSUME NEW c \in Row, Within(c, SentCount) PROVE Within(c, SentCount')
      BY <2>1, <2>2 DEF Within, Row
    <2>3. Found \in Row /\ Within(Found, SentCount)
      <3>1. Within(FreshRow, SentCount)
        BY <2>1 DEF Within, FreshRow
      <3> QED
        BY <3>1, FoundIsRow DEF Found, CountInv
    <2>4. row # NoRow => row \in Row /\ Within(row, SentCount')
      BY <2>2 DEF TypeOK, CountInv
    <2>5. \A r \in Reqs : reqs[r].at = "save"
             => reqs[r].copy \in Row /\ Within(reqs[r].copy, SentCount')
      BY <2>2, RequestAt DEF CountInv, Saving
    <2>6. ASSUME NEW r \in Reqs, NEW q, reqs' = [reqs EXCEPT ![r] = q],
                 q.at = "save" => Within(q.copy, SentCount'),
                 row' # NoRow => Within(row', SentCount')
          PROVE  CountInv'
      BY <2>5, <2>6 DEF CountInv, TypeOK
    <2>7. ASSUME NEW r \in Reqs, NEW u \in Users, NEW i \in Ids,
                 CheckRest(r, u, i) \/ CheckWs(r, u, i)
          PROVE  CountInv'
      <3>1. PICK q : q.at = "store" /\ reqs' = [reqs EXCEPT ![r] = q]
        BY <2>7 DEF CheckRest, CheckWs, Checked
      <3>2. row' # NoRow => Within(row', SentCount')
        BY <2>2, <2>3, <2>4, <2>7 DEF CheckRest, CheckWs
      <3> QED
        BY <2>6, <3>1, <3>2
    <2>8. ASSUME NEW r \in Reqs, Store(r) PROVE CountInv'
      <3> DEFINE q == reqs[r]
                 p == IF q.known THEN q.previous ELSE Found.previous
      <3>1. q \in Sending /\ q.by \in Users
        BY <2>8, RequestAt DEF Store, Sending
      <3>2. row' = row \/ row' = Applied(Found, q.by, p)
        BY <2>8 DEF Store, RowAfter
      <3>3. Applied(Found, q.by, p).count = [Found.count EXCEPT ![q.by] = @ + 1]
        BY <2>3 DEF Applied, Row
      <3>4. SentCount'[q.by] = SentCount[q.by] + 1
        BY <2>8, StoreAddsOne
      <3>5. \A u \in Users : Found.count[u] \in Nat /\ Found.count[u] <= SentCount[u]
        BY <2>3 DEF Within, Row
      <3>6. Found.count \in [Users -> Nat]
        BY <2>3 DEF Row
      <3> HIDE DEF q, p
      <3>7. Within(Applied(Found, q.by, p), SentCount')
        BY <2>1, <3>1, <3>3, <3>4, <3>5, <3>6 DEF Within
      <3>8. row' # NoRow => Within(row', SentCount')
        BY <2>4, <3>2, <3>7
      <3> QED
        BY <2>6, <2>8, <3>8 DEF Store
    <2>9. ASSUME NEW r \in Reqs, StoreAgain(r) PROVE CountInv'
      <3>1. row' = row
        BY <2>9 DEF StoreAgain, RowAfter
      <3> QED
        BY <2>4, <2>6, <2>9, <3>1 DEF StoreAgain, Idle
    <2>10. ASSUME NEW r \in Reqs, FanOut(r) \/ Fails(r) PROVE CountInv'
      BY <2>4, <2>6, <2>10 DEF FanOut, Fails, Idle
    <2>11. ASSUME NEW r \in Reqs, NEW c \in Row, Within(c, SentCount), ReadToSave(r, c)
           PROVE  CountInv'
      <3>1. Within(c, SentCount') /\ Within(row', SentCount')
        BY <2>2, <2>3, <2>11 DEF ReadToSave
      <3> QED
        BY <2>6, <2>11, <3>1 DEF ReadToSave
    <2>12. ASSUME NEW r \in Reqs, ChangeSetting(r) \/ Accept(r) \/ Reject(r)
           PROVE  CountInv'
      <3>1. Accepted(Found) \in Row /\ Rejected(Found) \in Row
        BY <2>3 DEF Accepted, Rejected, Row, Statuses
      <3>2. Accepted(Found).count = Found.count /\ Rejected(Found).count = Found.count
        BY <2>3 DEF Accepted, Rejected, Row
      <3>3. Within(Accepted(Found), SentCount) /\ Within(Rejected(Found), SentCount)
        BY <2>3, <3>2 DEF Within
      <3> QED
        BY <2>3, <2>11, <2>12, <3>1, <3>3 DEF ChangeSetting, Accept, Reject
    <2>13. ASSUME NEW r \in Reqs, SaveRow(r) PROVE CountInv'
      BY <2>5, <2>6, <2>13 DEF SaveRow, Idle
    <2>14. CASE AdminBlocks
      <3>1. row' = [row EXCEPT !.blocked = ~@] /\ row # NoRow /\ reqs' = reqs
        BY <2>14 DEF AdminBlocks
      <3>2. row'.count = row.count
        BY <2>4, <3>1 DEF Row
      <3> QED
        BY <2>4, <2>5, <3>1, <3>2 DEF CountInv, Within
    <2>15. ASSUME NEW r \in Reqs, LooksAgain(r) PROVE CountInv'
      BY <2>4, <2>6, <2>15, LooksAgainWaits DEF LooksAgain
    <2>16. CASE UNCHANGED <<row, reqs>>
      BY <2>4, <2>5, <2>16 DEF CountInv
    <2> QED
      BY <2>7, <2>8, <2>9, <2>10, <2>12, <2>13, <2>14, <2>15, <2>16
         DEF Next, SendElsewhere, vars
  <1>3. CountInv => CountedOnce
    BY SentIsFinite DEF CountInv, CountedOnce, Within
  <1> QED
    BY <1>1, <1>2, <1>3, TypeCorrect, PTL DEF Spec

-----------------------------------------------------------------------------
(* The rows of the messages.                                                 *)

Works == Copying \cup Listing \cup {Free}

(* Meant, for the deeds D.                                                   *)
MeantIn(D, i, c) ==
  /\ c.read => c.delivered /\ \E u \in Users : <<i, "read", u>> \in D /\ i \in For(u)
  /\ \A u \in c.gone : <<i, "gone", u>> \in D
  /\ \A u \in c.star : <<i, "star", u>> \in D
  /\ \A u \in c.reaction : <<i, "reaction", u>> \in D
  /\ \A u \in c.opened : <<i, "open", u>> \in D

(* What a handler for u makes of the columns c: d undoes nothing, but for    *)
(* the star and the reaction of u.                                           *)
Keeps(c, d, u) ==
  /\ c.read => d.read
  /\ c.delivered => d.delivered
  /\ c.gone \subseteq d.gone
  /\ \A v \in Users : v # u =>
       (v \in c.star <=> v \in d.star) /\ (v \in c.reaction <=> v \in d.reaction)

CopiesKeep ==
  \A h \in Hands : work[h] \in Copying =>
    Keeps(work[h].seen, work[h].copy, work[h].by)

RowsInv == MarksAreMeant /\ CopiesKeep

-----------------------------------------------------------------------------
(* The sends do not see the handlers of rows.                                 *)

LEMMA RowStepLeavesSends ==
  ASSUME RowStep
  PROVE  UNCHANGED vars
  <1>1. ASSUME NEW h \in Hands, NEW u \in Users, NEW i \in Ids,
               \/ MarkAsRead(h, u, i) \/ DeleteMessage(h, u, i) \/ ToggleStar(h, u, i)
               \/ AddReaction(h, u, i) \/ RemoveReaction(h, u, i) \/ OpenOnce(h, u, i)
        PROVE  UNCHANGED vars
    BY <1>1 DEF MarkAsRead, DeleteMessage, ToggleStar, AddReaction, RemoveReaction,
                OpenOnce, Read
  <1>2. ASSUME NEW h \in Hands, NEW u \in Users, ListUnread(h, u) \/ ListUndelivered(h, u)
        PROVE  UNCHANGED vars
    BY <1>2 DEF ListUnread, ListUndelivered
  <1>3. ASSUME NEW h \in Hands,
               \/ SaveMessage(h) \/ SaveText(h) \/ UpdateRead(h)
               \/ UpdateDelivered(h) \/ GivesUp(h)
        PROVE  UNCHANGED vars
    BY <1>3 DEF SaveMessage, SaveText, UpdateRead, UpdateDelivered, GivesUp
  <1>4. ASSUME NEW u \in Users, NEW i \in Ids, EditMessage(u, i) PROVE UNCHANGED vars
    BY <1>4 DEF EditMessage
  <1>5. ASSUME NEW u \in Users, MarkConversationAsRead(u) \/ Clear(u)
        PROVE  UNCHANGED vars
    BY <1>5 DEF MarkConversationAsRead, Clear
  <1>6. ASSUME NEW i \in Ids, PushDelivered(i) PROVE UNCHANGED vars
    BY <1>6 DEF PushDelivered
  <1> QED
    BY <1>1, <1>2, <1>3, <1>4, <1>5, <1>6 DEF RowStep

(* Every behaviour of the composition is one of DirectMessages: its theorems  *)
(* hold while handlers mark, delete and clear the messages.                   *)
THEOREM RowsImplementSends == RowsSpec => Spec
  <1>1. InitRows => Init
    BY DEF InitRows
  <1>2. [NextRows]_chatVars => [Next]_vars
    BY RowStepLeavesSends DEF NextRows, SendStep, chatVars
  <1> QED
    BY <1>1, <1>2, PTL DEF RowsSpec, Spec

-----------------------------------------------------------------------------
(* Lemmas.                                                                    *)

(* Who can read a message always can.                                         *)
LEMMA ReadersStay ==
  ASSUME TypeOK, [Next]_vars, NEW u \in Users
  PROVE  For(u) \subseteq For(u)'
  BY StoredStays DEF For, Of

(* A handler at its second statement has a copy, or a list.                   *)
LEMMA WorkAt ==
  ASSUME RowsTypeOK, NEW h \in Hands, work[h] # Free
  PROVE  /\ work[h].at \in {"save", "text"} => work[h] \in Copying
         /\ work[h].at \in {"read", "delivered"} => work[h] \in Listing /\ work[h] \notin Copying
  BY DEF RowsTypeOK, Copying, Listing

(* What a step of a handler of rows has to show: the rows it writes and the   *)
(* copies it makes hold nothing that was not asked for.                       *)
LEMMA StepKeeps ==
  ASSUME RowsInv, messages' = messages,
         asked \subseteq asked', asked' \subseteq Deeds, turns' \in 0 .. MaxTurns,
         marks' \in [Ids -> Columns], work' \in [Hands -> Works],
         \A i \in Ids : marks'[i] = marks[i] \/ MeantIn(asked', i, marks'[i]),
         \A h \in Hands : work'[h] = work[h] \/
           (work'[h] \in Copying =>
              /\ MeantIn(asked', work'[h].id, work'[h].copy)
              /\ Keeps(work'[h].seen, work'[h].copy, work'[h].by))
  PROVE  RowsInv'
  <1>1. RowsTypeOK'
    BY DEF RowsTypeOK, Works
  <1>2. \A u \in Users : For(u)' = For(u)
    BY DEF For, Of
  <1>3. ASSUME NEW CONSTANT i, NEW CONSTANT c, MeantIn(asked', i, c) PROVE Meant(i, c)'
    BY <1>2, <1>3 DEF Meant, MeantIn
  <1>4. ASSUME NEW CONSTANT i, NEW CONSTANT c, Meant(i, c) PROVE Meant(i, c)'
    BY <1>2, <1>4 DEF Meant
  <1>5. ASSUME NEW i \in Ids PROVE Meant(i, marks[i])'
    <2>1. PICK c : c = marks'[i]
      OBVIOUS
    <2>2. Meant(i, c)'
      <3>1. CASE marks'[i] = marks[i]
        <4>1. Meant(i, c)
          BY <2>1, <3>1 DEF RowsInv, MarksAreMeant
        <4> QED
          BY <1>4, <4>1
      <3>2. CASE MeantIn(asked', i, marks'[i])
        BY <1>3, <2>1, <3>2
      <3> QED
        BY <3>1, <3>2
    <2> QED
      BY <2>1, <2>2 DEF Meant
  <1>6. ASSUME NEW h \in Hands, work'[h] \in Copying
        PROVE  /\ Meant(work[h].id, work[h].copy)'
               /\ Keeps(work'[h].seen, work'[h].copy, work'[h].by)
    <2>1. PICK i, c : i = work'[h].id /\ c = work'[h].copy
      OBVIOUS
    <2>2. CASE work'[h] = work[h]
      <3>1. Meant(i, c) /\ Keeps(work[h].seen, work[h].copy, work[h].by)
        BY <1>6, <2>1, <2>2 DEF RowsInv, MarksAreMeant, CopiesKeep
      <3>2. Meant(i, c)'
        BY <1>4, <3>1
      <3> QED
        BY <2>1, <2>2, <3>1, <3>2 DEF Meant
    <2>3. CASE /\ MeantIn(asked', work'[h].id, work'[h].copy)
               /\ Keeps(work'[h].seen, work'[h].copy, work'[h].by)
      <3>1. Meant(i, c)'
        BY <1>3, <2>1, <2>3
      <3> QED
        BY <2>1, <2>3, <3>1 DEF Meant
    <2> QED
      BY <1>6, <2>2, <2>3
  <1>7. Copying' = Copying
    BY DEF Copying, Columns
  <1> QED
    BY <1>1, <1>5, <1>6, <1>7 DEF RowsInv, MarksAreMeant, CopiesKeep

(* First(&message) and a change of one column of the copy.                    *)
LEMMA ReadKeeps ==
  ASSUME RowsInv, NEW h \in Hands, NEW u \in Users, NEW i \in Ids,
         NEW CONSTANT at \in {"save", "text"}, NEW CONSTANT copy \in Columns,
         Read(h, u, i, at, copy), asked \subseteq asked', asked' \subseteq Deeds,
         MeantIn(asked', i, copy), Keeps(marks[i], copy, u)
  PROVE  RowsInv'
  <1>1. RowsTypeOK
    BY DEF RowsInv, MarksAreMeant
  <1> DEFINE w == [at |-> at, by |-> u, id |-> i, seen |-> marks[i], copy |-> copy]
  <1>2. w \in Copying
    BY <1>1 DEF Copying, RowsTypeOK
  <1>3. work' = [work EXCEPT ![h] = w] /\ marks' = marks /\ messages' = messages
    BY DEF Read, vars
  <1>4. turns' \in 0 .. MaxTurns
    BY <1>1, RowsAssumption DEF Read, Turn, RowsTypeOK
  <1>5. MeantIn(asked', w.id, w.copy) /\ Keeps(w.seen, w.copy, w.by)
    OBVIOUS
  <1> HIDE DEF w
  <1>6. work' \in [Hands -> Works] /\ marks' \in [Ids -> Columns]
    BY <1>1, <1>2, <1>3 DEF RowsTypeOK, Works
  <1>7. \A g \in Hands : work'[g] = work[g] \/ work'[g] = w
    BY <1>1, <1>3 DEF RowsTypeOK
  <1> QED
    BY <1>3, <1>4, <1>5, <1>6, <1>7, StepKeeps

(* The columns of a message, as its row holds them.                           *)
LEMMA RowIsMeant ==
  ASSUME RowsInv, NEW i \in Ids
  PROVE  marks[i] \in Columns /\ MeantIn(asked, i, marks[i])
  BY DEF RowsInv, MarksAreMeant, RowsTypeOK, Meant, MeantIn

LEMMA ReadingKeeps ==
  ASSUME RowsInv, NEW h \in Hands, NEW u \in Users, NEW i \in Ids,
         \/ MarkAsRead(h, u, i) \/ DeleteMessage(h, u, i) \/ ToggleStar(h, u, i)
         \/ AddReaction(h, u, i) \/ RemoveReaction(h, u, i) \/ OpenOnce(h, u, i)
  PROVE  RowsInv'
  <1>1. marks[i] \in Columns /\ MeantIn(asked, i, marks[i]) /\ asked \subseteq Deeds
    BY RowIsMeant DEF RowsInv, MarksAreMeant, RowsTypeOK
  <1>2. CASE MarkAsRead(h, u, i)
    <2>1. PICK copy : copy = AsRead(marks[i])
      OBVIOUS
    <2>2. copy \in Columns
      BY <1>1, <2>1 DEF AsRead, Columns
    <2>3. Read(h, u, i, "save", copy)
      BY <1>2, <2>1 DEF MarkAsRead
    <2>4. asked' = asked \cup {<<i, "read", u>>} /\ i \in For(u)
      BY <1>2 DEF MarkAsRead
    <2>5. asked' \subseteq Deeds
      BY <1>1, <2>4 DEF Deeds
    <2>6. MeantIn(asked', i, copy)
      BY <1>1, <2>1, <2>4 DEF MeantIn, AsRead, Columns
    <2>7. Keeps(marks[i], copy, u)
      BY <1>1, <2>1 DEF Keeps, AsRead, Columns
    <2> QED
      BY <2>2, <2>3, <2>4, <2>5, <2>6, <2>7, ReadKeeps
  <1>3. CASE DeleteMessage(h, u, i)
    <2>1. PICK sides \in {{u}, DeletesFor(u, i)} :
            /\ Read(h, u, i, "save", [marks[i] EXCEPT !.gone = @ \cup sides])
            /\ asked' = asked \cup Asks(u, i, sides)
      BY <1>3 DEF DeleteMessage
    <2>2. sides \subseteq Users /\ \A v \in sides : v = u \/ i \in Of(u)
      BY <2>1 DEF DeletesFor
    <2>3. PICK copy : copy = [marks[i] EXCEPT !.gone = @ \cup sides]
      OBVIOUS
    <2>4. copy \in Columns
      BY <1>1, <2>2, <2>3 DEF Columns
    <2>5. asked' \subseteq Deeds
      BY <1>1, <2>1, <2>2 DEF Deeds, Asks
    <2>6. MeantIn(asked', i, copy)
      BY <1>1, <2>1, <2>2, <2>3 DEF MeantIn, Asks, Columns
    <2>7. Keeps(marks[i], copy, u)
      BY <1>1, <2>3 DEF Keeps, Columns
    <2> QED
      BY <2>1, <2>3, <2>4, <2>5, <2>6, <2>7, ReadKeeps
  <1>4. CASE ToggleStar(h, u, i)
    <2>1. PICK copy : copy = [marks[i] EXCEPT !.star = (@ \ {u}) \cup ({u} \ @)]
      OBVIOUS
    <2>2. copy \in Columns
      BY <1>1, <2>1 DEF Columns
    <2>3. Read(h, u, i, "save", copy) /\ asked' = asked \cup {<<i, "star", u>>}
      BY <1>4, <2>1 DEF ToggleStar
    <2>4. asked' \subseteq Deeds
      BY <1>1, <2>3 DEF Deeds
    <2>5. MeantIn(asked', i, copy)
      BY <1>1, <2>1, <2>3 DEF MeantIn, Columns
    <2>6. Keeps(marks[i], copy, u)
      BY <1>1, <2>1 DEF Keeps, Columns
    <2> QED
      BY <2>2, <2>3, <2>4, <2>5, <2>6, ReadKeeps
  <1>5. CASE AddReaction(h, u, i)
    <2>1. PICK copy : copy = [marks[i] EXCEPT !.reaction = @ \cup {u}]
      OBVIOUS
    <2>2. copy \in Columns
      BY <1>1, <2>1 DEF Columns
    <2>3. Read(h, u, i, "save", copy) /\ asked' = asked \cup {<<i, "reaction", u>>}
      BY <1>5, <2>1 DEF AddReaction
    <2>4. asked' \subseteq Deeds
      BY <1>1, <2>3 DEF Deeds
    <2>5. MeantIn(asked', i, copy)
      BY <1>1, <2>1, <2>3 DEF MeantIn, Columns
    <2>6. Keeps(marks[i], copy, u)
      BY <1>1, <2>1 DEF Keeps, Columns
    <2> QED
      BY <2>2, <2>3, <2>4, <2>5, <2>6, ReadKeeps
  <1>6. CASE RemoveReaction(h, u, i)
    <2>1. PICK copy : copy = [marks[i] EXCEPT !.reaction = @ \ {u}]
      OBVIOUS
    <2>2. copy \in Columns
      BY <1>1, <2>1 DEF Columns
    <2>3. Read(h, u, i, "save", copy) /\ asked' = asked
      BY <1>6, <2>1 DEF RemoveReaction
    <2>4. MeantIn(asked', i, copy)
      BY <1>1, <2>1, <2>3 DEF MeantIn, Columns
    <2>5. Keeps(marks[i], copy, u)
      BY <1>1, <2>1 DEF Keeps, Columns
    <2> QED
      BY <1>1, <2>2, <2>3, <2>4, <2>5, ReadKeeps
  <1>7. CASE OpenOnce(h, u, i)
    <2>1. PICK copy : copy = [marks[i] EXCEPT !.opened = @ \cup {u}]
      OBVIOUS
    <2>2. copy \in Columns
      BY <1>1, <2>1 DEF Columns
    <2>3. Read(h, u, i, "text", copy) /\ asked' = asked \cup {<<i, "open", u>>}
      BY <1>7, <2>1 DEF OpenOnce
    <2>4. asked' \subseteq Deeds
      BY <1>1, <2>3 DEF Deeds
    <2>5. MeantIn(asked', i, copy)
      BY <1>1, <2>1, <2>3 DEF MeantIn, Columns
    <2>6. Keeps(marks[i], copy, u)
      BY <1>1, <2>1 DEF Keeps, Columns
    <2> QED
      BY <2>2, <2>3, <2>4, <2>5, <2>6, ReadKeeps
  <1> QED
    BY <1>2, <1>3, <1>4, <1>5, <1>6, <1>7

(* A handler's last statement, or its end: it is free again.                  *)
LEMMA EndKeeps ==
  ASSUME RowsInv, NEW h \in Hands, work' = [work EXCEPT ![h] = Free]
  PROVE  /\ work' \in [Hands -> Works]
         /\ \A g \in Hands : work'[g] = work[g] \/ work'[g] \notin Copying
  BY RowsAssumption DEF RowsInv, MarksAreMeant, RowsTypeOK, Works

LEMMA SavingKeeps ==
  ASSUME RowsInv, NEW h \in Hands, SaveMessage(h) \/ SaveText(h) \/ GivesUp(h)
  PROVE  RowsInv'
  <1>1. RowsTypeOK
    BY DEF RowsInv, MarksAreMeant
  <1>2. /\ work' = [work EXCEPT ![h] = Free] /\ work[h] # Free
        /\ messages' = messages /\ asked' = asked /\ turns' = turns
    BY DEF SaveMessage, SaveText, GivesUp, vars
  <1>3. asked' \subseteq Deeds /\ turns' \in 0 .. MaxTurns
    BY <1>1, <1>2 DEF RowsTypeOK
  <1>4. CASE GivesUp(h)
    <2>1. marks' = marks
      BY <1>4 DEF GivesUp
    <2> QED
      BY <1>1, <1>2, <1>3, <2>1, EndKeeps, StepKeeps DEF RowsTypeOK
  <1>5. CASE SaveMessage(h) \/ SaveText(h)
    <2>1. work[h] \in Copying
      BY <1>1, <1>2, <1>5, WorkAt DEF SaveMessage, SaveText
    <2>2. PICK i, c : i = work[h].id /\ c = work[h].copy
      OBVIOUS
    <2>3. i \in Ids /\ c \in Columns
      BY <2>1, <2>2 DEF Copying
    <2>4. Meant(i, c)
      BY <2>1, <2>2 DEF RowsInv, MarksAreMeant
    <2>5. MeantIn(asked, i, c)
      BY <2>4 DEF Meant, MeantIn
    <2>6. marks[i] \in Columns /\ MeantIn(asked, i, marks[i])
      BY <2>3, RowIsMeant
    <2>7. PICK new : new = IF SaveMessage(h) THEN c
               ELSE [marks[i] EXCEPT !.once = c.once, !.opened = c.opened, !.edit = c.edit]
      OBVIOUS
    <2>8. new \in Columns
      BY <2>3, <2>6, <2>7 DEF Columns
    <2>9. MeantIn(asked, i, new)
      BY <2>3, <2>5, <2>6, <2>7 DEF MeantIn, Columns
    <2>10. marks' = [marks EXCEPT ![i] = new]
      BY <1>5, <2>2, <2>7 DEF SaveMessage, SaveText
    <2>11. marks' \in [Ids -> Columns]
      BY <1>1, <2>8, <2>10 DEF RowsTypeOK
    <2>12. \A j \in Ids : marks'[j] = marks[j] \/ MeantIn(asked', j, marks'[j])
      BY <1>1, <1>2, <2>9, <2>10 DEF RowsTypeOK
    <2> QED
      BY <1>2, <1>3, <2>11, <2>12, EndKeeps, StepKeeps
  <1> QED
    BY <1>4, <1>5

LEMMA ListingKeeps ==
  ASSUME RowsInv, NEW h \in Hands, NEW u \in Users,
         ListUnread(h, u) \/ ListUndelivered(h, u)
  PROVE  RowsInv'
  <1>1. RowsTypeOK
    BY DEF RowsInv, MarksAreMeant
  <1>2. PICK w \in Listing : work' = [work EXCEPT ![h] = w]
    <2>1. Unread(u) \subseteq Ids /\ Undelivered(u) \subseteq Ids
      BY DEF Unread, Undelivered, For, Of
    <2> QED
      BY <2>1 DEF ListUnread, ListUndelivered, Listing
  <1>3. w \notin Copying
    BY <1>2 DEF Listing, Copying
  <1>4. work' \in [Hands -> Works] /\ \A g \in Hands : work'[g] = work[g] \/ work'[g] = w
    BY <1>1, <1>2 DEF RowsTypeOK, Works
  <1>5. messages' = messages /\ marks' = marks /\ asked' = asked
    BY DEF ListUnread, ListUndelivered, vars
  <1>6. turns' \in 0 .. MaxTurns
    BY <1>1, RowsAssumption DEF ListUnread, ListUndelivered, Turn, RowsTypeOK
  <1>7. asked' \subseteq Deeds /\ marks' \in [Ids -> Columns]
    BY <1>1, <1>5 DEF RowsTypeOK
  <1> QED
    BY <1>3, <1>4, <1>5, <1>6, <1>7, StepKeeps

(* MarkConversationAsRead and the second statements: read is delivered, and   *)
(* it is the receiver who reads.                                              *)
LEMMA UpdatingKeeps ==
  ASSUME RowsInv,
         \/ \E u \in Users : MarkConversationAsRead(u)
         \/ \E h \in Hands : UpdateRead(h) \/ UpdateDelivered(h)
         \/ \E i \in Ids : PushDelivered(i)
  PROVE  RowsInv'
  <1>1. RowsTypeOK
    BY DEF RowsInv, MarksAreMeant
  <1>2. ASSUME NEW c \in Columns
        PROVE  AsRead(c) \in Columns /\ AsDelivered(c) \in Columns
    BY DEF AsRead, AsDelivered, Columns
  <1>3. ASSUME NEW i \in Ids
        PROVE  /\ marks[i] \in Columns /\ MeantIn(asked, i, marks[i])
               /\ MeantIn(asked, i, AsDelivered(marks[i]))
    BY RowIsMeant DEF MeantIn, AsDelivered, Columns
  <1>4. ASSUME NEW u \in Users,
               asked' = asked \cup {<<i, "read", u>> : i \in Unread(u)}
        PROVE  /\ asked' \subseteq Deeds
               /\ \A i \in Unread(u) : i \in Ids /\ MeantIn(asked', i, AsRead(marks[i]))
    <2>1. Unread(u) \subseteq Ids /\ Unread(u) \subseteq For(u)
      BY DEF Unread, For, Of
    <2>2. asked' \subseteq Deeds
      BY <1>1, <1>4, <2>1 DEF RowsTypeOK, Deeds
    <2>3. ASSUME NEW i \in Unread(u) PROVE MeantIn(asked', i, AsRead(marks[i]))
      <3>1. i \in Ids /\ i \in For(u) /\ <<i, "read", u>> \in asked'
        BY <1>4, <2>1
      <3>2. asked \subseteq asked'
        BY <1>4
      <3> QED
        BY <1>3, <3>1, <3>2 DEF MeantIn, AsRead, Columns
    <2> QED
      BY <2>1, <2>2, <2>3
  <1>5. ASSUME NEW u \in Users, MarkConversationAsRead(u) PROVE RowsInv'
    <2>1. /\ marks' = [i \in Ids |-> IF i \in Unread(u) THEN AsRead(marks[i]) ELSE marks[i]]
          /\ asked' = asked \cup {<<i, "read", u>> : i \in Unread(u)}
          /\ work' = work /\ messages' = messages
      BY <1>5 DEF MarkConversationAsRead, Update, vars
    <2>2. marks' \in [Ids -> Columns]
      BY <1>2, <1>3, <2>1
    <2>3. \A i \in Ids : marks'[i] = marks[i] \/ MeantIn(asked', i, marks'[i])
      BY <1>4, <2>1
    <2>4. turns' \in 0 .. MaxTurns
      BY <1>1, <1>5, RowsAssumption DEF MarkConversationAsRead, Turn, RowsTypeOK
    <2>5. work' \in [Hands -> Works] /\ asked \subseteq asked' /\ asked' \subseteq Deeds
      BY <1>1, <1>4, <2>1 DEF RowsTypeOK, Works
    <2> QED
      BY <2>1, <2>2, <2>3, <2>4, <2>5, StepKeeps
  <1>6. ASSUME NEW h \in Hands, UpdateRead(h) PROVE RowsInv'
    <2>1. work[h] \in Listing
      BY <1>1, <1>6, WorkAt DEF UpdateRead
    <2>2. PICK u \in Users : u = work[h].by
      BY <2>1 DEF Listing
    <2>3. /\ marks' = [i \in Ids |-> IF i \in Unread(u) THEN AsRead(marks[i]) ELSE marks[i]]
          /\ asked' = asked \cup {<<i, "read", u>> : i \in Unread(u)}
          /\ work' = [work EXCEPT ![h] = Free] /\ messages' = messages /\ turns' = turns
      BY <1>6, <2>2 DEF UpdateRead, Update, vars
    <2>4. marks' \in [Ids -> Columns]
      BY <1>2, <1>3, <2>3
    <2>5. \A i \in Ids : marks'[i] = marks[i] \/ MeantIn(asked', i, marks'[i])
      BY <1>4, <2>3
    <2>6. asked \subseteq asked' /\ asked' \subseteq Deeds /\ turns' \in 0 .. MaxTurns
      BY <1>1, <1>4, <2>3 DEF RowsTypeOK
    <2> QED
      BY <2>3, <2>4, <2>5, <2>6, EndKeeps, StepKeeps
  <1>7. ASSUME NEW h \in Hands, UpdateDelivered(h) PROVE RowsInv'
    <2>1. PICK ids : marks' = [i \in Ids |-> IF i \in ids THEN AsDelivered(marks[i]) ELSE marks[i]]
      BY <1>7 DEF UpdateDelivered, Update
    <2>2. /\ work' = [work EXCEPT ![h] = Free] /\ messages' = messages
          /\ turns' = turns /\ asked' = asked
      BY <1>7 DEF UpdateDelivered, vars
    <2>3. marks' \in [Ids -> Columns]
      BY <1>2, <1>3, <2>1
    <2>4. \A i \in Ids : marks'[i] = marks[i] \/ MeantIn(asked', i, marks'[i])
      BY <1>3, <2>1, <2>2
    <2>5. asked' \subseteq Deeds /\ turns' \in 0 .. MaxTurns
      BY <1>1, <2>2 DEF RowsTypeOK
    <2> QED
      BY <2>2, <2>3, <2>4, <2>5, EndKeeps, StepKeeps
  <1>8. ASSUME NEW j \in Ids, PushDelivered(j) PROVE RowsInv'
    <2>1. marks' = [i \in Ids |-> IF i \in {j} THEN AsDelivered(marks[i]) ELSE marks[i]]
      BY <1>8 DEF PushDelivered, Update
    <2>2. work' = work /\ messages' = messages /\ turns' = turns /\ asked' = asked
      BY <1>8 DEF PushDelivered, vars
    <2>3. marks' \in [Ids -> Columns]
      BY <1>2, <1>3, <2>1
    <2>4. \A i \in Ids : marks'[i] = marks[i] \/ MeantIn(asked', i, marks'[i])
      BY <1>3, <2>1, <2>2
    <2>5. asked' \subseteq Deeds /\ turns' \in 0 .. MaxTurns /\ work' \in [Hands -> Works]
      BY <1>1, <2>2 DEF RowsTypeOK, Works
    <2> QED
      BY <2>2, <2>3, <2>4, <2>5, StepKeeps
  <1> QED
    BY <1>5, <1>6, <1>7, <1>8

LEMMA EditingKeeps ==
  ASSUME RowsInv, NEW u \in Users, NEW i \in Ids, EditMessage(u, i)
  PROVE  RowsInv'
  <1>1. RowsTypeOK
    BY DEF RowsInv, MarksAreMeant
  <1>2. marks[i] \in Columns /\ MeantIn(asked, i, marks[i]) /\ turns \in Nat
    BY <1>1, RowIsMeant, RowsAssumption DEF RowsTypeOK
  <1>3. PICK new : new = [marks[i] EXCEPT !.once = FALSE, !.opened = {}, !.edit = turns]
    OBVIOUS
  <1>4. new \in Columns /\ MeantIn(asked, i, new)
    BY <1>2, <1>3 DEF MeantIn, Columns
  <1>5. marks' = [marks EXCEPT ![i] = new]
    BY <1>3 DEF EditMessage
  <1>6. work' = work /\ messages' = messages /\ asked' = asked
    BY DEF EditMessage, vars
  <1>7. turns' \in 0 .. MaxTurns
    BY <1>1, RowsAssumption DEF EditMessage, Turn, RowsTypeOK
  <1>8. /\ marks' \in [Ids -> Columns] /\ work' \in [Hands -> Works] /\ asked' \subseteq Deeds
        /\ \A j \in Ids : marks'[j] = marks[j] \/ MeantIn(asked', j, marks'[j])
    BY <1>1, <1>4, <1>5, <1>6 DEF RowsTypeOK, Works
  <1> QED
    BY <1>6, <1>7, <1>8, StepKeeps

(* What a clear hides, it was asked to hide.                                  *)
LEMMA ClearingKeeps ==
  ASSUME RowsInv, NEW u \in Users, Clear(u)
  PROVE  RowsInv'
  <1>1. RowsTypeOK
    BY DEF RowsInv, MarksAreMeant
  <1>2. PICK sides \in {{u}, Users} :
          /\ marks' = [i \in Ids |-> IF i \in Of(u) THEN Cleared(marks[i], sides)
                                     ELSE IF i \in For(u) THEN Cleared(marks[i], {u})
                                     ELSE marks[i]]
          /\ asked' = asked \cup UNION {Asks(u, i, sides) : i \in Of(u) \cup For(u)}
    BY DEF Clear
  <1>3. u \in sides /\ sides \subseteq Users
    OBVIOUS
  <1> DEFINE new == UNION {Asks(u, i, sides) : i \in Of(u) \cup For(u)}
  <1>4. /\ \A i \in Of(u) \cup For(u) : Asks(u, i, sides) \subseteq new
        /\ asked' = asked \cup new
    BY <1>2, Zenon
  <1>5. new \subseteq Deeds
    <2>1. \A i \in Of(u) \cup For(u) : Asks(u, i, sides) \subseteq Deeds
      BY <1>3 DEF Asks, Deeds, For, Of
    <2> QED
      BY <2>1, Zenon
  <1> HIDE DEF new
  <1>6. asked' \subseteq Deeds /\ asked \subseteq asked'
    BY <1>1, <1>4, <1>5 DEF RowsTypeOK
  <1>7. ASSUME NEW i \in Ids
        PROVE  /\ marks'[i] \in Columns
               /\ marks'[i] = marks[i] \/ MeantIn(asked', i, marks'[i])
    <2>1. marks[i] \in Columns /\ MeantIn(asked, i, marks[i])
      BY RowIsMeant
    <2>2. ASSUME NEW CONSTANT hidden, hidden \subseteq Users,
                 \A v \in hidden : <<i, "gone", v>> \in asked'
          PROVE  /\ Cleared(marks[i], hidden) \in Columns
                 /\ MeantIn(asked', i, Cleared(marks[i], hidden))
      BY <1>6, <2>1, <2>2 DEF Cleared, Columns, MeantIn
    <2>3. CASE i \in Of(u)
      <3>1. \A v \in sides : <<i, "gone", v>> \in Asks(u, i, sides)
        BY <2>3 DEF Asks
      <3>2. \A v \in sides : <<i, "gone", v>> \in asked'
        BY <1>4, <2>3, <3>1
      <3> QED
        BY <1>2, <1>3, <2>2, <2>3, <3>2
    <2>4. CASE i \notin Of(u) /\ i \in For(u)
      <3>1. <<i, "gone", u>> \in Asks(u, i, sides)
        BY <1>3 DEF Asks
      <3>2. <<i, "gone", u>> \in asked'
        BY <1>4, <2>4, <3>1
      <3> QED
        BY <1>2, <2>2, <2>4, <3>2
    <2>5. CASE i \notin Of(u) /\ i \notin For(u)
      BY <1>2, <2>1, <2>5
    <2> QED
      BY <2>3, <2>4, <2>5
  <1>8. marks' \in [Ids -> Columns]
    BY <1>2, <1>7
  <1>9. work' = work /\ messages' = messages
    BY DEF Clear, vars
  <1>10. turns' \in 0 .. MaxTurns /\ work' \in [Hands -> Works]
    BY <1>1, <1>9, RowsAssumption DEF Clear, Turn, RowsTypeOK, Works
  <1> QED
    BY <1>6, <1>7, <1>8, <1>9, <1>10, StepKeeps

-----------------------------------------------------------------------------
(* The theorems.                                                              *)

LEMMA RowsInvInit == InitRows => RowsInv
  <1> SUFFICES ASSUME InitRows PROVE RowsInv
    OBVIOUS
  <1>1. PICK once \in BOOLEAN : marks = [i \in Ids |-> NewColumns(once)]
    BY DEF InitRows
  <1>2. NewColumns(once) \in Columns
    BY DEF NewColumns, Columns
  <1>3. turns \in 0 .. MaxTurns
    BY RowsAssumption DEF InitRows
  <1>4. RowsTypeOK
    BY <1>1, <1>2, <1>3 DEF InitRows, RowsTypeOK
  <1>5. \A i \in Ids : Meant(i, marks[i])
    BY <1>1 DEF Meant, NewColumns
  <1>6. \A h \in Hands : work[h] \notin Copying
    BY RowsAssumption DEF InitRows
  <1> QED
    BY <1>4, <1>5, <1>6 DEF RowsInv, MarksAreMeant, CopiesKeep

(* A send, or nothing: who could read a message still can.                    *)
LEMMA SendsKeep ==
  ASSUME TypeOK, RowsInv, [Next]_vars, UNCHANGED rowVars
  PROVE  RowsInv'
  <1>1. \A u \in Users : For(u) \subseteq For(u)'
    BY ReadersStay
  <1>2. ASSUME NEW CONSTANT i, NEW CONSTANT c, Meant(i, c) PROVE Meant(i, c)'
    BY <1>1, <1>2 DEF Meant, rowVars
  <1>3. \A i \in Ids : Meant(i, marks[i])'
    <2> SUFFICES ASSUME NEW i \in Ids PROVE Meant(i, marks[i])'
      OBVIOUS
    <2>1. PICK c : c = marks[i]
      OBVIOUS
    <2>2. c = marks'[i] /\ Meant(i, c)
      BY <2>1 DEF rowVars, RowsInv, MarksAreMeant
    <2> QED
      BY <1>2, <2>2 DEF Meant
  <1>4. ASSUME NEW h \in Hands, work[h] \in Copying
        PROVE  Meant(work[h].id, work[h].copy)'
    <2>1. PICK i, c : i = work[h].id /\ c = work[h].copy
      OBVIOUS
    <2>2. i = work'[h].id /\ c = work'[h].copy /\ Meant(i, c)
      BY <1>4, <2>1 DEF rowVars, RowsInv, MarksAreMeant
    <2> QED
      BY <1>2, <2>2 DEF Meant
  <1> QED
    BY <1>3, <1>4 DEF rowVars, RowsInv, MarksAreMeant, CopiesKeep, RowsTypeOK

LEMMA RowsInvNext ==
  ASSUME TypeOK, RowsInv, [NextRows]_chatVars
  PROVE  RowsInv'
  <1>1. CASE SendStep
    BY <1>1, SendsKeep DEF SendStep
  <1>2. CASE RowStep
    BY <1>2, ReadingKeeps, SavingKeeps, ListingKeeps, UpdatingKeeps, EditingKeeps,
       ClearingKeeps DEF RowStep
  <1>3. CASE UNCHANGED chatVars
    BY <1>3, SendsKeep DEF chatVars
  <1> QED
    BY <1>1, <1>2, <1>3 DEF NextRows

LEMMA RowsInvHolds == RowsSpec => []RowsInv
  BY RowsInvInit, RowsInvNext, RowsImplementSends, TypeCorrect, PTL DEF RowsSpec

(* However handlers of rows and sends interleave, a message is read, hidden,  *)
(* starred, reacted to or opened only for who asked for that (the Saves of    *)
(* message_handler.go and hub.go from old copies, mark_read, the clears).     *)
THEOREM MarksMeant == RowsSpec => []MarksAreMeant
  BY RowsInvHolds, PTL DEF RowsInv

(* What a step leaves of the marks of message i.                              *)
MarksStay(i) ==
  /\ marks[i].read => marks'[i].read
  /\ marks[i].delivered => marks'[i].delivered
  /\ marks[i].gone \subseteq marks'[i].gone
  /\ \A u \in Users :
       \/ (u \in marks[i].star <=> u \in marks'[i].star)
            /\ (u \in marks[i].reaction <=> u \in marks'[i].reaction)
       \/ \E h \in Hands : /\ work[h] \in Copying /\ work'[h] = Free
                           /\ work[h].id = i /\ work[h].by = u

(* A copy that is not overtaken takes away nothing but the star and the       *)
(* reaction of the user it was made for.                                      *)
LEMMA FreshCopyStays ==
  ASSUME RowsInv, NEW h \in Hands, SaveMessage(h) \/ SaveText(h),
         NEW i \in Ids, ~Overtaken(h, i)
  PROVE  marks'[i] = marks[i] \/ MarksStay(i)
  <1>1. RowsTypeOK
    BY DEF RowsInv, MarksAreMeant
  <1>2. work[h] \in Copying /\ work'[h] = Free
    BY <1>1, WorkAt DEF SaveMessage, SaveText, RowsTypeOK
  <1>3. CASE work[h].id # i
    BY <1>1, <1>3 DEF SaveMessage, SaveText, RowsTypeOK
  <1>4. CASE work[h].id = i
    <2>1. work[h].seen = marks[i]
      BY <1>2, <1>4 DEF Overtaken
    <2>2. Keeps(marks[i], work[h].copy, work[h].by)
      BY <1>2, <2>1 DEF RowsInv, CopiesKeep
    <2>3. PICK c : c = work[h].copy
      OBVIOUS
    <2>4. c \in Columns /\ marks[i] \in Columns
      BY <1>1, <1>2, <2>3 DEF Copying, RowsTypeOK
    <2>5. marks'[i] = c \/ marks'[i] =
            [marks[i] EXCEPT !.once = c.once, !.opened = c.opened, !.edit = c.edit]
      BY <1>1, <1>4, <2>3 DEF SaveMessage, SaveText, RowsTypeOK
    <2>6. Keeps(marks[i], marks'[i], work[h].by)
      BY <2>2, <2>3, <2>4, <2>5 DEF Keeps, Columns
    <2> QED
      BY <1>2, <1>4, <2>6 DEF MarksStay, Keeps
  <1> QED
    BY <1>3, <1>4

(* The statements that change some columns only add marks.                    *)
LEMMA UpdatesStay ==
  ASSUME RowsInv, NEW i \in Ids,
         \/ \E u \in Users : MarkConversationAsRead(u) \/ Clear(u)
         \/ \E h \in Hands : UpdateRead(h) \/ UpdateDelivered(h)
         \/ \E j \in Ids : PushDelivered(j)
         \/ \E u \in Users, j \in Ids : EditMessage(u, j)
  PROVE  marks'[i] = marks[i] \/ MarksStay(i)
  <1>1. marks[i] \in Columns /\ marks \in [Ids -> Columns]
    BY DEF RowsInv, MarksAreMeant, RowsTypeOK
  <1>2. CASE \/ \E u \in Users : MarkConversationAsRead(u)
             \/ \E h \in Hands : UpdateRead(h) \/ UpdateDelivered(h)
             \/ \E j \in Ids : PushDelivered(j)
    <2>1. marks'[i] \in {marks[i], AsRead(marks[i]), AsDelivered(marks[i])}
      BY <1>2 DEF MarkConversationAsRead, UpdateRead, UpdateDelivered, PushDelivered, Update
    <2> QED
      BY <1>1, <2>1 DEF MarksStay, AsRead, AsDelivered, Columns
  <1>3. ASSUME NEW u \in Users, Clear(u) PROVE marks'[i] = marks[i] \/ MarksStay(i)
    <2>1. PICK sides : marks'[i] \in {marks[i], Cleared(marks[i], sides)}
      BY <1>3 DEF Clear
    <2> QED
      BY <1>1, <2>1 DEF MarksStay, Cleared, Columns
  <1>4. ASSUME NEW u \in Users, NEW j \in Ids, EditMessage(u, j)
        PROVE  marks'[i] = marks[i] \/ MarksStay(i)
    <2>1. marks'[i] \in {marks[i], [marks[i] EXCEPT !.once = FALSE, !.opened = {}, !.edit = turns]}
      BY <1>1, <1>4 DEF EditMessage
    <2> QED
      BY <1>1, <2>1 DEF MarksStay, Columns
  <1> QED
    BY <1>2, <1>3, <1>4

LEMMA OthersStay ==
  ASSUME NEW i \in Ids,
         \/ UNCHANGED rowVars
         \/ \E h \in Hands, u \in Users, j \in Ids :
              \/ MarkAsRead(h, u, j) \/ DeleteMessage(h, u, j) \/ ToggleStar(h, u, j)
              \/ AddReaction(h, u, j) \/ RemoveReaction(h, u, j) \/ OpenOnce(h, u, j)
         \/ \E h \in Hands, u \in Users : ListUnread(h, u) \/ ListUndelivered(h, u)
         \/ \E h \in Hands : GivesUp(h)
  PROVE  marks'[i] = marks[i]
  <1>1. CASE UNCHANGED rowVars
    BY <1>1 DEF rowVars
  <1>2. ASSUME NEW h \in Hands, NEW u \in Users, NEW j \in Ids,
               \/ MarkAsRead(h, u, j) \/ DeleteMessage(h, u, j) \/ ToggleStar(h, u, j)
               \/ AddReaction(h, u, j) \/ RemoveReaction(h, u, j) \/ OpenOnce(h, u, j)
        PROVE  marks' = marks
    BY <1>2 DEF MarkAsRead, DeleteMessage, ToggleStar, AddReaction, RemoveReaction,
                OpenOnce, Read
  <1>3. ASSUME NEW h \in Hands, NEW u \in Users, ListUnread(h, u) \/ ListUndelivered(h, u)
        PROVE  marks' = marks
    BY <1>3 DEF ListUnread, ListUndelivered
  <1>4. ASSUME NEW h \in Hands, GivesUp(h) PROVE marks' = marks
    BY <1>4 DEF GivesUp
  <1> QED
    BY <1>1, <1>2, <1>3, <1>4

(* Save of a whole row: only a copy older than a mark takes it away; no       *)
(* handler undoes what another has done by itself.                            *)
THEOREM UndoneByOldCopies == RowsSpec => OnlyOldCopiesUndo
  <1> DEFINE Undo == \A i \in Ids :
               marks'[i] # marks[i] /\ (~\E h \in Hands : Overtaken(h, i)) => MarksStay(i)
  <1>1. RowsInv /\ [NextRows]_chatVars => [Undo]_chatVars
    <2> SUFFICES ASSUME RowsInv, [NextRows]_chatVars, NEW i \in Ids,
                        \A h \in Hands : ~Overtaken(h, i), marks'[i] # marks[i]
                 PROVE  MarksStay(i)
      OBVIOUS
    <2>1. CASE SendStep \/ UNCHANGED chatVars
      BY <2>1, OthersStay DEF SendStep, chatVars
    <2>2. CASE RowStep
      BY <2>2, FreshCopyStays, UpdatesStay, OthersStay DEF RowStep
    <2> QED
      BY <2>1, <2>2 DEF NextRows
  <1>2. Undo => \A i \in Ids :
          marks'[i] # marks[i] /\ (~\E h \in Hands : Overtaken(h, i)) =>
            /\ marks[i].read => marks'[i].read
            /\ marks[i].delivered => marks'[i].delivered
            /\ marks[i].gone \subseteq marks'[i].gone
            /\ \A u \in Users :
                 \/ (u \in marks[i].star <=> u \in marks'[i].star)
                      /\ (u \in marks[i].reaction <=> u \in marks'[i].reaction)
                 \/ \E h \in Hands : /\ work[h] \in Copying /\ work'[h] = Free
                                     /\ work[h].id = i /\ work[h].by = u
    BY DEF MarksStay
  <1> QED
    BY <1>1, <1>2, RowsInvHolds, PTL DEF RowsSpec, OnlyOldCopiesUndo
=============================================================================
