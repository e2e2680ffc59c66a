------------------------------ MODULE ChatsProofs -----------------------------
(***************************************************************************)
(* Chats for any number of users, messages and handlers.  First groups and  *)
(* rooms: the limit and the manager of a group, who becomes a member of it, *)
(* and who is kept out of a room.  Then the messages: nothing that is       *)
(* stored, read or past goes back; every message counts, notifies and is    *)
(* shown once; and the screens hold what is stored.                         *)
(***************************************************************************)
EXTENDS Chats, FiniteSetTheorems, WellFoundedInduction, TLAPS

-----------------------------------------------------------------------------
(* Rooms.  Whoever is about to be banned is not the owner: nothing else has *)
(* to be known beforehand.                                                  *)
OwnerIsSpared == \A h \in RoomHands : Step(h, "ban") => calls[h].of # Owner
RoomInv == RoomIsGuarded /\ OwnerIsSpared

LEMMA RoomStart == RoomInit => RoomInv
<1> SUFFICES ASSUME RoomInit PROVE RoomInv
  OBVIOUS
<1>1. rank \in [People -> Ranks]
  BY DEF RoomInit, Ranks
<1> QED
  BY <1>1, RoomAssumption
  DEF RoomInit, RoomInv, RoomIsGuarded, RoomTypeOK, BannedAreOut, LeftoverIsThere,
      OwnerIsSpared, Step

(* Of who is banned and has a row: the parts of RoomIsGuarded.              *)
LEMMA RoomParts ==
  ASSUME RoomInv
  PROVE  /\ RoomTypeOK /\ Owner \notin bans /\ OwnerIsSpared
         /\ \A u \in bans : IsMember(u) => OnTheWayOut(u) \/ u \in leftover
         /\ \A u \in leftover : u \in bans /\ IsMember(u)
BY DEF RoomInv, RoomIsGuarded, BannedAreOut, LeftoverIsThere

LEMMA CallIsTyped ==
  ASSUME RoomTypeOK, NEW h \in RoomHands, calls[h] # NoCall
  PROVE  calls[h] \in Call /\ calls[h].of \in People
BY DEF RoomTypeOK, Call

(* A handler that starts, or goes on without touching the rows and the bans, *)
(* keeps whom it is about out, or the row has been left.                    *)
LEMMA RoomGoesOn ==
  ASSUME RoomInv, NEW h \in RoomHands, NEW call \in Call \cup {NoCall},
         calls' = [calls EXCEPT ![h] = call],
         UNCHANGED <<rank, bans>>, blocks' \subseteq People, open' \in BOOLEAN, UNCHANGED tools,
         UNCHANGED leftover \/ StillThere(calls[h].of),
         calls[h] # NoCall =>
           \/ calls[h].at \notin {"remove", "recheck", "cleanup"}
           \/ call # NoCall /\ call.of = calls[h].of /\ call.at \in {"remove", "recheck", "cleanup"}
           \/ StillThere(calls[h].of),
         call # NoCall /\ call.at = "ban" => call.of # Owner
  PROVE  RoomInv'
<1> DEFINE there(u) == u \in bans /\ IsMember(u)
<1>0. /\ leftover \subseteq leftover'
      /\ \A u \in leftover' : u \in leftover \/ there(u)
      /\ StillThere(calls[h].of) /\ there(calls[h].of) => calls[h].of \in leftover'
  BY DEF StillThere
<1>1. RoomTypeOK'
  <2>1. leftover' \subseteq People
    BY <1>0, RoomParts DEF RoomTypeOK
  <2> QED BY <2>1, RoomParts DEF RoomTypeOK
<1>2. BannedAreOut'
  <2> SUFFICES ASSUME NEW u \in bans, IsMember(u), u \notin leftover' PROVE OnTheWayOut(u)'
    BY DEF BannedAreOut, IsMember
  <2>1. PICK g \in RoomHands :
          calls[g] # NoCall /\ calls[g].of = u /\ calls[g].at \in {"remove", "recheck", "cleanup"}
    BY <1>0, RoomParts DEF OnTheWayOut
  <2>2. CASE g = h
    <3>1. ~StillThere(calls[h].of)
      BY <1>0, <2>1, <2>2
    <3> QED BY <2>1, <2>2, <3>1 DEF OnTheWayOut, RoomInv, RoomIsGuarded, RoomTypeOK
  <2>3. CASE g # h
    BY <2>1, <2>3 DEF OnTheWayOut, RoomInv, RoomIsGuarded, RoomTypeOK
  <2> QED BY <2>2, <2>3
<1>3. (Owner \notin bans)' /\ LeftoverIsThere'
  BY <1>0, RoomParts DEF LeftoverIsThere, IsMember
<1>4. OwnerIsSpared'
  BY DEF OwnerIsSpared, Step, RoomInv, RoomIsGuarded, RoomTypeOK
<1> QED BY <1>1, <1>2, <1>3, <1>4 DEF RoomInv, RoomIsGuarded

(* A row is deleted and the handler goes on: nobody it deals with needs     *)
(* keeping out any more.                                                    *)
LEMMA RoomForgets ==
  ASSUME RoomInv, NEW h \in RoomHands, calls[h] # NoCall,
         DeleteRow(calls[h].of, Answered(h)),
         UNCHANGED <<bans, blocks, open, tools>>
  PROVE  RoomInv'
<1> DEFINE u == calls[h].of
<1>1. u \in People
  BY CallIsTyped DEF RoomInv, RoomIsGuarded
<1>2. ASSUME NEW g \in RoomHands
      PROVE  /\ calls'[g] \in Call \cup {NoCall}
             /\ g # h => /\ calls'[g] = NoCall <=> calls[g] = NoCall
                         /\ calls[g] # NoCall => /\ calls'[g].of = calls[g].of
                                                 /\ calls'[g].at = calls[g].at
             /\ g = h => calls'[g] = NoCall
  <2> DEFINE left == [calls EXCEPT ![h] = NoCall]
  <2>1. calls' = [k \in RoomHands |->
                    IF left[k] # NoCall /\ left[k].op = "leave" /\ left[k].of = u
                    THEN [left[k] EXCEPT !.row = FALSE] ELSE left[k]]
    BY DEF DeleteRow, Forget, Answered
  <2>2. left \in [RoomHands -> Call \cup {NoCall}]
    BY DEF RoomInv, RoomIsGuarded, RoomTypeOK
  <2>3. left[g] # NoCall => /\ [left[g] EXCEPT !.row = FALSE] \in Call
                            /\ [left[g] EXCEPT !.row = FALSE].of = left[g].of
                            /\ [left[g] EXCEPT !.row = FALSE].at = left[g].at
    BY <2>2 DEF Call
  <2>4. g # h => left[g] = calls[g]
    BY DEF RoomInv, RoomIsGuarded, RoomTypeOK
  <2>5. g = h => left[g] = NoCall
    BY DEF RoomInv, RoomIsGuarded, RoomTypeOK
  <2> HIDE DEF left
  <2> QED BY <2>1, <2>2, <2>3, <2>4, <2>5, RoomAssumption
<1>3. RoomTypeOK'
  <2>1. calls' \in [RoomHands -> Call \cup {NoCall}]
    BY <1>2 DEF DeleteRow, Forget
  <2>2. leftover' = leftover \ {u}
    BY DEF DeleteRow
  <2> QED BY <2>1, <2>2 DEF DeleteRow, RoomInv, RoomIsGuarded, RoomTypeOK, Ranks
<1>4. BannedAreOut'
  <2> SUFFICES ASSUME NEW v \in bans, IsMember(v)', v \notin leftover' PROVE OnTheWayOut(v)'
    BY DEF BannedAreOut
  <2>1. v # u /\ IsMember(v) /\ v \notin leftover
    BY <1>1 DEF DeleteRow, IsMember, RoomInv, RoomIsGuarded, RoomTypeOK
  <2>2. PICK g \in RoomHands :
          calls[g] # NoCall /\ calls[g].of = v /\ calls[g].at \in {"remove", "recheck", "cleanup"}
    BY <2>1, RoomParts DEF OnTheWayOut
  <2> QED BY <1>2, <2>1, <2>2 DEF OnTheWayOut
<1>5. OwnerIsSpared'
  BY <1>2 DEF OwnerIsSpared, Step, RoomInv
<1>6. LeftoverIsThere'
  <2> SUFFICES ASSUME NEW v \in leftover' PROVE v \in bans /\ IsMember(v)'
    BY DEF LeftoverIsThere
  <2>1. v \in leftover /\ v # u /\ v \in People
    BY RoomParts DEF DeleteRow, RoomTypeOK
  <2> QED BY <2>1, RoomParts DEF DeleteRow, IsMember, RoomTypeOK
<1> QED BY <1>3, <1>4, <1>5, <1>6 DEF RoomInv, RoomIsGuarded

(* The row stays, and whom the handler was about is known to have it still. *)
LEMMA RoomKeepsRow ==
  ASSUME RoomInv, NEW h \in RoomHands, calls[h] # NoCall, calls[h].at # "ban",
         KeepRow(calls[h].of, Answered(h)),
         UNCHANGED <<bans, blocks, open, tools>>
  PROVE  RoomInv'
<1>1. /\ StillThere(calls[h].of) /\ UNCHANGED rank
      /\ calls' = [calls EXCEPT ![h] = NoCall]
  BY DEF KeepRow, Answered
<1>2. blocks' \subseteq People /\ open' \in BOOLEAN
  BY RoomParts DEF RoomTypeOK
<1> QED BY <1>1, <1>2, RoomGoesOn

LEMMA RoomStepKeeps ==
  ASSUME RoomInv, NEW h \in RoomHands, RoomStep(h)
  PROVE  RoomInv'
<1>0. RoomTypeOK /\ BannedAreOut /\ LeftoverIsThere /\ Owner \notin bans /\ OwnerIsSpared
  BY DEF RoomInv, RoomIsGuarded
<1>1. ASSUME NEW op \in {"join", "send", "promote", "unban", "block", "leave", "delete"},
             NEW at \in {"gate", "ensure", "write"},
             NEW of \in People, NEW on \in BOOLEAN, Begin(h, op, at, of, on)
      PROVE  RoomInv'
  <2>1. [op |-> op, at |-> at, of |-> of, on |-> on, row |-> TRUE] \in Call
    BY DEF Call
  <2>2. /\ calls[h] = NoCall
        /\ calls' = [calls EXCEPT ![h] =
             [op |-> op, at |-> at, of |-> of, on |-> on, row |-> TRUE]]
        /\ UNCHANGED <<leftover, tools, rank, bans, blocks, open>>
    BY <1>1 DEF Begin
  <2> QED BY <1>0, <2>1, <2>2, RoomGoesOn DEF RoomTypeOK
<1>2. ASSUME NEW u \in People, NEW on \in BOOLEAN,
             JoinRoom(h, u) \/ LeaveRoom(h, u) \/ DeleteRoom(h, u) \/ SendRoomMessage(h, u, on)
      PROVE  RoomInv'
  BY <1>1, <1>2 DEF JoinRoom, LeaveRoom, DeleteRoom, SendRoomMessage
<1>3. ASSUME NEW a \in People, NEW t \in People, NEW on \in BOOLEAN,
             UnbanRoomUser(h, a, t) \/ SetAdmin(h, a, t, on) \/ SetRoomWriteBlock(h, a, t, on)
      PROVE  RoomInv'
  BY <1>1, <1>3 DEF UnbanRoomUser, SetAdmin, SetRoomWriteBlock
<1>4. ASSUME NEW a \in People, NEW t \in People, KickRoomMember(h, a, t)
      PROVE  RoomInv'
  <2>1. [op |-> "kick", at |-> "ban", of |-> t, on |-> FALSE, row |-> TRUE] \in Call
    BY DEF Call
  <2>2. /\ calls[h] = NoCall /\ t # Owner
        /\ calls' = [calls EXCEPT ![h] =
             [op |-> "kick", at |-> "ban", of |-> t, on |-> FALSE, row |-> TRUE]]
        /\ UNCHANGED <<leftover, tools, rank, bans, blocks, open>>
    BY <1>4 DEF KickRoomMember, Begin
  <2> QED BY <1>0, <2>1, <2>2, RoomGoesOn DEF RoomTypeOK
<1>5. ASSUME calls[h] # NoCall,
             NEW at \in {"ensure", "verify", "insert", "unblock", "role", "cleanup", "drop"},
             blocks' \subseteq People, UNCHANGED <<rank, bans, open, tools>>,
             UNCHANGED leftover \/ StillThere(calls[h].of),
             calls[h].at \in {"remove", "recheck", "cleanup"} =>
               at = "cleanup" \/ StillThere(calls[h].of),
             To(h, at)
      PROVE  RoomInv'
  <2>1. [calls[h] EXCEPT !.at = at] \in Call
    BY <1>0, <1>5, CallIsTyped DEF Call
  <2>2. /\ [calls[h] EXCEPT !.at = at].of = calls[h].of
        /\ [calls[h] EXCEPT !.at = at].at = at
    BY <1>0, <1>5, CallIsTyped DEF Call
  <2>3. calls' = [calls EXCEPT ![h] = [calls[h] EXCEPT !.at = at]]
    BY <1>5 DEF To, Moved
  <2>4. [calls[h] EXCEPT !.at = at] # NoCall
    BY <2>1, RoomAssumption
  <2> QED BY <1>0, <1>5, <2>1, <2>2, <2>3, <2>4, RoomGoesOn DEF RoomTypeOK
<1>6. ASSUME calls[h] # NoCall, blocks' \subseteq People, open' \in BOOLEAN,
             UNCHANGED <<leftover, rank, bans, tools>>,
             calls[h].at \notin {"remove", "recheck", "cleanup"},
             Answer(h)
      PROVE  RoomInv'
  BY <1>6, RoomGoesOn DEF Answer, Answered
<1> USE <1>0, RoomAssumption DEF RoomTypeOK
<1>7. CASE Gate(h)
  BY <1>5, <1>6, <1>7 DEF Gate, Step
<1>8. CASE Ensure(h) \/ Verify(h)
  BY <1>5, <1>6, <1>8 DEF Ensure, Verify, IsIn, Step
<1>9. CASE Recheck(h)
  BY <1>5, <1>9 DEF Recheck, Step
<1>10. CASE Cleanup(h) \/ Remove(h)
  BY <1>10, RoomForgets, RoomKeepsRow DEF Cleanup, Remove, Step
<1>11. CASE Unblock(h)
  BY <1>5, <1>11 DEF Unblock, Step
<1>12. CASE WriteBlock(h)
  BY <1>6, <1>12, CallIsTyped DEF WriteBlock, Step
<1>13. CASE DropRoom(h)
  BY <1>6, <1>13 DEF DropRoom, Step
<1>14. CASE Leave(h)
  BY <1>6, <1>14, RoomForgets DEF Leave, Step
<1>15. CASE Insert(h)
  <2> DEFINE u == calls[h].of
  <2> DEFINE at == IF IsMember(u) THEN "verify" ELSE "recheck"
  <2>1. calls[h] \in Call /\ u \in People /\ calls[h].at = "insert" /\ calls[h] # NoCall
    BY <1>15, CallIsTyped DEF Insert, Step
  <2>2. /\ [calls[h] EXCEPT !.at = at] \in Call
        /\ [calls[h] EXCEPT !.at = at].of = u
        /\ [calls[h] EXCEPT !.at = at].at = at
    BY <2>1 DEF Call
  <2>3. calls' = [calls EXCEPT ![h] = [calls[h] EXCEPT !.at = at]]
    BY <1>15 DEF Insert, To, Moved
  <2>4. rank' = [rank EXCEPT ![u] = IF IsMember(u) THEN @ ELSE "member"]
    BY <1>15 DEF Insert
  <2>5. UNCHANGED <<bans, blocks, open, tools, leftover>>
    BY <1>15 DEF Insert
  <2>6. RoomTypeOK'
    BY <2>1, <2>2, <2>3, <2>4, <2>5 DEF Ranks
  <2>7. BannedAreOut'
    <3> SUFFICES ASSUME NEW v \in bans, IsMember(v)', v \notin leftover PROVE OnTheWayOut(v)'
      BY <2>5 DEF BannedAreOut
    <3>1. CASE v = u /\ ~IsMember(u)
      BY <2>1, <2>2, <2>3, <3>1 DEF OnTheWayOut
    <3>2. CASE IsMember(v)
      <4>1. PICK g \in RoomHands :
              calls[g] # NoCall /\ calls[g].of = v /\ calls[g].at \in {"remove", "recheck", "cleanup"}
        BY <3>2 DEF BannedAreOut, OnTheWayOut
      <4>2. g # h
        BY <2>1, <4>1
      <4> QED BY <2>3, <4>1, <4>2 DEF OnTheWayOut
    <3>3. v # u => IsMember(v)
      BY <2>4 DEF IsMember
    <3> QED BY <3>1, <3>2, <3>3
  <2>8. OwnerIsSpared'
    BY <2>1, <2>2, <2>3 DEF OwnerIsSpared, Step
  <2>9. LeftoverIsThere'
    BY <2>1, <2>4, <2>5 DEF LeftoverIsThere, IsMember
  <2> QED BY <2>5, <2>6, <2>7, <2>8, <2>9 DEF RoomInv, RoomIsGuarded
<1>16. CASE GiveRank(h)
  <2> DEFINE u == calls[h].of
  <2>1. calls[h] \in Call /\ u \in People /\ calls[h].at = "role" /\ calls[h] # NoCall
    BY <1>16, CallIsTyped DEF GiveRank, Step
  <2>2. /\ rank' \in [People -> Ranks]
        /\ \A v \in People : IsMember(v)' <=> IsMember(v)
    BY <1>16, <2>1 DEF GiveRank, Ranks, IsMember
  <2>3. calls' = [calls EXCEPT ![h] = NoCall]
    BY <1>16 DEF GiveRank, Answer, Answered
  <2>4. UNCHANGED <<bans, blocks, open, tools, leftover>>
    BY <1>16 DEF GiveRank
  <2>5. BannedAreOut'
    <3> SUFFICES ASSUME NEW v \in bans, IsMember(v)', v \notin leftover PROVE OnTheWayOut(v)'
      BY <2>4 DEF BannedAreOut
    <3>1. PICK g \in RoomHands :
            calls[g] # NoCall /\ calls[g].of = v /\ calls[g].at \in {"remove", "recheck", "cleanup"}
      BY <2>2 DEF BannedAreOut, OnTheWayOut
    <3>2. g # h
      BY <2>1, <3>1
    <3> QED BY <2>3, <3>1, <3>2 DEF OnTheWayOut
  <2>6. OwnerIsSpared'
    BY <2>3 DEF OwnerIsSpared, Step
  <2>7. LeftoverIsThere'
    BY <2>2, <2>4 DEF LeftoverIsThere
  <2> QED BY <2>2, <2>3, <2>4, <2>5, <2>6, <2>7 DEF RoomInv, RoomIsGuarded
<1>17. CASE Ban(h)
  <2> DEFINE u == calls[h].of
  <2>1. calls[h] \in Call /\ u \in People /\ calls[h] # NoCall /\ u # Owner /\ calls[h].at = "ban"
    BY <1>17, CallIsTyped DEF Ban, Step, OwnerIsSpared
  <2>2. /\ [calls[h] EXCEPT !.at = "remove"] \in Call
        /\ [calls[h] EXCEPT !.at = "remove"].of = u
        /\ [calls[h] EXCEPT !.at = "remove"].at = "remove"
    BY <2>1 DEF Call
  <2>3. calls' = [calls EXCEPT ![h] = [calls[h] EXCEPT !.at = "remove"]]
    BY <1>17 DEF Ban, To, Moved
  <2>4. bans' = bans \cup {u} /\ UNCHANGED <<rank, blocks, open, tools, leftover>>
    BY <1>17 DEF Ban
  <2>5. BannedAreOut'
    <3> SUFFICES ASSUME NEW v \in bans', IsMember(v), v \notin leftover PROVE OnTheWayOut(v)'
      BY <2>4 DEF BannedAreOut, IsMember
    <3>1. CASE v = u
      BY <2>1, <2>2, <2>3, <3>1 DEF OnTheWayOut
    <3>2. CASE v # u
      <4>1. PICK g \in RoomHands :
              calls[g] # NoCall /\ calls[g].of = v /\ calls[g].at \in {"remove", "recheck", "cleanup"}
        BY <2>4, <3>2 DEF BannedAreOut, OnTheWayOut
      <4>2. g # h
        BY <2>1, <4>1
      <4> QED BY <2>3, <4>1, <4>2 DEF OnTheWayOut
    <3> QED BY <3>1, <3>2
  <2>6. OwnerIsSpared'
    BY <2>1, <2>2, <2>3 DEF OwnerIsSpared, Step
  <2>7. (Owner \notin bans)'
    BY <2>1, <2>4
  <2>8. RoomTypeOK'
    BY <2>1, <2>2, <2>3, <2>4
  <2>9. LeftoverIsThere'
    BY <2>4 DEF LeftoverIsThere, IsMember
  <2> QED BY <2>5, <2>6, <2>7, <2>8, <2>9 DEF RoomInv, RoomIsGuarded
<1>18. CASE Unban(h)
  <2>1. calls[h] # NoCall /\ calls[h].at = "write"
    BY <1>18 DEF Unban, Step
  <2>2. calls' = [calls EXCEPT ![h] = NoCall]
    BY <1>18 DEF Unban, Answer, Answered
  <2>3. /\ bans' = bans \ {calls[h].of} /\ leftover' = leftover \ {calls[h].of}
        /\ UNCHANGED <<rank, blocks, open, tools>>
    BY <1>18 DEF Unban
  <2>4. BannedAreOut'
    <3> SUFFICES ASSUME NEW v \in bans', IsMember(v), v \notin leftover' PROVE OnTheWayOut(v)'
      BY <2>3 DEF BannedAreOut, IsMember
    <3>1. PICK g \in RoomHands :
            calls[g] # NoCall /\ calls[g].of = v /\ calls[g].at \in {"remove", "recheck", "cleanup"}
      BY <2>3 DEF BannedAreOut, OnTheWayOut
    <3>2. g # h
      BY <2>1, <3>1
    <3> QED BY <2>2, <3>1, <3>2 DEF OnTheWayOut
  <2>5. OwnerIsSpared'
    BY <2>2 DEF OwnerIsSpared, Step
  <2>6. LeftoverIsThere'
    BY <2>3 DEF LeftoverIsThere, IsMember
  <2> QED BY <2>2, <2>3, <2>4, <2>5, <2>6 DEF RoomInv, RoomIsGuarded
<1>19. CASE DeleteRows(h)
  <2>1. calls[h] \in Call /\ calls[h] # NoCall
    BY <1>19, CallIsTyped DEF DeleteRows, Step
  <2>2. /\ rank' = [u \in People |-> "none"] /\ leftover' = {}
        /\ UNCHANGED <<bans, blocks, open, tools>>
    BY <1>19 DEF DeleteRows
  <2>3. ASSUME NEW g \in RoomHands
        PROVE  /\ calls'[g] \in Call \cup {NoCall}
               /\ Step(g, "ban")' => Step(g, "ban") /\ calls'[g].of = calls[g].of
    <3>1. g = h => calls'[g] = [calls[h] EXCEPT !.at = "drop"]
      BY <1>19 DEF DeleteRows
    <3>2. g # h => calls'[g] = IF calls[g] # NoCall /\ calls[g].op = "leave"
                               THEN [calls[g] EXCEPT !.row = FALSE] ELSE calls[g]
      BY <1>19 DEF DeleteRows
    <3>3. CASE g = h
      <4>1. calls'[g] \in Call /\ calls'[g].at = "drop"
        BY <2>1, <3>1, <3>3 DEF Call
      <4> QED BY <4>1 DEF Step
    <3>4. CASE g # h /\ calls[g] # NoCall /\ calls[g].op = "leave"
      <4>1. calls[g] \in Call
        BY <3>4
      <4>2. /\ calls'[g] \in Call
            /\ calls'[g].at = calls[g].at /\ calls'[g].of = calls[g].of
        <5>1. calls'[g] = [calls[g] EXCEPT !.row = FALSE]
          BY <3>2, <3>4
        <5> QED BY ONLY <4>1, <5>1 DEF Call
      <4> QED BY <3>4, <4>2, RoomAssumption DEF Step
    <3>5. CASE g # h /\ ~(calls[g] # NoCall /\ calls[g].op = "leave")
      BY <3>2, <3>5 DEF Step
    <3> QED BY <3>3, <3>4, <3>5
  <2>4. calls' \in [RoomHands -> Call \cup {NoCall}]
    BY <1>19, <2>3 DEF DeleteRows
  <2>5. BannedAreOut'
    BY <2>2 DEF BannedAreOut, IsMember
  <2>6. OwnerIsSpared'
    BY <2>3 DEF OwnerIsSpared
  <2>7. LeftoverIsThere'
    BY <2>2 DEF LeftoverIsThere
  <2> QED BY <2>2, <2>4, <2>5, <2>6, <2>7 DEF Ranks, RoomInv, RoomIsGuarded
<1>20. CASE WriteFails(h)
  BY <1>5, <1>6, <1>20 DEF WriteFails
<1> QED
  BY <1>2, <1>3, <1>4, <1>7, <1>8, <1>9, <1>10, <1>11, <1>12, <1>13, <1>14, <1>15, <1>16,
     <1>17, <1>18, <1>19, <1>20
  DEF RoomStep

LEMMA RoomStands == ASSUME RoomInv, UNCHANGED roomVars PROVE RoomInv'
BY DEF RoomInv, RoomIsGuarded, RoomTypeOK, BannedAreOut, LeftoverIsThere, OnTheWayOut, IsMember,
       OwnerIsSpared, Step, roomVars

(* Whoever is banned from a room has no row but on the way out, or the one  *)
(* that a failed statement has left, and the owner is never banned: for any *)
(* number of people and of handlers, whichever statements fail.             *)
THEOREM RoomRule == MembersSpec => []RoomIsGuarded
<1>1. MembersInit => RoomInv
  BY RoomStart DEF MembersInit
<1>2. RoomInv /\ [MembersNext]_membersVars => RoomInv'
  BY RoomStepKeeps, RoomStands DEF MembersNext, RoomNext, membersVars
<1>3. RoomInv => RoomIsGuarded
  BY DEF RoomInv
<1> QED BY <1>1, <1>2, <1>3, PTL DEF MembersSpec

-----------------------------------------------------------------------------
(* Groups.                                                                  *)

LEMMA TaskIsTyped ==
  ASSUME GroupTypeOK, NEW h \in GroupHands, desk[h] # NoTask
  PROVE  /\ desk[h] \in Task /\ desk[h].user \in Users /\ desk[h].role \in Roles
         /\ desk[h].who \subseteq Users /\ desk[h].row \in BOOLEAN
BY DEF GroupTypeOK, Task

LEMMA RowIsTyped ==
  ASSUME GroupTypeOK, NEW u \in Users, HasRow(u)
  PROVE  /\ part[u] \in Row /\ part[u].role \in Roles
         /\ part[u].pending \in BOOLEAN /\ part[u].live \in BOOLEAN
BY DEF GroupTypeOK, HasRow, Row

(* One row is written: what the readers of the rows see of it.              *)
LEMMA WrittenRow ==
  ASSUME GroupTypeOK, NEW u \in Users, NEW row \in Row, part' = [part EXCEPT ![u] = row]
  PROVE  /\ part' \in [Users -> Row \cup {NoRow}]
         /\ HasRow(u)' /\ part'[u] = row
         /\ \A v \in Users \ {u} : part'[v] = part[v] /\ (HasRow(v)' <=> HasRow(v))
BY GroupAssumption DEF GroupTypeOK, HasRow

(* The handlers with the lock are one handler.                              *)
OneHasTheLock ==
  \A g, h \in GroupHands :
    /\ desk[g] # NoTask /\ desk[g].at \in InTx
    /\ desk[h] # NoTask /\ desk[h].at \in InTx
    => g = h

(* What was counted under the lock is still so when the rows are written.   *)
CountsHold ==
  \A h \in GroupHands :
    /\ At(h, "seat") => Cardinality(Inside) + 1 <= MaxMembers
    /\ At(h, "place") => Cardinality(Inside) + Cardinality(desk[h].who) <= MaxMembers

LimitInv == GroupTypeOK /\ LimitIsKept /\ OneHasTheLock /\ CountsHold
LEMMA InsideIsFinite == IsFiniteSet(Inside) /\ Cardinality(Inside) \in Nat
BY GroupAssumption, FS_Subset, FS_CardinalityType DEF Inside

(* A handler writes down its next step, and nobody comes in.                *)
LEMMA LimitGoesOn ==
  ASSUME LimitInv, NEW h \in GroupHands, NEW t \in Task \cup {NoTask},
         desk' = [desk EXCEPT ![h] = t],
         part' \in [Users -> Row \cup {NoRow}], \A u \in Users : Live(u)' => Live(u),
         alive' \in BOOLEAN, UNCHANGED may,
         t # NoTask =>
           /\ t.at \in InTx => ~Locked \/ (desk[h] # NoTask /\ desk[h].at \in InTx)
           /\ t.at = "seat" => Cardinality(Inside) + 1 <= MaxMembers
           /\ t.at = "place" => Cardinality(Inside) + Cardinality(t.who) <= MaxMembers
  PROVE  LimitInv'
<1> USE DEF LimitInv
<1>1. GroupTypeOK'
  BY DEF GroupTypeOK
<1>2. Cardinality(Inside)' \in Nat /\ Cardinality(Inside)' <= Cardinality(Inside)
  <2>1. Inside' \subseteq Inside
    BY DEF Inside
  <2> QED BY <2>1, InsideIsFinite, FS_Subset, FS_CardinalityType
<1>3. LimitIsKept'
  BY <1>2, InsideIsFinite, GroupAssumption DEF LimitIsKept
<1>4. OneHasTheLock'
  BY DEF OneHasTheLock, Locked, GroupTypeOK
<1>5. CountsHold'
  <2> SUFFICES ASSUME NEW g \in GroupHands, desk'[g] # NoTask
               PROVE  /\ desk'[g].at = "seat" => Cardinality(Inside)' + 1 <= MaxMembers
                      /\ desk'[g].at = "place" =>
                           Cardinality(Inside)' + Cardinality(desk'[g].who) <= MaxMembers
    BY DEF CountsHold, At
  <2>1. /\ desk'[g].at = "seat" => Cardinality(Inside) + 1 <= MaxMembers
        /\ desk'[g].at = "place" => Cardinality(Inside) + Cardinality(desk'[g].who) <= MaxMembers
    <3>1. CASE g = h
      BY <3>1 DEF GroupTypeOK
    <3>2. CASE g # h
      BY <3>2 DEF GroupTypeOK, CountsHold, At
    <3> QED BY <3>1, <3>2
  <2>2. Cardinality(desk'[g].who) \in Nat
    <3>1. desk'[g].who \subseteq Users
      BY <1>1 DEF GroupTypeOK, Task
    <3> QED BY <3>1, GroupAssumption, FS_Subset, FS_CardinalityType
  <2> QED BY <1>2, <2>1, <2>2, InsideIsFinite, GroupAssumption
<1> QED BY <1>1, <1>3, <1>4, <1>5

(* A handler with the lock writes the rows it has counted.                  *)
LEMMA LimitIsReached ==
  ASSUME LimitInv, NEW h \in GroupHands, desk[h] # NoTask, desk[h].at \in InTx,
         NEW new \in SUBSET Users, Cardinality(Inside) + Cardinality(new) <= MaxMembers,
         part' \in [Users -> Row \cup {NoRow}], \A u \in Users : Live(u)' => Live(u) \/ u \in new,
         Done(h), UNCHANGED <<alive, may>>
  PROVE  LimitInv'
<1> USE DEF LimitInv
<1>1. GroupTypeOK'
  BY DEF GroupTypeOK, Done
<1>2. LimitIsKept'
  <2>1. Inside' \subseteq Inside \cup new
    BY DEF Inside
  <2>2. IsFiniteSet(new)
    BY GroupAssumption, FS_Subset
  <2>3. /\ IsFiniteSet(Inside \cup new)
        /\ Cardinality(Inside \cup new) <= Cardinality(Inside) + Cardinality(new)
    <3>1. /\ IsFiniteSet(Inside \cup new)
          /\ Cardinality(Inside \cup new)
               = Cardinality(Inside) + Cardinality(new) - Cardinality(Inside \cap new)
      BY <2>2, InsideIsFinite, FS_Union
    <3>2. Cardinality(Inside \cap new) \in Nat
      BY <2>2, FS_Intersection, FS_CardinalityType
    <3> QED BY <2>2, <3>1, <3>2, InsideIsFinite, FS_CardinalityType
  <2>4. Cardinality(Inside') <= Cardinality(Inside \cup new) /\ Cardinality(Inside') \in Nat
    BY <2>1, <2>3, FS_Subset, FS_CardinalityType
  <2> QED
    BY <2>2, <2>3, <2>4, InsideIsFinite, FS_CardinalityType, GroupAssumption DEF LimitIsKept
<1>3. \A g \in GroupHands : desk'[g] # NoTask => g # h /\ desk'[g] = desk[g]
  BY DEF Done, GroupTypeOK
<1>4. OneHasTheLock'
  BY <1>3 DEF OneHasTheLock
<1>5. CountsHold'
  BY <1>3 DEF CountsHold, At, OneHasTheLock, InTx
<1> QED BY <1>1, <1>2, <1>4, <1>5
(* An answer, a kick or a role writes the row it has read, and lets nobody in. *)
LEMMA LimitUnlocked ==
  ASSUME LimitInv, NEW h \in GroupHands, desk[h] # NoTask, NEW row \in Row,
         Holds(h), part' = [part EXCEPT ![desk[h].user] = row],
         row.live => part[desk[h].user].live,
         Done(h), alive' \in BOOLEAN, UNCHANGED may
  PROVE  LimitInv'
<1>1. desk[h].user \in Users /\ HasRow(desk[h].user)
  BY TaskIsTyped DEF LimitInv, Holds
<1>2. /\ part' \in [Users -> Row \cup {NoRow}]
      /\ part'[desk[h].user] = row
      /\ \A v \in Users \ {desk[h].user} : part'[v] = part[v]
  BY <1>1, WrittenRow DEF LimitInv
<1>3. \A v \in Users : Live(v)' => Live(v)
  BY <1>1, <1>2 DEF Live, HasRow
<1> QED BY <1>2, <1>3, LimitGoesOn DEF Done

LEMMA LimitStays ==
  ASSUME LimitInv, NEW h \in GroupHands, NEW t \in Task \cup {NoTask},
         desk' = [desk EXCEPT ![h] = t], UNCHANGED <<part, may>>, alive' \in BOOLEAN,
         t # NoTask =>
           /\ t.at \in InTx => ~Locked \/ (desk[h] # NoTask /\ desk[h].at \in InTx)
           /\ t.at = "seat" => Cardinality(Inside) + 1 <= MaxMembers
           /\ t.at = "place" => Cardinality(Inside) + Cardinality(t.who) <= MaxMembers
  PROVE  LimitInv'
<1>1. part' \in [Users -> Row \cup {NoRow}] /\ \A u \in Users : Live(u)' => Live(u)
  BY DEF LimitInv, GroupTypeOK, Live, HasRow
<1> QED BY <1>1, LimitGoesOn

LEMMA LimitStep ==
  ASSUME LimitInv, NEW h \in GroupHands, GroupStep(h)
  PROVE  LimitInv'
<1>0. GroupTypeOK /\ alive \in BOOLEAN
  BY DEF LimitInv, GroupTypeOK
<1>1. ASSUME NEW at \in {"accept", "kick", "role", "join", "add", "leave"},
             at = "leave" => ~Locked,
             NEW u \in Users, NEW who \in SUBSET Users, NEW role \in Roles, Take(h, at, u, who, role)
      PROVE  LimitInv'
  <2> DEFINE t == [at |-> at, user |-> u, who |-> who, role |-> role, row |-> TRUE]
  <2>1. t \in Task /\ t.at = at
    BY DEF Task
  <2>2. desk' = [desk EXCEPT ![h] = t] /\ UNCHANGED <<part, alive, may>>
    BY <1>1 DEF Take
  <2> HIDE DEF t
  <2>3. /\ t.at \in InTx => ~Locked
        /\ t.at # "seat" /\ t.at # "place"
    BY <1>1, <2>1 DEF InTx
  <2> QED BY <1>0, <2>1, <2>2, <2>3, LimitStays
<1>2. ASSUME NEW u \in Users, AcceptInvite(h, u) \/ JoinByToken(h, u) \/ LeaveGroup(h, u)
      PROVE  LimitInv'
  <2>1. "member" \in Roles /\ {} \in SUBSET Users /\ (Live(u) => part[u].role \in Roles)
    BY <1>0, RowIsTyped DEF Roles, Live
  <2>2. CASE AcceptInvite(h, u)
    BY <1>1, <2>1, <2>2 DEF AcceptInvite
  <2>3. CASE JoinByToken(h, u)
    BY <1>1, <2>1, <2>3 DEF JoinByToken
  <2>4. CASE LeaveGroup(h, u)
    BY <1>1, <2>1, <2>4 DEF LeaveGroup
  <2> QED BY <1>2, <2>2, <2>3, <2>4
<1>3. ASSUME NEW r \in Users, NEW u \in Users, NEW role \in {"admin", "member"},
             NEW who \in SUBSET Users,
             KickMember(h, r, u) \/ ChangeRole(h, r, u, role) \/ AddMembers(h, r, who)
      PROVE  LimitInv'
  <2>1. "member" \in Roles /\ role \in Roles /\ {} \in SUBSET Users
    BY DEF Roles
  <2>2. CASE KickMember(h, r, u)
    BY <1>1, <2>1, <2>2 DEF KickMember
  <2>3. CASE ChangeRole(h, r, u, role)
    BY <1>1, <2>1, <2>3 DEF ChangeRole
  <2>4. CASE AddMembers(h, r, who)
    BY <1>1, <2>1, <2>4 DEF AddMembers
  <2> QED BY <1>3, <2>2, <2>3, <2>4
<1>4. ASSUME desk[h] # NoTask, Done(h), UNCHANGED <<part, may>>, alive' \in BOOLEAN
      PROVE  LimitInv'
  BY <1>4, LimitStays DEF Done
<1>5. ASSUME desk[h] # NoTask, Holds(h)
      PROVE  /\ part[desk[h].user] \in Row
             /\ [part[desk[h].user] EXCEPT !.pending = FALSE] \in Row
             /\ [part[desk[h].user] EXCEPT !.pending = FALSE].live = part[desk[h].user].live
             /\ [part[desk[h].user] EXCEPT !.live = FALSE] \in Row
             /\ [part[desk[h].user] EXCEPT !.live = FALSE].live = FALSE
             /\ [part[desk[h].user] EXCEPT !.role = desk[h].role] \in Row
             /\ [part[desk[h].user] EXCEPT !.role = desk[h].role].live = part[desk[h].user].live
  <2>1. part[desk[h].user] \in Row /\ desk[h].role \in Roles
    BY <1>0, <1>5, TaskIsTyped, RowIsTyped DEF Holds
  <2> QED BY <2>1 DEF Row
<1>6. CASE Accept(h)
  <2>1. desk[h] # NoTask /\ Done(h) /\ UNCHANGED <<alive, may>>
    BY <1>6 DEF Accept, At
  <2>2. CASE Holds(h)
    <3>1. part' = [part EXCEPT ![desk[h].user] = [part[desk[h].user] EXCEPT !.pending = FALSE]]
      BY <1>6, <2>2 DEF Accept
    <3> QED BY <1>0, <1>5, <2>1, <2>2, <3>1, LimitUnlocked
  <2>3. CASE ~Holds(h)
    BY <1>0, <1>4, <1>6, <2>1, <2>3 DEF Accept
  <2> QED BY <2>2, <2>3
<1>7. CASE GiveRole(h)
  <2>1. desk[h] # NoTask /\ Done(h) /\ UNCHANGED <<alive, may>>
    BY <1>7 DEF GiveRole, At
  <2>2. CASE Holds(h)
    <3>1. part' = [part EXCEPT ![desk[h].user] = [part[desk[h].user] EXCEPT !.role = desk[h].role]]
      BY <1>7, <2>2 DEF GiveRole
    <3> QED BY <1>0, <1>5, <2>1, <2>2, <3>1, LimitUnlocked
  <2>3. CASE ~Holds(h)
    BY <1>0, <1>4, <1>7, <2>1, <2>3 DEF GiveRole
  <2> QED BY <2>2, <2>3
<1>8. CASE Kick(h) \/ CommitLeave(h)
  <2>1. desk[h] # NoTask /\ Done(h) /\ alive' \in BOOLEAN /\ UNCHANGED may
    BY <1>0, <1>8 DEF Kick, CommitLeave, At
  <2>2. CASE Holds(h)
    <3>1. part' = [part EXCEPT ![desk[h].user] = [part[desk[h].user] EXCEPT !.live = FALSE]]
      BY <1>8, <2>2 DEF Kick, CommitLeave
    <3> QED BY <1>5, <2>1, <2>2, <3>1, LimitUnlocked
  <2>3. CASE ~Holds(h)
    BY <1>4, <1>8, <2>1, <2>3 DEF Kick, CommitLeave
  <2> QED BY <2>2, <2>3
<1>9. ASSUME desk[h] # NoTask, NEW at \in {"seat", "place", "close", "left"}, Go(h, at),
             UNCHANGED <<part, alive, may>>,
             ~Locked \/ desk[h].at \in InTx,
             at = "seat" => Cardinality(Inside) + 1 <= MaxMembers,
             at = "place" => Cardinality(Inside) + Cardinality(desk[h].who) <= MaxMembers
      PROVE  LimitInv'
  <2> DEFINE t == [desk[h] EXCEPT !.at = at]
  <2>1. desk[h] \in Task
    BY <1>0, <1>9, TaskIsTyped
  <2>2. t \in Task /\ t.at = at /\ t.who = desk[h].who
    BY ONLY <2>1, at \in {"seat", "place", "close", "left"} DEF Task
  <2>3. desk' = [desk EXCEPT ![h] = t]
    BY <1>9 DEF Go
  <2> HIDE DEF t
  <2> QED BY <1>0, <1>9, <2>2, <2>3, LimitStays
<1>10. CASE Count(h)
  <2>1. Cardinality(Inside) < MaxMembers => Cardinality(Inside) + 1 <= MaxMembers
    BY InsideIsFinite, GroupAssumption
  <2> QED BY <1>0, <1>4, <1>9, <1>10, <2>1 DEF Count, At
<1>11. CASE CountAll(h)
  BY <1>0, <1>4, <1>9, <1>11 DEF CountAll, At
<1>12. CASE LookForManager(h)
  BY <1>9, <1>12 DEF LookForManager, At, InTx
<1>13. CASE Join(h)
  <2> DEFINE u == desk[h].user
  <2> DEFINE row == IF HasRow(u) THEN [part[u] EXCEPT !.live = TRUE]
                    ELSE [role |-> "member", pending |-> FALSE, live |-> TRUE]
  <2>1. desk[h] # NoTask /\ desk[h].at = "seat" /\ u \in Users
    BY <1>0, <1>13, TaskIsTyped DEF Join, At
  <2>2. part' = [part EXCEPT ![u] = row]
    BY <1>13 DEF Join
  <2>3. row \in Row
    <3>1. HasRow(u) => part[u] \in Row
      BY <1>0, <2>1, RowIsTyped
    <3> QED BY <3>1 DEF Row, Roles
  <2>4. /\ part' \in [Users -> Row \cup {NoRow}]
        /\ \A v \in Users \ {u} : part'[v] = part[v]
    BY <1>0, <2>1, <2>2, <2>3, WrittenRow
  <2>5. \A v \in Users : Live(v)' => Live(v) \/ v \in {u}
    BY <2>4 DEF Live, HasRow
  <2>6. Cardinality({u}) = 1
    BY FS_Singleton
  <2>7. Cardinality(Inside) + 1 <= MaxMembers
    BY <2>1 DEF LimitInv, CountsHold, At
  <2>8. Done(h) /\ UNCHANGED <<alive, may>> /\ desk[h].at \in InTx
    BY <1>13, <2>1 DEF Join, InTx
  <2>9. {u} \in SUBSET Users /\ Cardinality(Inside) + Cardinality({u}) <= MaxMembers
    BY <2>1, <2>6, <2>7
  <2> HIDE DEF u
  <2> QED BY <2>1, <2>4, <2>5, <2>8, <2>9, LimitIsReached
<1>14. CASE Place(h)
  <2>1. /\ desk[h] # NoTask /\ desk[h].at = "place" /\ desk[h].who \subseteq Users
        /\ part' = [u \in Users |->
             IF u \in desk[h].who \ {desk[h].user} /\ ~Live(u) THEN Invited(u) ELSE part[u]]
        /\ Done(h) /\ UNCHANGED <<alive, may>>
    BY <1>0, <1>14, TaskIsTyped DEF Place, At
  <2>2. \A u \in Users : Invited(u) \in Row
    <3> SUFFICES ASSUME NEW u \in Users PROVE Invited(u) \in Row
      OBVIOUS
    <3>1. HasRow(u) => part[u] \in Row
      BY <1>0, RowIsTyped
    <3> QED BY <3>1 DEF Invited, Row, Roles
  <2>3. part' \in [Users -> Row \cup {NoRow}]
    BY <1>0, <2>1, <2>2 DEF GroupTypeOK
  <2>4. \A u \in Users : Live(u)' => Live(u) \/ u \in desk[h].who
    BY <2>1 DEF Live, HasRow
  <2>5. Cardinality(Inside) + Cardinality(desk[h].who) <= MaxMembers
    BY <2>1 DEF LimitInv, CountsHold, At
  <2> QED BY <2>1, <2>3, <2>4, <2>5, LimitIsReached DEF InTx
<1> QED
  BY <1>2, <1>3, <1>6, <1>7, <1>8, <1>10, <1>11, <1>12, <1>13, <1>14 DEF GroupStep

(* The row of the invitation goes for good, whoever holds its id.           *)
LEMMA DeclinedRow ==
  ASSUME LimitInv, NEW u \in Users, DeclineInvite(u)
  PROVE  /\ part' \in [Users -> Row \cup {NoRow}]
         /\ ~HasRow(u)' /\ \A v \in Users \ {u} : part'[v] = part[v] /\ (HasRow(v)' <=> HasRow(v))
         /\ \A v \in Users : Live(v)' => Live(v)
         /\ desk' \in [GroupHands -> Task \cup {NoTask}]
         /\ \A g \in GroupHands :
              /\ desk'[g] = NoTask <=> desk[g] = NoTask
              /\ desk[g] # NoTask =>
                   /\ desk'[g].at = desk[g].at /\ desk'[g].user = desk[g].user
                   /\ desk'[g].who = desk[g].who /\ desk'[g].role = desk[g].role
                   /\ desk'[g].row => desk[g].row
                   /\ desk[g].user = u /\ desk[g].at \in Holding => ~desk'[g].row
<1> USE DEF LimitInv, GroupTypeOK
<1>1. /\ HasRow(u) /\ part[u].pending
      /\ part' = [part EXCEPT ![u] = NoRow]
      /\ desk' = [h \in GroupHands |->
           IF desk[h] # NoTask /\ desk[h].user = u /\ desk[h].at \in Holding
           THEN [desk[h] EXCEPT !.row = FALSE] ELSE desk[h]]
  BY DEF DeclineInvite
<1>2. ASSUME NEW g \in GroupHands
      PROVE  /\ desk'[g] \in Task \cup {NoTask}
             /\ desk'[g] = NoTask <=> desk[g] = NoTask
             /\ desk[g] # NoTask =>
                   /\ desk'[g].at = desk[g].at /\ desk'[g].user = desk[g].user
                   /\ desk'[g].who = desk[g].who /\ desk'[g].role = desk[g].role
                   /\ desk'[g].row => desk[g].row
                   /\ desk[g].user = u /\ desk[g].at \in Holding => ~desk'[g].row
  <2>1. CASE desk[g] # NoTask /\ desk[g].user = u /\ desk[g].at \in Holding
    <3>1. desk[g] \in Task
      BY <2>1
    <3>2. desk'[g] = [desk[g] EXCEPT !.row = FALSE]
      BY <1>1, <2>1
    <3>3. /\ desk'[g] \in Task
          /\ desk'[g].at = desk[g].at /\ desk'[g].user = desk[g].user
          /\ desk'[g].who = desk[g].who /\ desk'[g].role = desk[g].role
          /\ desk'[g].row = FALSE
      BY ONLY <3>1, <3>2 DEF Task
    <3> QED BY <2>1, <3>3, GroupAssumption
  <2>2. CASE ~(desk[g] # NoTask /\ desk[g].user = u /\ desk[g].at \in Holding)
    BY <1>1, <2>2
  <2> QED BY <2>1, <2>2
<1>3. desk' \in [GroupHands -> Task \cup {NoTask}]
  BY <1>1, <1>2
<1> QED BY <1>1, <1>2, <1>3 DEF HasRow, Live

LEMMA LimitDeclined ==
  ASSUME LimitInv, NEW u \in Users, DeclineInvite(u)
  PROVE  LimitInv'
<1>1. GroupTypeOK'
  BY DeclinedRow DEF LimitInv, GroupTypeOK, DeclineInvite
<1>2. Cardinality(Inside)' \in Nat /\ Cardinality(Inside)' <= Cardinality(Inside)
  <2>1. Inside' \subseteq Inside
    BY DeclinedRow DEF Inside
  <2> QED BY <2>1, InsideIsFinite, FS_Subset, FS_CardinalityType
<1>3. LimitIsKept'
  BY <1>2, InsideIsFinite, GroupAssumption DEF LimitIsKept, LimitInv
<1>4. OneHasTheLock'
  BY DeclinedRow DEF OneHasTheLock, LimitInv
<1>5. CountsHold'
  <2> SUFFICES ASSUME NEW g \in GroupHands, desk'[g] # NoTask
               PROVE  /\ desk'[g].at = "seat" => Cardinality(Inside)' + 1 <= MaxMembers
                      /\ desk'[g].at = "place" =>
                           Cardinality(Inside)' + Cardinality(desk'[g].who) <= MaxMembers
    BY DEF CountsHold, At
  <2>1. /\ desk'[g].at = "seat" => Cardinality(Inside) + 1 <= MaxMembers
        /\ desk'[g].at = "place" => Cardinality(Inside) + Cardinality(desk'[g].who) <= MaxMembers
    BY DeclinedRow DEF LimitInv, CountsHold, At
  <2>2. Cardinality(desk'[g].who) \in Nat
    <3>1. desk'[g].who \subseteq Users
      BY <1>1 DEF GroupTypeOK, Task
    <3> QED BY <3>1, GroupAssumption, FS_Subset, FS_CardinalityType
  <2> QED BY <1>2, <2>1, <2>2, InsideIsFinite, GroupAssumption
<1> QED BY <1>1, <1>3, <1>4, <1>5 DEF LimitInv
-----------------------------------------------------------------------------
(* A group where nobody is kicked, changes his role or is invited back.      *)

(* Whoever has not answered an invitation manages nothing, so that a refusal *)
(* costs the group no manager; who is about to be invited had no row, and   *)
(* the one he may get until then is a member's.                             *)
InvitedManageNothing ==
  /\ \A u \in Users : HasRow(u) /\ part[u].pending => part[u].role = "member"
  /\ \A h \in GroupHands : At(h, "add") \/ At(h, "place") =>
       \A u \in desk[h].who : HasRow(u) => part[u].role = "member"

(* Who leaves has the role that was read with the lock, and leaves another  *)
(* manager behind if he was one.                                            *)
LeaverIsKnown ==
  \A h \in GroupHands :
    /\ (At(h, "leave") \/ At(h, "left")) /\ desk[h].row =>
         HasRow(desk[h].user) /\ part[desk[h].user].role = desk[h].role
    /\ At(h, "left") /\ desk[h].role \in Managing => \E u \in Users \ {desk[h].user} : Manages(u)

QuietInv ==
  may = {} =>
    /\ \A h \in GroupHands : ~At(h, "kick") /\ ~At(h, "role")
    /\ InvitedManageNothing
    /\ LeaverIsKnown
    /\ alive => \E u \in Users : Manages(u)

(* A step of h that keeps the rows and the roles of everybody.              *)
LEMMA QuietGoesOn ==
  ASSUME LimitInv, QuietInv, may = {}, UNCHANGED may,
         NEW h \in GroupHands, NEW t \in Task \cup {NoTask}, desk' = [desk EXCEPT ![h] = t],
         \A u \in Users :
           /\ HasRow(u) => HasRow(u)' /\ part'[u].role = part[u].role
           /\ ~HasRow(u) /\ HasRow(u)' => part'[u].role = "member"
           /\ HasRow(u)' /\ part'[u].pending => part'[u].role = "member",
         \/ \A u \in Users : Manages(u) => Manages(u)'
         \/ \A g \in GroupHands \ {h} : ~At(g, "left"),
         alive' => \E u \in Users : Manages(u)',
         t # NoTask =>
           /\ t.at \notin {"kick", "role"}
           /\ t.at \in {"add", "place"} => \A u \in t.who : HasRow(u) => part[u].role = "member"
           /\ t.at \in {"leave", "left"} /\ t.row => HasRow(t.user) /\ part[t.user].role = t.role
           /\ t.at = "left" /\ t.role \in Managing => \E u \in Users \ {t.user} : Manages(u)'
  PROVE  QuietInv'
<1> USE DEF QuietInv
<1>1. ASSUME NEW g \in GroupHands
      PROVE  /\ g = h => desk'[g] = t
             /\ g # h => desk'[g] = desk[g]
             /\ desk'[g] # NoTask => desk'[g].user \in Users /\ desk'[g].who \subseteq Users
  <2>1. (g = h => desk'[g] = t) /\ (g # h => desk'[g] = desk[g])
    BY DEF LimitInv, GroupTypeOK
  <2>2. desk'[g] # NoTask => desk'[g] \in Task
    BY <2>1 DEF LimitInv, GroupTypeOK
  <2> QED BY <2>1, <2>2 DEF Task
<1>2. \A g \in GroupHands : ~At(g, "kick")' /\ ~At(g, "role")'
  BY <1>1 DEF At
<1>3. InvitedManageNothing'
  <2>1. ASSUME NEW g \in GroupHands, At(g, "add")' \/ At(g, "place")', NEW u \in desk'[g].who,
               HasRow(u)'
        PROVE  part'[u].role = "member"
    <3>1. u \in Users
      BY <1>1, <2>1 DEF At
    <3>2. HasRow(u) => part[u].role = "member"
      BY <1>1, <2>1 DEF At, InvitedManageNothing
    <3> QED BY <2>1, <3>1, <3>2
  <2> QED BY <2>1 DEF InvitedManageNothing
<1>4. LeaverIsKnown'
  <2>1. ASSUME NEW g \in GroupHands, At(g, "leave")' \/ At(g, "left")', desk'[g].row,
               NEW v, v = desk'[g].user
        PROVE  HasRow(v)' /\ part'[v].role = desk'[g].role
    <3>1. HasRow(v) /\ part[v].role = desk'[g].role
      BY <1>1, <2>1 DEF At, LeaverIsKnown
    <3>2. v \in Users
      BY <1>1, <2>1 DEF At
    <3> QED BY <3>1, <3>2
  <2>2. ASSUME NEW g \in GroupHands, At(g, "left")', desk'[g].role \in Managing
        PROVE  \E u \in Users \ {desk'[g].user} : Manages(u)'
    <3>1. CASE g = h
      BY <1>1, <2>2, <3>1 DEF At
    <3>2. CASE g # h
      <4>1. At(g, "left") /\ desk'[g] = desk[g]
        BY <1>1, <2>2, <3>2 DEF At
      <4>2. \A u \in Users : Manages(u) => Manages(u)'
        BY <3>2, <4>1
      <4> QED BY <2>2, <4>1, <4>2 DEF LeaverIsKnown
    <3> QED BY <3>1, <3>2
  <2>3. ASSUME NEW g \in GroupHands, At(g, "leave")' \/ At(g, "left")', desk'[g].row
        PROVE  part'[desk'[g].user] # NoRow /\ part'[desk'[g].user].role = desk'[g].role
    BY <2>1, <2>3 DEF HasRow
  <2> QED BY <2>2, <2>3 DEF LeaverIsKnown, HasRow
<1> QED BY <1>2, <1>3, <1>4

(* The rows stay as they are.                                               *)
LEMMA QuietStays ==
  ASSUME LimitInv, QuietInv, may = {}, UNCHANGED <<part, may>>, alive' => alive,
         NEW h \in GroupHands, NEW t \in Task \cup {NoTask}, desk' = [desk EXCEPT ![h] = t],
         t # NoTask =>
           /\ t.at \notin {"kick", "role"}
           /\ t.at \in {"add", "place"} => \A u \in t.who : HasRow(u) => part[u].role = "member"
           /\ t.at \in {"leave", "left"} /\ t.row => HasRow(t.user) /\ part[t.user].role = t.role
           /\ t.at = "left" /\ t.role \in Managing => \E u \in Users \ {t.user} : Manages(u)
  PROVE  QuietInv'
<1>1. \A u \in Users : (HasRow(u)' <=> HasRow(u)) /\ (Manages(u)' <=> Manages(u)) /\ part'[u] = part[u]
  BY DEF HasRow, Manages, Live
<1>2. \A u \in Users : HasRow(u) /\ part[u].pending => part[u].role = "member"
  BY DEF QuietInv, InvitedManageNothing
<1>3. alive => \E u \in Users : Manages(u)
  BY DEF QuietInv
<1> QED BY <1>1, <1>2, <1>3, QuietGoesOn
LEMMA QuietStep ==
  ASSUME LimitInv, QuietInv, may = {}, NEW h \in GroupHands, GroupStep(h)
  PROVE  QuietInv'
<1>0. GroupTypeOK /\ InvitedManageNothing /\ LeaverIsKnown /\ ~At(h, "kick") /\ ~At(h, "role")
  BY DEF LimitInv, QuietInv
<1>1. ASSUME NEW at \in {"accept", "join", "add", "leave"},
             NEW u \in Users, NEW who \in SUBSET Users, NEW role \in Roles, Take(h, at, u, who, role),
             at = "add" => \A v \in who : HasRow(v) => part[v].role = "member",
             at = "leave" => HasRow(u) /\ part[u].role = role
      PROVE  QuietInv'
  <2> DEFINE t == [at |-> at, user |-> u, who |-> who, role |-> role, row |-> TRUE]
  <2>1. t \in Task /\ t.at = at /\ t.user = u /\ t.who = who /\ t.role = role
    BY DEF Task
  <2>2. desk' = [desk EXCEPT ![h] = t] /\ UNCHANGED <<part, alive, may>>
    BY <1>1 DEF Take
  <2> HIDE DEF t
  <2>3. /\ t.at \notin {"kick", "role"}
        /\ t.at \in {"add", "place"} => \A v \in t.who : HasRow(v) => part[v].role = "member"
        /\ t.at \in {"leave", "left"} /\ t.row => HasRow(t.user) /\ part[t.user].role = t.role
        /\ t.at # "left"
    BY <1>1, <2>1
  <2> QED BY <2>1, <2>2, <2>3, QuietStays
<1>2. ASSUME NEW u \in Users, AcceptInvite(h, u) \/ JoinByToken(h, u) \/ LeaveGroup(h, u)
      PROVE  QuietInv'
  <2>1. "member" \in Roles /\ {} \in SUBSET Users /\ (Live(u) => part[u].role \in Roles /\ HasRow(u))
    BY <1>0, RowIsTyped DEF Roles, Live
  <2>2. CASE AcceptInvite(h, u)
    BY <1>1, <2>1, <2>2 DEF AcceptInvite
  <2>3. CASE JoinByToken(h, u)
    BY <1>1, <2>1, <2>3 DEF JoinByToken
  <2>4. CASE LeaveGroup(h, u)
    BY <1>1, <2>1, <2>4 DEF LeaveGroup
  <2> QED BY <1>2, <2>2, <2>3, <2>4
<1>3. ASSUME NEW r \in Users, NEW who \in SUBSET Users, AddMembers(h, r, who)
      PROVE  QuietInv'
  <2>1. "member" \in Roles /\ \A v \in who : ~HasRow(v)
    BY <1>3 DEF AddMembers, Roles
  <2> QED BY <1>1, <1>3, <2>1 DEF AddMembers
<1>4. ~(\E r, t \in Users : KickMember(h, r, t))
  BY DEF KickMember
<1>5. ~(\E r, t \in Users, role \in {"admin", "member"} : ChangeRole(h, r, t, role))
  BY DEF ChangeRole
<1>6. ~Kick(h) /\ ~GiveRole(h)
  BY <1>0 DEF Kick, GiveRole
<1>7. ASSUME UNCHANGED <<part, alive, may>>, Done(h)
      PROVE  QuietInv'
  BY <1>7, QuietStays DEF Done
<1>8. ASSUME UNCHANGED <<part, alive, may>>, desk[h] # NoTask,
             NEW at \in {"seat", "place", "left", "close"}, Go(h, at),
             at = "place" => desk[h].at = "add",
             at = "left" => /\ desk[h].at = "leave"
                            /\ desk[h].role \in Managing => \E u \in Users \ {desk[h].user} : Manages(u)
      PROVE  QuietInv'
  <2> DEFINE t == [desk[h] EXCEPT !.at = at]
  <2>1. desk[h] \in Task
    BY <1>0, <1>8, TaskIsTyped
  <2>2. /\ t \in Task /\ t.at = at /\ t.who = desk[h].who /\ t.user = desk[h].user
        /\ t.role = desk[h].role /\ t.row = desk[h].row
    BY ONLY <2>1, at \in {"seat", "place", "left", "close"} DEF Task
  <2>3. desk' = [desk EXCEPT ![h] = t]
    BY <1>8 DEF Go
  <2> HIDE DEF t
  <2>4. t.at \in {"add", "place"} => \A u \in t.who : HasRow(u) => part[u].role = "member"
    BY <1>0, <1>8, <2>2 DEF InvitedManageNothing, At
  <2>5. t.at \in {"leave", "left"} /\ t.row => HasRow(t.user) /\ part[t.user].role = t.role
    BY <1>0, <1>8, <2>2 DEF LeaverIsKnown, At
  <2>6. t.at = "left" /\ t.role \in Managing => \E u \in Users \ {t.user} : Manages(u)
    BY <1>8, <2>2
  <2> QED BY <1>8, <2>2, <2>3, <2>4, <2>5, <2>6, QuietStays
<1>9. CASE Count(h) \/ CountAll(h)
  BY <1>7, <1>8, <1>9 DEF Count, CountAll, At
<1>10. CASE LookForManager(h)
  <2>1. desk[h] # NoTask /\ desk[h].at = "leave" /\ UNCHANGED <<part, alive, may>>
    BY <1>10 DEF LookForManager, At
  <2>2. Go(h, "close") \/
        /\ Go(h, "left")
        /\ desk[h].role \in Managing => \E u \in Users \ {desk[h].user} : Manages(u)
    BY <1>10 DEF LookForManager
  <2> QED BY <1>8, <2>1, <2>2
<1>11. CASE Accept(h)
  <2>0. PICK u \in Users : u = desk[h].user
    BY <1>0, <1>11, TaskIsTyped DEF Accept, At
  <2>1. desk[h] # NoTask /\ Done(h) /\ UNCHANGED <<alive, may>>
    BY <1>0, <1>11, TaskIsTyped DEF Accept, At
  <2>2. CASE Holds(h)
    <3> DEFINE row == [part[u] EXCEPT !.pending = FALSE]
    <3>1. HasRow(u) /\ part[u] \in Row
      BY <1>0, <2>0, <2>2, RowIsTyped DEF Holds
    <3>2. /\ row \in Row /\ row.role = part[u].role /\ row.live = part[u].live /\ row.pending = FALSE
      BY ONLY <3>1 DEF Row
    <3>3. part' = [part EXCEPT ![u] = row]
      BY <1>11, <2>0, <2>2 DEF Accept
    <3> HIDE DEF row
    <3>4. /\ HasRow(u)' /\ part'[u] = row
          /\ \A v \in Users \ {u} : part'[v] = part[v] /\ (HasRow(v)' <=> HasRow(v))
      BY <1>0, <2>1, <3>2, <3>3, WrittenRow
    <3>5. \A v \in Users : Manages(v) => Manages(v)'
      BY <2>1, <3>1, <3>2, <3>4 DEF Manages, Live
    <3>6. \A v \in Users :
            /\ HasRow(v) => HasRow(v)' /\ part'[v].role = part[v].role
            /\ ~HasRow(v) /\ HasRow(v)' => part'[v].role = "member"
            /\ HasRow(v)' /\ part'[v].pending => part'[v].role = "member"
      BY <1>0, <2>1, <3>1, <3>2, <3>4 DEF InvitedManageNothing
    <3>7. alive' => \E v \in Users : Manages(v)'
      BY <2>1, <3>5 DEF QuietInv
    <3> QED BY <2>1, <3>5, <3>6, <3>7, QuietGoesOn DEF Done
  <2>3. CASE ~Holds(h)
    BY <1>7, <1>11, <2>1, <2>3 DEF Accept
  <2> QED BY <2>2, <2>3
<1>12. CASE Join(h)
  <2>0. PICK u \in Users : u = desk[h].user
    BY <1>0, <1>12, TaskIsTyped DEF Join, At
  <2> DEFINE row == IF HasRow(u) THEN [part[u] EXCEPT !.live = TRUE]
                    ELSE [role |-> "member", pending |-> FALSE, live |-> TRUE]
  <2>1. Done(h) /\ UNCHANGED <<alive, may>>
    BY <1>0, <1>12, TaskIsTyped DEF Join, At
  <2>2. part' = [part EXCEPT ![u] = row]
    BY <1>12, <2>0 DEF Join
  <2>3. /\ row \in Row /\ row.live
        /\ HasRow(u) => row.role = part[u].role /\ row.pending = part[u].pending
        /\ ~HasRow(u) => row.role = "member"
    <3>1. HasRow(u) => part[u] \in Row
      BY <1>0, <2>1, RowIsTyped
    <3> QED BY <3>1 DEF Row, Roles
  <2> HIDE DEF row
  <2>4. /\ HasRow(u)' /\ part'[u] = row
        /\ \A v \in Users \ {u} : part'[v] = part[v] /\ (HasRow(v)' <=> HasRow(v))
    BY <1>0, <2>1, <2>2, <2>3, WrittenRow
  <2>5. \A v \in Users : Manages(v) => Manages(v)'
    BY <2>1, <2>3, <2>4 DEF Manages, Live
  <2>6. \A v \in Users :
          /\ HasRow(v) => HasRow(v)' /\ part'[v].role = part[v].role
          /\ ~HasRow(v) /\ HasRow(v)' => part'[v].role = "member"
          /\ HasRow(v)' /\ part'[v].pending => part'[v].role = "member"
    BY <1>0, <2>1, <2>3, <2>4 DEF InvitedManageNothing
  <2>7. alive' => \E v \in Users : Manages(v)'
    BY <2>1, <2>5 DEF QuietInv
  <2> QED BY <2>1, <2>5, <2>6, <2>7, QuietGoesOn DEF Done
<1>13. CASE Place(h)
  <2>1. /\ desk[h] # NoTask /\ desk[h].at = "place" /\ desk[h].who \subseteq Users
        /\ part' = [u \in Users |->
             IF u \in desk[h].who \ {desk[h].user} /\ ~Live(u) THEN Invited(u) ELSE part[u]]
        /\ Done(h) /\ UNCHANGED <<alive, may>>
    BY <1>0, <1>13, TaskIsTyped DEF Place, At
  <2>2. ASSUME NEW u \in Users
        PROVE  /\ Invited(u) \in Row /\ Invited(u).live
               /\ HasRow(u) => Invited(u).role = part[u].role
               /\ ~HasRow(u) => Invited(u).role = "member"
    <3>1. HasRow(u) => part[u] \in Row
      BY <1>0, RowIsTyped
    <3> QED BY <3>1 DEF Invited, Row, Roles
  <2>3. ASSUME NEW u \in Users
        PROVE  /\ HasRow(u) => HasRow(u)' /\ part'[u].role = part[u].role
               /\ ~HasRow(u) /\ HasRow(u)' => part'[u].role = "member"
               /\ HasRow(u)' /\ part'[u].pending => part'[u].role = "member"
               /\ Manages(u) => Manages(u)'
    <3>1. CASE u \in desk[h].who \ {desk[h].user} /\ ~Live(u)
      <4>1. part'[u] = Invited(u)
        BY <2>1, <3>1
      <4>2. HasRow(u)'
        BY <2>2, <4>1, GroupAssumption DEF HasRow
      <4>3. HasRow(u) => part[u].role = "member"
        BY <1>0, <2>1, <3>1 DEF InvitedManageNothing, At
      <4> QED BY <2>2, <3>1, <4>1, <4>2, <4>3 DEF Manages
    <3>2. CASE ~(u \in desk[h].who \ {desk[h].user} /\ ~Live(u))
      <4>1. part'[u] = part[u]
        BY <2>1, <3>2
      <4> QED BY <1>0, <4>1 DEF InvitedManageNothing, Manages, Live, HasRow
    <3> QED BY <3>1, <3>2
  <2>4. alive' => \E u \in Users : Manages(u)'
    BY <2>1, <2>3 DEF QuietInv
  <2> QED BY <2>1, <2>3, <2>4, QuietGoesOn DEF Done
<1>14. CASE CommitLeave(h)
  <2>0. PICK u \in Users : u = desk[h].user
    BY <1>0, <1>14, TaskIsTyped DEF CommitLeave
  <2>1. /\ desk[h] # NoTask /\ desk[h].at \in {"left", "close"} /\ Done(h) /\ UNCHANGED may
        /\ alive' = (alive /\ desk[h].at = "left")
    BY <1>0, <1>14, TaskIsTyped DEF CommitLeave
  <2>2. CASE Holds(h)
    <3> DEFINE row == [part[u] EXCEPT !.live = FALSE]
    <3>1. HasRow(u) /\ part[u] \in Row
      BY <1>0, <2>0, <2>2, RowIsTyped DEF Holds
    <3>2. row \in Row /\ row.role = part[u].role /\ row.pending = part[u].pending
      BY ONLY <3>1 DEF Row
    <3>3. part' = [part EXCEPT ![u] = row]
      BY <1>14, <2>0, <2>2 DEF CommitLeave
    <3>4. /\ HasRow(u)' /\ part'[u] = row
          /\ \A v \in Users \ {u} : part'[v] = part[v] /\ (HasRow(v)' <=> HasRow(v))
      BY <1>0, <2>1, <3>2, <3>3, WrittenRow
    <3> HIDE DEF row
    <3>5. \A v \in Users \ {u} : Manages(v) => Manages(v)'
      BY <3>4 DEF Manages, Live
    <3>6. \A v \in Users :
            /\ HasRow(v) => HasRow(v)' /\ part'[v].role = part[v].role
            /\ ~HasRow(v) /\ HasRow(v)' => part'[v].role = "member"
            /\ HasRow(v)' /\ part'[v].pending => part'[v].role = "member"
      BY <1>0, <2>1, <3>1, <3>2, <3>4 DEF InvitedManageNothing
    <3>7. alive' => \E v \in Users : Manages(v)'
      <4> SUFFICES ASSUME alive' PROVE \E v \in Users : Manages(v)'
        OBVIOUS
      <4>1. alive /\ At(h, "left")
        BY <2>1 DEF At
      <4>2. \E v \in Users \ {u} : Manages(v)
        <5>1. CASE desk[h].role \in Managing
          BY <1>0, <2>0, <4>1, <5>1 DEF LeaverIsKnown
        <5>2. CASE desk[h].role \notin Managing
          <6>1. part[u].role = desk[h].role
            BY <1>0, <2>0, <2>2, <4>1 DEF LeaverIsKnown, Holds
          <6>2. ~Manages(u)
            BY <5>2, <6>1 DEF Manages
          <6> QED BY <4>1, <6>2 DEF QuietInv
        <5> QED BY <5>1, <5>2
      <4> QED BY <3>5, <4>2
    <3>8. \A g \in GroupHands \ {h} : ~At(g, "left")
      BY <2>1 DEF LimitInv, OneHasTheLock, InTx, At
    <3> QED BY <2>1, <3>6, <3>7, <3>8, QuietGoesOn DEF Done
  <2>3. CASE ~Holds(h)
    <3>1. UNCHANGED <<part, may>> /\ (alive' => alive)
      BY <1>14, <2>1, <2>3 DEF CommitLeave
    <3> QED BY <2>1, <3>1, QuietStays DEF Done
  <2> QED BY <2>2, <2>3
<1> QED
  BY <1>2, <1>3, <1>4, <1>5, <1>6, <1>9, <1>10, <1>11, <1>12, <1>13, <1>14 DEF GroupStep

LEMMA QuietDeclined ==
  ASSUME LimitInv, QuietInv, NEW u \in Users, DeclineInvite(u)
  PROVE  QuietInv'
<1>0. UNCHANGED <<alive, may>> /\ HasRow(u) /\ part[u].pending
  BY DEF DeclineInvite
<1> SUFFICES ASSUME may = {} PROVE QuietInv'
  BY <1>0 DEF QuietInv
<1>1. InvitedManageNothing /\ LeaverIsKnown
  BY DEF QuietInv
<1>2. ~Manages(u)
  BY <1>0, <1>1 DEF InvitedManageNothing, Manages, Managing
<1>3. \A v \in Users : Manages(v) => Manages(v)'
  BY <1>2, DeclinedRow DEF Manages, Live
<1>4. \A h \in GroupHands : desk[h] # NoTask => desk[h].user \in Users /\ desk[h].who \subseteq Users
  BY TaskIsTyped DEF LimitInv
<1>5. \A h \in GroupHands : ~At(h, "kick")' /\ ~At(h, "role")'
  BY DeclinedRow DEF QuietInv, At
<1>6. InvitedManageNothing'
  <2>1. \A v \in Users : HasRow(v)' => v # u /\ HasRow(v) /\ part'[v] = part[v]
    BY DeclinedRow
  <2>2. \A v \in Users : HasRow(v)' /\ part'[v].pending => part'[v].role = "member"
    BY <1>1, <2>1 DEF InvitedManageNothing
  <2>3. ASSUME NEW h \in GroupHands, At(h, "add")' \/ At(h, "place")', NEW v \in desk'[h].who, HasRow(v)'
        PROVE  part'[v].role = "member"
    <3>1. (At(h, "add") \/ At(h, "place")) /\ desk'[h].who = desk[h].who
      BY <2>3, DeclinedRow DEF At
    <3>2. v \in Users
      BY <1>4, <2>3, <3>1 DEF At
    <3> QED BY <1>1, <2>1, <2>3, <3>1, <3>2 DEF InvitedManageNothing
  <2> QED BY <2>2, <2>3 DEF InvitedManageNothing
<1>7. LeaverIsKnown'
  <2>1. ASSUME NEW h \in GroupHands, At(h, "leave")' \/ At(h, "left")', desk'[h].row,
               NEW v, v = desk'[h].user
        PROVE  HasRow(v)' /\ part'[v].role = desk'[h].role
    <3>1. /\ At(h, "leave") \/ At(h, "left")
          /\ desk[h].row /\ desk[h].user = v /\ desk'[h].role = desk[h].role /\ v # u
      BY <2>1, DeclinedRow DEF At, Holding
    <3>2. v \in Users /\ HasRow(v) /\ part[v].role = desk[h].role
      BY <1>1, <1>4, <3>1 DEF LeaverIsKnown, At
    <3> QED BY <3>1, <3>2, DeclinedRow
  <2>2. ASSUME NEW h \in GroupHands, At(h, "left")', desk'[h].role \in Managing
        PROVE  \E v \in Users \ {desk'[h].user} : Manages(v)'
    <3>1. At(h, "left") /\ desk'[h].role = desk[h].role /\ desk'[h].user = desk[h].user
      BY <2>2, DeclinedRow DEF At
    <3> QED BY <1>1, <1>3, <2>2, <3>1 DEF LeaverIsKnown
  <2>3. ASSUME NEW h \in GroupHands, At(h, "leave")' \/ At(h, "left")', desk'[h].row
        PROVE  part'[desk'[h].user] # NoRow /\ part'[desk'[h].user].role = desk'[h].role
    BY <2>1, <2>3 DEF HasRow
  <2> QED BY <2>2, <2>3 DEF LeaverIsKnown, HasRow
<1>8. alive' => \E v \in Users : Manages(v)'
  BY <1>0, <1>3 DEF QuietInv
<1> QED BY <1>5, <1>6, <1>7, <1>8 DEF QuietInv

LEMMA GroupStart == GroupInit => LimitInv /\ QuietInv
<1> SUFFICES ASSUME GroupInit PROVE LimitInv /\ QuietInv
  OBVIOUS
<1>1. PICK full \in SUBSET Users, admins \in SUBSET (Users \ {Creator}),
           invited \in SUBSET (Users \ {Creator}) :
        /\ Creator \in full /\ admins \subseteq full /\ invited \cap full = {}
        /\ Cardinality(full \cup invited) <= MaxMembers
        /\ part = [u \in Users |->
             IF u \notin full \cup invited THEN NoRow
             ELSE [role |-> IF u = Creator THEN "owner"
                            ELSE IF u \in admins THEN "admin" ELSE "member",
                   pending |-> u \in invited, live |-> TRUE]]
  BY DEF GroupInit
<1>2. ASSUME NEW u \in Users
      PROVE  /\ part[u] \in Row \cup {NoRow}
             /\ HasRow(u) <=> u \in full \cup invited
             /\ HasRow(u) => part[u].live
             /\ HasRow(u) /\ part[u].pending => part[u].role = "member"
  <2>1. CASE u \notin full \cup invited
    BY <1>1, <2>1 DEF HasRow
  <2>2. CASE u \in full \cup invited
    <3> DEFINE row == [role |-> IF u = Creator THEN "owner"
                                ELSE IF u \in admins THEN "admin" ELSE "member",
                       pending |-> u \in invited, live |-> TRUE]
    <3>1. part[u] = row
      BY <1>1, <2>2
    <3>2. row \in Row
      BY DEF Row, Roles
    <3>3. row.pending => row.role = "member"
      BY <1>1
    <3>4. row.live
      OBVIOUS
    <3> HIDE DEF row
    <3> QED BY <2>2, <3>1, <3>2, <3>3, <3>4, GroupAssumption DEF HasRow
  <2> QED BY <2>1, <2>2
<1>3. Manages(Creator)
  <2>1. Creator \in Users /\ Creator \in full
    BY <1>1, GroupAssumption
  <2>2. part[Creator].role = "owner"
    BY <1>1, <2>1
  <2> QED BY <1>2, <2>1, <2>2 DEF Manages, Managing, Live
<1>4. desk = [h \in GroupHands |-> NoTask] /\ alive = TRUE /\ may \in May
  BY DEF GroupInit
<1>5. Inside = full \cup invited
  BY <1>2, <1>1 DEF Inside, Live
<1>6. GroupTypeOK
  BY <1>1, <1>2, <1>4 DEF GroupTypeOK
<1>7. LimitIsKept
  BY <1>1, <1>5 DEF LimitIsKept
<1>8. OneHasTheLock /\ CountsHold /\ LeaverIsKnown /\ \A h \in GroupHands : ~At(h, "kick") /\ ~At(h, "role")
  BY <1>4 DEF OneHasTheLock, CountsHold, LeaverIsKnown, At
<1>9. InvitedManageNothing
  BY <1>2, <1>4 DEF InvitedManageNothing, At
<1> QED BY <1>3, <1>6, <1>7, <1>8, <1>9, GroupAssumption DEF LimitInv, QuietInv

LEMMA GroupStands ==
  ASSUME LimitInv, QuietInv, UNCHANGED groupVars PROVE LimitInv' /\ QuietInv'
<1> USE DEF groupVars
<1>1. Inside' = Inside /\ \A u \in Users : (Manages(u)' <=> Manages(u)) /\ (HasRow(u)' <=> HasRow(u))
  BY DEF Inside, Manages, Live, HasRow
<1>2. LimitInv'
  BY <1>1 DEF LimitInv, GroupTypeOK, LimitIsKept, OneHasTheLock, CountsHold, At
<1>3. (InvitedManageNothing <=> InvitedManageNothing') /\ (LeaverIsKnown <=> LeaverIsKnown')
  BY <1>1 DEF InvitedManageNothing, LeaverIsKnown, At, HasRow
<1>4. QuietInv'
  BY <1>1, <1>3 DEF QuietInv, At
<1> QED BY <1>2, <1>4

LEMMA GroupNextKeeps ==
  ASSUME LimitInv, QuietInv, GroupNext PROVE LimitInv' /\ QuietInv'
<1>1. ASSUME NEW h \in GroupHands, GroupStep(h) PROVE LimitInv' /\ QuietInv'
  <2>1. may' = may
    BY <1>1 DEF GroupStep, AcceptInvite, JoinByToken, LeaveGroup, KickMember, ChangeRole, AddMembers,
                Accept, Kick, GiveRole, Count, Join, CountAll, Place, LookForManager, CommitLeave, Take
  <2>2. may # {} => QuietInv'
    BY <2>1 DEF QuietInv
  <2> QED BY <1>1, <2>2, LimitStep, QuietStep
<1> QED BY <1>1, LimitDeclined, QuietDeclined DEF GroupNext

(* A group never has more members than its limit, and while nobody is       *)
(* kicked, changes his role or is invited back, one that is open has a      *)
(* manager: for any number of users and of handlers at once.                *)
THEOREM GroupRule == MembersSpec => []GroupIsSound
<1>1. MembersInit => LimitInv /\ QuietInv
  BY GroupStart DEF MembersInit
<1>2. (LimitInv /\ QuietInv) /\ [MembersNext]_membersVars => (LimitInv /\ QuietInv)'
  BY GroupNextKeeps, GroupStands DEF MembersNext, membersVars
<1>3. LimitInv /\ QuietInv => GroupIsSound
  BY DEF LimitInv, QuietInv, GroupIsSound, SomebodyManages
<1> QED BY <1>1, <1>2, <1>3, PTL DEF MembersSpec
-----------------------------------------------------------------------------
LEMMA OnlyTheOwner ==
  ASSUME GroupTypeOK, NEW u \in Users, ~Full(u), NEW row \in Row,
         NEW v \in Users, part' = [part EXCEPT ![v] = row], Full(u)'
  PROVE  u = v /\ row.live /\ ~row.pending
BY WrittenRow DEF Full, Live, HasRow

LEMMA OwnDoingStep ==
  ASSUME GroupTypeOK, GroupNext, NEW u \in Users, ~Full(u), Full(u)'
  PROVE  OwnDoing(u)
<1>1. part' # part
  BY DEF Full, Live, HasRow
<1>2. ASSUME NEW v \in Users, DeclineInvite(v) PROVE FALSE
  BY <1>2 DEF DeclineInvite, GroupTypeOK, Full, Live, HasRow
<1>3. PICK h \in GroupHands : GroupStep(h)
  BY <1>2 DEF GroupNext
<1>4. Accept(h) \/ Kick(h) \/ GiveRole(h) \/ Join(h) \/ Place(h) \/ CommitLeave(h)
  BY <1>1, <1>3 DEF GroupStep, AcceptInvite, JoinByToken, LeaveGroup, KickMember, ChangeRole,
                    AddMembers, Count, CountAll, LookForManager, Take
<1>5. /\ desk[h] # NoTask /\ desk[h].user \in Users /\ desk[h].role \in Roles
      /\ Holds(h) => HasRow(desk[h].user) /\ part[desk[h].user] \in Row
  <2>1. desk[h] # NoTask
    BY <1>4 DEF Accept, Kick, GiveRole, Join, Place, CommitLeave, At
  <2> QED BY <2>1, TaskIsTyped, RowIsTyped DEF Holds
<1>6. desk'[h] = NoTask
  BY <1>4 DEF Accept, Kick, GiveRole, Join, Place, CommitLeave, Done, GroupTypeOK
<1>7. CASE Accept(h)
  <2>1. Holds(h) /\ part' = [part EXCEPT ![desk[h].user] = [part[desk[h].user] EXCEPT !.pending = FALSE]]
    BY <1>1, <1>7 DEF Accept
  <2>2. [part[desk[h].user] EXCEPT !.pending = FALSE] \in Row
    BY <1>5, <2>1 DEF Row
  <2>3. u = desk[h].user
    BY <1>5, <2>1, <2>2, OnlyTheOwner
  <2> QED BY <1>5, <1>6, <1>7, <2>3 DEF OwnDoing, Accept, At
<1>8. CASE Kick(h) \/ CommitLeave(h)
  <2>1. Holds(h) /\ part' = [part EXCEPT ![desk[h].user] = [part[desk[h].user] EXCEPT !.live = FALSE]]
    BY <1>1, <1>8 DEF Kick, CommitLeave
  <2>2. /\ [part[desk[h].user] EXCEPT !.live = FALSE] \in Row
        /\ ~[part[desk[h].user] EXCEPT !.live = FALSE].live
    BY <1>5, <2>1 DEF Row
  <2> QED BY <1>5, <2>1, <2>2, OnlyTheOwner
<1>9. CASE GiveRole(h)
  <2>1. Holds(h) /\ part' = [part EXCEPT ![desk[h].user] = [part[desk[h].user] EXCEPT !.role = desk[h].role]]
    BY <1>1, <1>9 DEF GiveRole
  <2>2. /\ [part[desk[h].user] EXCEPT !.role = desk[h].role] \in Row
        /\ [part[desk[h].user] EXCEPT !.role = desk[h].role].live = part[desk[h].user].live
        /\ [part[desk[h].user] EXCEPT !.role = desk[h].role].pending = part[desk[h].user].pending
    BY <1>5, <2>1 DEF Row
  <2>3. u = desk[h].user /\ part[u].live /\ ~part[u].pending
    BY <1>5, <2>1, <2>2, OnlyTheOwner
  <2> QED BY <1>5, <2>1, <2>3 DEF Full, Live
<1>10. CASE Join(h)
  <2> DEFINE row == IF HasRow(desk[h].user) THEN [part[desk[h].user] EXCEPT !.live = TRUE]
                    ELSE [role |-> "member", pending |-> FALSE, live |-> TRUE]
  <2>1. part' = [part EXCEPT ![desk[h].user] = row]
    BY <1>10 DEF Join
  <2>2. row \in Row
    <3>1. HasRow(desk[h].user) => part[desk[h].user] \in Row
      BY <1>5, RowIsTyped
    <3> QED BY <3>1 DEF Row, Roles
  <2> HIDE DEF row
  <2>3. u = desk[h].user
    BY <1>5, <2>1, <2>2, OnlyTheOwner
  <2> QED BY <1>5, <1>6, <1>10, <2>3 DEF OwnDoing, Join, At
<1>11. CASE Place(h)
  <2>1. part'[u] = Invited(u) /\ ~Live(u)
    BY <1>11 DEF Place, Full, Live, HasRow
  <2>2. Invited(u).pending
    <3>1. HasRow(u) => part[u] \in Row
      BY RowIsTyped
    <3> QED BY <3>1 DEF Invited, Row
  <2> QED BY <2>1, <2>2 DEF Full
<1> QED BY <1>4, <1>7, <1>8, <1>9, <1>10, <1>11

(* Nobody becomes a full member of a group but by his own answer or by the   *)
(* link: for any number of users and of handlers at once.                   *)
THEOREM OwnDoingRule == MembersSpec => OnlyByOwnDoing
<1>1. MembersInit => LimitInv /\ QuietInv
  BY GroupStart DEF MembersInit
<1>2. (LimitInv /\ QuietInv) /\ [MembersNext]_membersVars => (LimitInv /\ QuietInv)'
  BY GroupNextKeeps, GroupStands DEF MembersNext, membersVars
<1>3. LimitInv /\ [MembersNext]_membersVars =>
        [\A u \in Users : ~Full(u) /\ Full(u)' => OwnDoing(u)]_groupVars
  BY OwnDoingStep DEF LimitInv, MembersNext, membersVars
<1> QED BY <1>1, <1>2, <1>3, PTL DEF MembersSpec, OnlyByOwnDoing

(* A set of numbers has a least one.                                        *)
LEMMA LeastNumber ==
  ASSUME NEW T \in SUBSET Nat, T # {}
  PROVE  \E x \in T : \A y \in T : x <= y
<1>1. \E x \in T : \A y \in T : <<y, x>> \notin OpToRel(<, Nat)
  BY NatLessThanWellFounded, WFMin
<1>2. PICK x \in T : \A y \in T : <<y, x>> \notin OpToRel(<, Nat)
  BY <1>1
<1>3. ASSUME NEW y \in T PROVE x <= y
  <2>1. <<y, x>> \in Nat \X Nat
    OBVIOUS
  <2>2. ~(y < x)
    BY <1>2, <2>1 DEF OpToRel
  <2> QED BY <2>2
<1> QED BY <1>3

-----------------------------------------------------------------------------
(* ChatMessages: the types *)

(* No time is later than now.                                               *)
TimesInv ==
  /\ \A i \in Ids : There(i) => stored[i].at <= clock
  /\ \A h \in Busy : jobs[h].now <= clock
  /\ \A u \in Folk : joined[u] <= clock

LEMMA NewestIsOne ==
  ASSUME ChatTypeOK, TimesInv, NEW S \in SUBSET Ids, S # {}, \A i \in S : There(i)
  PROVE  NewestOf(S) \in S
<1>1. \A i \in S : stored[i].at \in Nat /\ stored[i].at <= clock /\ clock \in Nat
  BY DEF ChatTypeOK, TimesInv, There, Message
<1>2. PICK T : T = {clock - stored[i].at : i \in S}
  OBVIOUS
<1>3. T \in SUBSET Nat /\ T # {}
  BY <1>1, <1>2
<1>4. PICK x \in T : \A y \in T : x <= y
  BY <1>3, LeastNumber
<1>5. PICK i \in S : x = clock - stored[i].at
  BY <1>2, <1>4
<1>6. ASSUME NEW j \in S PROVE stored[j].at <= stored[i].at
  <2>1. clock - stored[j].at \in T
    BY <1>2
  <2>2. clock - stored[i].at <= clock - stored[j].at
    BY <1>4, <1>5, <2>1
  <2> QED BY <1>1, <2>2
<1>7. \E k \in S : \A j \in S : stored[j].at <= stored[k].at
  BY <1>6
<1> QED BY <1>7 DEF NewestOf

LEMMA FreshIsJob ==
  ASSUME ChatTypeOK, NEW op \in {"send", "ingest", "delete", "clear", "pin", "unpin", "edit",
                                 "open", "react", "read"},
         NEW at \in {"ensure", "insert", "commit", "erase", "write", "all", "tell"},
         NEW u \in Folk, NEW i \in Ids
  PROVE  LET t == Fresh(op, at, u, i)
         IN /\ t \in Job /\ t.op = op /\ t.at = at /\ t.user = u /\ t.id = i /\ t.now = clock
            /\ t.named = Nobody /\ t.text = Original /\ t.opened = {} /\ t.mood = Nobody
BY DEF Fresh, Job, ChatTypeOK

(* A handler begins with job.                                               *)
Begins(h, job) ==
  /\ MayUndertake(h)
  /\ job \in Job /\ job.now <= clock'
  /\ jobs' = [jobs EXCEPT ![h] = job]

Rest == <<dbVars, placeVars, chores, seenVars, boundVars>>

(* What a handler finds when it begins: its job says what it is to do.      *)
Meant(t) ==
  /\ t.at \in {"ensure", "insert", "commit"} => t.op \in {"send", "ingest"}
  /\ t.at = "erase" => t.op = "delete" /\ Undeleted(t.id)
  /\ t.at = "all" => t.op = "read" /\ t.id \in Unread(t.user)
  /\ t.at = "write" =>
       /\ t.op \in {"pin", "unpin", "edit", "open", "react"} /\ Undeleted(t.id)
       /\ t.op \in {"pin", "unpin"} => Group

Begun(h, t) ==
  /\ Begins(h, t)
  /\ t.at \in {"ensure", "insert", "commit", "erase", "all", "write"}
  /\ Meant(t)
  /\ clock' \in Nat /\ clock <= clock'
  /\ UNCHANGED Rest

LEMMA RequestBegins ==
  ASSUME ChatTypeOK, TimesInv, NEW h \in Handlers, NEW u \in Folk, NEW i \in Ids,
         ChatRequest(h, u, i) \/ ReadGroup(h, u)
  PROVE  \E t : Begun(h, t)
<1>0. /\ clock \in Nat /\ clock <= clock /\ clock + 1 \in Nat /\ clock <= clock + 1
      /\ clock + 1 <= clock + 1
  BY DEF ChatTypeOK
<1>1. ASSUME NEW op \in {"send", "ingest"}, NEW named \in Folk \cup {Nobody, Everybody},
             SendToGroup(h, u, i, op, named)
      PROVE  \E t : Begun(h, t)
  <2>1. PICK f : f = Fresh(op, IF op = "send" THEN "insert" ELSE "commit", u, i)
    OBVIOUS
  <2>2. f \in Job /\ f.op = op /\ f.at \in {"insert", "commit"}
    BY <2>1, FreshIsJob
  <2>3. PICK t : t = [f EXCEPT !.now = clock + 1, !.named = named]
    OBVIOUS
  <2>4. t \in Job /\ t.now = clock + 1 /\ t.at \in {"insert", "commit"} /\ t.op = op
    BY <1>0, <2>2, <2>3 DEF Job
  <2>5. MayUndertake(h) /\ jobs' = [jobs EXCEPT ![h] = t] /\ clock' = clock + 1 /\ UNCHANGED Rest
    BY <1>1, <2>1, <2>3 DEF SendToGroup, Undertake, Rest
  <2> QED BY <1>0, <2>4, <2>5 DEF Begun, Begins, Meant
<1>2. ASSUME NEW must \in BOOLEAN, SendToRoom(h, u, i, must)
      PROVE  \E t : Begun(h, t)
  <2>1. PICK t : t = Fresh("send", "ensure", u, i)
    OBVIOUS
  <2>2. t \in Job /\ t.op = "send" /\ t.at = "ensure" /\ t.now = clock
    BY <2>1, FreshIsJob
  <2>3. MayUndertake(h) /\ jobs' = [jobs EXCEPT ![h] = t] /\ clock' = clock /\ UNCHANGED Rest
    BY <1>2, <2>1 DEF SendToRoom, Undertake, Rest
  <2> QED BY <1>0, <2>2, <2>3 DEF Begun, Begins, Meant
<1>3. ASSUME DeleteMessage(h, u, i)
      PROVE  \E t : Begun(h, t)
  <2>1. PICK t : t = Fresh("delete", "erase", u, i)
    OBVIOUS
  <2>2. t \in Job /\ t.op = "delete" /\ t.at = "erase" /\ t.now = clock /\ t.id = i
    BY <2>1, FreshIsJob
  <2>3. /\ MayUndertake(h) /\ jobs' = [jobs EXCEPT ![h] = t] /\ clock' = clock /\ UNCHANGED Rest
        /\ Undeleted(i)
    BY <1>3, <2>1 DEF DeleteMessage, Undertake, Rest
  <2> QED BY <1>0, <2>2, <2>3 DEF Begun, Begins, Meant
<1>4. ASSUME NEW op \in {"pin", "unpin"}, PinGroupMessage(h, u, i, op)
      PROVE  \E t : Begun(h, t)
  <2>1. PICK t : t = Fresh(op, "write", u, i)
    OBVIOUS
  <2>2. t \in Job /\ t.op = op /\ t.at = "write" /\ t.now = clock /\ t.id = i
    BY <2>1, FreshIsJob
  <2>3. /\ MayUndertake(h) /\ jobs' = [jobs EXCEPT ![h] = t] /\ clock' = clock /\ UNCHANGED Rest
        /\ Undeleted(i) /\ Group
    BY <1>4, <2>1 DEF PinGroupMessage, Touch, Undertake, Rest
  <2> QED BY <1>0, <2>2, <2>3 DEF Begun, Begins, Meant
<1>5. ASSUME NEW text \in Texts, EditMessage(h, u, i, text)
      PROVE  \E t : Begun(h, t)
  <2>1. PICK f : f = Fresh("edit", "write", u, i)
    OBVIOUS
  <2>2. f \in Job /\ f.op = "edit" /\ f.at = "write" /\ f.now = clock /\ f.id = i
    BY <2>1, FreshIsJob
  <2>3. PICK t : t = [f EXCEPT !.text = text]
    OBVIOUS
  <2>4. t \in Job /\ t.op = "edit" /\ t.at = "write" /\ t.now = clock /\ t.id = i
    BY <2>2, <2>3 DEF Job
  <2>5. /\ MayUndertake(h) /\ jobs' = [jobs EXCEPT ![h] = t] /\ clock' = clock /\ UNCHANGED Rest
        /\ Undeleted(i)
    BY <1>5, <2>1, <2>3 DEF EditMessage, Touch, Undertake, Rest
  <2> QED BY <1>0, <2>4, <2>5 DEF Begun, Begins, Meant
<1>6. ASSUME OpenOnce(h, u, i)
      PROVE  \E t : Begun(h, t)
  <2>1. PICK f : f = Fresh("open", "write", u, i)
    OBVIOUS
  <2>2. f \in Job /\ f.op = "open" /\ f.at = "write" /\ f.now = clock /\ f.id = i
    BY <2>1, FreshIsJob
  <2>3. PICK t : t = [f EXCEPT !.text = stored[i].text, !.opened = stored[i].opened \cup {u}]
    OBVIOUS
  <2>4. stored[i] \in Message /\ Undeleted(i)
    BY <1>6 DEF OpenOnce, Undeleted, There, ChatTypeOK
  <2>5. t \in Job /\ t.op = "open" /\ t.at = "write" /\ t.now = clock /\ t.id = i
    BY <2>2, <2>3, <2>4 DEF Job, Message
  <2>6. /\ MayUndertake(h) /\ jobs' = [jobs EXCEPT ![h] = t] /\ clock' = clock /\ UNCHANGED Rest
    BY <1>6, <2>1, <2>3 DEF OpenOnce, Touch, Undertake, Rest
  <2> QED BY <1>0, <2>4, <2>5, <2>6 DEF Begun, Begins, Meant
<1>7. ASSUME NEW mood \in Emoji, SetReaction(h, u, i, mood)
      PROVE  \E t : Begun(h, t)
  <2>1. PICK f : f = Fresh("react", "write", u, i)
    OBVIOUS
  <2>2. f \in Job /\ f.op = "react" /\ f.at = "write" /\ f.now = clock /\ f.id = i
    BY <2>1, FreshIsJob
  <2>3. PICK t : t = [f EXCEPT !.mood = IF emoji[i][u] = mood THEN Nobody ELSE mood]
    OBVIOUS
  <2>4. t \in Job /\ t.op = "react" /\ t.at = "write" /\ t.now = clock /\ t.id = i
    BY <2>2, <2>3 DEF Job
  <2>5. /\ MayUndertake(h) /\ jobs' = [jobs EXCEPT ![h] = t] /\ clock' = clock /\ UNCHANGED Rest
        /\ Undeleted(i)
    BY <1>7, <2>1, <2>3 DEF SetReaction, Touch, Undertake, Rest
  <2> QED BY <1>0, <2>4, <2>5 DEF Begun, Begins, Meant
<1>8. ASSUME ReadGroup(h, u)
      PROVE  \E t : Begun(h, t)
  <2>1. PICK n : n = NewestOf(Unread(u))
    OBVIOUS
  <2>2. n \in Unread(u) /\ n \in Ids
    <3>1. Unread(u) \in SUBSET Ids /\ Unread(u) # {} /\ \A j \in Unread(u) : There(j)
      BY <1>8 DEF ReadGroup, Unread, Undeleted
    <3> QED BY <2>1, <3>1, NewestIsOne
  <2>3. PICK t : t = Fresh("read", "all", u, n)
    OBVIOUS
  <2>4. t \in Job /\ t.op = "read" /\ t.at = "all" /\ t.now = clock /\ t.id = n /\ t.user = u
    BY <2>2, <2>3, FreshIsJob
  <2>5. /\ MayUndertake(h) /\ jobs' = [jobs EXCEPT ![h] = t] /\ clock' = clock /\ UNCHANGED Rest
    BY <1>8, <2>1, <2>3 DEF ReadGroup, Undertake, Rest
  <2> QED BY <1>0, <2>2, <2>4, <2>5 DEF Begun, Begins, Meant
<1> QED BY <1>1, <1>2, <1>3, <1>4, <1>5, <1>6, <1>7, <1>8 DEF ChatRequest

LEMMA JobIsTyped ==
  ASSUME ChatTypeOK, NEW h \in Busy
  PROVE  h \in Handlers /\ jobs[h] \in Job /\ jobs[h] # NoJob
BY DEF ChatTypeOK, Busy

(* The jobs after h's is at another step.                                   *)
LEMMA JobToFacts ==
  ASSUME ChatTypeOK, NEW h \in Busy,
         NEW at \in {"ensure", "insert", "ownread", "count", "commit", "fan", "mention", "schedule",
                     "erase", "pinned", "unpin", "sweep", "write", "all", "last", "tell"},
         JobTo(h, at)
  PROVE  /\ jobs' \in [Handlers -> Job \cup {NoJob}] /\ Busy' = Busy
         /\ jobs'[h] = [jobs[h] EXCEPT !.at = at] /\ jobs'[h] \in Job
         /\ \A g \in Handlers \ {h} : jobs'[g] = jobs[g]
<1>1. h \in Handlers /\ jobs[h] \in Job
  BY JobIsTyped
<1>2. [jobs[h] EXCEPT !.at = at] \in Job
  BY <1>1 DEF Job
<1>3. jobs' = [jobs EXCEPT ![h] = [jobs[h] EXCEPT !.at = at]]
  BY DEF JobTo
<1>4. NoJob \notin Job
  BY ChatAssumption
<1> QED BY <1>1, <1>2, <1>3, <1>4 DEF ChatTypeOK, Busy

LEMMA FinishFacts ==
  ASSUME ChatTypeOK, NEW h \in Busy, Finish(h)
  PROVE  /\ jobs' \in [Handlers -> Job \cup {NoJob}] /\ Busy' = Busy \ {h}
         /\ jobs'[h] = NoJob
         /\ \A g \in Handlers \ {h} : jobs'[g] = jobs[g]
BY JobIsTyped DEF Finish, ChatTypeOK, Busy

LEMMA BeginsFacts ==
  ASSUME ChatTypeOK, NEW h \in Handlers, NEW t, Begins(h, t)
  PROVE  /\ jobs' \in [Handlers -> Job \cup {NoJob}] /\ Busy' = Busy \cup {h}
         /\ jobs'[h] = t /\ t \in Job /\ t # NoJob /\ h \notin Busy
         /\ \A g \in Handlers \ {h} : jobs'[g] = jobs[g]
BY ChatAssumption DEF Begins, MayUndertake, ChatTypeOK, Busy

-----------------------------------------------------------------------------
(* ChatMessages: every step keeps the types *)

(* The steps of a handler that has begun.                                   *)
HandlerStep(h) ==
  \/ EnsureSender(h) \/ InsertMessage(h) \/ ReadOwn(h) \/ CountMessage(h)
  \/ Commit(h) \/ FanOut(h) \/ Mention(h) \/ Schedule(h)
  \/ ReadAll(h) \/ ReadLast(h)
  \/ Erase(h) \/ LookForPin(h) \/ UnpinDeleted(h) \/ SweepReactions(h)
  \/ Write(h) \/ Tell(h)

LEMMA StoredIsTyped ==
  ASSUME ChatTypeOK, NEW h \in Busy
  PROVE  /\ Stored(h) \in [Ids -> Message \cup {NoMessage}]
         /\ OwnRead(h) \in [Ids -> SUBSET Folk]
         /\ OneMore(h) \in [Folk -> Nat]
<1>1. PICK t : t = jobs[h]
  OBVIOUS
<1>2. t \in Job /\ t.id \in Ids /\ t.user \in Folk /\ t.now \in Nat
  BY <1>1, JobIsTyped DEF Job
<1>3. [by |-> t.user, at |-> t.now, text |-> Original, opened |-> {}, gone |-> FALSE] \in Message
  BY <1>2 DEF Message
<1>4. Stored(h) \in [Ids -> Message \cup {NoMessage}]
  BY <1>1, <1>2, <1>3 DEF Stored, ChatTypeOK
<1>5. OwnRead(h) \in [Ids -> SUBSET Folk]
  BY <1>1, <1>2 DEF OwnRead, ChatTypeOK
<1>6. OneMore(h) \in [Folk -> Nat]
  BY <1>1, <1>2 DEF OneMore, ChatTypeOK
<1> QED BY <1>4, <1>5, <1>6

LEMMA NotifyIsTyped ==
  ASSUME ChatTypeOK, NEW i \in Ids, NEW who, Notify(i, who)
  PROVE  told' \in [Ids -> [Folk -> Nat]]
<1>1. told[i] \in [Folk -> Nat]
  BY DEF ChatTypeOK
<1>2. PICK f : f = [u \in Folk |-> IF u \in who THEN told[i][u] + 1 ELSE told[i][u]]
  OBVIOUS
<1>3. f \in [Folk -> Nat]
  BY <1>1, <1>2
<1>4. told' = [told EXCEPT ![i] = f]
  BY <1>2 DEF Notify
<1> QED BY <1>3, <1>4 DEF ChatTypeOK

LEMMA GoneIsTyped ==
  ASSUME ChatTypeOK, NEW S
  PROVE  Gone(S) \in [Ids -> Message \cup {NoMessage}]
<1>1. ASSUME NEW i \in Ids, There(i)
      PROVE  [stored[i] EXCEPT !.gone = TRUE] \in Message
  <2>1. PICK m \in Message : m = stored[i]
    BY <1>1 DEF There, ChatTypeOK
  <2>2. [m EXCEPT !.gone = TRUE] \in Message
    BY DEF Message
  <2> QED BY <2>1, <2>2
<1>2. ASSUME NEW i \in Ids
      PROVE  stored[i] \in Message \cup {NoMessage}
  BY DEF ChatTypeOK
<1> HIDE DEF There
<1> QED BY <1>1, <1>2 DEF Gone

LEMMA HandlerKeepsTypes ==
  ASSUME ChatTypeOK, NEW h \in Handlers, HandlerStep(h)
  PROVE  ChatTypeOK'
<1> USE DEF dbVars, readVars, placeVars, seenVars, boundVars
<1>0. h \in Busy
  BY DEF HandlerStep, JobAt, EnsureSender, InsertMessage, ReadOwn, CountMessage, Commit, FanOut,
         Mention, Schedule, ReadAll, ReadLast, Erase, LookForPin, UnpinDeleted, SweepReactions,
         Write, Tell
<1>t. PICK t : t = jobs[h]
  OBVIOUS
<1>j. t \in Job /\ t.id \in Ids /\ t.user \in Folk /\ t.now \in Nat /\ h \in Handlers
  BY <1>0, <1>t, JobIsTyped DEF Job
<1>1. CASE EnsureSender(h)
  <2>1. jobs' \in [Handlers -> Job \cup {NoJob}] /\ clock' \in Nat
    <3>1. CASE Finish(h) /\ UNCHANGED clock
      BY <1>0, <3>1, FinishFacts DEF ChatTypeOK
    <3>2. CASE clock' = clock + 1 /\ jobs' = [jobs EXCEPT ![h].at = "insert", ![h].now = clock + 1]
      <4>1. clock' \in Nat
        BY <3>2 DEF ChatTypeOK
      <4>2. [t EXCEPT !.at = "insert", !.now = clock + 1] \in Job
        BY <1>j, <3>2, <4>1 DEF Job
      <4>3. jobs' = [jobs EXCEPT ![h] = [t EXCEPT !.at = "insert", !.now = clock + 1]]
        BY <1>t, <3>2
      <4> QED BY <4>1, <4>2, <4>3 DEF ChatTypeOK
    <3> QED BY <1>1, <3>1, <3>2 DEF EnsureSender
  <2>2. inside' \subseteq Folk
    BY <1>1, <1>j, <1>t DEF EnsureSender, ChatTypeOK
  <2>3. UNCHANGED <<dbVars, joined, watching, chores, seenVars, boundVars>>
    BY <1>1 DEF EnsureSender
  <2> QED BY <2>1, <2>2, <2>3 DEF ChatTypeOK
<1>2. CASE InsertMessage(h)
  <2>1. jobs' \in [Handlers -> Job \cup {NoJob}]
    BY <1>0, <1>2, FinishFacts, JobToFacts DEF InsertMessage
  <2>2. stored' \in [Ids -> Message \cup {NoMessage}]
    BY <1>0, <1>2, StoredIsTyped DEF InsertMessage, ChatTypeOK
  <2> QED BY <1>2, <2>1, <2>2 DEF InsertMessage, ChatTypeOK
<1>3. CASE ReadOwn(h)
  <2>1. jobs' \in [Handlers -> Job \cup {NoJob}]
    BY <1>0, <1>3, JobToFacts DEF ReadOwn
  <2> QED BY <1>0, <1>3, <2>1, StoredIsTyped DEF ReadOwn, ChatTypeOK
<1>4. CASE CountMessage(h)
  <2>1. jobs' \in [Handlers -> Job \cup {NoJob}]
    BY <1>0, <1>4, JobToFacts DEF CountMessage
  <2> QED BY <1>0, <1>4, <2>1, StoredIsTyped DEF CountMessage, ChatTypeOK
<1>5. CASE Commit(h)
  <2>1. jobs' \in [Handlers -> Job \cup {NoJob}]
    BY <1>0, <1>5, FinishFacts, JobToFacts DEF Commit
  <2>2. /\ stored' \in [Ids -> Message \cup {NoMessage}] /\ readBy' \in [Ids -> SUBSET Folk]
        /\ counted' \in [Folk -> Nat]
    BY <1>0, <1>5, StoredIsTyped DEF Commit, ChatTypeOK
  <2> QED BY <1>5, <2>1, <2>2 DEF Commit, ChatTypeOK
<1>6. CASE FanOut(h)
  <2>1. jobs' \in [Handlers -> Job \cup {NoJob}]
    BY <1>0, <1>6, JobToFacts DEF FanOut
  <2>2. NewOnScreen \in Shown
    BY DEF NewOnScreen, Shown
  <2>3. screen' \in [Ids -> Shown \cup {NoMessage}]
    BY <1>6, <1>j, <1>t, <2>2 DEF FanOut, ChatTypeOK
  <2>4. chores' \subseteq Chore
    BY <1>6, <1>j, <1>t DEF FanOut, ChatTypeOK, Chore
  <2> QED BY <1>6, <2>1, <2>3, <2>4 DEF FanOut, ChatTypeOK
<1>7. CASE Mention(h)
  <2>1. \E who : Notify(t.id, who)
    BY <1>7, <1>t DEF Mention
  <2>2. told' \in [Ids -> [Folk -> Nat]]
    BY <1>j, <2>1, NotifyIsTyped
  <2>3. PICK n \in {t.named, Nobody} : jobs' = [jobs EXCEPT ![h] = [t EXCEPT !.at = "schedule", !.named = n]]
    BY <1>7, <1>t DEF Mention
  <2>4. [t EXCEPT !.at = "schedule", !.named = n] \in Job
    BY <1>j DEF Job
  <2>5. jobs' \in [Handlers -> Job \cup {NoJob}]
    BY <2>3, <2>4 DEF ChatTypeOK
  <2> QED BY <1>7, <2>2, <2>5 DEF Mention, ChatTypeOK
<1>8. CASE Schedule(h)
  <2>1. jobs' \in [Handlers -> Job \cup {NoJob}]
    BY <1>0, <1>8, FinishFacts DEF Schedule
  <2>2. chores' \subseteq Chore
    BY <1>8, <1>j, <1>t DEF Schedule, ChatTypeOK, Chore
  <2> QED BY <1>8, <2>1, <2>2 DEF Schedule, ChatTypeOK
<1>9. CASE ReadAll(h)
  <2>1. jobs' \in [Handlers -> Job \cup {NoJob}]
    BY <1>0, <1>9, FinishFacts, JobToFacts DEF ReadAll
  <2>2. AllRead(t.user) \in [Ids -> SUBSET Folk]
    BY <1>j DEF AllRead, ChatTypeOK
  <2>3. readBy' \in [Ids -> SUBSET Folk]
    BY <1>9, <1>t, <2>2 DEF ReadAll, ChatTypeOK
  <2> QED BY <1>9, <2>1, <2>3 DEF ReadAll, ChatTypeOK
<1>10. CASE ReadLast(h)
  <2>1. jobs' \in [Handlers -> Job \cup {NoJob}]
    BY <1>0, <1>10, FinishFacts DEF ReadLast
  <2> QED BY <1>10, <1>j, <1>t, <2>1 DEF ReadLast, ChatTypeOK
<1>11. CASE Erase(h)
  <2>1. jobs' \in [Handlers -> Job \cup {NoJob}]
    BY <1>0, <1>11, JobToFacts DEF Erase
  <2>2. Gone({t.id}) \in [Ids -> Message \cup {NoMessage}]
    BY GoneIsTyped
  <2> QED BY <1>11, <1>t, <2>1, <2>2 DEF Erase, ChatTypeOK
<1>12. CASE LookForPin(h)
  <2>1. jobs' \in [Handlers -> Job \cup {NoJob}]
    BY <1>0, <1>12, JobToFacts DEF LookForPin
  <2> QED BY <1>12, <2>1 DEF LookForPin, ChatTypeOK
<1>13. CASE UnpinDeleted(h)
  <2>1. jobs' \in [Handlers -> Job \cup {NoJob}]
    BY <1>0, <1>13, JobToFacts DEF UnpinDeleted
  <2> QED BY <1>13, <2>1 DEF UnpinDeleted, ChatTypeOK
<1>14. CASE SweepReactions(h)
  <2>1. jobs' \in [Handlers -> Job \cup {NoJob}]
    BY <1>0, <1>14, JobToFacts DEF SweepReactions
  <2> QED BY <1>14, <1>j, <1>t, <2>1 DEF SweepReactions, ChatTypeOK
<1>15. CASE Write(h)
  <2>1. jobs' \in [Handlers -> Job \cup {NoJob}]
    BY <1>0, <1>15, JobToFacts DEF Write
  <2>2. stored' \in [Ids -> Message \cup {NoMessage}]
    <3>1. CASE t.op \in {"edit", "open"} /\ Undeleted(t.id)
      <4>1. stored[t.id] \in Message
        BY <1>j, <3>1 DEF ChatTypeOK, Undeleted, There
      <4>2. [stored[t.id] EXCEPT !.text = t.text, !.opened = t.opened] \in Message
        BY <1>j, <4>1 DEF Message, Job
      <4>3. stored' = [stored EXCEPT ![t.id] = [stored[t.id] EXCEPT !.text = t.text, !.opened = t.opened]]
        BY <1>15, <1>t, <3>1 DEF Write
      <4> QED BY <4>2, <4>3 DEF ChatTypeOK
    <3>2. CASE ~(t.op \in {"edit", "open"} /\ Undeleted(t.id))
      BY <1>15, <1>t, <3>2 DEF Write, ChatTypeOK
    <3> QED BY <3>1, <3>2
  <2>3. emoji' \in [Ids -> [Folk -> Emoji \cup {Nobody}]]
    <3>1. t.mood \in Emoji \cup {Nobody}
      BY <1>j DEF Job
    <3>2. [emoji[t.id] EXCEPT ![t.user] = t.mood] \in [Folk -> Emoji \cup {Nobody}]
      BY <1>j, <3>1 DEF ChatTypeOK
    <3>3. emoji' = emoji \/ emoji' = [emoji EXCEPT ![t.id] = [emoji[t.id] EXCEPT ![t.user] = t.mood]]
      BY <1>15, <1>t DEF Write
    <3> QED BY <3>2, <3>3 DEF ChatTypeOK
  <2>4. pinned' \in Ids \cup {NoMessage}
    BY <1>15, <1>j, <1>t DEF Write, ChatTypeOK
  <2> QED BY <1>15, <2>1, <2>2, <2>3, <2>4 DEF Write, ChatTypeOK
<1>16. CASE Tell(h)
  <2>1. jobs' \in [Handlers -> Job \cup {NoJob}]
    BY <1>0, <1>16, FinishFacts DEF Tell
  <2>2. ASSUME NEW i \in Ids, screen[i] # NoMessage
        PROVE  Told(t, i) \in Shown
    <3>1. screen[i] \in Shown
      BY <2>2 DEF ChatTypeOK
    <3>2. [screen[i] EXCEPT !.gone = TRUE] \in Shown
      BY <3>1 DEF Shown
    <3>3. [screen[i] EXCEPT !.text = t.text, !.opened = t.opened] \in Shown
      BY <1>j, <3>1 DEF Shown, Job
    <3>4. [screen[i] EXCEPT !.emoji[t.user] = t.mood] \in Shown
      <4>1. [screen[i].emoji EXCEPT ![t.user] = t.mood] \in [Folk -> Emoji \cup {Nobody}]
        BY <1>j, <3>1 DEF Shown, Job
      <4> QED BY <3>1, <4>1 DEF Shown
    <3> QED BY <3>1, <3>2, <3>3, <3>4 DEF Told
  <2>3. screen' \in [Ids -> Shown \cup {NoMessage}]
    BY <1>16, <1>t, <2>2 DEF Tell
  <2>4. banner' \in Ids \cup {NoMessage}
    BY <1>16, <1>j, <1>t DEF Tell, ChatTypeOK
  <2> QED BY <1>16, <2>1, <2>3, <2>4 DEF Tell, ChatTypeOK
<1> QED
  BY <1>1, <1>2, <1>3, <1>4, <1>5, <1>6, <1>7, <1>8, <1>9, <1>10, <1>11, <1>12, <1>13, <1>14,
     <1>15, <1>16 DEF HandlerStep

(* The chores, and what people do.                                          *)
ChoreStep(c) == AutoRead(c) \/ AutoLast(c) \/ Push(c)
PeopleStep(u) == MarkRoomRead(u) \/ Enter(u) \/ Exit(u) \/ Watch(u)

LEMMA OthersKeepTypes ==
  ASSUME ChatTypeOK,
         \/ \E c \in chores : ChoreStep(c)
         \/ \E u \in Folk : PeopleStep(u)
         \/ Stop
  PROVE  ChatTypeOK'
<1> USE DEF dbVars, readVars, placeVars, seenVars, boundVars
<1>1. ASSUME NEW c \in chores, ChoreStep(c)
      PROVE  ChatTypeOK'
  <2>0. c \in Chore /\ c.id \in Ids /\ c.who \subseteq Folk
    BY DEF ChatTypeOK, Chore
  <2>1. CASE AutoRead(c)
    <3>1. readBy' \in [Ids -> SUBSET Folk]
      <4>1. PICK seen : /\ seen = (c.who \cap watching) \ {Sender(c.id)}
                        /\ \/ readBy' = [readBy EXCEPT ![c.id] = @ \cup seen]
                           \/ readBy' = readBy
        BY <2>1 DEF AutoRead
      <4>2. seen \subseteq Folk
        BY <2>0, <4>1
      <4>3. PICK r : r = readBy[c.id] \cup seen
        OBVIOUS
      <4>4. r \in SUBSET Folk /\ readBy \in [Ids -> SUBSET Folk]
        BY <2>0, <4>2, <4>3 DEF ChatTypeOK
      <4>5. readBy' = [readBy EXCEPT ![c.id] = r] \/ readBy' = readBy
        BY <4>1, <4>3
      <4> QED BY <2>0, <4>4, <4>5
    <3>2. chores' \subseteq Chore
      <4>1. PICK seen : /\ seen = (c.who \cap watching) \ {Sender(c.id)}
                        /\ chores' = (chores \ {c}) \cup
                             (IF seen = {} THEN {}
                              ELSE {[do |-> "last", id |-> c.id, who |-> seen]})
        BY <2>1 DEF AutoRead
      <4>2. seen \subseteq Folk
        BY <2>0, <4>1
      <4>3. [do |-> "last", id |-> c.id, who |-> seen] \in Chore
        BY <2>0, <4>2 DEF Chore
      <4> QED BY <4>1, <4>3 DEF ChatTypeOK
    <3> QED BY <2>1, <3>1, <3>2 DEF AutoRead, ChatTypeOK
  <2>2. CASE AutoLast(c)
    BY <2>0, <2>2 DEF AutoLast, ChatTypeOK
  <2>3. CASE Push(c)
    <3>1. \E who : Notify(c.id, who)
      BY <2>3 DEF Push
    <3>2. told' \in [Ids -> [Folk -> Nat]]
      BY <2>0, <3>1, NotifyIsTyped
    <3> QED BY <2>3, <3>2 DEF Push, ChatTypeOK
  <2> QED BY <1>1, <2>1, <2>2, <2>3 DEF ChoreStep
<1>2. ASSUME NEW u \in Folk, PeopleStep(u)
      PROVE  ChatTypeOK'
  <2>1. CASE MarkRoomRead(u)
    BY <2>1 DEF MarkRoomRead, ChatTypeOK
  <2>2. CASE Enter(u)
    BY <2>2 DEF Enter, ChatTypeOK
  <2>3. CASE Exit(u)
    BY <2>3 DEF Exit, ChatTypeOK
  <2>4. CASE Watch(u)
    BY <2>4 DEF Watch, ChatTypeOK
  <2> QED BY <1>2, <2>1, <2>2, <2>3, <2>4 DEF PeopleStep
<1>3. CASE Stop
  BY <1>3 DEF Stop, ChatTypeOK
<1> QED BY <1>1, <1>2, <1>3

LEMMA ClearKeepsTypes ==
  ASSUME ChatTypeOK, NEW h \in Handlers, NEW u \in Folk, ClearRoomMessages(h, u)
  PROVE  /\ ChatTypeOK'
         /\ \E i \in Ids : \E t : /\ Begins(h, t) /\ t.at = "tell" /\ t.op = "clear"
                                  /\ t.now = clock
<1> USE DEF dbVars, readVars, placeVars, seenVars, boundVars
<1>1. PICK i \in Ids : Undertake(h, Fresh("clear", "tell", u, i))
  BY DEF ClearRoomMessages
<1>2. PICK t : t = Fresh("clear", "tell", u, i)
  OBVIOUS
<1>3. t \in Job /\ t.at = "tell" /\ t.op = "clear" /\ t.now = clock
  BY <1>2, FreshIsJob
<1>4. Begins(h, t)
  <2>1. MayUndertake(h) /\ jobs' = [jobs EXCEPT ![h] = t]
    BY <1>1, <1>2 DEF Undertake
  <2>2. clock' = clock /\ clock <= clock
    BY DEF ClearRoomMessages, ChatTypeOK
  <2> QED BY <1>3, <2>1, <2>2 DEF Begins
<1>5. jobs' \in [Handlers -> Job \cup {NoJob}]
  BY <1>4, BeginsFacts
<1>6. Gone(Ids) \in [Ids -> Message \cup {NoMessage}]
  BY GoneIsTyped
<1>7. emoji' \in [Ids -> [Folk -> Emoji \cup {Nobody}]]
  BY DEF ClearRoomMessages
<1>8. ChatTypeOK'
  BY <1>5, <1>6, <1>7 DEF ClearRoomMessages, ChatTypeOK
<1> QED BY <1>3, <1>4, <1>8

LEMMA BegunKeepsTypes ==
  ASSUME ChatTypeOK, NEW h \in Handlers, NEW t, Begun(h, t)
  PROVE  ChatTypeOK'
BY BeginsFacts DEF Begun, Rest, ChatTypeOK, dbVars, readVars, placeVars, seenVars, boundVars

-----------------------------------------------------------------------------
(* ChatMessages: nothing that is stored, read or past goes back *)

Same(i) ==
  There(i) => /\ There(i)' /\ Sender(i)' = Sender(i) /\ stored'[i].at = stored[i].at
              /\ stored[i].gone => stored'[i].gone

(* Message i comes in, from handler h.                                      *)
CameFrom(h, i) ==
  /\ h \in Busy /\ jobs[h].id = i /\ jobs[h].at \in {"insert", "commit"}
  /\ stored'[i].by = jobs[h].user /\ stored'[i].at = jobs[h].now
  /\ jobs'[h] # jobs[h]

Grows ==
  /\ \A i \in Ids : Same(i) /\ readBy[i] \subseteq readBy'[i]
  /\ \A u \in Folk : joined[u] <= joined'[u] /\ joined'[u] \in {joined[u], clock}
  /\ clock <= clock'
  /\ \A i \in Ids : There(i) \/ ~There(i)' \/ \E h \in Handlers : CameFrom(h, i)

LEMMA JobMoves ==
  ASSUME ChatTypeOK, NEW h \in Busy, NEW at \in {"ownread", "count", "fan"}, JobTo(h, at),
         jobs[h].at # at
  PROVE  jobs'[h] # jobs[h]
<1>1. PICK t \in Job : t = jobs[h]
  BY JobIsTyped
<1>2. [t EXCEPT !.at = at].at = at
  BY DEF Job
<1>3. jobs'[h] = [t EXCEPT !.at = at]
  BY <1>1 DEF JobTo, ChatTypeOK, Busy
<1> QED BY <1>1, <1>2, <1>3

LEMMA KeepsIsGrows ==
  ASSUME ChatTypeOK, UNCHANGED <<stored, joined>>, clock <= clock',
         \A i \in Ids : readBy[i] \subseteq readBy'[i]
  PROVE  Grows
BY DEF ChatTypeOK, Grows, Same, There, Sender

LEMMA StoredGrows ==
  ASSUME ChatTypeOK, NEW h \in Busy, jobs[h].at \in {"insert", "commit"}, ~There(jobs[h].id),
         stored' = Stored(h), jobs'[h] # jobs[h]
  PROVE  /\ \A i \in Ids : Same(i)
         /\ \A i \in Ids : There(i) \/ ~There(i)' \/ \E g \in Handlers : CameFrom(g, i)
         /\ \A i \in Ids : i = jobs[h].id => There(i)' /\ Sender(i)' = jobs[h].user
<1>1. PICK t : t = jobs[h] /\ jobs'[h] # t
  OBVIOUS
<1>2. t \in Job /\ t.id \in Ids /\ t.user \in Folk /\ t.now \in Nat
  BY <1>1, JobIsTyped DEF Job
<1>3. PICK m : m = [by |-> t.user, at |-> t.now, text |-> Original, opened |-> {}, gone |-> FALSE]
  OBVIOUS
<1>4. m \in Message /\ m # NoMessage /\ m.by = t.user /\ m.at = t.now
  <2>1. m \in Message
    BY <1>2, <1>3 DEF Message
  <2>2. m.by = t.user /\ m.at = t.now
    BY <1>3
  <2> QED BY <2>1, <2>2, ChatAssumption
<1>5. stored' = [stored EXCEPT ![t.id] = m]
  BY <1>1, <1>3 DEF Stored
<1>6. /\ stored'[t.id] = m
      /\ \A i \in Ids : i # t.id => stored'[i] = stored[i]
  BY <1>2, <1>5 DEF ChatTypeOK
<1>7. CameFrom(h, t.id)
  BY <1>1, <1>4, <1>6 DEF CameFrom
<1>8. h \in Handlers
  BY JobIsTyped
<1>9. There(t.id)' /\ Sender(t.id)' = t.user
  BY <1>4, <1>6 DEF There, Sender
<1>10. \A i \in Ids : i # t.id => Same(i) /\ (There(i) \/ ~There(i)')
  BY <1>6 DEF Same, There, Sender
<1>11. Same(t.id)
  BY <1>1 DEF Same
<1>12. \A i \in Ids : i = t.id \/ (Same(i) /\ (There(i) \/ ~There(i)'))
  BY <1>10
<1> HIDE DEF There, Sender, Same, CameFrom
<1> QED BY <1>1, <1>2, <1>7, <1>8, <1>9, <1>11, <1>12

LEMMA GoneGrows ==
  ASSUME ChatTypeOK, NEW S, stored' = Gone(S)
  PROVE  /\ \A i \in Ids : Same(i)
         /\ \A i \in Ids : There(i) <=> There(i)'
<1> SUFFICES ASSUME NEW i \in Ids PROVE Same(i) /\ (There(i) <=> There(i)')
  OBVIOUS
<1>1. CASE There(i)
  <2>1. PICK m \in Message : m = stored[i]
    BY <1>1 DEF There, ChatTypeOK
  <2>2. PICK g : g = [m EXCEPT !.gone = TRUE]
    OBVIOUS
  <2>3. g \in Message /\ g # NoMessage /\ g.by = m.by /\ g.at = m.at /\ g.gone
    BY <2>2, ChatAssumption DEF Message
  <2>4. stored'[i] = m \/ stored'[i] = g
    BY <2>1, <2>2 DEF Gone
  <2> QED BY <1>1, <2>1, <2>3, <2>4 DEF Same, There, Sender
<1>2. CASE ~There(i)
  <2>1. stored'[i] = stored[i]
    BY <1>2 DEF Gone
  <2> QED BY <1>2, <2>1 DEF Same, There
<1> QED BY <1>1, <1>2

LEMMA AllReadGrows ==
  ASSUME ChatTypeOK, NEW u, NEW i \in Ids
  PROVE  readBy[i] \subseteq AllRead(u)[i]
BY DEF AllRead

LEMMA HandlerGrows ==
  ASSUME ChatTypeOK, NEW h \in Handlers, HandlerStep(h)
  PROVE  Grows
<1> USE DEF dbVars, readVars, placeVars, seenVars, boundVars
<1>0. h \in Busy
  BY DEF HandlerStep, JobAt, EnsureSender, InsertMessage, ReadOwn, CountMessage, Commit, FanOut,
         Mention, Schedule, ReadAll, ReadLast, Erase, LookForPin, UnpinDeleted, SweepReactions,
         Write, Tell
<1>t. PICK t : t = jobs[h]
  OBVIOUS
<1>j. t \in Job /\ t.id \in Ids /\ t.user \in Folk /\ t.now \in Nat
  BY <1>0, <1>t, JobIsTyped DEF Job
<1>c. clock \in Nat /\ clock <= clock /\ clock <= clock + 1
  BY DEF ChatTypeOK
<1>1. CASE EnsureSender(h)
  <2>1. clock' = clock \/ clock' = clock + 1
    BY <1>1 DEF EnsureSender
  <2> QED BY <1>1, <1>c, <2>1, KeepsIsGrows DEF EnsureSender
<1>2. CASE InsertMessage(h)
  <2>1. CASE There(jobs[h].id)
    BY <1>2, <1>c, <2>1, KeepsIsGrows DEF InsertMessage
  <2>2. CASE ~There(jobs[h].id)
    <3>1. stored' = Stored(h) /\ UNCHANGED <<readBy, joined, clock>> /\ jobs[h].at = "insert"
      BY <1>2, <2>2 DEF InsertMessage, JobAt
    <3>m. jobs'[h] # jobs[h]
      <4>1. PICK at \in {"ownread", "count"} : JobTo(h, at)
        BY <1>2, <2>2 DEF InsertMessage
      <4> QED BY <1>0, <3>1, <4>1, JobMoves
    <3>2. /\ \A i \in Ids : Same(i)
          /\ \A i \in Ids : There(i) \/ ~There(i)' \/ \E g \in Handlers : CameFrom(g, i)
      BY <1>0, <2>2, <3>1, <3>m, StoredGrows
    <3> QED BY <1>c, <3>1, <3>2 DEF Grows, ChatTypeOK
  <2> QED BY <2>1, <2>2
<1>3. CASE ReadOwn(h)
  <2>1. \A i \in Ids : readBy[i] \subseteq readBy'[i]
    BY <1>3, <1>t, <1>j DEF ReadOwn, OwnRead, ChatTypeOK
  <2> QED BY <1>3, <1>c, <2>1, KeepsIsGrows DEF ReadOwn
<1>4. CASE CountMessage(h)
  BY <1>4, <1>c, KeepsIsGrows DEF CountMessage
<1>5. CASE Commit(h)
  <2>1. CASE There(jobs[h].id)
    BY <1>5, <1>c, <2>1, KeepsIsGrows DEF Commit
  <2>2. CASE ~There(jobs[h].id)
    <3>1. /\ stored' = Stored(h) /\ UNCHANGED <<joined, clock>> /\ jobs[h].at = "commit"
          /\ readBy' = OwnRead(h)
      BY <1>5, <2>2 DEF Commit, JobAt
    <3>m. jobs'[h] # jobs[h]
      BY <1>0, <1>5, <2>2, <3>1, JobMoves DEF Commit
    <3>2. /\ \A i \in Ids : Same(i)
          /\ \A i \in Ids : There(i) \/ ~There(i)' \/ \E g \in Handlers : CameFrom(g, i)
      BY <1>0, <2>2, <3>1, <3>m, StoredGrows
    <3>3. \A i \in Ids : readBy[i] \subseteq readBy'[i]
      BY <3>1, <1>t, <1>j DEF OwnRead, ChatTypeOK
    <3> QED BY <1>c, <3>1, <3>2, <3>3 DEF Grows, ChatTypeOK
  <2> QED BY <2>1, <2>2
<1>6. CASE FanOut(h)
  BY <1>6, <1>c, KeepsIsGrows DEF FanOut
<1>7. CASE Mention(h)
  BY <1>7, <1>c, KeepsIsGrows DEF Mention
<1>8. CASE Schedule(h)
  BY <1>8, <1>c, KeepsIsGrows DEF Schedule
<1>9. CASE ReadAll(h)
  <2>1. \A i \in Ids : readBy[i] \subseteq readBy'[i]
    BY <1>9, AllReadGrows DEF ReadAll
  <2> QED BY <1>9, <1>c, <2>1, KeepsIsGrows DEF ReadAll
<1>10. CASE ReadLast(h)
  BY <1>10, <1>c, KeepsIsGrows DEF ReadLast
<1>11. CASE Erase(h)
  <2>1. \E S : stored' = Gone(S)
    BY <1>11 DEF Erase
  <2>2. UNCHANGED <<readBy, joined, clock>>
    BY <1>11 DEF Erase
  <2> QED BY <1>c, <2>1, <2>2, GoneGrows DEF Grows, ChatTypeOK
<1>12. CASE LookForPin(h)
  BY <1>12, <1>c, KeepsIsGrows DEF LookForPin
<1>13. CASE UnpinDeleted(h)
  BY <1>13, <1>c, KeepsIsGrows DEF UnpinDeleted
<1>14. CASE SweepReactions(h)
  BY <1>14, <1>c, KeepsIsGrows DEF SweepReactions
<1>15. CASE Write(h)
  <2>1. UNCHANGED <<readBy, joined, clock>>
    BY <1>15 DEF Write
  <2>2. CASE t.op \in {"edit", "open"} /\ Undeleted(t.id)
    <3>1. PICK m \in Message : m = stored[t.id]
      BY <1>j, <2>2 DEF ChatTypeOK, Undeleted, There
    <3>2. PICK n : n = [m EXCEPT !.text = t.text, !.opened = t.opened]
      OBVIOUS
    <3>3. n \in Message /\ n # NoMessage /\ n.by = m.by /\ n.at = m.at /\ n.gone = m.gone
      <4>1. t.text \in Texts \cup {Original} /\ t.opened \in SUBSET Folk
        BY <1>j DEF Job
      <4>2. n \in Message
        BY <3>2, <4>1 DEF Message
      <4>3. n.by = m.by /\ n.at = m.at /\ n.gone = m.gone
        BY <3>2 DEF Message
      <4> QED BY <4>2, <4>3, ChatAssumption
    <3>4. stored' = [stored EXCEPT ![t.id] = n]
      BY <1>15, <1>t, <2>2, <3>1, <3>2 DEF Write
    <3>5. stored'[t.id] = n /\ \A i \in Ids : i # t.id => stored'[i] = stored[i]
      BY <1>j, <3>4 DEF ChatTypeOK
    <3>6. \A i \in Ids : Same(i) /\ (There(i)' => There(i))
      BY <2>2, <3>1, <3>3, <3>5 DEF Same, There, Sender, Undeleted
    <3> QED BY <1>c, <2>1, <3>6 DEF Grows, ChatTypeOK
  <2>3. CASE ~(t.op \in {"edit", "open"} /\ Undeleted(t.id))
    <3>1. stored' = stored
      BY <1>15, <1>t, <2>3 DEF Write
    <3> QED BY <1>c, <2>1, <3>1, KeepsIsGrows
  <2> QED BY <2>2, <2>3
<1>16. CASE Tell(h)
  BY <1>16, <1>c, KeepsIsGrows DEF Tell
<1> QED
  BY <1>1, <1>2, <1>3, <1>4, <1>5, <1>6, <1>7, <1>8, <1>9, <1>10, <1>11, <1>12, <1>13, <1>14,
     <1>15, <1>16 DEF HandlerStep

LEMMA OthersGrow ==
  ASSUME ChatTypeOK, TimesInv,
         \/ \E c \in chores : ChoreStep(c)
         \/ \E u \in Folk : PeopleStep(u)
         \/ Stop
         \/ \E h \in Handlers : \E t : Begun(h, t)
         \/ \E h \in Handlers, u \in Folk : ClearRoomMessages(h, u)
  PROVE  Grows
<1> USE DEF dbVars, readVars, placeVars, seenVars, boundVars
<1>c. clock \in Nat /\ clock <= clock
  BY DEF ChatTypeOK
<1>1. ASSUME NEW c \in chores, ChoreStep(c)
      PROVE  Grows
  <2>0. c \in Chore /\ c.id \in Ids /\ c.who \subseteq Folk
    BY DEF ChatTypeOK, Chore
  <2>1. CASE AutoRead(c)
    <3>1. \E r : readBy' = [readBy EXCEPT ![c.id] = @ \cup r] \/ readBy' = readBy
      BY <2>1 DEF AutoRead
    <3>2. \A i \in Ids : readBy[i] \subseteq readBy'[i]
      BY <2>0, <3>1 DEF ChatTypeOK
    <3> QED BY <1>c, <2>1, <3>2, KeepsIsGrows DEF AutoRead
  <2>2. CASE AutoLast(c)
    BY <1>c, <2>2, KeepsIsGrows DEF AutoLast
  <2>3. CASE Push(c)
    BY <1>c, <2>3, KeepsIsGrows DEF Push
  <2> QED BY <1>1, <2>1, <2>2, <2>3 DEF ChoreStep
<1>2. ASSUME NEW u \in Folk, PeopleStep(u)
      PROVE  Grows
  <2>1. CASE MarkRoomRead(u)
    BY <1>c, <2>1, KeepsIsGrows DEF MarkRoomRead
  <2>2. CASE Enter(u)
    <3>1. \A i \in Ids : Same(i) /\ readBy[i] \subseteq readBy'[i] /\ (There(i)' => There(i))
      BY <2>2 DEF Enter, Same, There, Sender
    <3>2. \A v \in Folk : joined[v] <= joined'[v] /\ joined'[v] \in {joined[v], clock}
      BY <1>c, <2>2 DEF Enter, TimesInv, ChatTypeOK
    <3>3. clock <= clock'
      BY <1>c, <2>2 DEF Enter
    <3> QED BY <3>1, <3>2, <3>3 DEF Grows
  <2>3. CASE Exit(u)
    BY <1>c, <2>3, KeepsIsGrows DEF Exit
  <2>4. CASE Watch(u)
    BY <1>c, <2>4, KeepsIsGrows DEF Watch
  <2> QED BY <1>2, <2>1, <2>2, <2>3, <2>4 DEF PeopleStep
<1>3. CASE Stop
  BY <1>c, <1>3, KeepsIsGrows DEF Stop
<1>4. ASSUME NEW h \in Handlers, NEW t, Begun(h, t)
      PROVE  Grows
  BY <1>c, <1>4, KeepsIsGrows DEF Begun, Rest
<1>5. ASSUME NEW h \in Handlers, NEW u \in Folk, ClearRoomMessages(h, u)
      PROVE  Grows
  <2>1. \E S : stored' = Gone(S)
    BY <1>5 DEF ClearRoomMessages
  <2>2. UNCHANGED <<readBy, joined, clock>>
    BY <1>5 DEF ClearRoomMessages
  <2> QED BY <1>c, <2>1, <2>2, GoneGrows DEF Grows, ChatTypeOK
<1> QED BY <1>1, <1>2, <1>3, <1>4, <1>5

(* The steps there are.                                                     *)
LEMMA ChatStepIs ==
  ASSUME ChatTypeOK, TimesInv, ChatNext
  PROVE  \/ \E h \in Handlers : HandlerStep(h)
         \/ \E h \in Handlers : \E t : Begun(h, t)
         \/ \E h \in Handlers, u \in Folk : ClearRoomMessages(h, u)
         \/ \E c \in chores : ChoreStep(c)
         \/ \E u \in Folk : PeopleStep(u)
         \/ Stop
<1>1. ASSUME NEW h \in Handlers, NEW u \in Folk, NEW i \in Ids, ChatRequest(h, u, i)
      PROVE  \E g \in Handlers : \E t : Begun(g, t)
  BY <1>1, RequestBegins
<1>2. ASSUME NEW h \in Handlers, NEW u \in Folk, ReadGroup(h, u)
      PROVE  \E g \in Handlers : \E t : Begun(g, t)
  <2>1. PICK i \in Ids : TRUE
    BY <1>2 DEF ReadGroup, Unread
  <2> QED BY <1>2, <2>1, RequestBegins
<1> QED BY <1>1, <1>2, Zenon DEF ChatNext, HandlerStep, ChoreStep, PeopleStep

-----------------------------------------------------------------------------
(* ChatMessages: what a handler's step does to its job *)

(* Handler h goes on with its job, at step at.                              *)
GoesOn(h, at) ==
  /\ jobs'[h] \in Job /\ jobs'[h] # NoJob /\ jobs'[h].at = at
  /\ jobs'[h].op = jobs[h].op /\ jobs'[h].user = jobs[h].user /\ jobs'[h].id = jobs[h].id
  /\ jobs'[h].text = jobs[h].text /\ jobs'[h].opened = jobs[h].opened
  /\ jobs'[h].mood = jobs[h].mood
  /\ \/ jobs'[h].now = jobs[h].now /\ jobs'[h].named = jobs[h].named
     \/ jobs[h].at = "ensure" /\ jobs'[h].now = clock'
     \/ jobs[h].at = "mention" /\ jobs'[h].now = jobs[h].now
  /\ Busy' = Busy

IsDone(h) == jobs'[h] = NoJob /\ Busy' = Busy \ {h}

(* What comes after a step.                                                 *)
Follows(h) ==
  CASE jobs[h].at = "ensure" -> {"insert"}
    [] jobs[h].at = "insert" -> {"ownread", "count"}
    [] jobs[h].at = "ownread" -> {"count"}
    [] jobs[h].at = "count" -> {"fan"}
    [] jobs[h].at = "commit" -> {"fan"}
    [] jobs[h].at = "fan" -> {"mention", "schedule"}
    [] jobs[h].at = "mention" -> {"schedule"}
    [] jobs[h].at = "all" -> {"last"}
    [] jobs[h].at = "erase" -> {"pinned", "sweep"}
    [] jobs[h].at = "pinned" -> {"unpin", "tell"}
    [] OTHER -> {"tell"}

LEMMA JobGoesOn ==
  ASSUME ChatTypeOK, NEW h \in Busy,
         NEW at \in {"ensure", "insert", "ownread", "count", "commit", "fan", "mention", "schedule",
                     "erase", "pinned", "unpin", "sweep", "write", "all", "last", "tell"},
         JobTo(h, at)
  PROVE  GoesOn(h, at)
<1>1. PICK t : t = jobs[h]
  OBVIOUS
<1>2. t \in Job
  BY <1>1, JobIsTyped
<1>3. PICK n : n = [t EXCEPT !.at = at]
  OBVIOUS
<1>4. /\ n.at = at /\ n.op = t.op /\ n.user = t.user /\ n.id = t.id
      /\ n.text = t.text /\ n.opened = t.opened /\ n.mood = t.mood /\ n.now = t.now
      /\ n.named = t.named
  BY <1>2, <1>3 DEF Job
<1>5. jobs'[h] = n /\ n \in Job /\ Busy' = Busy
  BY <1>1, <1>3, JobToFacts
<1>6. n # NoJob
  BY <1>5, ChatAssumption
<1> QED BY <1>1, <1>4, <1>5, <1>6 DEF GoesOn

LEMMA HandlerMoves ==
  ASSUME ChatTypeOK, NEW h \in Handlers, HandlerStep(h)
  PROVE  /\ h \in Busy
         /\ IsDone(h) \/ \E at \in Follows(h) : GoesOn(h, at)
         /\ \A g \in Handlers \ {h} : jobs'[g] = jobs[g]
<1>0. h \in Busy
  BY DEF HandlerStep, JobAt, EnsureSender, InsertMessage, ReadOwn, CountMessage, Commit, FanOut,
         Mention, Schedule, ReadAll, ReadLast, Erase, LookForPin, UnpinDeleted, SweepReactions,
         Write, Tell
<1>t. PICK t : t = jobs[h]
  OBVIOUS
<1>j. t \in Job /\ t # NoJob /\ h \in Handlers
  BY <1>0, <1>t, JobIsTyped
<1>f. ASSUME Finish(h)
      PROVE  IsDone(h) /\ \A g \in Handlers \ {h} : jobs'[g] = jobs[g]
  BY <1>0, <1>f, FinishFacts DEF IsDone
<1>g. ASSUME NEW at \in Follows(h), JobTo(h, at)
      PROVE  (\E a \in Follows(h) : GoesOn(h, a)) /\ \A g \in Handlers \ {h} : jobs'[g] = jobs[g]
  <2>1. at \in {"ensure", "insert", "ownread", "count", "commit", "fan", "mention", "schedule",
                "erase", "pinned", "unpin", "sweep", "write", "all", "last", "tell"}
    BY DEF Follows
  <2> QED BY <1>0, <1>g, <2>1, JobGoesOn, JobToFacts
<1>1. CASE EnsureSender(h)
  <2>1. CASE Finish(h)
    BY <1>0, <1>f, <2>1
  <2>2. CASE clock' = clock + 1 /\ jobs' = [jobs EXCEPT ![h].at = "insert", ![h].now = clock + 1]
    <3>1. PICK n : n = [t EXCEPT !.at = "insert", !.now = clock + 1]
      OBVIOUS
    <3>2. /\ n.at = "insert" /\ n.op = t.op /\ n.user = t.user /\ n.id = t.id
          /\ n.text = t.text /\ n.opened = t.opened /\ n.mood = t.mood /\ n.now = clock'
          /\ n.named = t.named
      BY <1>j, <2>2, <3>1 DEF Job
    <3>3. clock + 1 \in Nat
      BY DEF ChatTypeOK
    <3>4. n \in Job
      BY <1>j, <3>1, <3>3 DEF Job
    <3>5. jobs' = [jobs EXCEPT ![h] = n]
      BY <1>t, <2>2, <3>1
    <3>6. jobs'[h] = n /\ \A g \in Handlers \ {h} : jobs'[g] = jobs[g]
      BY <3>5 DEF ChatTypeOK
    <3>7. n # NoJob /\ Busy' = Busy
      BY <1>j, <1>t, <3>4, <3>6, ChatAssumption DEF Busy
    <3>8. t.at = "ensure"
      BY <1>1, <1>t DEF EnsureSender, JobAt
    <3>9. GoesOn(h, "insert") /\ "insert" \in Follows(h)
      BY <1>t, <3>2, <3>4, <3>6, <3>7, <3>8 DEF GoesOn, Follows
    <3> QED BY <1>0, <3>6, <3>9
  <2> QED BY <1>1, <2>1, <2>2 DEF EnsureSender
<1>2. CASE InsertMessage(h)
  <2>1. Finish(h) \/ \E at \in Follows(h) : JobTo(h, at)
    BY <1>2 DEF InsertMessage, Follows, JobAt
  <2> QED BY <1>0, <1>f, <1>g, <2>1
<1>3. CASE ReadOwn(h)
  <2>1. Finish(h) \/ \E at \in Follows(h) : JobTo(h, at)
    BY <1>3 DEF ReadOwn, Follows, JobAt
  <2> QED BY <1>0, <1>f, <1>g, <2>1
<1>4. CASE CountMessage(h)
  <2>1. Finish(h) \/ \E at \in Follows(h) : JobTo(h, at)
    BY <1>4 DEF CountMessage, Follows, JobAt
  <2> QED BY <1>0, <1>f, <1>g, <2>1
<1>5. CASE Commit(h)
  <2>1. Finish(h) \/ \E at \in Follows(h) : JobTo(h, at)
    BY <1>5 DEF Commit, Follows, JobAt
  <2> QED BY <1>0, <1>f, <1>g, <2>1
<1>6. CASE FanOut(h)
  <2>1. Finish(h) \/ \E at \in Follows(h) : JobTo(h, at)
    BY <1>6 DEF FanOut, Follows, JobAt
  <2> QED BY <1>0, <1>f, <1>g, <2>1
<1>7. CASE Mention(h)
  <2>1. PICK m : jobs' = [jobs EXCEPT ![h] = [t EXCEPT !.at = "schedule", !.named = m]]
                   /\ m \in {t.named, Nobody}
    BY <1>7, <1>t DEF Mention
  <2>2. PICK n : n = [t EXCEPT !.at = "schedule", !.named = m]
    OBVIOUS
  <2>3. /\ n.at = "schedule" /\ n.op = t.op /\ n.user = t.user /\ n.id = t.id
        /\ n.text = t.text /\ n.opened = t.opened /\ n.mood = t.mood /\ n.now = t.now
    BY <1>j, <2>2 DEF Job
  <2>4. n \in Job
    BY <1>j, <2>1, <2>2 DEF Job
  <2>5. jobs'[h] = n /\ \A g \in Handlers \ {h} : jobs'[g] = jobs[g]
    BY <2>1, <2>2 DEF ChatTypeOK
  <2>6. n # NoJob /\ Busy' = Busy
    BY <1>j, <1>t, <2>4, <2>5, ChatAssumption DEF Busy
  <2>7. t.at = "mention"
    BY <1>7, <1>t DEF Mention, JobAt
  <2>8. GoesOn(h, "schedule") /\ "schedule" \in Follows(h)
    BY <1>t, <2>3, <2>4, <2>5, <2>6, <2>7 DEF GoesOn, Follows
  <2> QED BY <1>0, <2>5, <2>8
<1>8. CASE Schedule(h)
  BY <1>0, <1>8, <1>f DEF Schedule
<1>9. CASE ReadAll(h)
  <2>1. Finish(h) \/ \E at \in Follows(h) : JobTo(h, at)
    BY <1>9 DEF ReadAll, Follows, JobAt
  <2> QED BY <1>0, <1>f, <1>g, <2>1
<1>10. CASE ReadLast(h)
  BY <1>0, <1>10, <1>f DEF ReadLast
<1>11. CASE Erase(h)
  <2>1. Finish(h) \/ \E at \in Follows(h) : JobTo(h, at)
    BY <1>11 DEF Erase, Follows, JobAt
  <2> QED BY <1>0, <1>f, <1>g, <2>1
<1>12. CASE LookForPin(h)
  <2>1. Finish(h) \/ \E at \in Follows(h) : JobTo(h, at)
    BY <1>12 DEF LookForPin, Follows, JobAt
  <2> QED BY <1>0, <1>f, <1>g, <2>1
<1>13. CASE UnpinDeleted(h)
  <2>1. Finish(h) \/ \E at \in Follows(h) : JobTo(h, at)
    BY <1>13 DEF UnpinDeleted, Follows, JobAt
  <2> QED BY <1>0, <1>f, <1>g, <2>1
<1>14. CASE SweepReactions(h)
  <2>1. Finish(h) \/ \E at \in Follows(h) : JobTo(h, at)
    BY <1>14 DEF SweepReactions, Follows, JobAt
  <2> QED BY <1>0, <1>f, <1>g, <2>1
<1>15. CASE Write(h)
  <2>1. Finish(h) \/ \E at \in Follows(h) : JobTo(h, at)
    BY <1>15 DEF Write, Follows, JobAt
  <2> QED BY <1>0, <1>f, <1>g, <2>1
<1>16. CASE Tell(h)
  BY <1>0, <1>16, <1>f DEF Tell
<1> QED
  BY <1>1, <1>2, <1>3, <1>4, <1>5, <1>6, <1>7, <1>8, <1>9, <1>10, <1>11, <1>12, <1>13, <1>14,
     <1>15, <1>16 DEF HandlerStep

(* All other steps leave the jobs alone, or end them all.                   *)
LEMMA OthersLeaveJobs ==
  ASSUME ChatTypeOK,
         \/ \E c \in chores : ChoreStep(c)
         \/ \E u \in Folk : PeopleStep(u)
         \/ Stop
  PROVE  /\ (jobs' = jobs /\ Busy' = Busy /\ clock' = clock) \/ (Busy' = {} /\ Stop)
         /\ plan' = plan
<1> USE DEF dbVars, readVars, placeVars, seenVars, boundVars
<1>1. ASSUME NEW c \in chores, ChoreStep(c)
      PROVE  UNCHANGED <<jobs, plan, clock>>
  BY <1>1 DEF ChoreStep, AutoRead, AutoLast, Push
<1>2. ASSUME NEW u \in Folk, PeopleStep(u)
      PROVE  UNCHANGED <<jobs, plan, clock>>
  BY <1>2 DEF PeopleStep, MarkRoomRead, Enter, Exit, Watch
<1>3. CASE Stop
  BY <1>3 DEF Stop, Busy
<1>4. CASE UNCHANGED <<jobs, plan, clock>>
  BY <1>4 DEF Busy
<1> QED BY <1>1, <1>2, <1>3, <1>4

LEMMA TimesKept ==
  ASSUME ChatTypeOK, TimesInv, ChatTypeOK', ChatNext
  PROVE  TimesInv'
<1>1. Grows
  BY ChatStepIs, HandlerGrows, OthersGrow
<1>2. \A h \in Busy' : jobs'[h].now <= clock'
  <2>0. clock \in Nat /\ clock' \in Nat /\ clock <= clock'
    BY <1>1 DEF Grows, ChatTypeOK
  <2>1. ASSUME NEW g \in Busy
        PROVE  jobs[g].now <= clock'
    <3>1. jobs[g].now \in Nat /\ jobs[g].now <= clock
      BY JobIsTyped DEF TimesInv, Job
    <3> QED BY <2>0, <3>1
  <2>2. ASSUME NEW h \in Handlers, HandlerStep(h), NEW g \in Busy'
        PROVE  jobs'[g].now <= clock'
    <3>1. CASE g # h
      <4>1. g \in Busy /\ jobs'[g] = jobs[g]
        BY <2>2, <3>1, HandlerMoves DEF Busy
      <4> QED BY <2>1, <4>1
    <3>2. CASE g = h
      <4>1. PICK at : GoesOn(h, at) /\ h \in Busy
        BY <2>2, <3>2, HandlerMoves DEF IsDone, Busy
      <4>2. jobs'[h].now \in {jobs[h].now, clock'}
        BY <4>1 DEF GoesOn
      <4> QED BY <2>0, <2>1, <3>2, <4>1, <4>2
    <3> QED BY <3>1, <3>2
  <2>3. ASSUME NEW h \in Handlers, NEW t, Begins(h, t), NEW g \in Busy'
        PROVE  jobs'[g].now <= clock'
    BY <2>1, <2>3, BeginsFacts DEF Begins, Busy
  <2>4. ASSUME UNCHANGED <<jobs>>, NEW g \in Busy'
        PROVE  jobs'[g].now <= clock'
    BY <2>1, <2>4 DEF Busy
  <2>5. CASE \E h \in Handlers : HandlerStep(h)
    BY <2>2, <2>5
  <2>6. CASE \E h \in Handlers : \E t : Begun(h, t)
    BY <2>3, <2>6 DEF Begun
  <2>7. CASE \E h \in Handlers, u \in Folk : ClearRoomMessages(h, u)
    BY <2>3, <2>7, ClearKeepsTypes
  <2>8. CASE \/ \E c \in chores : ChoreStep(c)
             \/ \E u \in Folk : PeopleStep(u)
             \/ Stop
    BY <2>4, <2>8, OthersLeaveJobs
  <2> QED BY <2>5, <2>6, <2>7, <2>8, ChatStepIs
<1>3. \A i \in Ids : There(i)' => stored'[i].at <= clock'
  <2> SUFFICES ASSUME NEW i \in Ids, There(i)' PROVE stored'[i].at <= clock'
    OBVIOUS
  <2>0. clock \in Nat /\ clock' \in Nat /\ clock <= clock'
    BY <1>1 DEF Grows, ChatTypeOK
  <2>1. CASE There(i)
    <3>1. stored'[i].at = stored[i].at /\ stored[i].at <= clock
      BY <1>1, <2>1 DEF Grows, Same, TimesInv
    <3>2. stored[i].at \in Nat
      BY <2>1 DEF ChatTypeOK, There, Message
    <3> QED BY <2>0, <3>1, <3>2
  <2>2. CASE ~There(i)
    <3>1. PICK h \in Handlers : CameFrom(h, i)
      BY <1>1, <2>2 DEF Grows
    <3>2. h \in Busy /\ stored'[i].at = jobs[h].now
      BY <3>1 DEF CameFrom
    <3>3. jobs[h].now \in Nat /\ jobs[h].now <= clock
      BY <3>2, JobIsTyped DEF TimesInv, Job
    <3> QED BY <2>0, <3>2, <3>3
  <2> QED BY <2>1, <2>2
<1>4. \A u \in Folk : joined'[u] <= clock'
  <2>1. \A u \in Folk : joined[u] \in Nat /\ joined[u] <= clock /\ joined'[u] \in {joined[u], clock}
    BY <1>1 DEF Grows, TimesInv, ChatTypeOK
  <2>2. clock \in Nat /\ clock' \in Nat /\ clock <= clock'
    BY <1>1 DEF Grows, ChatTypeOK
  <2> QED BY <2>1, <2>2
<1> QED BY <1>2, <1>3, <1>4 DEF TimesInv

-----------------------------------------------------------------------------
(* ChatMessages: who is said to have read has read *)

(* bound: no plan lets an INSERT fail where people have the group open.      *)
FailsUnwatched == \A p \in Plans : ~({"watch", "fail"} \subseteq p.ops)

HasRead(u, i) ==
  /\ There(i)
  /\ FailsUnwatched => u \in readBy[i] \/ stored[i].gone \/ stored[i].at <= joined[u]

SendSteps == {"ownread", "count", "fan", "mention", "schedule"}

(* What a job and a chore rely on.                                          *)
JobStands(t) ==
  /\ t.at \in SendSteps => There(t.id) /\ Sender(t.id) = t.user
  /\ t.at = "all" => There(t.id) /\ Sender(t.id) # t.user
  /\ t.at = "last" => HasRead(t.user, t.id)
ChoreStands(c) ==
  There(c.id) /\ (c.do = "last" => \A u \in c.who : HasRead(u, c.id))

StandInv ==
  /\ \A h \in Busy : JobStands(jobs[h])
  /\ \A c \in chores : ChoreStands(c)
  /\ \A u \in Folk : lastRead[u] # NoMessage => HasRead(u, lastRead[u])
  /\ FailsUnwatched /\ Allowed("fail") => watching = {}

LEMMA HasReadKept ==
  ASSUME ChatTypeOK, Grows, NEW u \in Folk, NEW i \in Ids, HasRead(u, i)
  PROVE  HasRead(u, i)'
<1>1. stored[i].at \in Nat /\ joined[u] \in Nat /\ joined'[u] \in Int
  BY DEF HasRead, There, ChatTypeOK, Message, Grows
<1>2. There(i)' /\ stored'[i].at = stored[i].at /\ (stored[i].gone => stored'[i].gone)
  BY DEF HasRead, Grows, Same
<1>3. readBy[i] \subseteq readBy'[i] /\ joined[u] <= joined'[u]
  BY DEF Grows
<1>4. stored[i].at <= joined[u] => stored'[i].at <= joined'[u]
  BY <1>1, <1>2, <1>3
<1> QED BY <1>2, <1>3, <1>4 DEF HasRead

LEMMA JobStandsKept ==
  ASSUME ChatTypeOK, Grows, NEW t \in Job, JobStands(t)
  PROVE  JobStands(t)'
<1>1. t.id \in Ids /\ t.user \in Folk
  BY DEF Job
<1>2. There(t.id) => There(t.id)' /\ Sender(t.id)' = Sender(t.id)
  BY <1>1 DEF Grows, Same
<1>3. HasRead(t.user, t.id) => HasRead(t.user, t.id)'
  BY <1>1, HasReadKept
<1> QED BY <1>2, <1>3 DEF JobStands

LEMMA ChoreStandsKept ==
  ASSUME ChatTypeOK, Grows, NEW c \in chores, ChoreStands(c)
  PROVE  ChoreStands(c)'
<1>0. PICK d : d = c
  OBVIOUS
<1>1. d.id \in Ids /\ d.who \subseteq Folk /\ ChoreStands(d)
  BY <1>0 DEF ChatTypeOK, Chore
<1>2. There(d.id)'
  BY <1>1 DEF Grows, Same, ChoreStands
<1>3. \A u \in d.who : HasRead(u, d.id) => HasRead(u, d.id)'
  BY <1>1, HasReadKept
<1> QED BY <1>0, <1>1, <1>2, <1>3 DEF ChoreStands

(* A job that stays as it is stands.                                        *)
LEMMA JobsStandElsewhere ==
  ASSUME ChatTypeOK, Grows, StandInv, NEW g \in Busy, jobs'[g] = jobs[g]
  PROVE  JobStands(jobs[g])'
<1>1. PICK t : t = jobs[g]
  OBVIOUS
<1>2. t \in Job /\ JobStands(t)
  BY <1>1, JobIsTyped DEF StandInv
<1>3. JobStands(t)'
  BY <1>2, JobStandsKept
<1>4. t = jobs'[g]
  BY <1>1
<1> QED BY <1>3, <1>4 DEF JobStands, HasRead, There, Sender

LEMMA GoesOnStands ==
  ASSUME ChatTypeOK, ChatTypeOK', Grows, StandInv, NEW h \in Busy, HandlerStep(h),
         NEW at \in Follows(h), GoesOn(h, at)
  PROVE  JobStands(jobs[h])'
<1> USE DEF dbVars, readVars, placeVars, seenVars, boundVars
<1>1. PICK t : t = jobs[h]
  OBVIOUS
<1>2. t \in Job /\ t.id \in Ids /\ t.user \in Folk /\ h \in Handlers /\ JobStands(t)
  BY <1>1, JobIsTyped DEF StandInv, Job
<1>3. PICK n : n = jobs'[h]
  OBVIOUS
<1>4. n.at = at /\ n.user = t.user /\ n.id = t.id
  BY <1>1, <1>3 DEF GoesOn
<1>5. JobStands(t)'
  BY <1>2, JobStandsKept
<1>6. CASE t.at \in {"ownread", "count", "fan", "mention"}
  <2>1. at \in SendSteps
    BY <1>1, <1>6 DEF Follows, SendSteps
  <2>2. t.at \in SendSteps
    BY <1>6 DEF SendSteps
  <2>3. There(t.id)' /\ Sender(t.id)' = t.user
    BY <1>5, <2>2 DEF JobStands
  <2>4. at # "all" /\ at # "last"
    BY <2>1 DEF SendSteps
  <2> QED BY <1>3, <1>4, <2>3, <2>4 DEF JobStands, There, Sender
<1>7. CASE t.at \in {"insert", "commit"}
  <2>1. InsertMessage(h) \/ Commit(h)
    BY <1>1, <1>7 DEF HandlerStep, JobAt, EnsureSender, InsertMessage, ReadOwn, CountMessage,
       Commit, FanOut, Mention, Schedule, ReadAll, ReadLast, Erase, LookForPin, UnpinDeleted,
       SweepReactions, Write, Tell
  <2>2. ~Finish(h)
    BY <1>2, FinishFacts DEF GoesOn
  <2>3. ~There(t.id) /\ stored' = Stored(h)
    BY <1>1, <2>1, <2>2 DEF InsertMessage, Commit
  <2>4. There(t.id)' /\ Sender(t.id)' = t.user
    <3>1. jobs'[h] # jobs[h]
      BY <1>1, <1>7 DEF GoesOn, Follows
    <3> QED BY <1>1, <1>2, <1>7, <2>3, <3>1, StoredGrows
  <2>5. at \in SendSteps /\ at # "all" /\ at # "last"
    BY <1>1, <1>7 DEF Follows, SendSteps
  <2> QED BY <1>3, <1>4, <2>4, <2>5 DEF JobStands, There, Sender
<1>8. CASE t.at = "all"
  <2>1. ReadAll(h) /\ at = "last"
    BY <1>1, <1>8 DEF HandlerStep, JobAt, EnsureSender, InsertMessage, ReadOwn, CountMessage,
       Commit, FanOut, Mention, Schedule, ReadAll, ReadLast, Erase, LookForPin, UnpinDeleted,
       SweepReactions, Write, Tell, Follows
  <2>2. ~Finish(h)
    BY <1>2, FinishFacts DEF GoesOn
  <2>3. readBy' = AllRead(t.user) /\ UNCHANGED <<stored, joined>>
    BY <1>1, <2>1, <2>2 DEF ReadAll
  <2>4. There(t.id) /\ Sender(t.id) # t.user
    BY <1>2, <1>8 DEF JobStands
  <2>5. HasRead(t.user, t.id)'
    <3>1. CASE t.id \in Unread(t.user)
      <4>1. t.user \in readBy'[t.id]
        BY <1>2, <2>3, <3>1 DEF AllRead
      <4> QED BY <2>3, <2>4, <4>1 DEF HasRead, There
    <3>2. CASE t.id \notin Unread(t.user)
      <4>1. stored[t.id].gone \/ t.user \in readBy[t.id] \/ ~(stored[t.id].at > joined[t.user])
        BY <1>2, <2>4, <3>2 DEF Unread, Undeleted
      <4>2. stored[t.id].at \in Nat /\ joined[t.user] \in Nat
        BY <1>2, <2>4 DEF ChatTypeOK, There, Message
      <4>3. HasRead(t.user, t.id)
        BY <2>4, <4>1, <4>2 DEF HasRead
      <4> QED BY <1>2, <4>3, HasReadKept
    <3> QED BY <3>1, <3>2
  <2> QED BY <1>3, <1>4, <2>1, <2>5 DEF JobStands, HasRead, There, Sender, SendSteps
<1>9. CASE t.at \notin {"ownread", "count", "fan", "mention", "insert", "commit", "all"}
  <2>1. at \notin SendSteps /\ at # "all" /\ at # "last"
    BY <1>1, <1>9 DEF Follows, SendSteps
  <2> QED BY <1>3, <1>4, <2>1 DEF JobStands
<1> QED BY <1>6, <1>7, <1>8, <1>9

LEMMA HandlerStands ==
  ASSUME ChatTypeOK, ChatTypeOK', StandInv, NEW h \in Handlers, HandlerStep(h)
  PROVE  StandInv'
<1> USE DEF dbVars, readVars, placeVars, seenVars, boundVars
<1>0. h \in Busy /\ Grows
  BY HandlerMoves, HandlerGrows
<1>t. PICK t : t = jobs[h]
  OBVIOUS
<1>j. t \in Job /\ t.id \in Ids /\ t.user \in Folk /\ JobStands(t)
  BY <1>0, <1>t, JobIsTyped DEF StandInv, Job
<1>1. ASSUME NEW g \in Busy'
      PROVE  JobStands(jobs[g])'
  <2>1. CASE g # h
    <3>1. g \in Busy /\ jobs'[g] = jobs[g]
      BY <1>1, <2>1, HandlerMoves DEF Busy
    <3> QED BY <1>0, <3>1, JobsStandElsewhere
  <2>2. CASE g = h
    <3>1. PICK at \in Follows(h) : GoesOn(h, at)
      BY <1>1, <2>2, HandlerMoves DEF IsDone, Busy
    <3>2. JobStands(jobs[h])'
      BY <1>0, <3>1, GoesOnStands
    <3> QED BY <2>2, <3>2
  <2> QED BY <2>1, <2>2
<1>2. ASSUME NEW c \in chores'
      PROVE  ChoreStands(c)'
  <2>1. CASE c \in chores
    <3>1. ChoreStands(c)
      BY <2>1 DEF StandInv
    <3> QED BY <1>0, <2>1, <3>1, ChoreStandsKept
  <2>2. CASE c \notin chores
    <3>1. t.at \in {"fan", "schedule"} /\ c.id = t.id /\ c.do # "last"
      BY <1>2, <1>t, <2>2 DEF HandlerStep, JobAt, EnsureSender, InsertMessage, ReadOwn,
         CountMessage, Commit, FanOut, Mention, Schedule, ReadAll, ReadLast, Erase, LookForPin,
         UnpinDeleted, SweepReactions, Write, Tell
    <3>2. JobStands(t)'
      BY <1>0, <1>j, JobStandsKept
    <3>3. There(t.id)'
      BY <3>1, <3>2 DEF JobStands, SendSteps
    <3> QED BY <3>1, <3>3 DEF ChoreStands
  <2> QED BY <2>1, <2>2
<1>3. ASSUME NEW u \in Folk, lastRead'[u] # NoMessage
      PROVE  HasRead(u, lastRead[u])'
  <2>1. PICK i : i = lastRead'[u]
    OBVIOUS
  <2>2. i \in Ids
    BY <1>3, <2>1 DEF ChatTypeOK
  <2>3. CASE i = lastRead[u]
    <3>1. HasRead(u, i)
      BY <1>3, <2>1, <2>3 DEF StandInv
    <3>2. HasRead(u, i)'
      BY <1>0, <2>2, <3>1, HasReadKept
    <3> QED BY <2>1, <3>2 DEF HasRead, There
  <2>4. CASE i # lastRead[u]
    <3>1. t.at = "last" /\ lastRead' = [lastRead EXCEPT ![t.user] = t.id]
      BY <1>t, <2>1, <2>4 DEF HandlerStep, JobAt, EnsureSender, InsertMessage, ReadOwn,
         CountMessage, Commit, FanOut, Mention, Schedule, ReadAll, ReadLast, Erase, LookForPin,
         UnpinDeleted, SweepReactions, Write, Tell
    <3>2. u = t.user /\ i = t.id
      BY <1>j, <2>1, <2>4, <3>1 DEF ChatTypeOK
    <3>3. HasRead(u, i)
      BY <1>j, <3>1, <3>2 DEF JobStands
    <3>4. HasRead(u, i)'
      BY <1>0, <2>2, <3>3, HasReadKept
    <3> QED BY <2>1, <3>4 DEF HasRead, There
  <2> QED BY <2>3, <2>4
<1>4. UNCHANGED <<watching, plan>>
  BY DEF HandlerStep, JobAt, EnsureSender, InsertMessage, ReadOwn, CountMessage, Commit, FanOut,
         Mention, Schedule, ReadAll, ReadLast, Erase, LookForPin, UnpinDeleted, SweepReactions,
         Write, Tell
<1> HIDE DEF JobStands, ChoreStands, HasRead
<1> QED BY <1>1, <1>2, <1>3, <1>4 DEF StandInv, Allowed

LEMMA ReadersKept ==
  ASSUME ChatTypeOK, ChatTypeOK', Grows, StandInv, lastRead' = lastRead
  PROVE  \A u \in Folk : lastRead'[u] # NoMessage => HasRead(u, lastRead[u])'
<1> SUFFICES ASSUME NEW u \in Folk, lastRead'[u] # NoMessage
             PROVE  HasRead(u, lastRead[u])'
  OBVIOUS
<1>1. PICK i : i = lastRead[u]
  OBVIOUS
<1>2. i \in Ids /\ i = lastRead'[u]
  BY <1>1 DEF ChatTypeOK
<1>3. HasRead(u, i)
  BY <1>1, <1>2 DEF StandInv
<1>4. HasRead(u, i)'
  BY <1>2, <1>3, HasReadKept
<1> QED BY <1>2, <1>4 DEF HasRead, There

LEMMA ChoresStandKept ==
  ASSUME ChatTypeOK, Grows, StandInv, chores' \subseteq chores
  PROVE  \A c \in chores' : ChoreStands(c)'
BY ChoreStandsKept DEF StandInv

LEMMA JobsStandKept ==
  ASSUME ChatTypeOK, Grows, StandInv, UNCHANGED jobs
  PROVE  \A g \in Busy' : JobStands(jobs[g])'
<1>1. \A g \in Busy' : g \in Busy /\ jobs'[g] = jobs[g]
  BY DEF Busy
<1> QED BY <1>1, JobsStandElsewhere

LEMMA ChoreStepStands ==
  ASSUME ChatTypeOK, ChatTypeOK', TimesInv, StandInv, NEW c \in chores, ChoreStep(c)
  PROVE  StandInv'
<1> USE DEF dbVars, readVars, placeVars, seenVars, boundVars
<1>0. Grows
  BY OthersGrow
<1>1. UNCHANGED <<jobs, watching, plan>>
  BY DEF ChoreStep, AutoRead, AutoLast, Push
<1>2. \A g \in Busy' : JobStands(jobs[g])'
  BY <1>0, <1>1, JobsStandKept
<1>3. FailsUnwatched /\ Allowed("fail")' => watching' = {}
  BY <1>1 DEF StandInv, Allowed
<1>d. PICK d : d = c
  OBVIOUS
<1>e. d \in Chore /\ d.id \in Ids /\ d.who \subseteq Folk /\ ChoreStands(d) /\ d \in chores
  BY <1>d DEF ChatTypeOK, Chore, StandInv
<1>g. There(d.id)'
  BY <1>0, <1>e DEF Grows, Same, ChoreStands
<1>4. CASE AutoRead(c)
  <2>1. PICK seen : /\ seen = (d.who \cap watching) \ {Sender(d.id)}
                    /\ chores' = (chores \ {d}) \cup
                         (IF seen = {} THEN {}
                          ELSE {[do |-> "last", id |-> d.id, who |-> seen]})
                    /\ \/ readBy' = [readBy EXCEPT ![d.id] = @ \cup seen]
                       \/ Allowed("fail")
    BY <1>4, <1>d DEF AutoRead
  <2>2. ASSUME NEW e \in chores'
        PROVE  ChoreStands(e)'
    <3>1. CASE e \in chores
      <4>1. ChoreStands(e)
        BY <3>1 DEF StandInv
      <4> QED BY <1>0, <3>1, <4>1, ChoreStandsKept
    <3>2. CASE e \notin chores
      <4>1. e = [do |-> "last", id |-> d.id, who |-> seen] /\ seen # {}
        BY <2>1, <2>2, <3>2
      <4>2. FailsUnwatched => readBy' = [readBy EXCEPT ![d.id] = @ \cup seen]
        BY <2>1, <4>1 DEF StandInv
      <4>3. FailsUnwatched => seen \subseteq readBy'[d.id]
        BY <1>e, <4>2 DEF ChatTypeOK
      <4>4. \A u \in seen : HasRead(u, d.id)'
        BY <1>g, <4>3 DEF HasRead
      <4>5. e.id = d.id /\ e.who = seen
        BY <4>1
      <4> QED BY <1>g, <4>4, <4>5 DEF ChoreStands
    <3> QED BY <3>1, <3>2
  <2>3. lastRead' = lastRead
    BY <1>4 DEF AutoRead
  <2>4. \A u \in Folk : lastRead'[u] # NoMessage => HasRead(u, lastRead[u])'
    BY <1>0, <2>3, ReadersKept
  <2> HIDE DEF JobStands, ChoreStands, HasRead
  <2> QED BY <1>2, <1>3, <2>2, <2>4 DEF StandInv
<1>5. CASE AutoLast(c)
  <2>1. chores' \subseteq chores /\ d.do = "last"
    BY <1>5, <1>d DEF AutoLast
  <2>2. \A e \in chores' : ChoreStands(e)'
    BY <1>0, <2>1, ChoresStandKept
  <2>3. ASSUME NEW u \in Folk, lastRead'[u] # NoMessage
        PROVE  HasRead(u, lastRead[u])'
    <3>1. PICK i : i = lastRead'[u]
      OBVIOUS
    <3>2. i \in Ids
      BY <2>3, <3>1 DEF ChatTypeOK
    <3>3. HasRead(u, i)
      <4>1. CASE u \in d.who
        <5>1. i = d.id
          BY <1>5, <1>d, <3>1, <4>1 DEF AutoLast
        <5> QED BY <1>e, <2>1, <4>1, <5>1 DEF ChoreStands
      <4>2. CASE u \notin d.who
        <5>1. i = lastRead[u]
          BY <1>5, <1>d, <3>1, <4>2 DEF AutoLast
        <5> QED BY <2>3, <3>1, <5>1 DEF StandInv
      <4> QED BY <4>1, <4>2
    <3>4. HasRead(u, i)'
      BY <1>0, <3>2, <3>3, HasReadKept
    <3> QED BY <3>1, <3>4 DEF HasRead, There
  <2> HIDE DEF JobStands, ChoreStands, HasRead
  <2> QED BY <1>2, <1>3, <2>2, <2>3 DEF StandInv
<1>6. CASE Push(c)
  <2>1. chores' \subseteq chores /\ lastRead' = lastRead
    BY <1>6 DEF Push
  <2>2. \A e \in chores' : ChoreStands(e)'
    BY <1>0, <2>1, ChoresStandKept
  <2>3. \A u \in Folk : lastRead'[u] # NoMessage => HasRead(u, lastRead[u])'
    BY <1>0, <2>1, ReadersKept
  <2> HIDE DEF JobStands, ChoreStands, HasRead
  <2> QED BY <1>2, <1>3, <2>2, <2>3 DEF StandInv
<1> QED BY <1>4, <1>5, <1>6 DEF ChoreStep

LEMMA PeopleStand ==
  ASSUME ChatTypeOK, ChatTypeOK', TimesInv, StandInv,
         (\E u \in Folk : PeopleStep(u)) \/ Stop
  PROVE  StandInv'
<1> USE DEF dbVars, readVars, placeVars, seenVars, boundVars
<1>0. Grows
  BY OthersGrow
<1>1. chores' \subseteq chores /\ lastRead' = lastRead /\ plan' = plan
  BY DEF PeopleStep, MarkRoomRead, Enter, Exit, Watch, Stop
<1>2. \A g \in Busy' : JobStands(jobs[g])'
  <2>1. jobs' = jobs \/ Busy' = {}
    BY OthersLeaveJobs
  <2> QED BY <1>0, <2>1, JobsStandKept
<1>3. \A e \in chores' : ChoreStands(e)'
  BY <1>0, <1>1, ChoresStandKept
<1>4. \A u \in Folk : lastRead'[u] # NoMessage => HasRead(u, lastRead[u])'
  BY <1>0, <1>1, ReadersKept
<1>5. FailsUnwatched /\ Allowed("fail")' => watching' = {}
  <2>1. watching' = watching \/ watching' = {} \/ Allowed("watch")
    BY DEF PeopleStep, MarkRoomRead, Enter, Exit, Watch, Stop
  <2>2. FailsUnwatched => ~(Allowed("watch") /\ Allowed("fail"))
    BY DEF FailsUnwatched, Allowed, ChatTypeOK
  <2> QED BY <1>1, <2>1, <2>2 DEF StandInv, Allowed
<1> HIDE DEF JobStands, ChoreStands, HasRead
<1> QED BY <1>2, <1>3, <1>4, <1>5 DEF StandInv

(* A handler begins, or clears a room as its first step.                    *)
LEMMA BeginsStands ==
  ASSUME ChatTypeOK, ChatTypeOK', Grows, StandInv, NEW h \in Handlers, NEW t, Begins(h, t),
         t.at \in {"ensure", "insert", "commit", "erase", "all", "write", "tell"},
         t.at = "all" => t.id \in Unread(t.user),
         UNCHANGED <<stored, readBy, joined>> \/ t.at # "all",
         UNCHANGED <<lastRead, watching, chores, plan>>
  PROVE  StandInv'
<1>1. ASSUME NEW g \in Busy'
      PROVE  JobStands(jobs[g])'
  <2>1. CASE g # h
    <3>1. g \in Busy /\ jobs'[g] = jobs[g]
      BY <1>1, <2>1, BeginsFacts DEF Busy
    <3> QED BY <3>1, JobsStandElsewhere
  <2>2. CASE g = h
    <3>1. jobs'[h] = t /\ t \in Job
      BY BeginsFacts
    <3>2. t.at \notin SendSteps /\ t.at # "last"
      BY DEF SendSteps
    <3>3. t.at = "all" => There(t.id)' /\ Sender(t.id)' # t.user
      BY <3>1 DEF Unread, Undeleted, There, Sender
    <3>4. JobStands(t)'
      BY <3>2, <3>3 DEF JobStands
    <3> QED BY <2>2, <3>1, <3>4 DEF JobStands, HasRead, There, Sender
  <2> QED BY <2>1, <2>2
<1>2. \A e \in chores' : ChoreStands(e)'
  BY ChoresStandKept
<1>3. \A u \in Folk : lastRead'[u] # NoMessage => HasRead(u, lastRead[u])'
  BY ReadersKept
<1>4. FailsUnwatched /\ Allowed("fail")' => watching' = {}
  BY DEF StandInv, Allowed
<1> HIDE DEF JobStands, ChoreStands, HasRead
<1> QED BY <1>1, <1>2, <1>3, <1>4 DEF StandInv

LEMMA ChatStands ==
  ASSUME ChatTypeOK, ChatTypeOK', TimesInv, StandInv, ChatNext
  PROVE  StandInv'
<1> USE DEF dbVars, readVars, placeVars, seenVars, boundVars
<1>0. Grows
  BY ChatStepIs, HandlerGrows, OthersGrow
<1>1. CASE \E h \in Handlers : HandlerStep(h)
  BY <1>1, HandlerStands
<1>2. ASSUME NEW h \in Handlers, NEW t, Begun(h, t)
      PROVE  StandInv'
  <2>1. /\ Begins(h, t) /\ t.at \in {"ensure", "insert", "commit", "erase", "all", "write"}
        /\ (t.at = "all" => t.id \in Unread(t.user))
        /\ UNCHANGED <<stored, readBy, joined>> /\ UNCHANGED <<lastRead, watching, chores, plan>>
    BY <1>2 DEF Begun, Meant, Rest
  <2> QED BY <1>0, <2>1, BeginsStands
<1>3. ASSUME NEW h \in Handlers, NEW u \in Folk, ClearRoomMessages(h, u)
      PROVE  StandInv'
  <2>1. PICK t : Begins(h, t) /\ t.at = "tell"
    BY <1>3, ClearKeepsTypes
  <2>2. UNCHANGED <<lastRead, watching, chores, plan>>
    BY <1>3 DEF ClearRoomMessages
  <2> QED BY <1>0, <2>1, <2>2, BeginsStands
<1>4. CASE \E c \in chores : ChoreStep(c)
  BY <1>4, ChoreStepStands
<1>5. CASE (\E u \in Folk : PeopleStep(u)) \/ Stop
  BY <1>5, PeopleStand
<1> QED BY <1>1, <1>2, <1>3, <1>4, <1>5, ChatStepIs

LEMMA ChatTypesKept ==
  ASSUME ChatTypeOK, TimesInv, ChatNext
  PROVE  ChatTypeOK'
BY ChatStepIs, HandlerKeepsTypes, BegunKeepsTypes, ClearKeepsTypes, OthersKeepTypes

LEMMA ChatInitStands ==
  ASSUME ChatInit
  PROVE  ChatTypeOK /\ TimesInv /\ StandInv
<1>1. Busy = {}
  BY DEF Busy, ChatInit
<1>2. ChatTypeOK
  BY DEF ChatInit, ChatTypeOK
<1>3. TimesInv
  BY <1>1 DEF TimesInv, ChatInit, There
<1>4. StandInv
  BY <1>1 DEF StandInv, ChatInit
<1> QED BY <1>2, <1>3, <1>4

LEMMA ChatStutters ==
  ASSUME UNCHANGED chatVars
  PROVE  /\ ChatTypeOK => ChatTypeOK'
         /\ TimesInv => TimesInv'
         /\ StandInv => StandInv'
<1> USE DEF chatVars, dbVars, readVars, placeVars, seenVars, boundVars
<1>1. ChatTypeOK => ChatTypeOK'
  BY DEF ChatTypeOK
<1>2. TimesInv => TimesInv'
  BY DEF TimesInv, There, Busy
<1>3. StandInv => StandInv'
  BY DEF StandInv, JobStands, ChoreStands, HasRead, There, Sender, Busy, Allowed
<1> QED BY <1>1, <1>2, <1>3

ChatInv == ChatTypeOK /\ TimesInv /\ StandInv

LEMMA ChatInvHolds == ChatSpec => []ChatInv
<1>1. ChatInit => ChatInv
  BY ChatInitStands DEF ChatInv
<1>2. ChatInv /\ [ChatNext]_chatVars => ChatInv'
  BY ChatTypesKept, TimesKept, ChatStands, ChatStutters DEF ChatInv
<1> QED BY <1>1, <1>2, PTL DEF ChatSpec

(* The types, and how far the members of a group have read: a last read      *)
(* message is there, and its reader is among those who read it, unless it    *)
(* was deleted or is older than the reader's return.  For any messages,      *)
(* people, plans and number of handlers, as long as no plan lets the insert  *)
(* of those who look at the group fail: then the code moves last_read all    *)
(* the same (group_message_handler.go:490).                                  *)
THEOREM MessagesRule ==
  FailsUnwatched /\ ChatSpec => []MessagesAreSound
<1> SUFFICES ASSUME FailsUnwatched PROVE ChatSpec => []MessagesAreSound
  OBVIOUS
<1>1. ChatInv => MessagesAreSound
  BY DEF ChatInv, StandInv, MessagesAreSound, ReadersHaveRead, HasRead
<1> QED BY <1>1, ChatInvHolds, PTL

-----------------------------------------------------------------------------
(* ChatMessages: nobody is notified twice *)

(* From the INSERT on a message has one handler, and then at most one timer; *)
(* whom they have still to tell has not been told.                          *)
ToldInv ==
  /\ \A g, h \in Busy : /\ jobs[g].at \in SendSteps /\ jobs[h].at \in SendSteps
                        /\ jobs[g].id = jobs[h].id
                        => g = h
  /\ \A c, d \in chores : c.do = "push" /\ d.do = "push" /\ c.id = d.id => c = d
  /\ \A c \in chores, h \in Busy :
       c.do = "push" /\ jobs[h].at \in SendSteps => c.id # jobs[h].id
  /\ \A c \in chores : c.do = "push" =>
       \A u \in c.who : told[c.id][u] = 0 /\ u # Sender(c.id)
  /\ \A i \in Ids, u \in Folk :
       told[i][u] <= 1 /\ (told[i][u] > 0 => There(i) /\ u # Sender(i))
  /\ \A h \in Busy : jobs[h].at \in SendSteps =>
       \A u \in Folk : told[jobs[h].id][u] > 0 =>
         jobs[h].at = "schedule" /\ u \in Mentioned(jobs[h].named)

(* A step that notifies nobody, leaves no timer and stores no message.      *)
LEMMA QuietTold ==
  ASSUME ChatTypeOK, Grows, StandInv, ToldInv, told' = told,
         \A c \in chores' : c.do = "push" => c \in chores,
         \A g \in Busy' : jobs'[g].at \in SendSteps =>
           /\ g \in Busy /\ jobs[g].at \in SendSteps /\ jobs'[g].id = jobs[g].id
           /\ \/ jobs[g].at # "schedule"
              \/ jobs'[g].at = jobs[g].at /\ jobs'[g].named = jobs[g].named
  PROVE  ToldInv'
<1>1. \A g, h \in Busy' : /\ jobs'[g].at \in SendSteps /\ jobs'[h].at \in SendSteps
                          /\ jobs'[g].id = jobs'[h].id
                          => g = h
  BY DEF ToldInv
<1>2. \A c, d \in chores' : c.do = "push" /\ d.do = "push" /\ c.id = d.id => c = d
  BY DEF ToldInv
<1>3. \A c \in chores', h \in Busy' :
        c.do = "push" /\ jobs'[h].at \in SendSteps => c.id # jobs'[h].id
  BY DEF ToldInv
<1>4. \A c \in chores' : c.do = "push" =>
        \A u \in c.who : told'[c.id][u] = 0 /\ u # Sender(c.id)'
  <2> SUFFICES ASSUME NEW c \in chores', c.do = "push", NEW u \in c.who
               PROVE  told'[c.id][u] = 0 /\ u # Sender(c.id)'
    OBVIOUS
  <2>1. c \in chores /\ c.id \in Ids /\ There(c.id)
    BY DEF StandInv, ChoreStands, ChatTypeOK, Chore
  <2>2. told[c.id][u] = 0 /\ u # Sender(c.id)
    BY <2>1 DEF ToldInv
  <2>3. Sender(c.id)' = Sender(c.id)
    BY <2>1 DEF Grows, Same
  <2> QED BY <2>2, <2>3
<1>5. \A i \in Ids, u \in Folk :
        told'[i][u] <= 1 /\ (told'[i][u] > 0 => There(i)' /\ u # Sender(i)')
  BY DEF ToldInv, Grows, Same
<1>6. \A h \in Busy' : jobs'[h].at \in SendSteps =>
        \A u \in Folk : told'[jobs'[h].id][u] > 0 =>
          jobs'[h].at = "schedule" /\ u \in Mentioned(jobs'[h].named)
  BY DEF ToldInv
<1> HIDE DEF There, Sender, Mentioned
<1> QED BY <1>1, <1>2, <1>3, <1>4, <1>5, <1>6 DEF ToldInv

LEMMA ToldElsewhere ==
  ASSUME NEW h \in Handlers, HandlerStep(h), jobs[h].at \notin {"mention"}
  PROVE  told' = told
BY DEF HandlerStep, JobAt, EnsureSender, InsertMessage, ReadOwn,
   CountMessage, Commit, FanOut, Mention, Schedule, ReadAll, ReadLast, Erase, LookForPin,
   UnpinDeleted, SweepReactions, Write, Tell, seenVars

LEMMA PushElsewhere ==
  ASSUME NEW h \in Handlers, HandlerStep(h), jobs[h].at # "schedule"
  PROVE  \A c \in chores' : c.do = "push" => c \in chores
BY DEF HandlerStep, JobAt, EnsureSender, InsertMessage, ReadOwn,
   CountMessage, Commit, FanOut, Mention, Schedule, ReadAll, ReadLast, Erase, LookForPin,
   UnpinDeleted, SweepReactions, Write, Tell

(* The message comes in.                                                    *)
LEMMA ComingTold ==
  ASSUME ChatTypeOK, Grows, StandInv, ToldInv, NEW h \in Busy, told' = told, Busy' = Busy,
         \A c \in chores' : c.do = "push" => c \in chores,
         \A g \in Handlers \ {h} : jobs'[g] = jobs[g],
         ~There(jobs[h].id), jobs'[h].id = jobs[h].id
  PROVE  ToldInv'
<1>0. /\ jobs[h].id \in Ids
      /\ \A g \in Busy : g # h => jobs'[g] = jobs[g]
  BY JobIsTyped DEF Job, Busy
<1>a. PICK i \in Ids : i = jobs[h].id
  BY <1>0
<1>b. \A u \in Folk : told[i][u] = 0
  BY <1>a DEF ToldInv, ChatTypeOK
<1>c. \A c \in chores : c.id # i
  BY <1>a DEF StandInv, ChoreStands
<1>d. \A g \in Busy : jobs[g].at \in SendSteps => jobs[g].id # i
  BY <1>a DEF StandInv, JobStands
<1>1. \A f, g \in Busy' : /\ jobs'[f].at \in SendSteps /\ jobs'[g].at \in SendSteps
                          /\ jobs'[f].id = jobs'[g].id
                          => f = g
  BY <1>0, <1>a, <1>d DEF ToldInv
<1>2. \A c, d \in chores' : c.do = "push" /\ d.do = "push" /\ c.id = d.id => c = d
  BY DEF ToldInv
<1>3. \A c \in chores', g \in Busy' :
        c.do = "push" /\ jobs'[g].at \in SendSteps => c.id # jobs'[g].id
  BY <1>0, <1>a, <1>c DEF ToldInv
<1>4. \A c \in chores' : c.do = "push" =>
        \A u \in c.who : told'[c.id][u] = 0 /\ u # Sender(c.id)'
  <2> SUFFICES ASSUME NEW c \in chores', c.do = "push", NEW u \in c.who
               PROVE  told'[c.id][u] = 0 /\ u # Sender(c.id)'
    OBVIOUS
  <2>1. c \in chores /\ c.id \in Ids /\ There(c.id)
    BY DEF StandInv, ChoreStands, ChatTypeOK, Chore
  <2>2. told[c.id][u] = 0 /\ u # Sender(c.id)
    BY <2>1 DEF ToldInv
  <2>3. Sender(c.id)' = Sender(c.id)
    BY <2>1 DEF Grows, Same
  <2> QED BY <2>2, <2>3
<1>5. \A j \in Ids, u \in Folk :
        told'[j][u] <= 1 /\ (told'[j][u] > 0 => There(j)' /\ u # Sender(j)')
  BY DEF ToldInv, Grows, Same
<1>6. \A g \in Busy' : jobs'[g].at \in SendSteps =>
        \A u \in Folk : told'[jobs'[g].id][u] > 0 =>
          jobs'[g].at = "schedule" /\ u \in Mentioned(jobs'[g].named)
  <2> SUFFICES ASSUME NEW g \in Busy', jobs'[g].at \in SendSteps, NEW u \in Folk,
                      told'[jobs'[g].id][u] > 0
               PROVE  jobs'[g].at = "schedule" /\ u \in Mentioned(jobs'[g].named)
    OBVIOUS
  <2>1. g # h
    BY <1>a, <1>b
  <2> QED BY <1>0, <2>1 DEF ToldInv
<1> HIDE DEF There, Sender, Mentioned
<1> QED BY <1>1, <1>2, <1>3, <1>4, <1>5, <1>6 DEF ToldInv

LEMMA NotifyFacts ==
  ASSUME ChatTypeOK, NEW i \in Ids, NEW who, Notify(i, who)
  PROVE  /\ \A j \in Ids : j # i => told'[j] = told[j]
         /\ \A u \in Folk : told'[i][u] = IF u \in who THEN told[i][u] + 1 ELSE told[i][u]
<1>1. PICK f : f = [u \in Folk |-> IF u \in who THEN told[i][u] + 1 ELSE told[i][u]]
  OBVIOUS
<1>2. told' = [told EXCEPT ![i] = f]
  BY <1>1 DEF Notify
<1>3. told'[i] = f /\ \A j \in Ids : j # i => told'[j] = told[j]
  BY <1>2 DEF ChatTypeOK
<1> QED BY <1>1, <1>3

LEMMA MentionGoesOn ==
  ASSUME ChatTypeOK, NEW h \in Busy, Mention(h)
  PROVE  ~IsDone(h)
<1>1. PICK t \in Job : t = jobs[h] /\ h \in Handlers
  BY JobIsTyped
<1>2. PICK n \in {t.named, Nobody} :
        jobs' = [jobs EXCEPT ![h] = [t EXCEPT !.at = "schedule", !.named = n]]
  BY <1>1 DEF Mention
<1>3. [t EXCEPT !.at = "schedule", !.named = n] \in Job
  BY DEF Job
<1>4. jobs'[h] = [t EXCEPT !.at = "schedule", !.named = n]
  BY <1>1, <1>2 DEF ChatTypeOK
<1>5. jobs'[h] # NoJob
  BY <1>3, <1>4, ChatAssumption
<1> QED BY <1>5 DEF IsDone

LEMMA MentionTold ==
  ASSUME ChatTypeOK, Grows, StandInv, ToldInv, NEW h \in Busy, Mention(h)
  PROVE  ToldInv'
<1>1. PICK t : t = jobs[h]
  OBVIOUS
<1>2. t \in Job /\ t.id \in Ids /\ t.user \in Folk /\ h \in Handlers /\ JobStands(t)
  BY <1>1, JobIsTyped DEF StandInv, Job
<1>3. t.at = "mention" /\ t.at \in SendSteps
  BY <1>1 DEF Mention, JobAt, SendSteps
<1>4. PICK i \in Ids : i = t.id
  BY <1>2
<1>5. There(i) /\ Sender(i) = t.user
  BY <1>2, <1>3, <1>4 DEF JobStands
<1>6. There(i)' /\ Sender(i)' = t.user
  BY <1>5 DEF Grows, Same
<1>7. PICK n : n = IF t.named \in Folk \ inside THEN Nobody ELSE t.named
  OBVIOUS
<1>8. PICK w : w = {u \in inside \ {t.user} :
                      u = t.named \/ (t.named = Everybody /\ u \notin Muted)} \ watching
  OBVIOUS
<1>9. Notify(i, w)
  BY <1>1, <1>4, <1>8 DEF Mention
<1>10. \A u \in w : u \in Mentioned(n) /\ u # t.user
  BY <1>7, <1>8, ChatAssumption DEF Mentioned, ChatTypeOK
<1>11. jobs'[h].at = "schedule" /\ jobs'[h].id = i /\ jobs'[h].named = n /\ Busy' = Busy
  <2>1. jobs' = [jobs EXCEPT ![h] = [t EXCEPT !.at = "schedule", !.named = n]]
    BY <1>1, <1>7 DEF Mention
  <2>2. PICK m : m = [t EXCEPT !.at = "schedule", !.named = n]
    OBVIOUS
  <2>3. m.at = "schedule" /\ m.id = i /\ m.named = n
    BY <1>2, <1>4, <2>2 DEF Job
  <2>4. jobs'[h] = m
    BY <1>2, <2>1, <2>2 DEF ChatTypeOK
  <2>5. HandlerStep(h)
    BY DEF HandlerStep
  <2>6. Busy' = Busy
    <3>2. \E at \in Follows(h) : GoesOn(h, at)
      BY <1>2, <2>5, HandlerMoves, MentionGoesOn
    <3> QED BY <3>2 DEF GoesOn
  <2> QED BY <2>3, <2>4, <2>6
<1>12. \A g \in Busy : g # h => jobs'[g] = jobs[g]
  <2>1. HandlerStep(h)
    BY DEF HandlerStep
  <2> QED BY <1>2, <2>1, HandlerMoves DEF Busy
<1>13. chores' = chores
  BY DEF Mention
<1>14. /\ \A j \in Ids : j # i => told'[j] = told[j]
       /\ \A u \in Folk : told'[i][u] = IF u \in w THEN told[i][u] + 1 ELSE told[i][u]
  BY <1>9, NotifyFacts
<1>15. \A u \in Folk : told[i][u] = 0
  <2> SUFFICES ASSUME NEW u \in Folk PROVE told[i][u] = 0
    OBVIOUS
  <2>1. told[i][u] \in Nat
    BY DEF ChatTypeOK
  <2>2. ~(told[i][u] > 0)
    BY <1>1, <1>3, <1>4 DEF ToldInv
  <2> QED BY <2>1, <2>2
<1>16. \A u \in Folk : told'[i][u] = IF u \in w THEN 1 ELSE 0
  BY <1>14, <1>15
<1>17. \A c \in chores : c.do = "push" => c.id # i
  BY <1>1, <1>3, <1>4 DEF ToldInv
<1>18. \A g \in Busy : jobs[g].at \in SendSteps /\ g # h => jobs[g].id # i
  BY <1>1, <1>3, <1>4 DEF ToldInv
<1>a. \A f, g \in Busy' : /\ jobs'[f].at \in SendSteps /\ jobs'[g].at \in SendSteps
                          /\ jobs'[f].id = jobs'[g].id
                          => f = g
  BY <1>11, <1>12, <1>18 DEF ToldInv
<1>b. \A c, d \in chores' : c.do = "push" /\ d.do = "push" /\ c.id = d.id => c = d
  BY <1>13 DEF ToldInv
<1>c. \A c \in chores', g \in Busy' :
        c.do = "push" /\ jobs'[g].at \in SendSteps => c.id # jobs'[g].id
  BY <1>11, <1>12, <1>13, <1>17 DEF ToldInv
<1>d. \A c \in chores' : c.do = "push" =>
        \A u \in c.who : told'[c.id][u] = 0 /\ u # Sender(c.id)'
  <2> SUFFICES ASSUME NEW c \in chores', c.do = "push", NEW u \in c.who
               PROVE  told'[c.id][u] = 0 /\ u # Sender(c.id)'
    OBVIOUS
  <2>1. c \in chores /\ c.id \in Ids /\ There(c.id) /\ c.id # i
    BY <1>13, <1>17 DEF StandInv, ChoreStands, ChatTypeOK, Chore
  <2>2. told[c.id][u] = 0 /\ u # Sender(c.id)
    BY <2>1 DEF ToldInv
  <2>3. Sender(c.id)' = Sender(c.id)
    BY <2>1 DEF Grows, Same
  <2>4. told'[c.id] = told[c.id]
    BY <1>14, <2>1
  <2> QED BY <2>2, <2>3, <2>4
<1>e. \A j \in Ids, u \in Folk :
        told'[j][u] <= 1 /\ (told'[j][u] > 0 => There(j)' /\ u # Sender(j)')
  <2> SUFFICES ASSUME NEW j \in Ids, NEW u \in Folk
               PROVE  told'[j][u] <= 1 /\ (told'[j][u] > 0 => There(j)' /\ u # Sender(j)')
    OBVIOUS
  <2>1. CASE j = i
    BY <1>6, <1>10, <1>16, <2>1
  <2>2. CASE j # i
    BY <1>14, <2>2 DEF ToldInv, Grows, Same
  <2> QED BY <2>1, <2>2
<1>f. \A g \in Busy' : jobs'[g].at \in SendSteps =>
        \A u \in Folk : told'[jobs'[g].id][u] > 0 =>
          jobs'[g].at = "schedule" /\ u \in Mentioned(jobs'[g].named)
  <2> SUFFICES ASSUME NEW g \in Busy', jobs'[g].at \in SendSteps, NEW u \in Folk,
                      told'[jobs'[g].id][u] > 0
               PROVE  jobs'[g].at = "schedule" /\ u \in Mentioned(jobs'[g].named)
    OBVIOUS
  <2>1. CASE g = h
    <3>1. u \in w
      BY <1>11, <1>16, <2>1
    <3> QED BY <1>10, <1>11, <2>1, <3>1
  <2>2. CASE g # h
    <3>1. g \in Busy /\ jobs'[g] = jobs[g] /\ jobs[g].id # i /\ jobs[g].id \in Ids
      BY <1>11, <1>12, <1>18, <2>2, JobIsTyped DEF Job
    <3>2. told'[jobs[g].id] = told[jobs[g].id]
      BY <1>14, <3>1
    <3> QED BY <3>1, <3>2 DEF ToldInv
  <2> QED BY <2>1, <2>2
<1> HIDE DEF There, Sender, Mentioned
<1> QED BY <1>a, <1>b, <1>c, <1>d, <1>e, <1>f DEF ToldInv

LEMMA ScheduleTold ==
  ASSUME ChatTypeOK, Grows, StandInv, ToldInv, NEW h \in Busy, Schedule(h)
  PROVE  ToldInv'
<1>1. PICK t : t = jobs[h]
  OBVIOUS
<1>2. t \in Job /\ t.id \in Ids /\ t.user \in Folk /\ h \in Handlers /\ JobStands(t)
  BY <1>1, JobIsTyped DEF StandInv, Job
<1>3. t.at = "schedule" /\ t.at \in SendSteps
  BY <1>1 DEF Schedule, JobAt, SendSteps
<1>4. PICK i \in Ids : i = t.id
  BY <1>2
<1>5. There(i) /\ Sender(i) = t.user
  BY <1>2, <1>3, <1>4 DEF JobStands
<1>6. There(i)' /\ Sender(i)' = t.user
  BY <1>5 DEF Grows, Same
<1>7. PICK w : w = inside \ ({t.user} \cup Muted \cup Mentioned(t.named))
  OBVIOUS
<1>8. PICK p : p = [do |-> "push", id |-> i, who |-> w]
  OBVIOUS
<1>9. \A c \in chores' : c \in chores \/ c = p
  BY <1>1, <1>4, <1>7, <1>8 DEF Schedule
<1>10. p.id = i /\ p.do = "push" /\ p.who = w
  BY <1>8
<1>11. Finish(h) /\ told' = told
  BY DEF Schedule, seenVars
<1>12. \A g \in Busy' : g \in Busy /\ g # h /\ jobs'[g] = jobs[g]
  BY <1>11, FinishFacts DEF Busy
<1>13. \A u \in w : u \in Folk /\ u # t.user /\ told[i][u] = 0
  <2> SUFFICES ASSUME NEW u \in w PROVE u \in Folk /\ u # t.user /\ told[i][u] = 0
    OBVIOUS
  <2>1. u \in Folk /\ u # t.user /\ u \notin Mentioned(t.named)
    BY <1>7 DEF ChatTypeOK
  <2>2. told[i][u] \in Nat
    BY <2>1 DEF ChatTypeOK
  <2>3. ~(told[i][u] > 0)
    BY <1>1, <1>3, <1>4, <2>1 DEF ToldInv
  <2> QED BY <2>1, <2>2, <2>3
<1>17. \A c \in chores : c.do = "push" => c.id # i
  BY <1>1, <1>3, <1>4 DEF ToldInv
<1>18. \A g \in Busy : jobs[g].at \in SendSteps /\ g # h => jobs[g].id # i
  BY <1>1, <1>3, <1>4 DEF ToldInv
<1>a. \A f, g \in Busy' : /\ jobs'[f].at \in SendSteps /\ jobs'[g].at \in SendSteps
                          /\ jobs'[f].id = jobs'[g].id
                          => f = g
  BY <1>12 DEF ToldInv
<1>b. \A c, d \in chores' : c.do = "push" /\ d.do = "push" /\ c.id = d.id => c = d
  BY <1>9, <1>10, <1>17 DEF ToldInv
<1>c. \A c \in chores', g \in Busy' :
        c.do = "push" /\ jobs'[g].at \in SendSteps => c.id # jobs'[g].id
  BY <1>9, <1>10, <1>12, <1>18 DEF ToldInv
<1>d. \A c \in chores' : c.do = "push" =>
        \A u \in c.who : told'[c.id][u] = 0 /\ u # Sender(c.id)'
  <2> SUFFICES ASSUME NEW c \in chores', c.do = "push", NEW u \in c.who
               PROVE  told'[c.id][u] = 0 /\ u # Sender(c.id)'
    OBVIOUS
  <2>1. CASE c = p
    BY <1>6, <1>10, <1>11, <1>13, <2>1
  <2>2. CASE c \in chores
    <3>1. c.id \in Ids /\ There(c.id)
      BY <2>2 DEF StandInv, ChoreStands, ChatTypeOK, Chore
    <3>2. told[c.id][u] = 0 /\ u # Sender(c.id)
      BY <2>2 DEF ToldInv
    <3>3. Sender(c.id)' = Sender(c.id)
      BY <3>1 DEF Grows, Same
    <3> QED BY <1>11, <3>2, <3>3
  <2> QED BY <1>9, <2>1, <2>2
<1>e. \A j \in Ids, u \in Folk :
        told'[j][u] <= 1 /\ (told'[j][u] > 0 => There(j)' /\ u # Sender(j)')
  BY <1>11 DEF ToldInv, Grows, Same
<1>f. \A g \in Busy' : jobs'[g].at \in SendSteps =>
        \A u \in Folk : told'[jobs'[g].id][u] > 0 =>
          jobs'[g].at = "schedule" /\ u \in Mentioned(jobs'[g].named)
  BY <1>11, <1>12 DEF ToldInv
<1> HIDE DEF There, Sender, Mentioned
<1> QED BY <1>a, <1>b, <1>c, <1>d, <1>e, <1>f DEF ToldInv

LEMMA PushTold ==
  ASSUME ChatTypeOK, Grows, StandInv, ToldInv, NEW p \in chores, Push(p)
  PROVE  ToldInv'
<1>1. PICK i, w : i = p.id /\ w = p.who
  OBVIOUS
<1>2. i \in Ids /\ w \subseteq Folk /\ There(i)
  BY <1>1 DEF ChatTypeOK, Chore, StandInv, ChoreStands
<1>3. p.do = "push" /\ chores' = chores \ {p} /\ jobs' = jobs
  BY DEF Push
<1>4. PICK away \in SUBSET w : Notify(i, away)
  <2>1. PICK away : /\ away = (IF Group THEN w \ (readBy[i] \cup watching)
                               ELSE {u \in w \cap inside : readTo[u] < stored[i].at})
                    /\ Notify(i, away)
    BY <1>1 DEF Push
  <2>2. away \in SUBSET w
    BY <2>1
  <2> QED BY <2>1, <2>2
<1>5. \A u \in w : told[i][u] = 0 /\ u # Sender(i)
  BY <1>1, <1>3 DEF ToldInv
<1>6. /\ \A j \in Ids : j # i => told'[j] = told[j]
      /\ \A u \in Folk : told'[i][u] = IF u \in away THEN told[i][u] + 1 ELSE told[i][u]
  BY <1>2, <1>4, NotifyFacts
<1>7. \A u \in Folk : told'[i][u] = IF u \in away THEN 1 ELSE told[i][u]
  BY <1>4, <1>5, <1>6
<1>8. There(i)' /\ Sender(i)' = Sender(i)
  BY <1>2 DEF Grows, Same
<1>9. Busy' = Busy /\ \A g \in Busy : jobs'[g] = jobs[g]
  BY <1>3 DEF Busy
<1>10. \A c \in chores' : c \in chores /\ (c.do = "push" => c.id # i)
  BY <1>1, <1>3 DEF ToldInv
<1>11. \A g \in Busy : jobs[g].at \in SendSteps => jobs[g].id # i
  BY <1>1, <1>3 DEF ToldInv
<1>a. \A f, g \in Busy' : /\ jobs'[f].at \in SendSteps /\ jobs'[g].at \in SendSteps
                          /\ jobs'[f].id = jobs'[g].id
                          => f = g
  BY <1>9 DEF ToldInv
<1>b. \A c, d \in chores' : c.do = "push" /\ d.do = "push" /\ c.id = d.id => c = d
  BY <1>10 DEF ToldInv
<1>c. \A c \in chores', g \in Busy' :
        c.do = "push" /\ jobs'[g].at \in SendSteps => c.id # jobs'[g].id
  BY <1>9, <1>10 DEF ToldInv
<1>d. \A c \in chores' : c.do = "push" =>
        \A u \in c.who : told'[c.id][u] = 0 /\ u # Sender(c.id)'
  <2> SUFFICES ASSUME NEW c \in chores', c.do = "push", NEW u \in c.who
               PROVE  told'[c.id][u] = 0 /\ u # Sender(c.id)'
    OBVIOUS
  <2>1. c \in chores /\ c.id \in Ids /\ There(c.id) /\ c.id # i
    BY <1>10 DEF StandInv, ChoreStands, ChatTypeOK, Chore
  <2>2. told[c.id][u] = 0 /\ u # Sender(c.id)
    BY <2>1 DEF ToldInv
  <2>3. Sender(c.id)' = Sender(c.id)
    BY <2>1 DEF Grows, Same
  <2>4. told'[c.id] = told[c.id]
    BY <1>6, <2>1
  <2> QED BY <2>2, <2>3, <2>4
<1>e. \A j \in Ids, u \in Folk :
        told'[j][u] <= 1 /\ (told'[j][u] > 0 => There(j)' /\ u # Sender(j)')
  <2> SUFFICES ASSUME NEW j \in Ids, NEW u \in Folk
               PROVE  told'[j][u] <= 1 /\ (told'[j][u] > 0 => There(j)' /\ u # Sender(j)')
    OBVIOUS
  <2>1. CASE j = i /\ u \in away
    BY <1>4, <1>5, <1>7, <1>8, <2>1
  <2>2. CASE j = i /\ u \notin away
    <3>1. told'[j][u] = told[j][u]
      BY <1>7, <2>2
    <3> QED BY <3>1 DEF ToldInv, Grows, Same
  <2>3. CASE j # i
    BY <1>6, <2>3 DEF ToldInv, Grows, Same
  <2> QED BY <2>1, <2>2, <2>3
<1>f. \A g \in Busy' : jobs'[g].at \in SendSteps =>
        \A u \in Folk : told'[jobs'[g].id][u] > 0 =>
          jobs'[g].at = "schedule" /\ u \in Mentioned(jobs'[g].named)
  <2> SUFFICES ASSUME NEW g \in Busy', jobs'[g].at \in SendSteps, NEW u \in Folk,
                      told'[jobs'[g].id][u] > 0
               PROVE  jobs'[g].at = "schedule" /\ u \in Mentioned(jobs'[g].named)
    OBVIOUS
  <2>1. g \in Busy /\ jobs'[g] = jobs[g] /\ jobs[g].id # i /\ jobs[g].id \in Ids
    BY <1>9, <1>11, JobIsTyped DEF Job
  <2>2. told'[jobs[g].id] = told[jobs[g].id]
    BY <1>6, <2>1
  <2> QED BY <2>1, <2>2 DEF ToldInv
<1> HIDE DEF There, Sender, Mentioned
<1> QED BY <1>a, <1>b, <1>c, <1>d, <1>e, <1>f DEF ToldInv

LEMMA HandlerTold ==
  ASSUME ChatTypeOK, Grows, StandInv, ToldInv, NEW h \in Handlers, HandlerStep(h)
  PROVE  ToldInv'
<1>0. /\ h \in Busy
      /\ IsDone(h) \/ \E at \in Follows(h) : GoesOn(h, at)
      /\ \A g \in Handlers \ {h} : jobs'[g] = jobs[g]
  BY HandlerMoves
<1>1. CASE jobs[h].at = "mention"
  <2>1. Mention(h)
    BY <1>1 DEF HandlerStep, JobAt, EnsureSender, InsertMessage, ReadOwn,
       CountMessage, Commit, FanOut, Mention, Schedule, ReadAll, ReadLast, Erase, LookForPin,
       UnpinDeleted, SweepReactions, Write, Tell
  <2> QED BY <1>0, <2>1, MentionTold
<1>2. CASE jobs[h].at = "schedule"
  <2>1. Schedule(h)
    BY <1>2 DEF HandlerStep, JobAt, EnsureSender, InsertMessage, ReadOwn,
       CountMessage, Commit, FanOut, Mention, Schedule, ReadAll, ReadLast, Erase, LookForPin,
       UnpinDeleted, SweepReactions, Write, Tell
  <2> QED BY <1>0, <2>1, ScheduleTold
<1>3. CASE jobs[h].at \notin {"mention", "schedule"}
  <2>1. told' = told /\ \A c \in chores' : c.do = "push" => c \in chores
    BY <1>3, ToldElsewhere, PushElsewhere
  <2>2. CASE IsDone(h)
    <3>1. \A g \in Busy' : g \in Busy /\ jobs'[g] = jobs[g]
      BY <1>0, <2>2 DEF IsDone, Busy
    <3> QED BY <2>1, <3>1, QuietTold
  <2>3. ASSUME NEW at \in Follows(h), GoesOn(h, at)
        PROVE  ToldInv'
    <3>1. Busy' = Busy /\ jobs'[h].id = jobs[h].id /\ jobs'[h].at = at
      BY <2>3 DEF GoesOn
    <3>2. CASE jobs[h].at \in {"insert", "commit"}
      <4>1. InsertMessage(h) \/ Commit(h)
        BY <3>2 DEF HandlerStep, JobAt, EnsureSender, InsertMessage, ReadOwn, CountMessage,
           Commit, FanOut, Mention, Schedule, ReadAll, ReadLast, Erase, LookForPin, UnpinDeleted,
           SweepReactions, Write, Tell
      <4>2. ~Finish(h)
        BY <1>0, <2>3, FinishFacts DEF GoesOn
      <4>3. ~There(jobs[h].id)
        BY <4>1, <4>2 DEF InsertMessage, Commit
      <4> QED BY <1>0, <2>1, <3>1, <4>3, ComingTold
    <3>3. CASE jobs[h].at \notin {"insert", "commit"}
      <4>1. at \in SendSteps => jobs[h].at \in SendSteps
        BY <1>3, <3>3 DEF Follows, SendSteps
      <4>2. \A g \in Busy' : g # h => g \in Busy /\ jobs'[g] = jobs[g]
        BY <1>0, <3>1 DEF Busy
      <4>3. \A g \in Busy' : jobs'[g].at \in SendSteps =>
              /\ g \in Busy /\ jobs[g].at \in SendSteps /\ jobs'[g].id = jobs[g].id
              /\ \/ jobs[g].at # "schedule"
                 \/ jobs'[g].at = jobs[g].at /\ jobs'[g].named = jobs[g].named
        BY <1>0, <1>3, <3>1, <4>1, <4>2
      <4> QED BY <2>1, <4>3, QuietTold
    <3> QED BY <3>2, <3>3
  <2> QED BY <1>0, <2>2, <2>3
<1> QED BY <1>1, <1>2, <1>3

LEMMA BeginsTold ==
  ASSUME ChatTypeOK, Grows, StandInv, ToldInv, NEW h \in Handlers, NEW t, Begins(h, t),
         t.at \notin SendSteps, UNCHANGED <<told, chores>>
  PROVE  ToldInv'
<1>1. \A g \in Busy' : jobs'[g].at \in SendSteps => g \in Busy /\ jobs'[g] = jobs[g]
  BY BeginsFacts DEF Busy
<1> QED BY <1>1, QuietTold

LEMMA ChatTold ==
  ASSUME ChatInv, ChatTypeOK', ToldInv, ChatNext
  PROVE  ToldInv'
<1> USE DEF dbVars, readVars, placeVars, seenVars, boundVars
<1>0. ChatTypeOK /\ TimesInv /\ StandInv /\ Grows
  BY ChatStepIs, HandlerGrows, OthersGrow DEF ChatInv
<1>1. CASE \E h \in Handlers : HandlerStep(h)
  BY <1>0, <1>1, HandlerTold
<1>2. ASSUME NEW h \in Handlers, NEW t, Begun(h, t)
      PROVE  ToldInv'
  <2>1. Begins(h, t) /\ t.at \notin SendSteps /\ UNCHANGED <<told, chores>>
    BY <1>2 DEF Begun, Rest, SendSteps
  <2> QED BY <1>0, <2>1, BeginsTold
<1>3. ASSUME NEW h \in Handlers, NEW u \in Folk, ClearRoomMessages(h, u)
      PROVE  ToldInv'
  <2>1. PICK t : Begins(h, t) /\ t.at = "tell"
    BY <1>0, <1>3, ClearKeepsTypes
  <2>2. UNCHANGED <<told, chores>> /\ t.at \notin SendSteps
    BY <1>3, <2>1 DEF ClearRoomMessages, SendSteps
  <2> QED BY <1>0, <2>1, <2>2, BeginsTold
<1>4. ASSUME NEW c \in chores, ChoreStep(c)
      PROVE  ToldInv'
  <2>1. CASE Push(c)
    BY <1>0, <2>1, PushTold
  <2>2. CASE AutoRead(c) \/ AutoLast(c)
    <3>1. UNCHANGED <<told, jobs>> /\ \A d \in chores' : d.do = "push" => d \in chores
      BY <2>2 DEF AutoRead, AutoLast
    <3>2. \A g \in Busy' : g \in Busy /\ jobs'[g] = jobs[g]
      BY <3>1 DEF Busy
    <3> QED BY <1>0, <3>1, <3>2, QuietTold
  <2> QED BY <1>4, <2>1, <2>2 DEF ChoreStep
<1>5. CASE (\E u \in Folk : PeopleStep(u)) \/ Stop
  <2>1. told' = told /\ chores' \subseteq chores
    BY <1>5 DEF PeopleStep, MarkRoomRead, Enter, Exit, Watch, Stop
  <2>2. \A g \in Busy' : g \in Busy /\ jobs'[g] = jobs[g]
    BY <1>0, <1>5, OthersLeaveJobs DEF Busy
  <2> QED BY <1>0, <2>1, <2>2, QuietTold
<1> QED BY <1>0, <1>1, <1>2, <1>3, <1>4, <1>5, ChatStepIs

LEMMA ToldInit ==
  ASSUME ChatInit
  PROVE  ToldInv
<1>1. Busy = {}
  BY DEF Busy, ChatInit
<1>2. chores = {} /\ \A i \in Ids, u \in Folk : told[i][u] = 0
  BY DEF ChatInit
<1> QED BY <1>1, <1>2 DEF ToldInv

LEMMA ToldStutters ==
  ASSUME UNCHANGED chatVars, ToldInv
  PROVE  ToldInv'
BY DEF chatVars, dbVars, readVars, placeVars, seenVars, boundVars, ToldInv, There, Sender, Busy

(* What is told and what is on the timers come to one at most.              *)
LEMMA ToldAtMostOnce ==
  ASSUME ChatTypeOK, ToldInv, NEW i \in Ids, NEW u \in Folk
  PROVE  told[i][u] + Cardinality(Pushes(i, u)) <= 1
<1>0. told[i][u] \in Nat /\ told[i][u] <= 1
  BY DEF ChatTypeOK, ToldInv
<1>1. CASE Pushes(i, u) = {}
  <2>1. Cardinality(Pushes(i, u)) = 0
    BY <1>1, FS_EmptySet
  <2> QED BY <1>0, <2>1
<1>2. CASE Pushes(i, u) # {}
  <2>1. PICK c : c \in Pushes(i, u)
    BY <1>2
  <2>2. Pushes(i, u) = {c}
    BY <2>1 DEF Pushes, ToldInv
  <2>3. Cardinality(Pushes(i, u)) = 1
    BY <2>2, FS_Singleton
  <2>4. told[i][u] = 0
    BY <2>1 DEF Pushes, ToldInv
  <2> QED BY <2>3, <2>4
<1> QED BY <1>1, <1>2

-----------------------------------------------------------------------------
(* ChatMessages: a message counts once *)

Owed(u) == Cardinality(By(u)) - Cardinality(OnTheWay(u))

CountInv ==
  /\ IsFiniteSet(Busy)
  /\ \A u \in Folk : IF stops = 0 THEN counted[u] = Owed(u) ELSE counted[u] <= Owed(u)

LEMMA SetsAreFinite ==
  ASSUME CountInv, NEW u \in Folk
  PROVE  /\ IsFiniteSet(By(u)) /\ IsFiniteSet(OnTheWay(u))
         /\ Cardinality(By(u)) \in Nat /\ Cardinality(OnTheWay(u)) \in Nat
<1>1. By(u) \subseteq Ids /\ OnTheWay(u) \subseteq Busy
  BY DEF By, OnTheWay
<1>2. IsFiniteSet(By(u)) /\ IsFiniteSet(OnTheWay(u))
  BY <1>1, FS_Subset, ChatAssumption DEF CountInv
<1> QED BY <1>2, FS_CardinalityType

(* A step that changes what is counted as it changes what is owed.          *)
LEMMA CountFollows ==
  ASSUME ChatTypeOK, ChatTypeOK', CountInv, IsFiniteSet(Busy'), stops' = stops,
         \A u \in Folk : /\ Owed(u) \in Int /\ Owed(u)' \in Int
                         /\ counted'[u] - counted[u] = Owed(u)' - Owed(u)
  PROVE  CountInv'
<1> SUFFICES ASSUME NEW u \in Folk
             PROVE  IF stops = 0 THEN counted'[u] = Owed(u)' ELSE counted'[u] <= Owed(u)'
  BY DEF CountInv
<1>1. PICK a, b, c, d : a = counted[u] /\ b = counted'[u] /\ c = Owed(u) /\ d = Owed(u)'
  OBVIOUS
<1>2. a \in Nat /\ b \in Nat /\ c \in Int /\ d \in Int /\ b - a = d - c
  BY <1>1 DEF ChatTypeOK
<1>3. IF stops = 0 THEN a = c ELSE a <= c
  BY <1>1 DEF CountInv
<1>4. IF stops = 0 THEN b = d ELSE b <= d
  BY <1>2, <1>3
<1> QED BY <1>1, <1>4

LEMMA CountStays ==
  ASSUME ChatTypeOK, ChatTypeOK', CountInv, IsFiniteSet(Busy'), UNCHANGED <<stops, counted>>,
         \A u \in Folk : By(u)' = By(u) /\ OnTheWay(u)' = OnTheWay(u)
  PROVE  CountInv'
<1>1. ASSUME NEW u \in Folk
      PROVE  Owed(u) \in Int /\ Owed(u)' = Owed(u)
  BY SetsAreFinite DEF Owed
<1>2. \A u \in Folk : counted'[u] = counted[u] /\ counted[u] \in Int
  BY DEF ChatTypeOK
<1>3. \A u \in Folk : /\ Owed(u) \in Int /\ Owed(u)' \in Int
                      /\ counted'[u] - counted[u] = Owed(u)' - Owed(u)
  BY <1>1, <1>2
<1> QED BY <1>3, CountFollows

LEMMA NoneComes ==
  ASSUME ChatTypeOK, Grows,
         \A h \in Busy : jobs[h].at \in {"insert", "commit"} => jobs'[h] = jobs[h]
  PROVE  \A u \in Folk : By(u)' = By(u)
<1>1. \A i \in Ids : There(i)' => There(i)
  BY DEF Grows, CameFrom
<1>2. \A i \in Ids : There(i) => There(i)' /\ Sender(i)' = Sender(i)
  BY DEF Grows, Same
<1> HIDE DEF There, Sender
<1> QED BY <1>1, <1>2 DEF By

(* The message comes in.                                                    *)
LEMMA ComingBy ==
  ASSUME ChatTypeOK, Grows, NEW h \in Busy, ~There(jobs[h].id), stored' = Stored(h),
         jobs[h].at \in {"insert", "commit"}, jobs'[h] # jobs[h]
  PROVE  \A u \in Folk :
           /\ By(u)' = IF u = jobs[h].user THEN By(u) \cup {jobs[h].id} ELSE By(u)
           /\ jobs[h].id \notin By(u)
<1>1. PICK t : t = jobs[h]
  OBVIOUS
<1>2. t.id \in Ids /\ t.user \in Folk
  BY <1>1, JobIsTyped DEF Job
<1>3. There(t.id)' /\ Sender(t.id)' = t.user
  BY <1>1, <1>2, StoredGrows
<1>4. \A i \in Ids : i # t.id => stored'[i] = stored[i]
  BY <1>1 DEF Stored, ChatTypeOK
<1>5. ~There(t.id)
  BY <1>1
<1>6. \A i \in Ids : i # t.id => (There(i)' <=> There(i)) /\ Sender(i)' = Sender(i)
  BY <1>4 DEF There, Sender
<1> HIDE DEF There, Sender
<1>7. \A u \in Folk : By(u)' = IF u = t.user THEN By(u) \cup {t.id} ELSE By(u)
  BY <1>2, <1>3, <1>5, <1>6 DEF By
<1>8. \A u \in Folk : t.id \notin By(u)
  BY <1>5 DEF By
<1> QED BY <1>1, <1>2, <1>7, <1>8

(* Handler h goes on or is done: on the way are the others, and h when it is *)
(* at one of the two steps.                                                 *)
LEMMA WayMoves ==
  ASSUME ChatTypeOK, NEW h \in Handlers, HandlerStep(h)
  PROVE  \A u \in Folk :
           /\ OnTheWay(u) \ {h} = OnTheWay(u)' \ {h}
           /\ h \in OnTheWay(u) <=> u = jobs[h].user /\ jobs[h].at \in {"ownread", "count"}
           /\ h \in OnTheWay(u)' <=>
                /\ ~IsDone(h) /\ u = jobs[h].user
                /\ jobs'[h].at \in {"ownread", "count"}
<1>0. /\ h \in Busy
      /\ IsDone(h) \/ \E at \in Follows(h) : GoesOn(h, at)
      /\ \A g \in Handlers \ {h} : jobs'[g] = jobs[g]
  BY HandlerMoves
<1>1. \A g \in Handlers \ {h} : g \in Busy' <=> g \in Busy
  BY <1>0 DEF Busy
<1> SUFFICES ASSUME NEW u \in Folk
             PROVE  /\ OnTheWay(u) \ {h} = OnTheWay(u)' \ {h}
                    /\ h \in OnTheWay(u) <=>
                         u = jobs[h].user /\ jobs[h].at \in {"ownread", "count"}
                    /\ h \in OnTheWay(u)' <=>
                         /\ ~IsDone(h) /\ u = jobs[h].user
                         /\ jobs'[h].at \in {"ownread", "count"}
  OBVIOUS
<1>2. \A g \in Handlers \ {h} : g \in OnTheWay(u)' <=> g \in OnTheWay(u)
  BY <1>0, <1>1 DEF OnTheWay
<1>3. OnTheWay(u) \subseteq Handlers /\ OnTheWay(u)' \subseteq Handlers
  BY DEF OnTheWay, Busy
<1>4. OnTheWay(u) \ {h} = OnTheWay(u)' \ {h}
  BY <1>2, <1>3
<1>5. h \in OnTheWay(u) <=> u = jobs[h].user /\ jobs[h].at \in {"ownread", "count"}
  BY <1>0 DEF OnTheWay
<1>6. h \in OnTheWay(u)' <=>
        ~IsDone(h) /\ u = jobs[h].user /\ jobs'[h].at \in {"ownread", "count"}
  <2>1. CASE IsDone(h)
    BY <1>0, <2>1 DEF IsDone, OnTheWay
  <2>2. CASE ~IsDone(h)
    <3>1. PICK at \in Follows(h) : GoesOn(h, at)
      BY <1>0, <2>2
    <3>2. jobs'[h].user = jobs[h].user /\ h \in Busy'
      BY <1>0, <3>1 DEF GoesOn
    <3> QED BY <2>2, <3>2 DEF OnTheWay
  <2> QED BY <2>1, <2>2
<1> QED BY <1>4, <1>5, <1>6

LEMMA HandlerCounts ==
  ASSUME ChatTypeOK, ChatTypeOK', Grows, CountInv, NEW h \in Handlers, HandlerStep(h)
  PROVE  CountInv'
<1>0. /\ h \in Busy
      /\ IsDone(h) \/ \E at \in Follows(h) : GoesOn(h, at)
      /\ \A g \in Handlers \ {h} : jobs'[g] = jobs[g]
  BY HandlerMoves
<1>t. PICK t \in Job : t = jobs[h]
  BY <1>0, JobIsTyped
<1>j. t.id \in Ids /\ t.user \in Folk
  BY DEF Job
<1>f. IsFiniteSet(Busy')
  <2>1. Busy' = Busy \/ Busy' = Busy \ {h}
    BY <1>0 DEF IsDone, GoesOn
  <2> QED BY <2>1, FS_RemoveElement DEF CountInv
<1>s. stops' = stops
  BY DEF HandlerStep, JobAt, EnsureSender, InsertMessage, ReadOwn, CountMessage, Commit, FanOut,
     Mention, Schedule, ReadAll, ReadLast, Erase, LookForPin, UnpinDeleted, SweepReactions,
     Write, Tell, boundVars
<1>w. \A u \in Folk :
        /\ OnTheWay(u) \ {h} = OnTheWay(u)' \ {h}
        /\ h \in OnTheWay(u) <=> u = t.user /\ t.at \in {"ownread", "count"}
        /\ h \in OnTheWay(u)' <=>
             ~IsDone(h) /\ u = t.user /\ jobs'[h].at \in {"ownread", "count"}
  BY <1>t, WayMoves
<1>o. jobs[h].at \notin {"insert", "commit"} =>
        \A g \in Busy : jobs[g].at \in {"insert", "commit"} => jobs'[g] = jobs[g]
  BY <1>0 DEF Busy
<1>1. CASE t.at \in {"insert", "commit"}
  <2>0. (t.at = "insert" /\ InsertMessage(h)) \/ (t.at = "commit" /\ Commit(h))
    BY <1>t, <1>1 DEF HandlerStep, JobAt, EnsureSender, InsertMessage, ReadOwn, CountMessage,
       Commit, FanOut, Mention, Schedule, ReadAll, ReadLast, Erase, LookForPin, UnpinDeleted,
       SweepReactions, Write, Tell
  <2>1. CASE There(t.id)
    <3>1. Finish(h) /\ UNCHANGED <<stored, counted>>
      BY <1>t, <2>0, <2>1 DEF InsertMessage, Commit
    <3>2. IsDone(h)
      BY <1>0, <3>1, FinishFacts DEF IsDone
    <3>3. \A u \in Folk : OnTheWay(u)' = OnTheWay(u)
      BY <1>1, <1>w, <3>2
    <3>4. \A u \in Folk : By(u)' = By(u)
      BY <3>1 DEF By, There, Sender
    <3> QED BY <1>f, <1>s, <3>1, <3>3, <3>4, CountStays
  <2>2. CASE ~There(t.id)
    <3>1. stored' = Stored(h) /\ ~Finish(h)
      <4>1. stored' = Stored(h) /\ \E at \in Follows(h) : JobTo(h, at)
        BY <1>t, <2>0, <2>2 DEF InsertMessage, Commit, Follows
      <4>2. PICK at \in Follows(h) : JobTo(h, at)
        BY <4>1
      <4>3. at \in {"ownread", "count", "fan"}
        BY <1>t, <1>1 DEF Follows
      <4>4. GoesOn(h, at)
        BY <1>0, <4>2, <4>3, JobGoesOn
      <4>5. ~Finish(h)
        BY <1>0, <4>4, FinishFacts DEF GoesOn
      <4> QED BY <4>1, <4>5
    <3>2. ~IsDone(h)
      <4>1. \E at \in {"ownread", "count", "fan"} : JobTo(h, at)
        BY <1>t, <2>0, <2>2 DEF InsertMessage, Commit
      <4> QED BY <1>0, <4>1, JobGoesOn DEF GoesOn, IsDone
    <3>3. PICK at \in Follows(h) : GoesOn(h, at)
      BY <1>0, <3>2
    <3>4. jobs'[h] # jobs[h]
      BY <1>t, <1>1, <3>3 DEF GoesOn, Follows
    <3>5. \A u \in Folk :
            /\ By(u)' = IF u = t.user THEN By(u) \cup {t.id} ELSE By(u)
            /\ t.id \notin By(u)
      BY <1>0, <1>t, <1>1, <2>2, <3>1, <3>4, ComingBy
    <3>6. ASSUME NEW u \in Folk
          PROVE  /\ Cardinality(By(u)) \in Nat /\ Cardinality(By(u)') \in Nat
                 /\ Cardinality(By(u)') - Cardinality(By(u)) = IF u = t.user THEN 1 ELSE 0
      <4>1. IsFiniteSet(By(u)) /\ Cardinality(By(u)) \in Nat
        BY SetsAreFinite
      <4>2. t.id \notin By(u) => Cardinality(By(u) \cup {t.id}) = Cardinality(By(u)) + 1
        BY <4>1, FS_AddElement
      <4>3. CASE u = t.user
        <5>1. By(u)' = By(u) \cup {t.id} /\ t.id \notin By(u)
          BY <3>5, <4>3
        <5>2. Cardinality(By(u)') = Cardinality(By(u)) + 1
          BY <4>2, <5>1
        <5> QED BY <4>1, <4>3, <5>2
      <4>4. CASE u # t.user
        <5>1. By(u)' = By(u)
          BY <3>5, <4>4
        <5> QED BY <4>1, <4>4, <5>1
      <4> QED BY <4>3, <4>4
    <3>7. CASE t.at = "insert"
      <4>1. at \in {"ownread", "count"} /\ jobs'[h].at = at
        BY <1>t, <3>3, <3>7 DEF Follows, GoesOn
      <4>2. ASSUME NEW u \in Folk
            PROVE  /\ Cardinality(OnTheWay(u)) \in Nat /\ Cardinality(OnTheWay(u)') \in Nat
                   /\ Cardinality(OnTheWay(u)') - Cardinality(OnTheWay(u)) =
                        IF u = t.user THEN 1 ELSE 0
        <5>1. IsFiniteSet(OnTheWay(u)) /\ Cardinality(OnTheWay(u)) \in Nat
          BY SetsAreFinite
        <5>2. h \notin OnTheWay(u)
          BY <1>w, <3>7
        <5>3. OnTheWay(u)' = IF u = t.user THEN OnTheWay(u) \cup {h} ELSE OnTheWay(u)
          BY <1>w, <3>2, <4>1, <5>2
        <5>4. Cardinality(OnTheWay(u) \cup {h}) = Cardinality(OnTheWay(u)) + 1
          BY <5>1, <5>2, FS_AddElement
        <5>5. CASE u = t.user
          BY <5>1, <5>3, <5>4, <5>5
        <5>6. CASE u # t.user
          BY <5>1, <5>3, <5>6
        <5> QED BY <5>5, <5>6
      <4>3. counted' = counted
        BY <2>0, <3>7 DEF InsertMessage
      <4>4. ASSUME NEW u \in Folk
            PROVE  /\ Owed(u) \in Int /\ Owed(u)' \in Int
                   /\ counted'[u] - counted[u] = Owed(u)' - Owed(u)
        <5>1. counted[u] \in Nat
          BY DEF ChatTypeOK
        <5>2. Owed(u)' = Cardinality(By(u)') - Cardinality(OnTheWay(u)')
          BY DEF Owed
        <5> QED BY <3>6, <4>2, <4>3, <5>1, <5>2 DEF Owed
      <4> QED BY <1>f, <1>s, <4>4, CountFollows
    <3>8. CASE t.at = "commit"
      <4>1. at = "fan" /\ jobs'[h].at = at
        BY <1>t, <3>3, <3>8 DEF Follows, GoesOn
      <4>2. \A u \in Folk : OnTheWay(u)' = OnTheWay(u)
        BY <1>w, <3>8, <4>1
      <4>3. counted' = [counted EXCEPT ![t.user] = @ + 1]
        BY <1>t, <2>0, <2>2, <3>8 DEF Commit, OneMore
      <4>4. ASSUME NEW u \in Folk
            PROVE  /\ Owed(u) \in Int /\ Owed(u)' \in Int
                   /\ counted'[u] - counted[u] = Owed(u)' - Owed(u)
        <5>1. counted[u] \in Nat /\ counted'[u] = IF u = t.user THEN counted[u] + 1 ELSE counted[u]
          BY <1>j, <4>3 DEF ChatTypeOK
        <5>2. Owed(u)' = Cardinality(By(u)') - Cardinality(OnTheWay(u))
          BY <4>2 DEF Owed
        <5>3. Cardinality(OnTheWay(u)) \in Nat
          BY SetsAreFinite
        <5> QED BY <3>6, <5>1, <5>2, <5>3 DEF Owed
      <4> QED BY <1>f, <1>s, <4>4, CountFollows
    <3> QED BY <1>1, <3>7, <3>8
  <2> QED BY <2>1, <2>2
<1>2. CASE t.at = "count"
  <2>0. CountMessage(h)
    BY <1>t, <1>2 DEF HandlerStep, JobAt, EnsureSender, InsertMessage, ReadOwn, CountMessage,
       Commit, FanOut, Mention, Schedule, ReadAll, ReadLast, Erase, LookForPin, UnpinDeleted,
       SweepReactions, Write, Tell
  <2>1. \A u \in Folk : By(u)' = By(u)
    BY <1>t, <1>2, <1>o, NoneComes
  <2>2. h \in OnTheWay(t.user) /\ \A u \in Folk : h \notin OnTheWay(u)'
    <3>1. IsDone(h) \/ jobs'[h].at = "fan"
      BY <1>0, <1>t, <1>2 DEF Follows, GoesOn
    <3> QED BY <1>j, <1>w, <1>2, <3>1
  <2>3. \A u \in Folk : OnTheWay(u)' = IF u = t.user THEN OnTheWay(u) \ {h} ELSE OnTheWay(u)
    BY <1>w, <1>2, <2>2
  <2>4. counted' = [counted EXCEPT ![t.user] = @ + 1]
    BY <1>t, <2>0 DEF CountMessage, OneMore
  <2>5. ASSUME NEW u \in Folk
        PROVE  /\ Owed(u) \in Int /\ Owed(u)' \in Int
               /\ counted'[u] - counted[u] = Owed(u)' - Owed(u)
    <3>1. counted[u] \in Nat /\ counted'[u] = IF u = t.user THEN counted[u] + 1 ELSE counted[u]
      BY <1>j, <2>4 DEF ChatTypeOK
    <3>2. Owed(u)' = Cardinality(By(u)) - Cardinality(OnTheWay(u)')
      BY <2>1 DEF Owed
    <3>3. /\ Cardinality(By(u)) \in Nat /\ Cardinality(OnTheWay(u)) \in Nat
          /\ IsFiniteSet(OnTheWay(u))
      BY SetsAreFinite
    <3>4. Cardinality(OnTheWay(u)') = IF u = t.user THEN Cardinality(OnTheWay(u)) - 1
                                      ELSE Cardinality(OnTheWay(u))
      BY <2>2, <2>3, <3>3, FS_RemoveElement
    <3> QED BY <3>1, <3>2, <3>3, <3>4 DEF Owed
  <2> QED BY <1>f, <1>s, <2>5, CountFollows
<1>3. CASE t.at \notin {"insert", "commit", "count"}
  <2>1. \A u \in Folk : By(u)' = By(u)
    BY <1>t, <1>3, <1>o, NoneComes
  <2>2. counted' = counted
    BY <1>t, <1>3 DEF HandlerStep, JobAt, EnsureSender, InsertMessage, ReadOwn, CountMessage,
       Commit, FanOut, Mention, Schedule, ReadAll, ReadLast, Erase, LookForPin, UnpinDeleted,
       SweepReactions, Write, Tell, dbVars
  <2>3. \A u \in Folk : OnTheWay(u)' = OnTheWay(u)
    <3>1. CASE t.at = "ownread"
      <4>1. jobs'[h].at = "count" /\ ~IsDone(h)
        <5>1. ReadOwn(h)
          BY <1>t, <3>1 DEF HandlerStep, JobAt, EnsureSender, InsertMessage, ReadOwn,
             CountMessage, Commit, FanOut, Mention, Schedule, ReadAll, ReadLast, Erase,
             LookForPin, UnpinDeleted, SweepReactions, Write, Tell
        <5> QED BY <1>0, <5>1, JobGoesOn DEF ReadOwn, GoesOn, IsDone
      <4> QED BY <1>w, <3>1, <4>1
    <3>2. CASE t.at # "ownread"
      <4>1. IsDone(h) \/ jobs'[h].at \notin {"ownread", "count"}
        BY <1>0, <1>t, <1>3, <3>2 DEF Follows, GoesOn
      <4> QED BY <1>w, <1>3, <3>2, <4>1
    <3> QED BY <3>1, <3>2
  <2> QED BY <1>f, <1>s, <2>1, <2>2, <2>3, CountStays
<1> QED BY <1>1, <1>2, <1>3

LEMMA OthersCount ==
  ASSUME ChatTypeOK, ChatTypeOK', Grows, CountInv, UNCHANGED <<counted, stops>>,
         Busy' = Busy, jobs' = jobs
  PROVE  CountInv'
<1>1. \A u \in Folk : By(u)' = By(u)
  BY NoneComes
<1>2. \A u \in Folk : OnTheWay(u)' = OnTheWay(u)
  BY DEF OnTheWay
<1> QED BY <1>1, <1>2, CountStays DEF CountInv

LEMMA BeginsCounts ==
  ASSUME ChatTypeOK, ChatTypeOK', Grows, CountInv, NEW h \in Handlers, NEW t, Begins(h, t),
         t.at \notin SendSteps, UNCHANGED <<counted, stops>>
  PROVE  CountInv'
<1>0. /\ Busy' = Busy \cup {h} /\ jobs'[h] = t /\ h \notin Busy
      /\ \A g \in Handlers \ {h} : jobs'[g] = jobs[g]
  BY BeginsFacts
<1>1. \A g \in Busy : jobs'[g] = jobs[g]
  BY <1>0 DEF Busy
<1>2. \A u \in Folk : By(u)' = By(u)
  BY <1>1, NoneComes
<1>3. \A u \in Folk : OnTheWay(u)' = OnTheWay(u)
  BY <1>0, <1>1 DEF OnTheWay, SendSteps
<1>4. IsFiniteSet(Busy')
  BY <1>0, FS_AddElement DEF CountInv
<1> QED BY <1>2, <1>3, <1>4, CountStays

LEMMA StopCounts ==
  ASSUME ChatTypeOK, ChatTypeOK', CountInv, Stop
  PROVE  CountInv'
<1>1. Busy' = {} /\ stops = 0 /\ stops' = 1 /\ UNCHANGED <<counted, stored>>
  BY DEF Stop, Busy, dbVars
<1>2. IsFiniteSet(Busy')
  BY <1>1, FS_EmptySet
<1>3. ASSUME NEW u \in Folk
      PROVE  counted'[u] <= Owed(u)'
  <2>1. OnTheWay(u)' = {}
    BY <1>1 DEF OnTheWay
  <2>2. By(u)' = By(u)
    BY <1>1 DEF By, There, Sender
  <2>3. Owed(u)' = Cardinality(By(u)) - 0
    BY <2>1, <2>2, FS_EmptySet DEF Owed
  <2>4. counted[u] = Cardinality(By(u)) - Cardinality(OnTheWay(u))
    BY <1>1 DEF CountInv, Owed
  <2>5. Cardinality(By(u)) \in Nat /\ Cardinality(OnTheWay(u)) \in Nat
    BY SetsAreFinite
  <2> QED BY <1>1, <2>3, <2>4, <2>5
<1> QED BY <1>1, <1>2, <1>3 DEF CountInv

LEMMA ChatCounts ==
  ASSUME ChatInv, ChatTypeOK', CountInv, ChatNext
  PROVE  CountInv'
<1> USE DEF dbVars, readVars, placeVars, seenVars, boundVars
<1>0. ChatTypeOK /\ TimesInv /\ StandInv /\ Grows
  BY ChatStepIs, HandlerGrows, OthersGrow DEF ChatInv
<1>1. CASE \E h \in Handlers : HandlerStep(h)
  BY <1>0, <1>1, HandlerCounts
<1>2. ASSUME NEW h \in Handlers, NEW t, Begun(h, t)
      PROVE  CountInv'
  <2>1. Begins(h, t) /\ t.at \notin SendSteps /\ UNCHANGED <<counted, stops>>
    BY <1>2 DEF Begun, Rest, SendSteps
  <2> QED BY <1>0, <2>1, BeginsCounts
<1>3. ASSUME NEW h \in Handlers, NEW u \in Folk, ClearRoomMessages(h, u)
      PROVE  CountInv'
  <2>1. PICK t : Begins(h, t) /\ t.at = "tell"
    BY <1>0, <1>3, ClearKeepsTypes
  <2>2. UNCHANGED <<counted, stops>> /\ t.at \notin SendSteps
    BY <1>3, <2>1 DEF ClearRoomMessages, SendSteps
  <2> QED BY <1>0, <2>1, <2>2, BeginsCounts
<1>4. CASE (\E c \in chores : ChoreStep(c)) \/ (\E u \in Folk : PeopleStep(u))
  <2>1. UNCHANGED <<counted, stops, jobs>>
    BY <1>4 DEF PeopleStep, MarkRoomRead, Enter, Exit, Watch, ChoreStep, AutoRead, AutoLast, Push
  <2>2. Busy' = Busy
    BY <2>1 DEF Busy
  <2> QED BY <1>0, <2>1, <2>2, OthersCount
<1>5. CASE Stop
  BY <1>0, <1>5, StopCounts
<1> QED BY <1>0, <1>1, <1>2, <1>3, <1>4, <1>5, ChatStepIs

LEMMA CountInit ==
  ASSUME ChatInit
  PROVE  CountInv
<1>1. Busy = {} /\ stops = 0 /\ \A u \in Folk : counted[u] = 0
  BY DEF Busy, ChatInit
<1>2. \A u \in Folk : By(u) = {} /\ OnTheWay(u) = {}
  BY <1>1 DEF By, OnTheWay, There, ChatInit
<1>3. \A u \in Folk : Owed(u) = 0
  BY <1>2, FS_EmptySet DEF Owed
<1> QED BY <1>1, <1>3, FS_EmptySet DEF CountInv

LEMMA CountStutters ==
  ASSUME UNCHANGED chatVars, CountInv
  PROVE  CountInv'
BY DEF chatVars, dbVars, readVars, placeVars, seenVars, boundVars, CountInv, Owed, By, OnTheWay,
   There, Sender, Busy

SentInv == ChatInv /\ ToldInv /\ CountInv

LEMMA SentInvHolds == ChatSpec => []SentInv
<1>1. ChatInit => SentInv
  BY ChatInitStands, ToldInit, CountInit DEF SentInv, ChatInv
<1>2. ChatInv' /\ SentInv /\ [ChatNext]_chatVars => SentInv'
  BY ChatTold, ToldStutters, ChatCounts, CountStutters DEF SentInv, ChatInv
<1> QED BY <1>1, <1>2, ChatInvHolds, PTL DEF ChatSpec

(* However often a message is sent, through however many handlers: it counts *)
(* once, nobody is notified of it twice, and its sender is never notified    *)
(* (idempotency.go, group_message_handler.go).                               *)
THEOREM SentRule == ChatSpec => []SentOnce
<1>1. SentInv => SentOnce
  <2> SUFFICES ASSUME SentInv PROVE SentOnce
    OBVIOUS
  <2>1. \A u \in Folk :
          LET expected == Cardinality(By(u)) - Cardinality(OnTheWay(u)) IN
          IF stops = 0 THEN counted[u] = expected ELSE counted[u] <= expected
    BY DEF SentInv, CountInv, Owed
  <2>2. \A i \in Ids, u \in Folk :
          /\ told[i][u] + Cardinality(Pushes(i, u)) <= 1
          /\ told[i][u] > 0 => There(i) /\ u # Sender(i)
    BY ToldAtMostOnce DEF SentInv, ChatInv, ToldInv
  <2> QED BY <2>1, <2>2 DEF SentOnce
<1> QED BY <1>1, SentInvHolds, PTL

-----------------------------------------------------------------------------
(* ChatMessages: what is shown is what is stored *)

Unshown(t) == t.at \in {"ownread", "count", "fan"}
Pending(t) == t.at \in {"pinned", "unpin", "sweep", "tell"}
PinLoose(t) == t.at \in {"pinned", "unpin"}
MoodLoose(t) == t.at = "sweep"
Calm(t) == ~Unshown(t) /\ ~Pending(t)

NoMoods(i) == \A u \in Folk : emoji[i][u] = Nobody

(* A client showing s shows message i as it is stored.                      *)
Fits(i, s) ==
  /\ There(i) <=> s # NoMessage
  /\ There(i) => s.gone = stored[i].gone
  /\ Undeleted(i) => /\ s.text = stored[i].text /\ s.opened = stored[i].opened
                     /\ s.emoji = emoji[i]

(* What a client shows once the handler has told it.                        *)
Seen(t, i) == IF Pending(t) /\ screen[i] # NoMessage THEN Told(t, i) ELSE screen[i]

(* Stored, and not yet sent to anybody.                                     *)
Unsent(i) ==
  /\ Undeleted(i) /\ screen[i] = NoMessage /\ NoMoods(i)
  /\ stored[i].text = Original /\ stored[i].opened = {}

Idle ==
  \A i \in Ids :
    /\ Fits(i, screen[i])
    /\ There(i) /\ stored[i].gone => pinned # i /\ (Room => NoMoods(i))

ShownWith(t) ==
  \A i \in Ids :
    /\ IF Unshown(t) /\ i = t.id THEN Unsent(i) ELSE Fits(i, Seen(t, i))
    /\ There(i) /\ stored[i].gone =>
         /\ pinned # i \/ (PinLoose(t) /\ i = t.id)
         /\ Room => NoMoods(i) \/ (MoodLoose(t) /\ i = t.id)

JobShows(t) ==
  /\ t.at \in {"erase", "write"} => Undeleted(t.id)
  /\ t.at \in {"erase", "pinned", "unpin", "sweep"} => t.op = "delete"
  /\ t.at = "write" =>
       t.op \in {"pin", "unpin", "edit", "open", "react"} /\ (t.op \in {"pin", "unpin"} => Group)
  /\ t.at \in {"pinned", "unpin", "sweep"} => There(t.id) /\ stored[t.id].gone

Alone == plan.width = 1 /\ stops = 0

ShownInv ==
  Alone =>
    /\ \A g, h \in Busy : g = h
    /\ Busy = {} => Idle
    /\ \A h \in Busy : ShownWith(jobs[h]) /\ JobShows(jobs[h])
    /\ \A i \in Ids : ~There(i) => NoMoods(i)
    /\ Room => pinned = NoMessage

SameFrame(t, n) ==
  /\ n.op = t.op /\ n.user = t.user /\ n.id = t.id
  /\ n.text = t.text /\ n.opened = t.opened /\ n.mood = t.mood

LEMMA ToldSame ==
  ASSUME NEW t, NEW n, NEW i, SameFrame(t, n)
  PROVE  Told(n, i) = Told(t, i)
BY DEF SameFrame, Told

LEMMA ToldFacts ==
  ASSUME ChatTypeOK, NEW t \in Job, NEW i \in Ids, screen[i] # NoMessage
  PROVE  /\ Told(t, i) # NoMessage
         /\ (t.op = "clear" \/ (t.op = "delete" /\ i = t.id)) => Told(t, i).gone
         /\ ~(t.op = "clear" \/ (t.op = "delete" /\ i = t.id)) =>
              Told(t, i).gone = screen[i].gone
         /\ t.op \in {"edit", "open"} /\ i = t.id =>
              /\ Told(t, i).text = t.text /\ Told(t, i).opened = t.opened
              /\ Told(t, i).emoji = screen[i].emoji
         /\ t.op = "react" /\ i = t.id =>
              /\ Told(t, i).text = screen[i].text /\ Told(t, i).opened = screen[i].opened
              /\ Told(t, i).emoji = [screen[i].emoji EXCEPT ![t.user] = t.mood]
         /\ ~(t.op \in {"edit", "open", "react"} /\ i = t.id) =>
              /\ Told(t, i).text = screen[i].text /\ Told(t, i).opened = screen[i].opened
              /\ Told(t, i).emoji = screen[i].emoji
<1>1. PICK s \in Shown : s = screen[i]
  BY DEF ChatTypeOK
<1>2. PICK a : a = [s EXCEPT !.gone = TRUE]
  OBVIOUS
<1>3. /\ a \in Shown /\ a.gone /\ a.text = s.text /\ a.opened = s.opened /\ a.emoji = s.emoji
  BY <1>2 DEF Shown
<1>4. PICK b : b = [s EXCEPT !.text = t.text, !.opened = t.opened]
  OBVIOUS
<1>5. b \in Shown /\ b.gone = s.gone /\ b.text = t.text /\ b.opened = t.opened /\ b.emoji = s.emoji
  BY <1>4 DEF Shown, Job
<1>6. PICK e : e = [s.emoji EXCEPT ![t.user] = t.mood]
  OBVIOUS
<1>7. e \in [Folk -> Emoji \cup {Nobody}]
  BY <1>6 DEF Shown, Job
<1>8. PICK c : c = [s EXCEPT !.emoji = e]
  OBVIOUS
<1>9. c \in Shown /\ c.gone = s.gone /\ c.text = s.text /\ c.opened = s.opened /\ c.emoji = e
  BY <1>7, <1>8 DEF Shown
<1>10. Told(t, i) =
         CASE t.op = "clear" \/ (t.op = "delete" /\ i = t.id) -> a
           [] t.op \in {"edit", "open"} /\ i = t.id -> b
           [] t.op = "react" /\ i = t.id -> c
           [] OTHER -> s
  BY <1>1, <1>2, <1>4, <1>6, <1>8 DEF Told
<1>11. NoMessage \notin Shown
  BY ChatAssumption
<1>12. CASE t.op = "clear" \/ (t.op = "delete" /\ i = t.id)
  <2>1. Told(t, i) = a
    BY <1>10, <1>12
  <2> QED BY <1>1, <1>3, <1>11, <1>12, <2>1
<1>13. CASE t.op \in {"edit", "open"} /\ i = t.id
  <2>1. Told(t, i) = b
    BY <1>10, <1>13
  <2> QED BY <1>1, <1>5, <1>11, <1>13, <2>1
<1>14. CASE t.op = "react" /\ i = t.id
  <2>1. Told(t, i) = c
    BY <1>10, <1>14
  <2> QED BY <1>1, <1>6, <1>9, <1>11, <1>14, <2>1
<1>15. CASE ~(t.op = "clear" \/ (t.op \in {"delete", "edit", "open", "react"} /\ i = t.id))
  <2>1. Told(t, i) = s
    BY <1>10, <1>15
  <2> QED BY <1>1, <1>11, <1>15, <2>1
<1> QED BY <1>12, <1>13, <1>14, <1>15

LEMMA FitsKept ==
  ASSUME NEW i, NEW s, Fits(i, s), stored'[i] = stored[i], emoji'[i] = emoji[i]
  PROVE  Fits(i, s)'
BY DEF Fits, There, Undeleted

(* A job of the same frame, with nothing stored or shown in between.        *)
LEMMA ShownKept ==
  ASSUME NEW t, NEW n, SameFrame(t, n), ShownWith(t),
         UNCHANGED <<stored, emoji, pinned, screen, plan>>,
         Pending(n) <=> Pending(t), Unshown(n) <=> Unshown(t),
         PinLoose(t) => PinLoose(n) \/ pinned # t.id,
         MoodLoose(t) => MoodLoose(n)
  PROVE  ShownWith(n)'
<1> SUFFICES ASSUME NEW i \in Ids
             PROVE  /\ IF Unshown(n) /\ i = n.id THEN Unsent(i)' ELSE Fits(i, Seen(n, i))'
                    /\ There(i)' /\ stored'[i].gone =>
                         /\ pinned' # i \/ (PinLoose(n) /\ i = n.id)
                         /\ Room' => NoMoods(i)' \/ (MoodLoose(n) /\ i = n.id)
  BY DEF ShownWith, Unshown, PinLoose, MoodLoose
<1>1. n.id = t.id
  BY DEF SameFrame
<1>2. Unsent(i)' <=> Unsent(i)
  BY DEF Unsent, Undeleted, There, NoMoods
<1>3. PICK s : s = Seen(t, i)
  OBVIOUS
<1>4. s = Seen(n, i)'
  <2>1. Told(n, i)' = Told(n, i)
    BY DEF Told
  <2>2. Told(n, i) = Told(t, i)
    BY ToldSame
  <2>3. Pending(n)' <=> Pending(t)
    BY DEF Pending
  <2> HIDE DEF Told, Pending
  <2> QED BY <1>3, <2>1, <2>2, <2>3 DEF Seen
<1>5. Fits(i, s) => Fits(i, Seen(n, i))'
  BY <1>4, FitsKept DEF Fits, There, Undeleted
<1>6. IF Unshown(t) /\ i = t.id THEN Unsent(i) ELSE Fits(i, s)
  BY <1>3 DEF ShownWith
<1>7. /\ There(i)' <=> There(i)
      /\ stored'[i].gone = stored[i].gone /\ pinned' = pinned
      /\ Room' <=> Room
      /\ NoMoods(i)' <=> NoMoods(i)
  BY DEF There, Room, NoMoods
<1>8. There(i) /\ stored[i].gone =>
         /\ pinned # i \/ (PinLoose(t) /\ i = t.id)
         /\ Room => NoMoods(i) \/ (MoodLoose(t) /\ i = t.id)
  BY DEF ShownWith
<1> HIDE DEF There, Room, NoMoods, Unsent, Fits, Seen, Unshown, PinLoose, MoodLoose, Pending
<1>9. IF Unshown(n) /\ i = n.id THEN Unsent(i)' ELSE Fits(i, Seen(n, i))'
  BY <1>1, <1>2, <1>5, <1>6
<1>10. There(i)' /\ stored'[i].gone =>
         /\ pinned' # i \/ (PinLoose(n) /\ i = n.id)
         /\ Room' => NoMoods(i)' \/ (MoodLoose(n) /\ i = n.id)
  BY <1>1, <1>7, <1>8
<1> QED BY <1>9, <1>10

LEMMA CalmIsIdle ==
  ASSUME NEW t, Calm(t)
  PROVE  ShownWith(t) <=> Idle
BY DEF Calm, ShownWith, Idle, Seen, PinLoose, MoodLoose, Pending, Unshown

LEMMA IdleKept ==
  ASSUME Idle, UNCHANGED <<stored, emoji, pinned, screen, plan>>
  PROVE  Idle'
BY DEF Idle, Fits, There, Undeleted, NoMoods, Room

(* Before the step of h, the only handler there is.                         *)
Before(h) ==
  /\ ShownWith(jobs[h]) /\ JobShows(jobs[h])
  /\ \A i \in Ids : ~There(i) => NoMoods(i)
  /\ Room => pinned = NoMessage

(* After it.                                                                *)
After(h) ==
  /\ IsDone(h) => Idle'
  /\ ~IsDone(h) => ShownWith(jobs[h])' /\ JobShows(jobs[h])'
  /\ \A i \in Ids : ~There(i)' => NoMoods(i)'
  /\ Room' => pinned' = NoMessage

LEMMA GoesOnSame ==
  ASSUME NEW h, NEW at, GoesOn(h, at)
  PROVE  SameFrame(jobs[h], jobs'[h]) /\ jobs'[h].at = at /\ ~IsDone(h)
BY DEF GoesOn, SameFrame, IsDone

(* A constant job in the place of the one the handler has.                  *)
LEMMA JobByName ==
  ASSUME NEW h, NEW n, n = jobs'[h]
  PROVE  /\ ShownWith(n)' => ShownWith(jobs[h])'
         /\ JobShows(n)' => JobShows(jobs[h])'
<1>1. ShownWith(n)' => ShownWith(jobs[h])'
  BY DEF ShownWith, Unshown, Pending, PinLoose, MoodLoose, Seen, Told
<1>2. JobShows(n)' => JobShows(jobs[h])'
  BY DEF JobShows
<1> QED BY <1>1, <1>2

(* Steps that store nothing, show nothing and pin nothing.                  *)
LEMMA QuietShown ==
  ASSUME ChatTypeOK, NEW h \in Handlers, HandlerStep(h), Before(h),
         UNCHANGED <<stored, emoji, pinned, screen, plan>>,
         jobs[h].at \in {"ensure", "insert", "ownread", "count", "commit", "mention", "schedule",
                        "all", "last", "pinned"},
         jobs[h].at \in {"insert", "commit", "schedule", "last"} => IsDone(h),
         jobs[h].at \in {"ownread", "count", "pinned"} => ~IsDone(h),
         jobs[h].at = "pinned" /\ pinned = jobs[h].id => jobs'[h].at = "unpin"
  PROVE  After(h)
<1>0. PICK t : t = jobs[h]
  OBVIOUS
<1>1. ShownWith(t) /\ JobShows(t)
  BY <1>0 DEF Before
<1>2. (\A i \in Ids : ~There(i)' => NoMoods(i)') /\ (Room' => pinned' = NoMessage)
  BY DEF Before, There, NoMoods, Room
<1>3. CASE IsDone(h)
  <2>1. Calm(t)
    BY <1>0, <1>3 DEF Calm, Unshown, Pending
  <2>2. Idle'
    BY <1>1, <2>1, CalmIsIdle, IdleKept
  <2> QED BY <1>2, <1>3, <2>2 DEF After
<1>4. CASE ~IsDone(h)
  <2>1. PICK at \in Follows(h) : GoesOn(h, at)
    BY <1>4, HandlerMoves
  <2>2. PICK n : n = jobs'[h]
    OBVIOUS
  <2>3. SameFrame(t, n) /\ n.at = at /\ n.id = t.id /\ n.op = t.op
    BY <1>0, <2>1, <2>2, GoesOnSame DEF SameFrame
  <2>4. t.at \in {"ensure", "ownread", "count", "mention", "all", "pinned"}
    BY <1>0, <1>4
  <2>5. /\ Pending(n) <=> Pending(t)
        /\ Unshown(n) <=> Unshown(t)
        /\ PinLoose(t) => PinLoose(n) \/ pinned # t.id
        /\ MoodLoose(t) => MoodLoose(n)
    BY <1>0, <2>1, <2>2, <2>3, <2>4 DEF Follows, Pending, Unshown, PinLoose, MoodLoose
  <2>6. ShownWith(n)'
    BY <1>1, <2>3, <2>5, ShownKept
  <2>7. JobShows(n)'
    <3>1. n.at \notin {"erase", "write"} /\ (n.at \in {"pinned", "unpin", "sweep"} => t.at = "pinned")
      BY <1>0, <2>1, <2>3, <2>4 DEF Follows
    <3>2. t.at = "pinned" => t.op = "delete" /\ There(t.id) /\ stored[t.id].gone
      BY <1>1 DEF JobShows
    <3> QED BY <2>3, <3>1, <3>2 DEF JobShows, There
  <2> QED BY <1>2, <1>4, <2>2, <2>6, <2>7, JobByName DEF After
<1> QED BY <1>3, <1>4

(* The message comes in.                                                    *)
LEMMA ComingShown ==
  ASSUME ChatTypeOK, Grows, NEW h \in Busy, Before(h), ~There(jobs[h].id), stored' = Stored(h),
         UNCHANGED <<emoji, pinned, screen, plan>>,
         jobs[h].at \in {"insert", "commit"}, NEW at \in {"ownread", "count", "fan"}, GoesOn(h, at)
  PROVE  After(h)
<1>0. PICK t : t = jobs[h]
  OBVIOUS
<1>1. t \in Job /\ t.id \in Ids /\ ShownWith(t)
  BY <1>0, JobIsTyped DEF Job, Before
<1>2. PICK n : n = jobs'[h]
  OBVIOUS
<1>3. n.at = at /\ n.id = t.id
  BY <1>0, <1>2, GoesOnSame DEF SameFrame
<1>4. PICK m : m = [by |-> t.user, at |-> t.now, text |-> Original, opened |-> {}, gone |-> FALSE]
  OBVIOUS
<1>5. m \in Message /\ m # NoMessage
  <2>1. m \in Message
    BY <1>1, <1>4 DEF Message, Job
  <2> QED BY <2>1, ChatAssumption
<1>6. m.text = Original /\ m.opened = {} /\ m.gone = FALSE
  BY <1>4
<1>7. stored' = [stored EXCEPT ![t.id] = m]
  BY <1>0, <1>4 DEF Stored
<1>8. stored'[t.id] = m /\ \A i \in Ids : i # t.id => stored'[i] = stored[i]
  BY <1>1, <1>7 DEF ChatTypeOK
<1>9. Calm(t)
  BY <1>0 DEF Calm, Unshown, Pending
<1>10. Idle
  BY <1>1, <1>9, CalmIsIdle
<1>11. Unsent(t.id)'
  <2>1. screen[t.id] = NoMessage
    BY <1>0, <1>1, <1>10 DEF Idle, Fits
  <2>2. NoMoods(t.id)
    BY <1>0, <1>1 DEF Before
  <2> QED BY <1>5, <1>6, <1>8, <2>1, <2>2 DEF Unsent, Undeleted, There, NoMoods
<1>12. ASSUME NEW i \in Ids, i # t.id
       PROVE  /\ Fits(i, Seen(n, i))'
              /\ There(i)' /\ stored'[i].gone => pinned' # i /\ (Room' => NoMoods(i)')
  <2>1. PICK s : s = screen[i]
    OBVIOUS
  <2>2. Fits(i, s)'
    BY <1>8, <1>10, <1>12, <2>1, FitsKept DEF Idle
  <2>3. s = Seen(n, i)'
    BY <1>3, <2>1 DEF Seen, Pending
  <2>4. There(i) /\ stored[i].gone => pinned # i /\ (Room => NoMoods(i))
    BY <1>10 DEF Idle
  <2>5. There(i)' /\ stored'[i].gone => pinned' # i /\ (Room' => NoMoods(i)')
    BY <1>8, <1>12, <2>4 DEF There, NoMoods, Room
  <2> QED BY <2>2, <2>3, <2>5 DEF Fits, There, Undeleted
<1>13. ShownWith(n)'
  <2>1. ~stored'[t.id].gone
    BY <1>6, <1>8
  <2>2. Unshown(n)
    BY <1>3 DEF Unshown
  <2> HIDE DEF Fits, Unsent, Seen, NoMoods
  <2> QED BY <1>3, <1>11, <1>12, <2>1, <2>2 DEF ShownWith, Unshown
<1>14. JobShows(n)'
  BY <1>3 DEF JobShows
<1>15. (\A i \in Ids : ~There(i)' => NoMoods(i)') /\ (Room' => pinned' = NoMessage)
  BY DEF Before, Grows, Same, NoMoods, Room
<1>16. ~IsDone(h)
  BY GoesOnSame
<1> QED BY <1>2, <1>13, <1>14, <1>15, <1>16, JobByName DEF After

LEMMA FanShown ==
  ASSUME ChatTypeOK, NEW h \in Busy, Before(h), FanOut(h)
  PROVE  After(h)
<1>0. PICK t : t = jobs[h]
  OBVIOUS
<1>1. t \in Job /\ t.id \in Ids /\ ShownWith(t) /\ t.at = "fan"
  BY <1>0, JobIsTyped DEF Job, Before, FanOut, JobAt
<1>2. PICK n : n = jobs'[h]
  OBVIOUS
<1>3. PICK at \in {"mention", "schedule"} : JobTo(h, at)
  BY DEF FanOut
<1>4. n.at = at /\ n.id = t.id /\ ~IsDone(h)
  BY <1>0, <1>2, <1>3, JobGoesOn, GoesOnSame DEF SameFrame
<1>5. UNCHANGED <<stored, emoji, pinned, plan>>
  BY DEF FanOut, dbVars, boundVars
<1>6. PICK new : new = NewOnScreen
  OBVIOUS
<1>7. /\ new \in Shown /\ new # NoMessage /\ new.text = Original /\ new.opened = {}
      /\ new.gone = FALSE /\ new.emoji = [u \in Folk |-> Nobody]
  <2>1. new \in Shown
    BY <1>6 DEF NewOnScreen, Shown
  <2> QED BY <1>6, <2>1, ChatAssumption DEF NewOnScreen
<1>8. screen' = [screen EXCEPT ![t.id] = new]
  BY <1>0, <1>6 DEF FanOut
<1>9. screen'[t.id] = new /\ \A i \in Ids : i # t.id => screen'[i] = screen[i]
  BY <1>1, <1>8 DEF ChatTypeOK
<1>10. Unsent(t.id) /\ \A i \in Ids : i # t.id => Fits(i, screen[i])
  BY <1>1 DEF ShownWith, Unshown, Seen, Pending
<1>11. Fits(t.id, new)
  <2>1. emoji[t.id] = [u \in Folk |-> Nobody]
    BY <1>1, <1>10 DEF ChatTypeOK, Unsent, NoMoods
  <2>2. There(t.id) /\ ~stored[t.id].gone
    BY <1>10 DEF Unsent, Undeleted
  <2>3. stored[t.id].gone \in BOOLEAN
    BY <1>1, <2>2 DEF ChatTypeOK, There, Message
  <2>4. stored[t.id].text = Original /\ stored[t.id].opened = {}
    BY <1>10 DEF Unsent
  <2> QED BY <1>7, <2>1, <2>2, <2>3, <2>4 DEF Fits, Undeleted
<1>12. \A i \in Ids : Fits(i, screen'[i])
  BY <1>9, <1>10, <1>11
<1>13. \A i \in Ids : There(i) /\ stored[i].gone => pinned # i /\ (Room => NoMoods(i))
  BY <1>1 DEF ShownWith, PinLoose, MoodLoose
<1>14. Idle'
  BY <1>5, <1>12, <1>13 DEF Idle, Fits, There, Undeleted, NoMoods, Room
<1>15. Calm(n)
  BY <1>4 DEF Calm, Unshown, Pending
<1>16. ShownWith(n)'
  <2>1. Calm(n) => (ShownWith(n)' <=> Idle')
    BY DEF Calm, ShownWith, Idle, Seen, PinLoose, MoodLoose, Pending, Unshown
  <2> QED BY <1>14, <1>15, <2>1
<1>17. JobShows(n)'
  BY <1>4 DEF JobShows
<1>18. (\A i \in Ids : ~There(i)' => NoMoods(i)') /\ (Room' => pinned' = NoMessage)
  BY <1>5 DEF Before, There, NoMoods, Room
<1> QED BY <1>2, <1>4, <1>16, <1>17, <1>18, JobByName DEF After

LEMMA EraseShown ==
  ASSUME ChatTypeOK, NEW h \in Busy, Before(h), Erase(h)
  PROVE  After(h)
<1>0. PICK t : t = jobs[h]
  OBVIOUS
<1>1. /\ t \in Job /\ t.id \in Ids /\ ShownWith(t) /\ t.at = "erase" /\ t.op = "delete"
      /\ Undeleted(t.id)
  BY <1>0, JobIsTyped DEF Job, Before, Erase, JobAt, JobShows
<1>2. PICK n : n = jobs'[h]
  OBVIOUS
<1>3. PICK at : at = IF Group THEN "pinned" ELSE "sweep"
  OBVIOUS
<1>4. SameFrame(t, n) /\ n.at = at /\ n.id = t.id /\ n.op = "delete" /\ ~IsDone(h)
  <2>1. JobTo(h, at)
    BY <1>3 DEF Erase
  <2> QED BY <1>0, <1>1, <1>2, <1>3, <2>1, JobGoesOn, GoesOnSame DEF SameFrame
<1>5. UNCHANGED <<emoji, pinned, screen, plan>>
  BY DEF Erase, seenVars, boundVars
<1>6. stored' = Gone({t.id})
  BY <1>0 DEF Erase
<1>7. \A i \in Ids : i # t.id => stored'[i] = stored[i]
  BY <1>6 DEF Gone
<1>8. There(t.id)' /\ stored'[t.id].gone = TRUE
  <2>1. PICK m \in Message : m = stored[t.id]
    BY <1>1 DEF Undeleted, There, ChatTypeOK
  <2>2. PICK g : g = [m EXCEPT !.gone = TRUE]
    OBVIOUS
  <2>3. g \in Message /\ g.gone = TRUE
    BY <2>2 DEF Message
  <2>4. stored'[t.id] = g
    BY <1>1, <1>6, <2>1, <2>2 DEF Gone, Undeleted
  <2>5. g # NoMessage
    BY <2>3, ChatAssumption
  <2> QED BY <2>3, <2>4, <2>5 DEF There
<1>9. Idle
  BY <1>1, CalmIsIdle DEF Calm, Unshown, Pending
<1>10. \A i \in Ids : screen'[i] # NoMessage => Told(n, i)' = Told(t, i)
  <2>1. \A i \in Ids : Told(n, i)' = Told(n, i)
    BY <1>5 DEF Told
  <2> QED BY <1>4, <2>1, ToldSame
<1>11. Pending(n) /\ ~Unshown(n)
  BY <1>3, <1>4 DEF Pending, Unshown
<1>12. Fits(t.id, Seen(n, t.id))'
  <2>1. screen[t.id] # NoMessage
    BY <1>1, <1>9 DEF Idle, Fits, Undeleted
  <2>2. Told(t, t.id) # NoMessage /\ Told(t, t.id).gone
    BY <1>1, <2>1, ToldFacts
  <2>3. PICK s : s = Told(t, t.id)
    OBVIOUS
  <2>4. Seen(n, t.id)' = s
    <3>1. Pending(n)' <=> Pending(n)
      BY DEF Pending
    <3>2. screen'[t.id] # NoMessage /\ Told(n, t.id)' = s
      BY <1>1, <1>5, <1>10, <2>1, <2>3
    <3>3. Seen(n, t.id)' = Told(n, t.id)'
      BY <1>11, <3>1, <3>2 DEF Seen
    <3> QED BY <3>2, <3>3
  <2>5. s # NoMessage /\ s.gone = TRUE
    <3>1. s.gone = [screen[t.id] EXCEPT !.gone = TRUE].gone
      BY <1>1, <2>3 DEF Told
    <3>2. screen[t.id] \in Shown
      BY <1>1, <2>1 DEF ChatTypeOK
    <3>3. [screen[t.id] EXCEPT !.gone = TRUE].gone = TRUE
      BY <3>2 DEF Shown
    <3> QED BY <2>2, <2>3, <3>1, <3>3
  <2>6. Fits(t.id, s)'
    BY <1>8, <2>5 DEF Fits, Undeleted, There
  <2> QED BY <2>4, <2>6 DEF Fits, Undeleted, There
<1>13. ASSUME NEW i \in Ids, i # t.id
       PROVE  Fits(i, Seen(n, i))'
  <2>1. PICK s : s = screen[i]
    OBVIOUS
  <2>2. Fits(i, s)'
    BY <1>5, <1>7, <1>9, <1>13, <2>1, FitsKept DEF Idle
  <2>3. Seen(n, i)' = s
    <3>1. Told(t, i) = s
      BY <1>1, <1>13, <2>1 DEF Told
    <3>2. screen'[i] = s /\ (s # NoMessage => Told(n, i)' = s)
      BY <1>5, <1>10, <2>1, <3>1
    <3> QED BY <3>2 DEF Seen
  <2> QED BY <2>2, <2>3 DEF Fits, Undeleted, There
<1>14. ASSUME NEW i \in Ids, There(i)', stored'[i].gone
       PROVE  /\ pinned' # i \/ (PinLoose(n) /\ i = n.id)
              /\ Room' => NoMoods(i)' \/ (MoodLoose(n) /\ i = n.id)
  <2>1. CASE i = t.id
    <3>1. CASE Group
      BY <1>3, <1>4, <1>5, <2>1, <3>1 DEF PinLoose, Group, Room
    <3>2. CASE ~Group
      <4>1. Room /\ MoodLoose(n)
        BY <1>3, <1>4, <3>2, ChatAssumption DEF Group, Room, MoodLoose, ChatTypeOK, Plan
      <4>2. pinned' # i
        BY <1>5, <4>1, ChatAssumption DEF Before
      <4> QED BY <1>4, <2>1, <4>1, <4>2
    <3> QED BY <3>1, <3>2
  <2>2. CASE i # t.id
    <3>1. There(i) /\ stored[i].gone
      BY <1>7, <1>14, <2>2 DEF There
    <3> QED BY <1>5, <1>9, <3>1 DEF Idle, NoMoods, Room
  <2> QED BY <2>1, <2>2
<1>15. ShownWith(n)'
  <2>1. \A i \in Ids : Fits(i, Seen(n, i))'
    BY <1>12, <1>13
  <2>2. ~Unshown(n)'
    BY <1>11 DEF Unshown
  <2>3. /\ PinLoose(n)' <=> PinLoose(n)
        /\ MoodLoose(n)' <=> MoodLoose(n)
    BY DEF PinLoose, MoodLoose
  <2> HIDE DEF Fits, Unsent, Seen, NoMoods, There, Unshown, PinLoose, MoodLoose
  <2> QED BY <1>14, <2>1, <2>2, <2>3 DEF ShownWith
<1>16. JobShows(n)'
  BY <1>3, <1>4, <1>8 DEF JobShows, There
<1>17. (\A i \in Ids : ~There(i)' => NoMoods(i)') /\ (Room' => pinned' = NoMessage)
  <2>1. \A i \in Ids : ~There(i)' => ~There(i)
    BY <1>7, <1>8 DEF There
  <2> QED BY <1>5, <2>1 DEF Before, NoMoods, Room
<1> QED BY <1>2, <1>4, <1>15, <1>16, <1>17, JobByName DEF After

(* The pin and the reactions of a deleted message go.                       *)
LEMMA TidyShown ==
  ASSUME ChatTypeOK, NEW h \in Busy, Before(h), UnpinDeleted(h) \/ SweepReactions(h)
  PROVE  After(h)
<1>0. PICK t : t = jobs[h]
  OBVIOUS
<1>1. /\ t \in Job /\ t.id \in Ids /\ t.user \in Folk /\ ShownWith(t)
      /\ t.at \in {"unpin", "sweep"} /\ t.op = "delete" /\ There(t.id) /\ stored[t.id].gone
  BY <1>0, JobIsTyped DEF Job, Before, UnpinDeleted, SweepReactions, JobAt, JobShows
<1>2. PICK n : n = jobs'[h]
  OBVIOUS
<1>4. SameFrame(t, n) /\ n.at = "tell" /\ n.id = t.id /\ n.op = "delete" /\ ~IsDone(h)
  <2>1. JobTo(h, "tell")
    BY DEF UnpinDeleted, SweepReactions
  <2> QED BY <1>0, <1>1, <1>2, <2>1, JobGoesOn, GoesOnSame DEF SameFrame
<1>5. UNCHANGED <<stored, screen, plan>>
  BY DEF UnpinDeleted, SweepReactions, seenVars, boundVars
<1>6. /\ pinned' \in {pinned, NoMessage}
      /\ t.at = "unpin" => pinned' = NoMessage
  BY <1>0 DEF UnpinDeleted, SweepReactions, JobAt
<1>7. /\ \A i \in Ids : i # t.id => emoji'[i] = emoji[i]
      /\ emoji'[t.id] = emoji[t.id] \/ NoMoods(t.id)'
      /\ t.at = "sweep" => NoMoods(t.id)'
  <2>1. CASE UnpinDeleted(h)
    BY <1>0, <2>1 DEF UnpinDeleted, JobAt
  <2>2. CASE SweepReactions(h)
    <3>1. emoji' = [emoji EXCEPT ![t.id] = [u \in Folk |-> Nobody]]
      BY <1>0, <2>2 DEF SweepReactions
    <3>2. emoji'[t.id] = [u \in Folk |-> Nobody] /\ \A i \in Ids : i # t.id => emoji'[i] = emoji[i]
      BY <1>1, <3>1 DEF ChatTypeOK
    <3> QED BY <3>2 DEF NoMoods
  <2> QED BY <2>1, <2>2
<1>8. Pending(t) /\ Pending(n) /\ ~Unshown(n) /\ ~Unshown(t)
  BY <1>1, <1>4 DEF Pending, Unshown
<1>9. ASSUME NEW i \in Ids
      PROVE  Fits(i, Seen(n, i))'
  <2>1. PICK s : s = Seen(t, i)
    OBVIOUS
  <2>2. Fits(i, s)
    BY <1>1, <1>8, <2>1 DEF ShownWith
  <2>3. Seen(n, i)' = s
    <3>1. Told(n, i)' = Told(n, i)
      BY <1>5 DEF Told
    <3>2. Told(n, i) = Told(t, i)
      BY <1>4, ToldSame
    <3>3. Pending(n)' <=> Pending(t)
      BY <1>8 DEF Pending
    <3> HIDE DEF Told, Pending
    <3> QED BY <1>5, <2>1, <3>1, <3>2, <3>3 DEF Seen
  <2>4. Fits(i, s)'
    <3>1. CASE i = t.id
      BY <1>1, <1>5, <2>2, <3>1 DEF Fits, There, Undeleted
    <3>2. CASE i # t.id
      BY <1>5, <1>7, <2>2, <3>2, FitsKept
    <3> QED BY <3>1, <3>2
  <2> QED BY <2>3, <2>4 DEF Fits, There, Undeleted
<1>10. ASSUME NEW i \in Ids, There(i)', stored'[i].gone
       PROVE  pinned' # i /\ (Room' => NoMoods(i)')
  <2>1. There(i) /\ stored[i].gone
    BY <1>5, <1>10 DEF There
  <2>2. /\ pinned # i \/ (PinLoose(t) /\ i = t.id)
        /\ Room => NoMoods(i) \/ (MoodLoose(t) /\ i = t.id)
    BY <1>1, <2>1 DEF ShownWith
  <2>3. pinned' # i
    BY <1>1, <1>6, <2>2, ChatAssumption DEF PinLoose
  <2>4. Room => NoMoods(i)'
    <3>1. CASE i = t.id /\ ~NoMoods(t.id)'
      <4>1. emoji'[i] = emoji[i] /\ t.at # "sweep"
        BY <1>7, <3>1
      <4> QED BY <2>2, <4>1 DEF NoMoods, MoodLoose
    <3>2. CASE i = t.id /\ NoMoods(t.id)'
      BY <1>4, <3>2 DEF NoMoods
    <3>3. CASE i # t.id
      BY <1>7, <2>2, <3>3 DEF NoMoods, MoodLoose
    <3> QED BY <3>1, <3>2, <3>3
  <2> QED BY <1>5, <2>3, <2>4 DEF Room
<1>15. ShownWith(n)'
  <2>2. ~Unshown(n)'
    BY <1>8 DEF Unshown
  <2> HIDE DEF Fits, Unsent, Seen, NoMoods, There, Unshown, PinLoose, MoodLoose
  <2> QED BY <1>9, <1>10, <2>2 DEF ShownWith
<1>16. JobShows(n)'
  BY <1>4 DEF JobShows
<1>17. (\A i \in Ids : ~There(i)' => NoMoods(i)') /\ (Room' => pinned' = NoMessage)
  <2>1. \A i \in Ids : ~There(i)' => NoMoods(i)'
    BY <1>1, <1>5, <1>7 DEF Before, There, NoMoods
  <2> QED BY <1>5, <1>6, <2>1 DEF Before, Room
<1> QED BY <1>2, <1>4, <1>15, <1>16, <1>17, JobByName DEF After

LEMMA TellShown ==
  ASSUME ChatTypeOK, NEW h \in Busy, Before(h), Tell(h)
  PROVE  After(h)
<1>0. PICK t : t = jobs[h]
  OBVIOUS
<1>1. t \in Job /\ t.id \in Ids /\ ShownWith(t) /\ t.at = "tell"
  BY <1>0, JobIsTyped DEF Job, Before, Tell, JobAt
<1>2. UNCHANGED <<stored, emoji, pinned, plan>> /\ Finish(h)
  BY DEF Tell, dbVars, boundVars
<1>3. \A i \in Ids : screen'[i] = Seen(t, i)
  BY <1>0, <1>1 DEF Tell, Seen, Pending
<1>4. \A i \in Ids : Fits(i, screen'[i])
  BY <1>1, <1>3 DEF ShownWith, Unshown
<1>5. \A i \in Ids : There(i) /\ stored[i].gone => pinned # i /\ (Room => NoMoods(i))
  BY <1>1 DEF ShownWith, PinLoose, MoodLoose
<1>6. Idle'
  BY <1>2, <1>4, <1>5 DEF Idle, Fits, There, Undeleted, NoMoods, Room
<1>7. IsDone(h)
  BY <1>2, FinishFacts DEF IsDone
<1>8. (\A i \in Ids : ~There(i)' => NoMoods(i)') /\ (Room' => pinned' = NoMessage)
  BY <1>2 DEF Before, There, NoMoods, Room
<1> QED BY <1>6, <1>7, <1>8 DEF After

LEMMA WriteShown ==
  ASSUME ChatTypeOK, NEW h \in Busy, Before(h), Write(h)
  PROVE  After(h)
<1>0. PICK t : t = jobs[h]
  OBVIOUS
<1>1. /\ t \in Job /\ t.id \in Ids /\ t.user \in Folk /\ t.mood \in Emoji \cup {Nobody}
      /\ ShownWith(t) /\ t.at = "write" /\ Undeleted(t.id)
      /\ t.op \in {"pin", "unpin", "edit", "open", "react"} /\ (t.op \in {"pin", "unpin"} => Group)
  BY <1>0, JobIsTyped DEF Job, Before, Write, JobAt, JobShows
<1>2. PICK n : n = jobs'[h]
  OBVIOUS
<1>4. SameFrame(t, n) /\ n.at = "tell" /\ n.id = t.id /\ n.op = t.op /\ ~IsDone(h)
  <2>1. JobTo(h, "tell")
    BY DEF Write
  <2> QED BY <1>0, <1>1, <1>2, <2>1, JobGoesOn, GoesOnSame DEF SameFrame
<1>5. UNCHANGED <<screen, plan>>
  BY DEF Write, seenVars, boundVars
<1>6. Idle
  BY <1>1, CalmIsIdle DEF Calm, Unshown, Pending
<1>7. There(t.id) /\ ~stored[t.id].gone /\ screen[t.id] # NoMessage
  BY <1>1, <1>6 DEF Undeleted, Idle, Fits
<1>8. \A i \in Ids : i # t.id => stored'[i] = stored[i] /\ emoji'[i] = emoji[i]
  BY <1>0, <1>1 DEF Write, ChatTypeOK
<1>9. /\ There(t.id)' /\ stored'[t.id].gone = stored[t.id].gone
      /\ t.op \in {"edit", "open"} =>
           stored'[t.id].text = t.text /\ stored'[t.id].opened = t.opened
      /\ t.op \notin {"edit", "open"} => stored'[t.id] = stored[t.id]
  <2>1. PICK m \in Message : m = stored[t.id]
    BY <1>1, <1>7 DEF There, ChatTypeOK
  <2>2. CASE t.op \in {"edit", "open"}
    <3>1. PICK g : g = [m EXCEPT !.text = t.text, !.opened = t.opened]
      OBVIOUS
    <3>2. g \in Message /\ g.gone = m.gone /\ g.text = t.text /\ g.opened = t.opened
      BY <1>1, <3>1 DEF Message, Job
    <3>3. stored' = [stored EXCEPT ![t.id] = g]
      BY <1>0, <1>1, <2>1, <2>2, <3>1 DEF Write
    <3>4. stored'[t.id] = g
      BY <1>1, <3>3 DEF ChatTypeOK
    <3>5. g # NoMessage
      BY <3>2, ChatAssumption
    <3> QED BY <2>1, <2>2, <3>2, <3>4, <3>5 DEF There
  <2>3. CASE t.op \notin {"edit", "open"}
    <3>1. stored' = stored
      BY <1>0, <2>3 DEF Write
    <3> QED BY <1>7, <2>3, <3>1 DEF There
  <2> QED BY <2>2, <2>3
<1>10. /\ t.op = "react" => emoji'[t.id] = [emoji[t.id] EXCEPT ![t.user] = t.mood]
       /\ t.op # "react" => emoji'[t.id] = emoji[t.id]
  <2>1. CASE t.op = "react"
    <3>1. emoji' = [emoji EXCEPT ![t.id] = [emoji[t.id] EXCEPT ![t.user] = t.mood]]
      BY <1>0, <2>1 DEF Write
    <3> QED BY <1>1, <2>1, <3>1 DEF ChatTypeOK
  <2>2. CASE t.op # "react"
    BY <1>0, <2>2 DEF Write
  <2> QED BY <2>1, <2>2
<1>11. pinned' \in {pinned, NoMessage, t.id} /\ (pinned' = t.id => pinned = t.id \/ t.op = "pin")
  BY <1>0 DEF Write
<1>12. \A i \in Ids : Told(n, i)' = Told(t, i)
  <2>1. \A i \in Ids : Told(n, i)' = Told(n, i)
    BY <1>5 DEF Told
  <2> QED BY <1>4, <2>1, ToldSame
<1>13. Pending(n)' /\ ~Unshown(n)'
  BY <1>4 DEF Pending, Unshown
<1>14. ASSUME NEW i \in Ids, i # t.id
       PROVE  Fits(i, Seen(n, i))'
  <2>1. PICK s : s = screen[i]
    OBVIOUS
  <2>2. Fits(i, s)'
    BY <1>6, <1>8, <1>14, <2>1, FitsKept DEF Idle
  <2>3. Seen(n, i)' = s
    <3>1. Told(t, i) = s
      BY <1>1, <1>14, <2>1 DEF Told
    <3>2. screen'[i] = s /\ Told(n, i)' = s
      BY <1>5, <1>12, <2>1, <3>1
    <3> QED BY <3>2 DEF Seen
  <2> QED BY <2>2, <2>3 DEF Fits, Undeleted, There
<1>15. Fits(t.id, Seen(n, t.id))'
  <2>1. PICK s : s = Told(t, t.id)
    OBVIOUS
  <2>2. Seen(n, t.id)' = s
    <3>1. screen'[t.id] # NoMessage /\ Told(n, t.id)' = s
      BY <1>1, <1>5, <1>7, <1>12, <2>1
    <3> QED BY <1>13, <3>1 DEF Seen
  <2>3. s # NoMessage
    BY <1>1, <1>7, <2>1, ToldFacts
  <2>4. Fits(t.id, screen[t.id])
    BY <1>1, <1>6 DEF Idle
  <2>5. s.gone = stored[t.id].gone
    BY <1>1, <1>7, <2>1, <2>4, ToldFacts DEF Fits
  <2>6. /\ screen[t.id].text = stored[t.id].text /\ screen[t.id].opened = stored[t.id].opened
        /\ screen[t.id].emoji = emoji[t.id]
    BY <1>1, <2>4 DEF Fits
  <2>7. /\ s.text = stored'[t.id].text /\ s.opened = stored'[t.id].opened
        /\ s.emoji = emoji'[t.id]
    <3>1. CASE t.op \in {"edit", "open"}
      <4>1. s.text = t.text /\ s.opened = t.opened /\ s.emoji = screen[t.id].emoji
        BY <1>1, <1>7, <2>1, <3>1, ToldFacts
      <4> QED BY <1>9, <1>10, <2>6, <3>1, <4>1
    <3>2. CASE t.op = "react"
      <4>1. /\ s.text = screen[t.id].text /\ s.opened = screen[t.id].opened
            /\ s.emoji = [screen[t.id].emoji EXCEPT ![t.user] = t.mood]
        BY <1>1, <1>7, <2>1, <3>2, ToldFacts
      <4> QED BY <1>9, <1>10, <2>6, <3>2, <4>1
    <3>3. CASE t.op \in {"pin", "unpin"}
      <4>1. /\ s.text = screen[t.id].text /\ s.opened = screen[t.id].opened
            /\ s.emoji = screen[t.id].emoji
        BY <1>1, <1>7, <2>1, <3>3, ToldFacts
      <4> QED BY <1>9, <1>10, <2>6, <3>3, <4>1
    <3> QED BY <1>1, <3>1, <3>2, <3>3
  <2>8. Fits(t.id, s)'
    BY <1>9, <2>3, <2>5, <2>7 DEF Fits, Undeleted, There
  <2> QED BY <2>2, <2>8 DEF Fits, Undeleted, There
<1>16. ASSUME NEW i \in Ids, There(i)', stored'[i].gone
       PROVE  pinned' # i /\ (Room' => NoMoods(i)')
  <2>1. i # t.id
    BY <1>7, <1>9, <1>16
  <2>2. There(i) /\ stored[i].gone
    BY <1>8, <1>16, <2>1 DEF There
  <2>3. pinned # i /\ (Room => NoMoods(i))
    BY <1>6, <2>2 DEF Idle
  <2>4. pinned' # i
    BY <1>11, <2>1, <2>3, ChatAssumption
  <2> QED BY <1>5, <1>8, <2>1, <2>3, <2>4 DEF NoMoods, Room
<1>17. ShownWith(n)'
  <2>1. \A i \in Ids : Fits(i, Seen(n, i))'
    BY <1>14, <1>15
  <2> HIDE DEF Fits, Unsent, Seen, NoMoods, There, Unshown, PinLoose, MoodLoose
  <2> QED BY <1>13, <1>16, <2>1 DEF ShownWith
<1>18. JobShows(n)'
  BY <1>4 DEF JobShows
<1>19. (\A i \in Ids : ~There(i)' => NoMoods(i)') /\ (Room' => pinned' = NoMessage)
  <2>1. \A i \in Ids : ~There(i)' => NoMoods(i)'
    BY <1>8, <1>9 DEF Before, There, NoMoods
  <2>2. Room' => pinned' = NoMessage
    <3>1. Room => t.op \notin {"pin", "unpin"} /\ pinned = NoMessage
      BY <1>1 DEF Group, Room, Before
    <3>2. t.op \notin {"pin", "unpin"} => pinned' = pinned
      BY <1>0 DEF Write
    <3> QED BY <1>5, <3>1, <3>2 DEF Room
  <2> QED BY <2>1, <2>2
<1> QED BY <1>2, <1>4, <1>17, <1>18, <1>19, JobByName DEF After

LEMMA HandlerShown ==
  ASSUME ChatTypeOK, NEW h \in Handlers, HandlerStep(h), Before(h)
  PROVE  After(h)
<1> USE DEF dbVars, readVars, placeVars, seenVars, boundVars
<1>0. /\ h \in Busy /\ Grows
      /\ IsDone(h) \/ \E at \in Follows(h) : GoesOn(h, at)
  BY HandlerMoves, HandlerGrows
<1>f. Finish(h) => IsDone(h)
  BY <1>0, FinishFacts DEF IsDone
<1>1. CASE EnsureSender(h)
  <2>1. UNCHANGED <<stored, emoji, pinned, screen, plan>> /\ jobs[h].at = "ensure"
    BY <1>1 DEF EnsureSender, JobAt
  <2> QED BY <2>1, QuietShown
<1>2. CASE InsertMessage(h)
  <2>1. UNCHANGED <<emoji, pinned, screen, plan>> /\ jobs[h].at = "insert"
    BY <1>2 DEF InsertMessage, JobAt
  <2>2. CASE There(jobs[h].id)
    <3>1. stored' = stored /\ IsDone(h)
      BY <1>2, <1>f, <2>2 DEF InsertMessage
    <3> QED BY <2>1, <3>1, QuietShown
  <2>3. CASE ~There(jobs[h].id)
    <3>1. PICK at \in {"ownread", "count"} : JobTo(h, at)
      BY <1>2, <2>3 DEF InsertMessage
    <3>2. stored' = Stored(h)
      BY <1>2, <2>3 DEF InsertMessage
    <3>3. GoesOn(h, at)
      BY <1>0, <3>1, JobGoesOn
    <3> QED BY <1>0, <2>1, <2>3, <3>2, <3>3, ComingShown
  <2> QED BY <2>2, <2>3
<1>3. CASE ReadOwn(h)
  <2>1. /\ UNCHANGED <<stored, emoji, pinned, screen, plan>> /\ jobs[h].at = "ownread"
        /\ JobTo(h, "count")
    BY <1>3 DEF ReadOwn, JobAt
  <2>2. ~IsDone(h)
    BY <1>0, <2>1, JobGoesOn, GoesOnSame
  <2> QED BY <2>1, <2>2, QuietShown
<1>4. CASE CountMessage(h)
  <2>1. /\ UNCHANGED <<stored, emoji, pinned, screen, plan>> /\ jobs[h].at = "count"
        /\ JobTo(h, "fan")
    BY <1>4 DEF CountMessage, JobAt
  <2>2. ~IsDone(h)
    BY <1>0, <2>1, JobGoesOn, GoesOnSame
  <2> QED BY <2>1, <2>2, QuietShown
<1>5. CASE Commit(h)
  <2>1. UNCHANGED <<emoji, pinned, screen, plan>> /\ jobs[h].at = "commit"
    BY <1>5 DEF Commit, JobAt
  <2>2. CASE There(jobs[h].id)
    <3>1. stored' = stored /\ IsDone(h)
      BY <1>5, <1>f, <2>2 DEF Commit
    <3> QED BY <2>1, <3>1, QuietShown
  <2>3. CASE ~There(jobs[h].id)
    <3>1. JobTo(h, "fan") /\ stored' = Stored(h)
      BY <1>5, <2>3 DEF Commit
    <3>2. GoesOn(h, "fan")
      BY <1>0, <3>1, JobGoesOn
    <3> QED BY <1>0, <2>1, <2>3, <3>1, <3>2, ComingShown
  <2> QED BY <2>2, <2>3
<1>6. CASE FanOut(h)
  BY <1>0, <1>6, FanShown
<1>7. CASE Mention(h)
  <2>1. UNCHANGED <<stored, emoji, pinned, screen, plan>> /\ jobs[h].at = "mention"
    BY <1>7 DEF Mention, JobAt
  <2> QED BY <2>1, QuietShown
<1>8. CASE Schedule(h)
  <2>1. UNCHANGED <<stored, emoji, pinned, screen, plan>> /\ jobs[h].at = "schedule" /\ IsDone(h)
    BY <1>8, <1>f DEF Schedule, JobAt
  <2> QED BY <2>1, QuietShown
<1>9. CASE ReadAll(h)
  <2>1. UNCHANGED <<stored, emoji, pinned, screen, plan>> /\ jobs[h].at = "all"
    BY <1>9 DEF ReadAll, JobAt
  <2> QED BY <2>1, QuietShown
<1>10. CASE ReadLast(h)
  <2>1. UNCHANGED <<stored, emoji, pinned, screen, plan>> /\ jobs[h].at = "last" /\ IsDone(h)
    BY <1>10, <1>f DEF ReadLast, JobAt
  <2> QED BY <2>1, QuietShown
<1>11. CASE Erase(h)
  BY <1>0, <1>11, EraseShown
<1>12. CASE LookForPin(h)
  <2>1. UNCHANGED <<stored, emoji, pinned, screen, plan>> /\ jobs[h].at = "pinned"
    BY <1>12 DEF LookForPin, JobAt
  <2>2. PICK at \in {"unpin", "tell"} :
          JobTo(h, at) /\ at = IF pinned = jobs[h].id THEN "unpin" ELSE "tell"
    BY <1>12 DEF LookForPin
  <2>3. ~IsDone(h) /\ jobs'[h].at = at
    BY <1>0, <2>2, JobGoesOn, GoesOnSame
  <2> QED BY <2>1, <2>2, <2>3, QuietShown
<1>13. CASE UnpinDeleted(h) \/ SweepReactions(h)
  BY <1>0, <1>13, TidyShown
<1>14. CASE Write(h)
  BY <1>0, <1>14, WriteShown
<1>15. CASE Tell(h)
  BY <1>0, <1>15, TellShown
<1> QED
  BY <1>1, <1>2, <1>3, <1>4, <1>5, <1>6, <1>7, <1>8, <1>9, <1>10, <1>11, <1>12, <1>13, <1>14,
     <1>15 DEF HandlerStep

LEMMA HandlerKeepsShown ==
  ASSUME ChatTypeOK, NEW h \in Handlers, HandlerStep(h), ShownInv
  PROVE  ShownInv'
<1> SUFFICES ASSUME Alone'
             PROVE  /\ \A f, g \in Busy' : f = g
                    /\ Busy' = {} => Idle'
                    /\ \A g \in Busy' : ShownWith(jobs[g])' /\ JobShows(jobs[g])'
                    /\ \A i \in Ids : ~There(i)' => NoMoods(i)'
                    /\ Room' => pinned' = NoMessage
  BY DEF ShownInv
<1>1. UNCHANGED <<plan, stops>>
  BY DEF HandlerStep, JobAt, EnsureSender, InsertMessage, ReadOwn, CountMessage, Commit, FanOut,
     Mention, Schedule, ReadAll, ReadLast, Erase, LookForPin, UnpinDeleted, SweepReactions,
     Write, Tell, boundVars
<1>2. Alone
  BY <1>1 DEF Alone
<1>3. h \in Busy /\ Busy = {h} /\ Before(h)
  BY <1>2, HandlerMoves DEF ShownInv, Before
<1>4. After(h)
  BY <1>3, HandlerShown
<1>5. (IsDone(h) /\ Busy' = {}) \/ (~IsDone(h) /\ Busy' = {h})
  BY <1>3, HandlerMoves DEF IsDone, GoesOn
<1> HIDE DEF ShownWith, JobShows, Idle, There, NoMoods, Room
<1> QED BY <1>4, <1>5 DEF After

(* A step of somebody else.                                                 *)
LEMMA OthersShown ==
  ASSUME ShownInv, UNCHANGED <<stored, emoji, pinned, screen, plan, stops, jobs>>
  PROVE  ShownInv'
<1>1. /\ Busy' = Busy /\ (Idle' <=> Idle) /\ (Alone' <=> Alone)
      /\ Room' = Room /\ pinned' = pinned
  BY DEF Busy, Idle, Fits, There, Undeleted, NoMoods, Room, Alone
<1>2. \A i \in Ids : (There(i)' <=> There(i)) /\ (NoMoods(i)' <=> NoMoods(i))
  BY DEF There, NoMoods
<1>3. ASSUME NEW h \in Busy
      PROVE  /\ ShownWith(jobs[h]) => ShownWith(jobs[h])'
             /\ JobShows(jobs[h]) => JobShows(jobs[h])'
  <2>1. PICK t : t = jobs[h]
    OBVIOUS
  <2>2. t = jobs'[h] /\ SameFrame(t, t)
    BY <2>1 DEF SameFrame
  <2>3. ShownWith(t) => ShownWith(t)'
    BY <2>2, ShownKept
  <2>4. JobShows(t) => JobShows(t)'
    BY DEF JobShows, There, Undeleted, Group
  <2> QED BY <2>1, <2>2, <2>3, <2>4, JobByName
<1> HIDE DEF ShownWith, JobShows, Idle, There, NoMoods, Room
<1> QED BY <1>1, <1>2, <1>3 DEF ShownInv

(* Of one handler at a time none is busy when one begins.                   *)
LEMMA BeginsAlone ==
  ASSUME ChatTypeOK, CountInv, Alone, NEW h, NEW t, Begins(h, t)
  PROVE  Busy = {}
<1>1. Cardinality(Busy) < 1
  BY DEF Begins, MayUndertake, Alone
<1>2. IsFiniteSet(Busy) /\ Cardinality(Busy) \in Nat
  BY FS_CardinalityType DEF CountInv
<1>3. Cardinality(Busy) = 0
  BY <1>1, <1>2
<1> QED BY <1>2, <1>3, FS_EmptySet

LEMMA BegunShown ==
  ASSUME ChatTypeOK, CountInv, ShownInv, NEW h \in Handlers, NEW t, Begun(h, t)
  PROVE  ShownInv'
<1> USE DEF dbVars, readVars, placeVars, seenVars, boundVars
<1>1. UNCHANGED <<stored, emoji, pinned, screen, plan, stops>>
  BY DEF Begun, Rest
<1> SUFFICES ASSUME Alone'
             PROVE  /\ \A f, g \in Busy' : f = g
                    /\ Busy' = {} => Idle'
                    /\ \A g \in Busy' : ShownWith(jobs[g])' /\ JobShows(jobs[g])'
                    /\ \A i \in Ids : ~There(i)' => NoMoods(i)'
                    /\ Room' => pinned' = NoMessage
  BY DEF ShownInv
<1>2. Alone /\ Begins(h, t)
  BY <1>1 DEF Alone, Begun
<1>3. Busy = {} /\ Busy' = {h} /\ jobs'[h] = t
  BY <1>2, BeginsAlone, BeginsFacts
<1>4. Idle'
  BY <1>1, <1>2, <1>3, IdleKept DEF ShownInv
<1>5. Calm(t)
  BY DEF Begun, Calm, Unshown, Pending
<1>6. ShownWith(t)'
  <2>1. Calm(t) => (ShownWith(t)' <=> Idle')
    BY DEF Calm, ShownWith, Idle, Seen, PinLoose, MoodLoose, Pending, Unshown
  <2> QED BY <1>4, <1>5, <2>1
<1>7. JobShows(t)'
  BY <1>1 DEF Begun, Meant, JobShows, Undeleted, There, Group
<1>8. (\A i \in Ids : ~There(i)' => NoMoods(i)') /\ (Room' => pinned' = NoMessage)
  BY <1>1, <1>2 DEF ShownInv, There, NoMoods, Room
<1>9. ShownWith(jobs[h])' /\ JobShows(jobs[h])'
  BY <1>3, <1>6, <1>7, JobByName
<1> HIDE DEF ShownWith, JobShows, Idle, There, NoMoods, Room
<1> QED BY <1>3, <1>8, <1>9

LEMMA ClearShown ==
  ASSUME ChatTypeOK, CountInv, ShownInv, NEW h \in Handlers, NEW u \in Folk,
         ClearRoomMessages(h, u)
  PROVE  ShownInv'
<1> USE DEF dbVars, readVars, placeVars, seenVars, boundVars
<1>1. UNCHANGED <<pinned, screen, plan, stops>> /\ Room
  BY DEF ClearRoomMessages
<1>2. PICK t : Begins(h, t) /\ t.at = "tell" /\ t.op = "clear"
  BY ClearKeepsTypes
<1> SUFFICES ASSUME Alone'
             PROVE  /\ \A f, g \in Busy' : f = g
                    /\ Busy' = {} => Idle'
                    /\ \A g \in Busy' : ShownWith(jobs[g])' /\ JobShows(jobs[g])'
                    /\ \A i \in Ids : ~There(i)' => NoMoods(i)'
                    /\ Room' => pinned' = NoMessage
  BY DEF ShownInv
<1>3. Alone
  BY <1>1 DEF Alone
<1>4. Busy = {} /\ Busy' = {h} /\ jobs'[h] = t /\ t \in Job
  BY <1>2, <1>3, BeginsAlone, BeginsFacts
<1>5. Idle /\ pinned = NoMessage
  BY <1>1, <1>3, <1>4 DEF ShownInv
<1>6. \A i \in Ids : NoMoods(i)'
  <2>1. emoji' = [i \in Ids |-> [v \in Folk |-> Nobody]]
    BY DEF ClearRoomMessages
  <2> QED BY <2>1 DEF NoMoods
<1>7. \A i \in Ids : (There(i) <=> There(i)') /\ (There(i) => stored'[i].gone = TRUE)
  <2> SUFFICES ASSUME NEW i \in Ids
               PROVE  (There(i) <=> There(i)') /\ (There(i) => stored'[i].gone = TRUE)
    OBVIOUS
  <2>1. stored' = Gone(Ids)
    BY DEF ClearRoomMessages
  <2>2. There(i) <=> There(i)'
    BY <2>1, GoneGrows
  <2>3. ASSUME There(i)
        PROVE  stored'[i].gone = TRUE
    <3>1. PICK m \in Message : m = stored[i]
      BY <2>3 DEF There, ChatTypeOK
    <3>2. stored'[i] = [m EXCEPT !.gone = TRUE]
      BY <2>1, <2>3, <3>1 DEF Gone
    <3>3. [m EXCEPT !.gone = TRUE].gone = TRUE
      BY DEF Message
    <3> QED BY <3>2, <3>3
  <2> QED BY <2>2, <2>3
<1>8. ASSUME NEW i \in Ids
      PROVE  Fits(i, Seen(t, i))'
  <2>1. There(i) <=> screen[i] # NoMessage
    BY <1>5 DEF Idle, Fits
  <2>2. CASE screen[i] = NoMessage
    <3>1. Seen(t, i)' = NoMessage
      BY <1>1, <2>2 DEF Seen
    <3> QED BY <1>7, <2>1, <2>2, <3>1 DEF Fits, Undeleted
  <2>3. CASE screen[i] # NoMessage
    <3>1. PICK s : s = [screen[i] EXCEPT !.gone = TRUE]
      OBVIOUS
    <3>2. screen[i] \in Shown
      BY <2>3 DEF ChatTypeOK
    <3>3. s \in Shown /\ s.gone = TRUE
      BY <3>1, <3>2 DEF Shown
    <3>4. s # NoMessage
      BY <3>3, ChatAssumption
    <3>5. Seen(t, i)' = s
      BY <1>1, <1>2, <2>3, <3>1 DEF Seen, Told, Pending
    <3>6. Fits(i, s)'
      BY <1>7, <2>1, <2>3, <3>3, <3>4 DEF Fits, Undeleted
    <3> QED BY <3>5, <3>6 DEF Fits, Undeleted, There
  <2> QED BY <2>2, <2>3
<1>9. \A i \in Ids : pinned' # i
  BY <1>1, <1>5, ChatAssumption
<1>10. ShownWith(t)'
  <2>1. ~Unshown(t)'
    BY <1>2 DEF Unshown
  <2> HIDE DEF Fits, Unsent, Seen, NoMoods, There, Unshown, PinLoose, MoodLoose
  <2> QED BY <1>6, <1>8, <1>9, <2>1 DEF ShownWith
<1>11. JobShows(t)'
  BY <1>2 DEF JobShows
<1>12. ShownWith(jobs[h])' /\ JobShows(jobs[h])'
  BY <1>4, <1>10, <1>11, JobByName
<1> HIDE DEF ShownWith, JobShows, Idle, There, NoMoods, Room
<1> QED BY <1>1, <1>4, <1>5, <1>6, <1>12

LEMMA ChatShown ==
  ASSUME ChatInv, CountInv, ShownInv, ChatNext
  PROVE  ShownInv'
<1> USE DEF dbVars, readVars, placeVars, seenVars, boundVars
<1>0. ChatTypeOK /\ TimesInv
  BY DEF ChatInv
<1>1. CASE \E h \in Handlers : HandlerStep(h)
  BY <1>0, <1>1, HandlerKeepsShown
<1>2. CASE \E h \in Handlers : \E t : Begun(h, t)
  BY <1>0, <1>2, BegunShown
<1>3. CASE \E h \in Handlers, u \in Folk : ClearRoomMessages(h, u)
  BY <1>0, <1>3, ClearShown
<1>4. CASE (\E c \in chores : ChoreStep(c)) \/ (\E u \in Folk : PeopleStep(u))
  <2>1. UNCHANGED <<stored, emoji, pinned, screen, plan, stops, jobs>>
    BY <1>4 DEF PeopleStep, MarkRoomRead, Enter, Exit, Watch, ChoreStep, AutoRead, AutoLast, Push
  <2> QED BY <2>1, OthersShown
<1>5. CASE Stop
  BY <1>5 DEF Stop, ShownInv, Alone
<1> QED BY <1>0, <1>1, <1>2, <1>3, <1>4, <1>5, ChatStepIs

LEMMA ShownInit ==
  ASSUME ChatInit
  PROVE  ShownInv
<1>1. /\ Busy = {} /\ pinned = NoMessage
      /\ \A i \in Ids : ~There(i) /\ screen[i] = NoMessage /\ NoMoods(i)
  BY DEF Busy, ChatInit, There, NoMoods
<1>2. Idle
  BY <1>1 DEF Idle, Fits, Undeleted
<1> QED BY <1>1, <1>2 DEF ShownInv

LEMMA ShownStutters ==
  ASSUME UNCHANGED chatVars, ShownInv
  PROVE  ShownInv'
BY OthersShown DEF chatVars, dbVars, readVars, placeVars, seenVars, boundVars

(* With one handler at a time and none cut off, the frames of all the        *)
(* handlers together leave every client showing what is stored, and neither  *)
(* a pin nor a room's reactions outlive their message.                       *)
THEOREM ShownRule == ChatSpec => []ShownIsStored
<1>1. ChatInit => ShownInv
  BY ShownInit
<1>2. SentInv /\ ShownInv /\ [ChatNext]_chatVars => ShownInv'
  BY ChatShown, ShownStutters DEF SentInv
<1>3. ShownInv => ShownIsStored
  <2> SUFFICES ASSUME ShownInv, Alone, Busy = {}, NEW i \in Ids
               PROVE  /\ There(i) <=> screen[i] # NoMessage
                      /\ There(i) =>
                           /\ screen[i].gone = stored[i].gone
                           /\ Undeleted(i) => /\ screen[i].text = stored[i].text
                                              /\ screen[i].opened = stored[i].opened
                                              /\ screen[i].emoji = emoji[i]
                           /\ stored[i].gone =>
                                pinned # i /\ (Room => \A u \in Folk : emoji[i][u] = Nobody)
    BY DEF ShownIsStored, Alone
  <2>1. Idle
    BY DEF ShownInv
  <2> QED BY <2>1 DEF Idle, Fits, NoMoods
<1> QED BY <1>1, <1>2, <1>3, SentInvHolds, PTL DEF ChatSpec

-----------------------------------------------------------------------------
(* The two together *)

(* Whichever of the two moves, members and messages each follow their own    *)
(* specification.                                                           *)
LEMMA EachFollowsItsOwn == ChatsSpec => MembersSpec /\ ChatSpec
<1>1. ChatsInit => MembersInit /\ ChatInit
  BY DEF ChatsInit
<1>2. [ChatsNext]_chatsVars => [MembersNext]_membersVars /\ [ChatNext]_chatVars
  BY DEF ChatsNext, chatsVars
<1> QED BY <1>1, <1>2, PTL DEF ChatsSpec, MembersSpec, ChatSpec

(* What is proved of members and of messages apart holds of the whole: the   *)
(* limit and the manager of a group (group_handler.go), the bans of a room   *)
(* (room_handler.go), that a message counts and notifies once, what clients  *)
(* show, and that people become members by their own doing only.             *)
THEOREM ChatsRule ==
  ChatsSpec => /\ [](GroupIsSound /\ RoomIsGuarded /\ SentOnce /\ ShownIsStored)
               /\ OnlyByOwnDoing
BY EachFollowsItsOwn, GroupRule, RoomRule, OwnDoingRule, SentRule, ShownRule, PTL
=============================================================================
