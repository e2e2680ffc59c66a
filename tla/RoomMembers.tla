----------------------------- MODULE RoomMembers ----------------------------
(***************************************************************************)
(* Who is in a chat room and who is kept out (handlers/room_handler.go,     *)
(* room_moderation_handler.go, room_bans_handler.go).  Every statement      *)
(* stands alone: no handler holds a lock or a transaction, and each works   *)
(* on what it read in its earlier statements.                               *)
(***************************************************************************)
EXTENDS Naturals

CONSTANTS
  People,
  Owner,      \* rooms.owner_id
  RoomHands,  \* handlers at work on the room at the same time
  Tools,      \* bound: which tools of the admins a behaviour has, and which
              \* statements may fail in it, a set of subsets of
              \* {"ban", "block", "delete", "reads", "writes"}
  NoCall

VARIABLES
  rank,    \* room_members: the role, "none" for who has no row
  bans,    \* room_bans
  blocks,  \* room_write_blocks
  open,    \* the room has no deleted_at
  calls,   \* what each handler has read and has still to do
  leftover,  \* history: the banned whose row a failed statement has left
  tools    \* which element of Tools this behaviour has

roomVars == <<rank, bans, blocks, open, calls, leftover, tools>>

Ranks == {"none", "member", "admin", "owner"}

(* op: the handler.  at: its next statement.  of: whom it is about.  on:    *)
(* require_member, admin or blocked in the body of the request.  row: the   *)
(* row it holds by its id is still there.                                   *)
Call ==
  [op: {"join", "send", "promote", "kick", "unban", "block", "leave", "delete"},
   at: {"gate", "ensure", "insert", "recheck", "cleanup", "verify", "unblock",
        "role", "ban", "remove", "write", "drop"},
   of: People, on: BOOLEAN, row: BOOLEAN]

ASSUME RoomAssumption ==
  /\ Owner \in People
  /\ Tools \subseteq SUBSET {"ban", "block", "delete", "reads", "writes"}
  /\ NoCall \notin Call

RoomTypeOK ==
  /\ rank \in [People -> Ranks]
  /\ bans \subseteq People
  /\ blocks \subseteq People
  /\ open \in BOOLEAN
  /\ calls \in [RoomHands -> Call \cup {NoCall}]
  /\ leftover \subseteq People
  /\ tools \in Tools

IsMember(u) == rank[u] # "none"
HasAdminAccess(u) == rank[u] \in {"admin", "owner"}

CanModerate(a, t) ==
  /\ rank[t] # "owner"
  /\ rank[a] = "owner" \/ (rank[a] = "admin" /\ ~HasAdminAccess(t))

(* What a SELECT says of a row: one that fails is taken as having found none. *)
Found(there) == IF "reads" \in tools THEN {there, FALSE} ELSE {there}

(* loadVisibleRoom: for who is banned the room does not exist.              *)
Visible(u) == open /\ FALSE \in Found(u \in bans)

(* CreateRoom: the owner's own row may fail to be written.                  *)
RoomInit ==
  /\ tools \in Tools
  /\ \E first \in IF "writes" \in tools THEN {"owner", "none"} ELSE {"owner"} :
       rank = [u \in People |-> IF u = Owner THEN first ELSE "none"]
  /\ bans = {}
  /\ blocks = {}
  /\ open = TRUE
  /\ calls = [h \in RoomHands |-> NoCall]
  /\ leftover = {}

Begin(h, op, at, of, on) ==
  /\ calls[h] = NoCall
  /\ calls' = [calls EXCEPT ![h] =
       [op |-> op, at |-> at, of |-> of, on |-> on, row |-> TRUE]]
  /\ UNCHANGED <<leftover, tools, rank, bans, blocks, open>>

Step(h, at) == calls[h] # NoCall /\ calls[h].at = at
Moved(h, at) == [calls EXCEPT ![h].at = at]
Answered(h) == [calls EXCEPT ![h] = NoCall]
To(h, at) == calls' = Moved(h, at)
Answer(h) == calls' = Answered(h)

(* Who leaves has the id of a row: once that is gone, nothing is left to     *)
(* delete.                                                                  *)
Forget(u, left) ==
  [h \in RoomHands |->
     IF left[h] # NoCall /\ left[h].op = "leave" /\ left[h].of = u
     THEN [left[h] EXCEPT !.row = FALSE] ELSE left[h]]

(* DELETE FROM room_members for the user: the handlers go on as left says.  *)
DeleteRow(u, left) ==
  /\ rank' = [rank EXCEPT ![u] = "none"]
  /\ leftover' = leftover \ {u}
  /\ calls' = Forget(u, left)

StillThere(u) == leftover' = leftover \cup ({u} \cap {v \in bans : IsMember(v)})

(* ... or it fails, and the row stays.                                      *)
KeepRow(u, left) ==
  /\ "writes" \in tools
  /\ StillThere(u)
  /\ calls' = left
  /\ UNCHANGED rank

-----------------------------------------------------------------------------
(* Coming in: by joining, by writing, by being made an admin.               *)

JoinRoom(h, u) == Visible(u) /\ Begin(h, "join", "ensure", u, FALSE)

(* on: the client asks to be refused rather than made a member.             *)
SendRoomMessage(h, u, on) == Visible(u) /\ Begin(h, "send", "gate", u, on)

Gate(h) ==
  LET u == calls[h].of IN
  /\ Step(h, "gate")
  /\ \E member \in Found(IsMember(u)), blocked \in Found(u \in blocks) :
       IF u # Owner /\ ((calls[h].on /\ ~member) \/ (blocked /\ ~(member /\ HasAdminAccess(u))))
         THEN Answer(h) ELSE To(h, "ensure")
  /\ UNCHANGED <<leftover, tools, rank, bans, blocks, open>>

SetAdmin(h, a, t, on) ==
  /\ HasAdminAccess(a)
  /\ on \/ rank[a] = "owner"
  /\ FALSE \in Found(rank[t] = "owner")
  /\ FALSE \in Found(t \in bans)
  /\ Begin(h, "promote", "ensure", t, on)

(* What a handler does once the user has a row.                             *)
IsIn(h) ==
  IF calls[h].op # "promote" THEN Answer(h)
  ELSE To(h, IF calls[h].on THEN "unblock" ELSE "role")

Ensure(h) ==
  /\ Step(h, "ensure")
  /\ \E member \in Found(IsMember(calls[h].of)) :
       IF member THEN IsIn(h) ELSE To(h, "insert")
  /\ UNCHANGED <<leftover, tools, rank, bans, blocks, open>>

(* ON CONFLICT DO NOTHING: only who inserted the row looks at the ban again. *)
Insert(h) ==
  LET u == calls[h].of IN
  /\ Step(h, "insert")
  /\ rank' = [rank EXCEPT ![u] = IF IsMember(u) THEN @ ELSE "member"]
  /\ To(h, IF IsMember(u) THEN "verify" ELSE "recheck")
  /\ UNCHANGED <<leftover, tools, bans, blocks, open>>

\* Mutant: the ban is looked at before the row is written only.
NoSecondLook(h) ==
  /\ Step(h, "recheck")
  /\ To(h, "verify")
  /\ UNCHANGED <<leftover, tools, rank, bans, blocks, open>>
Recheck(h) ==
  LET u == calls[h].of IN
  /\ Step(h, "recheck")
  /\ \E banned \in Found(u \in bans) :
       /\ To(h, IF banned THEN "cleanup" ELSE "verify")
       /\ IF banned THEN UNCHANGED leftover ELSE StillThere(u)
  /\ UNCHANGED <<tools, rank, bans, blocks, open>>

(* The user is refused whether the row could be deleted or not.             *)
Cleanup(h) ==
  LET u == calls[h].of IN
  /\ Step(h, "cleanup")
  /\ DeleteRow(u, Answered(h)) \/ KeepRow(u, Answered(h))
  /\ UNCHANGED <<tools, bans, blocks, open>>

Verify(h) ==
  /\ Step(h, "verify")
  /\ \E member \in Found(IsMember(calls[h].of)) :
       IF member THEN IsIn(h) ELSE Answer(h)
  /\ UNCHANGED <<leftover, tools, rank, bans, blocks, open>>

Unblock(h) ==
  /\ Step(h, "unblock")
  /\ blocks' = blocks \ {calls[h].of}
  /\ To(h, "role")
  /\ UNCHANGED <<leftover, tools, rank, bans, open>>

GiveRank(h) ==
  LET u == calls[h].of IN
  /\ Step(h, "role")
  /\ rank' = [rank EXCEPT ![u] =
       IF @ \in {"none", "owner"} THEN @ ELSE IF calls[h].on THEN "admin" ELSE "member"]
  /\ Answer(h)
  /\ UNCHANGED <<leftover, tools, bans, blocks, open>>

-----------------------------------------------------------------------------
(* Going out.                                                               *)

(* The owner is told by rooms.owner_id, the others by their row; who has    *)
(* none may be banned as well.                                              *)
KickRoomMember(h, a, t) ==
  /\ "ban" \in tools
  /\ HasAdminAccess(a)
  /\ open /\ t # a /\ t # Owner
  /\ FALSE \in Found(IsMember(t)) \/ CanModerate(a, t)
  /\ Begin(h, "kick", "ban", t, FALSE)

(* The ban is written first, then the row goes.                             *)
Ban(h) ==
  /\ Step(h, "ban")
  /\ bans' = bans \cup {calls[h].of}
  /\ To(h, "remove")
  /\ UNCHANGED <<leftover, tools, rank, blocks, open>>

(* If that fails the admin is told, and may kick again.                     *)
Remove(h) ==
  LET u == calls[h].of IN
  /\ Step(h, "remove")
  /\ DeleteRow(u, Answered(h)) \/ KeepRow(u, Answered(h))
  /\ UNCHANGED <<tools, bans, blocks, open>>

LeaveRoom(h, u) ==
  /\ rank[u] \in {"member", "admin"}
  /\ Begin(h, "leave", "write", u, FALSE)

(* The row is deleted by its id: one written since stays.                   *)
Leave(h) ==
  LET u == calls[h].of IN
  /\ Step(h, "write") /\ calls[h].op = "leave"
  /\ IF calls[h].row THEN DeleteRow(u, Answered(h))
     ELSE Answer(h) /\ UNCHANGED <<rank, leftover>>
  /\ UNCHANGED <<tools, bans, blocks, open>>

UnbanRoomUser(h, a, t) ==
  /\ "ban" \in tools
  /\ Visible(a) /\ HasAdminAccess(a)
  /\ Begin(h, "unban", "write", t, FALSE)

Unban(h) ==
  /\ Step(h, "write") /\ calls[h].op = "unban"
  /\ bans' = bans \ {calls[h].of}
  /\ leftover' = leftover \ {calls[h].of}
  /\ Answer(h)
  /\ UNCHANGED <<tools, rank, blocks, open>>

SetRoomWriteBlock(h, a, t, on) ==
  /\ "block" \in tools
  /\ HasAdminAccess(a)
  /\ rank[t] = "member"
  /\ CanModerate(a, t)
  /\ Begin(h, "block", "write", t, on)

WriteBlock(h) ==
  /\ Step(h, "write") /\ calls[h].op = "block"
  /\ blocks' = IF calls[h].on THEN blocks \cup {calls[h].of} ELSE blocks \ {calls[h].of}
  /\ Answer(h)
  /\ UNCHANGED <<leftover, tools, rank, bans, open>>

DeleteRoom(h, u) ==
  /\ "delete" \in tools
  /\ rank[u] = "owner"
  /\ Begin(h, "delete", "write", u, FALSE)

(* All the rows, then the room: nobody looks whether that worked.           *)
DeleteRows(h) ==
  /\ Step(h, "write") /\ calls[h].op = "delete"
  /\ rank' = [u \in People |-> "none"]
  /\ leftover' = {}
  /\ calls' = [g \in RoomHands |->
       IF g = h THEN [calls[h] EXCEPT !.at = "drop"]
       ELSE IF calls[g] # NoCall /\ calls[g].op = "leave" THEN [calls[g] EXCEPT !.row = FALSE]
       ELSE calls[g]]
  /\ UNCHANGED <<tools, bans, blocks, open>>

DropRoom(h) ==
  /\ Step(h, "drop")
  /\ open' = FALSE
  /\ Answer(h)
  /\ UNCHANGED <<leftover, tools, rank, bans, blocks>>

(* Every other statement may fail as well: nothing is written, and the      *)
(* handler answers - or does not look, and goes on: a promotion with the    *)
(* role, the deletion of a room with the room.                              *)
WriteFails(h) ==
  /\ "writes" \in tools
  /\ calls[h] # NoCall
  /\ \/ calls[h].at \in {"insert", "role", "ban", "drop"} /\ Answer(h)
     \/ calls[h].at = "write" /\ calls[h].op # "delete" /\ Answer(h)
     \/ calls[h].at = "write" /\ calls[h].op = "delete" /\ To(h, "drop")
     \/ calls[h].at = "unblock" /\ To(h, "role")
  /\ UNCHANGED <<leftover, tools, rank, bans, blocks, open>>

RoomStep(h) ==
  \/ \E u \in People :
       \/ JoinRoom(h, u) \/ LeaveRoom(h, u) \/ DeleteRoom(h, u)
       \/ \E on \in BOOLEAN : SendRoomMessage(h, u, on)
  \/ \E a, t \in People :
       \/ KickRoomMember(h, a, t) \/ UnbanRoomUser(h, a, t)
       \/ \E on \in BOOLEAN : SetAdmin(h, a, t, on) \/ SetRoomWriteBlock(h, a, t, on)
  \/ Gate(h) \/ Ensure(h) \/ Insert(h) \/ Recheck(h) \/ Cleanup(h) \/ Verify(h)
  \/ Unblock(h) \/ GiveRank(h)
  \/ Ban(h) \/ Remove(h) \/ Leave(h) \/ Unban(h) \/ WriteBlock(h)
  \/ DeleteRows(h) \/ DropRoom(h) \/ WriteFails(h)

RoomNext == \E h \in RoomHands : RoomStep(h)

-----------------------------------------------------------------------------
(* Kicks, joins, messages and promotions run into each other, and still     *)
(* whoever is banned has no row but for the moment before the kick, or the  *)
(* handler that wrote the row, deletes it (room_moderation_handler.go:254) - *)
(* or the row is still the one that this DELETE, or the look at the bans    *)
(* before it, has failed to take (room_handler.go:348): no join, message or *)
(* promotion writes another.  The owner is never banned                     *)
(* (room_bans_handler.go:124).                                              *)
OnTheWayOut(u) ==
  \E h \in RoomHands :
    calls[h] # NoCall /\ calls[h].of = u /\ calls[h].at \in {"remove", "recheck", "cleanup"}
BannedAreOut == \A u \in bans : IsMember(u) => OnTheWayOut(u) \/ u \in leftover
LeftoverIsThere == \A u \in leftover : u \in bans /\ IsMember(u)
RoomIsGuarded == RoomTypeOK /\ BannedAreOut /\ LeftoverIsThere /\ Owner \notin bans

(* What the code does not promise (README, section 5): a client that asks   *)
(* for it is never made a member by a message (DEPLOY_rooms_moderation.md:44), *)
NeverRejoined ==
  [][\A u \in People \ {Owner} : ~IsMember(u) /\ IsMember(u)' =>
       ~\E h \in RoomHands :
          Step(h, "insert") /\ calls[h].op = "send" /\ calls[h].on /\ calls'[h].at = "recheck"]_roomVars
(* the owner is always the owner (room_handler.go:563),                     *)
OwnerIsOwner == open => rank[Owner] \in {"none", "owner"}
(* who is an admin has no write block left (room_handler.go:557),           *)
AdminsHaveNoBlock == \A u \in blocks : rank[u] # "admin"
(* for who is banned no endpoint is there (room_bans_handler.go:16),        *)
BannedDoNotModerate ==
  [][\A h \in RoomHands, a \in leftover, t \in People : ~KickRoomMember(h, a, t)]_roomVars
(* and who is no longer banned is not re-added (room_bans_handler.go:19).   *)
UnbannedAreOut == [][\A u \in leftover : u \notin bans' => ~IsMember(u)']_roomVars
=============================================================================
