---------------------------- MODULE GroupMembers ----------------------------
(***************************************************************************)
(* Who is in a group (handlers/group_handler.go): a row per user that is    *)
(* kept when the user leaves, invitations that wait for an answer, a link   *)
(* that lets anybody in, a limit, and managers (the owner and the admins).  *)
(*                                                                          *)
(* Joining, adding and leaving are transactions that lock the group's row.  *)
(* Answering an invitation, kicking and changing a role lock nothing: they  *)
(* read, and later write the row they have read.                            *)
(***************************************************************************)
EXTENDS Naturals, FiniteSets

CONSTANTS
  Users,
  Creator,
  MaxMembers,  \* max_members
  GroupHands,  \* handlers at work on the group at the same time
  May,         \* bound: what may happen besides joining and leaving, a set of
               \* subsets of {"kick", "role", "return"}
  NoRow, NoTask

VARIABLES
  part,   \* conversation_participants
  alive,  \* the group's row has no deleted_at
  desk,   \* what each handler has read and has still to do
  may     \* which element of May this behaviour explores

groupVars == <<part, alive, desk, may>>

Roles == {"owner", "admin", "member"}
Managing == {"owner", "admin"}
Row == [role: Roles, pending: BOOLEAN, live: BOOLEAN]

(* at: the next step.  user: whose row it is about, or who adds those in     *)
(* who.  role: the role read, or the one to give.  row: the row it holds by  *)
(* its id is still there.                                                   *)
Task ==
  [at: {"accept", "kick", "role", "leave", "left", "close", "join", "seat", "add", "place"},
   user: Users, who: SUBSET Users, role: Roles, row: BOOLEAN]

ASSUME GroupAssumption ==
  /\ IsFiniteSet(Users)
  /\ Creator \in Users
  /\ MaxMembers \in Nat \ {0}
  /\ May \subseteq SUBSET {"kick", "role", "return"}
  /\ NoRow \notin Row
  /\ NoTask \notin Task

GroupTypeOK ==
  /\ part \in [Users -> Row \cup {NoRow}]
  /\ alive \in BOOLEAN
  /\ desk \in [GroupHands -> Task \cup {NoTask}]
  /\ may \in May

HasRow(u) == part[u] # NoRow
Live(u) == HasRow(u) /\ part[u].live
Inside == {u \in Users : Live(u)}
Manages(u) == Live(u) /\ part[u].role \in Managing
Full(u) == Live(u) /\ ~part[u].pending

(* The lock on the group's row: one transaction at a time.                  *)
InTx == {"leave", "left", "close", "seat", "place"}
\* Mutant: joining, adding and leaving do not wait for each other.
NeverLocked == FALSE
Locked == \E h \in GroupHands : desk[h] # NoTask /\ desk[h].at \in InTx

(* A group once its creator, some admins among those who came, and some     *)
(* invited people are in it.                                                *)
GroupInit ==
  /\ \E full \in SUBSET Users, admins, invited \in SUBSET (Users \ {Creator}) :
       /\ Creator \in full
       /\ admins \subseteq full
       /\ invited \cap full = {}
       /\ Cardinality(full \cup invited) <= MaxMembers
       /\ part = [u \in Users |->
            IF u \notin full \cup invited THEN NoRow
            ELSE [role |-> IF u = Creator THEN "owner"
                           ELSE IF u \in admins THEN "admin" ELSE "member",
                  pending |-> u \in invited, live |-> TRUE]]
  /\ alive = TRUE
  /\ desk = [h \in GroupHands |-> NoTask]
  /\ may \in May

Take(h, at, user, who, role) ==
  /\ desk[h] = NoTask
  /\ desk' = [desk EXCEPT ![h] =
       [at |-> at, user |-> user, who |-> who, role |-> role, row |-> TRUE]]
  /\ UNCHANGED <<part, alive, may>>

Go(h, at) == desk' = [desk EXCEPT ![h].at = at]
Done(h) == desk' = [desk EXCEPT ![h] = NoTask]
At(h, at) == desk[h] # NoTask /\ desk[h].at = at
Holds(h) == desk[h].row /\ HasRow(desk[h].user)

-----------------------------------------------------------------------------
(* Without the lock.                                                        *)

AcceptInvite(h, u) ==
  /\ Live(u) /\ part[u].pending
  /\ Take(h, "accept", u, {}, "member")

(* The row read above gets the answer, if it is still there.                *)
Accept(h) ==
  /\ At(h, "accept")
  /\ IF Holds(h) THEN part' = [part EXCEPT ![desk[h].user].pending = FALSE] ELSE UNCHANGED part
  /\ Done(h)
  /\ UNCHANGED <<alive, may>>

(* The row is deleted for good: whoever holds its id writes nothing.        *)
Holding == {"accept", "kick", "role", "leave", "left", "close"}
DeclineInvite(u) ==
  /\ HasRow(u) /\ part[u].pending
  /\ part' = [part EXCEPT ![u] = NoRow]
  /\ desk' = [h \in GroupHands |->
       IF desk[h] # NoTask /\ desk[h].user = u /\ desk[h].at \in Holding THEN [desk[h] EXCEPT !.row = FALSE]
       ELSE desk[h]]
  /\ UNCHANGED <<alive, may>>

KickMember(h, r, t) ==
  /\ "kick" \in may
  /\ Manages(r) /\ Live(t)
  /\ ~(part[r].role = "admin" /\ part[t].role = "owner")
  /\ Take(h, "kick", t, {}, "member")

Kick(h) ==
  /\ At(h, "kick")
  /\ IF Holds(h) THEN part' = [part EXCEPT ![desk[h].user].live = FALSE] ELSE UNCHANGED part
  /\ Done(h)
  /\ UNCHANGED <<alive, may>>

ChangeRole(h, r, t, role) ==
  /\ "role" \in may
  /\ Live(r) /\ part[r].role = "owner"
  /\ Live(t)
  /\ Take(h, "role", t, {}, role)

GiveRole(h) ==
  /\ At(h, "role")
  /\ IF Holds(h) THEN part' = [part EXCEPT ![desk[h].user].role = desk[h].role] ELSE UNCHANGED part
  /\ Done(h)
  /\ UNCHANGED <<alive, may>>

-----------------------------------------------------------------------------
(* With the lock.                                                           *)

JoinByToken(h, u) ==
  /\ alive /\ ~Live(u)
  /\ Take(h, "join", u, {}, "member")

Count(h) ==
  /\ At(h, "join")
  /\ ~Locked
  /\ IF alive /\ Cardinality(Inside) < MaxMembers THEN Go(h, "seat") ELSE Done(h)
  /\ UNCHANGED <<part, alive, may>>

(* Who was here before comes back as what he was.                           *)
Join(h) ==
  /\ At(h, "seat")
  /\ part' = [part EXCEPT ![desk[h].user] =
       IF HasRow(desk[h].user) THEN [@ EXCEPT !.live = TRUE]
       ELSE [role |-> "member", pending |-> FALSE, live |-> TRUE]]
  /\ Done(h)
  /\ UNCHANGED <<alive, may>>

AddMembers(h, r, who) ==
  /\ who # {}
  /\ Manages(r)
  /\ "return" \in may \/ \A u \in who : ~HasRow(u)
  /\ Take(h, "add", r, who, "member")

CountAll(h) ==
  /\ At(h, "add")
  /\ ~Locked
  /\ IF alive /\ Cardinality(Inside) + Cardinality(desk[h].who) <= MaxMembers
     THEN Go(h, "place") ELSE Done(h)
  /\ UNCHANGED <<part, alive, may>>

\* Mutant: who is invited back is in at once.
BackAtOnce(u) ==
  IF HasRow(u) THEN [part[u] EXCEPT !.live = TRUE]
  ELSE [role |-> "member", pending |-> TRUE, live |-> TRUE]
(* Invited, also those who were here before: they keep their role.          *)
Invited(u) ==
  IF HasRow(u) THEN [part[u] EXCEPT !.pending = TRUE, !.live = TRUE]
  ELSE [role |-> "member", pending |-> TRUE, live |-> TRUE]

Place(h) ==
  /\ At(h, "place")
  /\ part' = [u \in Users |->
       IF u \in desk[h].who \ {desk[h].user} /\ ~Live(u) THEN Invited(u) ELSE part[u]]
  /\ Done(h)
  /\ UNCHANGED <<alive, may>>

LeaveGroup(h, u) ==
  /\ alive /\ ~Locked
  /\ Live(u)
  /\ Take(h, "leave", u, {}, part[u].role)

(* Inside the transaction: a manager looks for another one.                 *)
LookForManager(h) ==
  /\ At(h, "leave")
  /\ IF desk[h].role \in Managing /\ \A u \in Users \ {desk[h].user} : ~Manages(u)
     THEN Go(h, "close") ELSE Go(h, "left")
  /\ UNCHANGED <<part, alive, may>>

CommitLeave(h) ==
  /\ desk[h] # NoTask /\ desk[h].at \in {"left", "close"}
  /\ IF Holds(h) THEN part' = [part EXCEPT ![desk[h].user].live = FALSE] ELSE UNCHANGED part
  /\ alive' = (alive /\ desk[h].at = "left")
  /\ Done(h)
  /\ UNCHANGED may

GroupStep(h) ==
  \/ \E u \in Users : AcceptInvite(h, u) \/ JoinByToken(h, u) \/ LeaveGroup(h, u)
  \/ \E r, t \in Users : KickMember(h, r, t)
  \/ \E r, t \in Users, role \in {"admin", "member"} : ChangeRole(h, r, t, role)
  \/ \E r \in Users, who \in SUBSET Users : AddMembers(h, r, who)
  \/ Accept(h)
  \/ Kick(h)
  \/ GiveRole(h)
  \/ Count(h)
  \/ Join(h)
  \/ CountAll(h)
  \/ Place(h)
  \/ LookForManager(h)
  \/ CommitLeave(h)

GroupNext ==
  \/ \E h \in GroupHands : GroupStep(h)
  \/ \E u \in Users : DeclineInvite(u)

-----------------------------------------------------------------------------
(* The limit is never passed, whatever joins, adds and invitations are under *)
(* way at once (group_handler.go:674-678), and while nobody is kicked, no    *)
(* role changes and nobody is invited back, a group that is open has a       *)
(* manager, also when the last two leave at the same time (777-782).         *)
LimitIsKept == Cardinality(Inside) <= MaxMembers
SomebodyManages == alive /\ may = {} => \E u \in Users : Manages(u)
GroupIsSound == GroupTypeOK /\ LimitIsKept /\ SomebodyManages

(* Nobody becomes a full member but by his own doing, an invitation he      *)
(* accepted or the link (group_handler.go:508-510): being added again is no *)
(* more than an invitation.                                                 *)
OwnDoing(u) ==
  \E h \in GroupHands :
    /\ desk[h] # NoTask /\ desk'[h] = NoTask
    /\ desk[h].user = u /\ desk[h].at \in {"accept", "seat"}
OnlyByOwnDoing ==
  [][\A u \in Users : ~Full(u) /\ Full(u)' => OwnDoing(u)]_groupVars

(* What the code does not promise (README, section 5): a group that is open *)
(* has a manager (group_handler.go:838).                                    *)
NeverWithoutManager == alive => \E u \in Users : Manages(u)
=============================================================================
