----------------------------- MODULE ChatMembers ----------------------------
(***************************************************************************)
(* Groups and rooms share no row and no lock: a behaviour here follows one   *)
(* of them while the other stands still.                                    *)
(***************************************************************************)
EXTENDS GroupMembers, RoomMembers

CONSTANT Kinds  \* bound: a subset of {"group", "room"}

VARIABLE kind

membersVars == <<groupVars, roomVars, kind>>

(* bound: the one that stands still does so in one of its first states.      *)
MembersInit ==
  /\ GroupInit /\ RoomInit /\ kind \in Kinds
  /\ kind = "room" => Inside = {Creator} /\ may = CHOOSE m \in May : TRUE
  /\ kind = "group" => IsMember(Owner) /\ tools = CHOOSE t \in Tools : TRUE

MembersNext ==
  \/ kind = "group" /\ GroupNext /\ UNCHANGED <<roomVars, kind>>
  \/ kind = "room" /\ RoomNext /\ UNCHANGED <<groupVars, kind>>

MembersSpec == MembersInit /\ [][MembersNext]_membersVars
=============================================================================
