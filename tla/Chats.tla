-------------------------------- MODULE Chats -------------------------------
(***************************************************************************)
(* The members of a chat and its messages.  A handler of one reads the       *)
(* other's rows once, at its beginning: so a behaviour here follows the      *)
(* members, or the messages among people who come and go, while the other    *)
(* stands still.                                                             *)
(***************************************************************************)
EXTENDS ChatMembers, ChatMessages

VARIABLE what

chatsVars == <<membersVars, chatVars, what>>

(* bound: the one that stands still does so in one of its first states.      *)
ChatsInit ==
  /\ MembersInit /\ ChatInit /\ what \in {"members", "messages"}
  /\ what = "members" => plan = CHOOSE p \in Plans : TRUE
  /\ what = "messages" =>
       /\ kind = "group" => Inside = {Creator} /\ may = CHOOSE m \in May : TRUE
       /\ kind = "room" => IsMember(Owner) /\ tools = CHOOSE t \in Tools : TRUE
       /\ kind = plan.kind

ChatsNext ==
  \/ what = "members" /\ MembersNext /\ UNCHANGED <<chatVars, what>>
  \/ what = "messages" /\ ChatNext /\ UNCHANGED <<membersVars, what>>

ChatsSpec == ChatsInit /\ [][ChatsNext]_chatsVars
=============================================================================
