--------------------------- MODULE WatchHallProofs ---------------------------
(***************************************************************************)
(* Theorems about the people of a watch room: who is a member of it, and    *)
(* who sits where in its hall.                                              *)
(*                                                                         *)
(* WatchMembers: the types with the order in which members joined, the      *)
(* room's one host, its size, who waits, and the kick that no other         *)
(* operation undoes.  The types hold even when the writes that close        *)
(* requests are lost; the rest needs that they are not.                     *)
(*                                                                         *)
(* WatchCinema, for any members, seats and couches and any order in which   *)
(* the code may range over its maps: a chain of moves and offers ends, and  *)
(* leaves a hall in which places, offers and requests fit each other; who   *)
(* is connected keeps their seat; a seat that becomes free is offered.      *)
(***************************************************************************)
EXTENDS WatchMembers, WatchCinema, FiniteSetTheorems, WellFoundedInduction,
        TLAPS

(* Members                                                                  *)

Role == {"none", "viewer", "cohost", "host", "left", "kicked"}
Seated == {"viewer", "cohost", "host"}

(* What each variable ranges over, but for the order and the invitations.  *)
Shape ==
  /\ member \in [Users -> Role]
  /\ host \in Users
  /\ online \subseteq Joined
  /\ req \in [Users -> {"none", "pending", "rejected"}]
  /\ desk \in [todo : SUBSET Users, found : Users \cup {None}]

(* Between the controller's look at a request and the controller's write,   *)
(* the mutex keeps the person outside and the place free.                   *)
FoundIsAdmissible ==
  desk.found # None => member[desk.found] \in {"none", "left"} /\ ~Full

IInv == Shape /\ Membership /\ FoundIsAdmissible

(* The hand-over needs a host who is in: else the role of a co-host would   *)
(* bring in somebody the order of joining does not have.                    *)
TypeInv == TypeOK /\ host \in Joined

----------------------------------------------------------------------------
(* Counting                                                                 *)

(* Those who joined are finitely many.                                      *)
LEMMA JoinedFinite == IsFiniteSet(Joined) /\ Cardinality(Joined) \in Nat
<1>1. IsFiniteSet(Users)
  BY MembersAssumption
<1>2. IsFiniteSet(Joined)
  BY <1>1, FS_Subset DEF Joined
<1> QED
  BY <1>2, FS_CardinalityType

(* A set of users that gains no member does not outgrow the room.           *)
LEMMA NoLarger ==
  ASSUME NotOverfull, NEW S \in SUBSET Joined
  PROVE  Cardinality(S) <= MaxMembers
<1>1. Cardinality(S) <= Cardinality(Joined) /\ Cardinality(S) \in Nat
  BY JoinedFinite, FS_Subset, FS_CardinalityType
<1> QED
  BY <1>1, JoinedFinite, MembersAssumption DEF NotOverfull

(* Where the room is not full, one more member fits.                        *)
LEMMA OneFits ==
  ASSUME ~Full, NEW u \in Users, u \notin Joined
  PROVE  Cardinality(Joined \cup {u}) <= MaxMembers
<1>1. Cardinality(Joined \cup {u}) = Cardinality(Joined) + 1
  BY JoinedFinite, FS_AddElement
<1> QED
  BY <1>1, JoinedFinite, MembersAssumption DEF Full

----------------------------------------------------------------------------
(* Each action keeps the invariant                                          *)

(* Coming in by oneself: the person was outside, and a request is closed.   *)
LEMMA EnterKeeps ==
  ASSUME IInv, ~StrayRequests, NEW u \in Users, Enter(u)
  PROVE  IInv'
<1>1. desk = Free /\ desk' = desk /\ host' = host /\ online' = online
  BY DEF Enter
<1>2. member[u] \in {"none", "left"} /\ ~Full
  BY DEF Enter, Outside
<1>3. member' = [member EXCEPT ![u] = "viewer"]
  BY DEF Enter, AddMember
<1>4. req' = [req EXCEPT ![u] = IF @ = "pending" THEN "none" ELSE @]
  BY DEF Enter, AddMember
<1>5. Joined' = Joined \cup {u} /\ u \notin Joined
  BY <1>2, <1>3 DEF IInv, Shape, Joined, Role
<1>6. Shape'
  BY <1>1, <1>3, <1>4, <1>5 DEF IInv, Shape, Role
<1>7. Membership'
  <2>1. OneHost'
    BY <1>1, <1>2, <1>3 DEF IInv, Shape, Membership, OneHost
  <2>2. NotOverfull'
    BY <1>2, <1>5, OneFits DEF NotOverfull
  <2>3. WaitersAreOutside'
    BY <1>3, <1>4 DEF IInv, Shape, Membership, WaitersAreOutside, Pending
  <2> QED
    BY <2>1, <2>2, <2>3 DEF Membership
<1>8. FoundIsAdmissible'
  BY <1>1 DEF FoundIsAdmissible, Free
<1> QED
  BY <1>6, <1>7, <1>8 DEF IInv

(* Leaving or being kicked takes out one person who is not the host, and    *)
(* leaves no request of theirs open.                                        *)
LEMMA GoneKeeps ==
  ASSUME IInv, desk' = desk, desk = Free, host' = host,
         NEW u \in Users, u # host, NEW how \in {"left", "kicked"},
         member' = [member EXCEPT ![u] = how], online' = online \ {u},
         req' \in [Users -> {"none", "pending", "rejected"}],
         req'[u] # "pending",
         \A v \in Users \ {u} : req'[v] = req[v]
  PROVE  IInv'
<1>1. Joined' = Joined \ {u}
  BY DEF IInv, Shape, Joined, Role
<1>2. Shape'
  BY <1>1 DEF IInv, Shape, Role
<1>3. OneHost'
  BY DEF IInv, Shape, Membership, OneHost
<1>4. NotOverfull'
  BY <1>1, NoLarger DEF IInv, Membership, NotOverfull
<1>5. WaitersAreOutside'
  BY DEF IInv, Shape, Membership, WaitersAreOutside, Pending
<1>6. FoundIsAdmissible'
  BY DEF FoundIsAdmissible, Free
<1> QED
  BY <1>2, <1>3, <1>4, <1>5, <1>6 DEF IInv, Membership

LEMMA LeaveKeeps ==
  ASSUME IInv, NEW u \in Users, Leave(u)
  PROVE  IInv'
<1>1. /\ desk = Free /\ desk' = desk /\ host' = host /\ u # host /\ req' = req
      /\ member' = [member EXCEPT ![u] = "left"] /\ online' = online \ {u}
  BY DEF Leave, RemoveMember
<1>2. req'[u] # "pending"
  BY <1>1 DEF Leave, IInv, Membership, WaitersAreOutside, Pending, Joined
<1> QED
  BY <1>1, <1>2, GoneKeeps DEF IInv, Shape

LEMMA KickKeeps ==
  ASSUME IInv, ~StrayRequests, NEW u \in Users, Kick(u)
  PROVE  IInv'
<1>1. /\ desk = Free /\ desk' = desk /\ host' = host /\ u # host
      /\ member' = [member EXCEPT ![u] = "kicked"]
  BY DEF Kick, RemoveMember
<1>2. req' = [req EXCEPT ![u] = IF @ = "pending" THEN "rejected" ELSE @]
  BY DEF Kick, Closed
<1>3. online' = online \ {u}
  BY DEF Kick, RemoveMember, IInv, Shape
<1>4. /\ req' \in [Users -> {"none", "pending", "rejected"}]
      /\ req'[u] # "pending"
      /\ \A v \in Users \ {u} : req'[v] = req[v]
  BY <1>2 DEF IInv, Shape
<1> QED
  BY <1>1, <1>3, <1>4, GoneKeeps

(* A change of roles among those who are in.                                *)
LEMMA RolesKeep ==
  ASSUME IInv, desk = Free, desk' = desk, req' = req, online' \subseteq online,
         host' \in Users, member' \in [Users -> Role],
         \A v \in Users : member'[v] = "host" <=> v = host',
         \A v \in Users : member'[v] # member[v] => member[v] \in Seated,
         \A v \in online' : member'[v] \in Seated
  PROVE  IInv'
<1>1. Joined' \in SUBSET Joined
  BY DEF IInv, Shape, Joined, Seated
<1>2. Shape'
  BY DEF IInv, Shape, Joined, Seated
<1>3. OneHost'
  BY DEF OneHost
<1>4. NotOverfull'
  BY <1>1, NoLarger DEF IInv, Membership, NotOverfull
<1>5. WaitersAreOutside'
  BY DEF IInv, Shape, Membership, WaitersAreOutside, Pending, Seated
<1>6. FoundIsAdmissible'
  BY DEF FoundIsAdmissible, Free
<1> QED
  BY <1>2, <1>3, <1>4, <1>5, <1>6 DEF IInv, Membership

(* The two rows a hand-over writes.                                         *)
LEMMA TransferredRows ==
  ASSUME IInv, NEW next \in Users, next # host
  PROVE  /\ Transferred(next) \in [Users -> Role]
         /\ Transferred(next)[next] = "host" /\ Transferred(next)[host] = "cohost"
         /\ \A v \in Users \ {next, host} : /\ Transferred(next)[v] = member[v]
                                            /\ member[v] # "host"
<1>1. member \in [Users -> Role] /\ host \in Users /\ \A v \in Users : member[v] = "host" <=> v = host
  BY DEF IInv, Shape, Membership, OneHost
<1> QED
  BY <1>1 DEF Transferred, Role

LEMMA TransferKeeps ==
  ASSUME IInv, NEW next \in Users, Transfer(next)
  PROVE  IInv'
<1>1. /\ desk = Free /\ desk' = desk /\ host' = next /\ req' = req /\ online' = online
      /\ member' = Transferred(next)
  BY DEF Transfer
<1>2. next \in Joined /\ next # host
  BY DEF Transfer, IsNextHost, IInv, Shape
<1>3. member[next] \in Seated /\ member[host] \in Seated
  BY <1>2 DEF Joined, Seated, IInv, Shape, Membership, OneHost
<1>4. \A v \in online : member[v] \in Seated
  BY DEF IInv, Shape, Joined, Seated
<1>5. /\ member' \in [Users -> Role]
      /\ \A v \in Users : member'[v] = "host" <=> v = host'
      /\ \A v \in Users : member'[v] # member[v] => member[v] \in Seated
      /\ \A v \in online' : member'[v] \in Seated
  <2>1. online \subseteq Users
    BY DEF IInv, Shape, Joined
  <2> QED
    BY <1>1, <1>2, <1>3, <1>4, <2>1, TransferredRows DEF Seated
<1> QED
  BY <1>1, <1>5, RolesKeep

LEMMA HostLeavesKeeps ==
  ASSUME IInv, HostLeaves
  PROVE  IInv'
<1>1. PICK next \in Users :
        /\ next \in Joined \ {host}
        /\ host' = next
        /\ \/ /\ member' = [Transferred(next) EXCEPT ![host] = "left"]
              /\ online' = online \ {host}
           \/ member' = Transferred(next) /\ online' = online
  BY DEF HostLeaves, IsNextHost
<1>2. desk = Free /\ desk' = desk /\ req' = req
  BY DEF HostLeaves
<1>3. member[next] \in Seated /\ member[host] \in Seated /\ next # host
  BY <1>1 DEF Joined, Seated, IInv, Shape, Membership, OneHost
<1>4. \A v \in online : member[v] \in Seated
  BY DEF IInv, Shape, Joined, Seated
<1>5. online' \subseteq online /\ host' \in Users
  BY <1>1
<1>6. /\ member' \in [Users -> Role]
      /\ \A v \in Users : member'[v] = "host" <=> v = host'
      /\ \A v \in Users : member'[v] # member[v] => member[v] \in Seated
      /\ \A v \in online' : member'[v] \in Seated
  <2>1. online \subseteq Users /\ host \in Users
    BY DEF IInv, Shape, Joined
  <2>2. CASE /\ member' = [Transferred(next) EXCEPT ![host] = "left"]
             /\ online' = online \ {host}
    <3>1. /\ member'[next] = "host" /\ member'[host] = "left"
          /\ \A v \in Users \ {next, host} : member'[v] = member[v] /\ member[v] # "host"
      BY <1>3, <2>1, <2>2, TransferredRows
    <3>2. member' \in [Users -> Role]
      BY <1>3, <2>2, TransferredRows DEF Role
    <3> QED
      BY <1>1, <1>3, <1>4, <2>1, <2>2, <3>1, <3>2 DEF Seated
  <2>3. CASE member' = Transferred(next) /\ online' = online
    BY <1>1, <1>3, <1>4, <2>1, <2>3, TransferredRows DEF Seated
  <2> QED
    BY <1>1, <2>2, <2>3
<1> QED
  BY <1>2, <1>5, <1>6, RolesKeep

LEMMA SetRoleKeeps ==
  ASSUME IInv, NEW u \in Users, NEW role \in {"cohost", "viewer"}, SetRole(u, role)
  PROVE  IInv'
<1>1. /\ desk = Free /\ desk' = desk /\ req' = req /\ online' = online /\ host' = host
      /\ u \in Joined /\ u # host /\ member' = [member EXCEPT ![u] = role]
  BY DEF SetRole
<1>2. member[u] \in Seated
  BY <1>1 DEF Joined, Seated
<1>3. \A v \in online : member[v] \in Seated
  BY DEF IInv, Shape, Joined, Seated
<1>4. /\ member' \in [Users -> Role] /\ host' \in Users
      /\ \A v \in Users : member'[v] = "host" <=> v = host'
      /\ \A v \in Users : member'[v] # member[v] => member[v] \in Seated
      /\ \A v \in online' : member'[v] \in Seated
  BY <1>1, <1>2, <1>3 DEF IInv, Shape, Role, Seated, Membership, OneHost
<1> QED
  BY <1>1, <1>4, RolesKeep

(* Where no row of a member changes: requests only close, unless one is     *)
(* made by somebody outside, and nobody is found who may not come in.       *)
LEMMA RequestsKeep ==
  ASSUME IInv, member' = member, host' = host, online' \subseteq online,
         req' \in [Users -> {"none", "pending", "rejected"}],
         \A v \in Users : req'[v] = "pending" => req[v] = "pending"
                                                 \/ member[v] \in {"none", "left"},
         desk' \in [todo : SUBSET Users, found : Users \cup {None}],
         desk'.found \notin {None, desk.found} =>
            member[desk'.found] \in {"none", "left"} /\ ~Full
  PROVE  IInv'
<1>1. Joined' = Joined
  BY DEF Joined
<1>2. Shape'
  BY <1>1 DEF IInv, Shape
<1>3. OneHost' /\ NotOverfull'
  BY <1>1 DEF IInv, Membership, OneHost, NotOverfull
<1>4. WaitersAreOutside'
  BY DEF IInv, Membership, WaitersAreOutside, Pending
<1>5. FoundIsAdmissible'
  BY <1>1 DEF IInv, FoundIsAdmissible, Full
<1> QED
  BY <1>2, <1>3, <1>4, <1>5 DEF IInv, Membership

(* The request is found pending: its sender is outside, and there is room.  *)
LEMMA FindKeeps ==
  ASSUME IInv, NEW u \in Users, Find(u)
  PROVE  IInv'
<1>1. /\ member' = member /\ host' = host /\ online' = online /\ req' = req
      /\ desk' = [todo |-> IF Full THEN {} ELSE desk.todo \ {u},
                  found |-> IF req[u] = "pending" /\ MayAdmit(u) THEN u ELSE None]
  BY DEF Find
<1>2. desk' \in [todo : SUBSET Users, found : Users \cup {None}]
  BY <1>1 DEF IInv, Shape
<1>3. desk'.found # None => member[desk'.found] \in {"none", "left"} /\ ~Full
  BY <1>1 DEF MayAdmit, IInv, Shape, Membership, WaitersAreOutside, Pending
<1> QED
  BY <1>1, <1>2, <1>3, RequestsKeep DEF IInv, Shape

(* The person comes in as they were found: outside, with a place free.      *)
LEMMA AdmitKeeps ==
  ASSUME IInv, Admit
  PROVE  IInv'
<1>1. desk.found \in Users /\ member[desk.found] \in {"none", "left"} /\ ~Full
  BY DEF Admit, IInv, Shape, FoundIsAdmissible
<1>2. desk' = [desk EXCEPT !.found = None] /\ host' = host /\ online' = online
  BY DEF Admit
<1>3. desk' \in [todo : SUBSET Users, found : Users \cup {None}] /\ desk'.found = None
  BY <1>2 DEF IInv, Shape
<1>4. CASE member' = member
  <2>1. req' = [req EXCEPT ![desk.found] = "none"] \/ req' = req
    BY DEF Admit
  <2>2. /\ req' \in [Users -> {"none", "pending", "rejected"}]
        /\ \A v \in Users : req'[v] = "pending" => req[v] = "pending"
    BY <1>1, <2>1 DEF IInv, Shape
  <2> QED
    BY <1>2, <1>3, <1>4, <2>2, RequestsKeep
<1>5. CASE /\ req' = [req EXCEPT ![desk.found] = "none"]
           /\ member' = [member EXCEPT ![desk.found] = "viewer"]
  <2>1. Joined' = Joined \cup {desk.found} /\ desk.found \notin Joined
    BY <1>1, <1>5 DEF IInv, Shape, Joined, Role
  <2>2. Shape'
    BY <1>1, <1>2, <1>3, <1>5, <2>1 DEF IInv, Shape, Role
  <2>3. OneHost'
    BY <1>1, <1>2, <1>5 DEF IInv, Shape, Membership, OneHost
  <2>4. NotOverfull'
    BY <1>1, <2>1, OneFits DEF NotOverfull
  <2>5. WaitersAreOutside'
    BY <1>1, <1>5 DEF IInv, Shape, Membership, WaitersAreOutside, Pending
  <2>6. FoundIsAdmissible'
    BY <1>3 DEF FoundIsAdmissible
  <2> QED
    BY <2>2, <2>3, <2>4, <2>5, <2>6 DEF IInv, Membership
<1> QED
  BY <1>4, <1>5 DEF Admit

(* Asking, cancelling, lapsing, rejecting and dropping touch one request.   *)
LEMMA OneRequestKeeps ==
  ASSUME IInv, NEW u \in Users,
         Ask(u) \/ Cancel(u) \/ Lapse(u) \/ Reject(u) \/ Drop(u)
  PROVE  IInv'
<1>1. member' = member /\ host' = host /\ online' = online
  BY DEF Ask, Cancel, Lapse, Reject, Drop
<1>2. /\ req' \in [Users -> {"none", "pending", "rejected"}]
      /\ \A v \in Users : req'[v] = "pending" => req[v] = "pending"
                                                 \/ member[v] \in {"none", "left"}
  BY DEF Ask, Outside, Cancel, Lapse, Reject, Drop, IInv, Shape
<1>3. /\ desk' \in [todo : SUBSET Users, found : Users \cup {None}]
      /\ desk'.found = desk.found
  BY DEF Ask, Cancel, Lapse, Reject, Drop, IInv, Shape
<1> QED
  BY <1>1, <1>2, <1>3, RequestsKeep

LEMMA AcceptKeeps ==
  ASSUME IInv, NEW S \in SUBSET Users, Accept(S)
  PROVE  IInv'
<1>1. /\ desk' \in [todo : SUBSET Users, found : Users \cup {None}]
      /\ desk'.found = desk.found
  BY DEF Accept, IInv, Shape
<1> QED
  BY <1>1, RequestsKeep DEF Accept, IInv, Shape

(* What changes neither rows nor requests.                                  *)
LEMMA RestKeeps ==
  ASSUME IInv,
         \/ \E u \in Users : Connect(u) \/ Disconnect(u)
         \/ \E u, v \in Users : Invite(v, u)
         \/ \E s \in Settings : PatchRoom(s)
         \/ Reload \/ UNCHANGED vars
  PROVE  IInv'
<1>1. member' = member /\ host' = host /\ req' = req /\ online' \subseteq Joined
  BY DEF Connect, Disconnect, Invite, PatchRoom, Reload, vars, IInv, Shape
<1>2. desk' \in {desk, Free}
  BY DEF Connect, Disconnect, Invite, PatchRoom, Reload, vars
<1>3. desk' \in [todo : SUBSET Users, found : Users \cup {None}] /\ desk'.found \in {None, desk.found}
  BY <1>2 DEF Free, IInv, Shape
<1>4. Joined' = Joined
  BY <1>1 DEF Joined
<1>5. Shape'
  BY <1>1, <1>3, <1>4 DEF IInv, Shape
<1>6. Membership'
  BY <1>1, <1>4 DEF IInv, Membership, OneHost, NotOverfull, WaitersAreOutside, Pending
<1>7. FoundIsAdmissible'
  BY <1>1, <1>3, <1>4 DEF IInv, FoundIsAdmissible, Full
<1> QED
  BY <1>5, <1>6, <1>7 DEF IInv

----------------------------------------------------------------------------
(* The theorems                                                             *)

LEMMA InitHolds == Init => IInv
<1> SUFFICES ASSUME Init PROVE IInv
  OBVIOUS
<1>1. Creator \in Users /\ None \notin Users /\ MaxMembers \in Nat \ {0}
  BY MembersAssumption
<1>2. Joined = {Creator}
  BY <1>1 DEF Init, Joined
<1>3. Shape
  BY <1>1 DEF Init, Shape, Role, Free
<1>4. OneHost
  BY <1>1 DEF Init, OneHost
<1>5. NotOverfull
  BY <1>1, <1>2, FS_Singleton DEF NotOverfull
<1>6. WaitersAreOutside
  BY DEF Init, WaitersAreOutside, Pending
<1>7. FoundIsAdmissible
  BY DEF Init, FoundIsAdmissible, Free
<1> QED
  BY <1>3, <1>4, <1>5, <1>6, <1>7 DEF IInv, Membership

LEMMA StepKeeps ==
  ASSUME IInv, ~StrayRequests, [Next]_vars
  PROVE  IInv'
<1>1. ASSUME NEW u \in Users, Enter(u) PROVE IInv'
  BY <1>1, EnterKeeps
<1>2. ASSUME NEW u \in Users, Ask(u) \/ Cancel(u) \/ Lapse(u) \/ Reject(u) \/ Drop(u) PROVE IInv'
  BY <1>2, OneRequestKeeps
<1>3. ASSUME NEW u \in Users, Transfer(u) PROVE IInv'
  BY <1>3, TransferKeeps
<1>4. ASSUME NEW u \in Users, Leave(u) \/ Kick(u) PROVE IInv'
  BY <1>4, LeaveKeeps, KickKeeps
<1>5. ASSUME NEW u \in Users, Find(u) PROVE IInv'
  BY <1>5, FindKeeps
<1>6. ASSUME NEW u \in Users, NEW role \in {"cohost", "viewer"}, SetRole(u, role) PROVE IInv'
  BY <1>6, SetRoleKeeps
<1>7. ASSUME (\E u \in Pending : Accept({u})) \/ Accept(Pending) PROVE IInv'
  BY <1>7, AcceptKeeps DEF Pending
<1>8. ASSUME HostLeaves \/ Admit PROVE IInv'
  BY <1>8, HostLeavesKeeps, AdmitKeeps
<1> QED
  BY <1>1, <1>2, <1>3, <1>4, <1>5, <1>6, <1>7, <1>8, RestKeeps DEF Next

(* As long as no write that closes a request is lost, however many are      *)
(* asking, invited, admitted, promoted, kicked and succeeding each other,   *)
(* the room has the one host it names, no more members than it holds, and   *)
(* nobody both in and waiting.                                              *)
THEOREM MembershipRule == ASSUME ~StrayRequests PROVE Spec => []Membership
<1>1. Init => IInv
  BY InitHolds
<1>2. IInv /\ [Next]_vars => IInv'
  BY StepKeeps
<1>3. IInv => Membership
  BY DEF IInv
<1> QED
  BY <1>1, <1>2, <1>3, PTL DEF Spec

(* A step of a room in that invariant leaves every kicked row kicked.       *)
LEMMA KickedStays ==
  ASSUME IInv, [Next]_vars, NEW u \in Users, member[u] = "kicked"
  PROVE  member'[u] = "kicked"
<1>1. \/ member' = member
      \/ \E v \in Users, how \in Role : /\ member' = [member EXCEPT ![v] = how]
                                        /\ how = "kicked" \/ member[v] # "kicked"
      \/ \E next \in Users : /\ member[next] # "kicked" /\ member[host] # "kicked"
                             /\ \/ member' = Transferred(next)
                                \/ member' = [Transferred(next) EXCEPT ![host] = "left"]
  <2>1. member[host] # "kicked" /\ host \in Users
    BY DEF IInv, Shape, Membership, OneHost
  <2>2. ASSUME NEW v \in Users, Enter(v) \/ Leave(v) \/ Kick(v)
        PROVE  \E how \in Role : /\ member' = [member EXCEPT ![v] = how]
                                 /\ how = "kicked" \/ member[v] # "kicked"
    BY <2>2 DEF Enter, Outside, AddMember, Leave, Kick, RemoveMember, Joined, Role
  <2>3. ASSUME NEW v \in Users, NEW role \in {"cohost", "viewer"}, SetRole(v, role)
        PROVE  /\ member' = [member EXCEPT ![v] = role] /\ role \in Role
               /\ member[v] # "kicked"
    BY <2>3 DEF SetRole, Joined, Role
  <2>4. ASSUME Admit
        PROVE  \/ member' = member
               \/ /\ desk.found \in Users /\ member[desk.found] # "kicked"
                  /\ member' = [member EXCEPT ![desk.found] = "viewer"]
    BY <2>4 DEF Admit, IInv, Shape, FoundIsAdmissible
  <2>5. ASSUME NEW next \in Users, Transfer(next)
        PROVE  member[next] # "kicked" /\ member' = Transferred(next)
    BY <2>5 DEF Transfer, IsNextHost, Joined, IInv, Shape
  <2>6. ASSUME HostLeaves
        PROVE  \E next \in Users : /\ member[next] # "kicked"
                                   /\ \/ member' = Transferred(next)
                                      \/ member' = [Transferred(next) EXCEPT ![host] = "left"]
    BY <2>6 DEF HostLeaves, IsNextHost, Joined
  <2>7. ASSUME \/ \E v \in Users : \/ Ask(v) \/ Cancel(v) \/ Lapse(v) \/ Reject(v) \/ Drop(v)
                                   \/ Connect(v) \/ Disconnect(v) \/ Find(v)
               \/ \E w, v \in Users : Invite(v, w)
               \/ \E s \in Settings : PatchRoom(s)
               \/ \E S \in SUBSET Users : Accept(S)
               \/ Reload \/ UNCHANGED vars
        PROVE  member' = member
    BY <2>7 DEF Ask, Cancel, Lapse, Reject, Drop, Connect, Disconnect, Find, Invite,
                PatchRoom, Accept, Reload, vars
  <2>8. Pending \in SUBSET Users /\ \A v \in Pending : {v} \in SUBSET Users
    BY DEF Pending
  <2>9. "viewer" \in Role
    BY DEF Role
  <2>10. CASE \E v \in Users : Enter(v) \/ Leave(v) \/ Kick(v)
    BY <2>2, <2>10
  <2>11. CASE \E v \in Users, role \in {"cohost", "viewer"} : SetRole(v, role)
    BY <2>3, <2>11
  <2>12. CASE Admit
    BY <2>4, <2>9, <2>12
  <2>13. CASE (\E v \in Users : Transfer(v)) \/ HostLeaves
    BY <2>1, <2>5, <2>6, <2>13
  <2>14. CASE \/ \E v \in Users : \/ Ask(v) \/ Cancel(v) \/ Lapse(v) \/ Reject(v) \/ Drop(v)
                                   \/ Connect(v) \/ Disconnect(v) \/ Find(v)
              \/ \E w, v \in Users : Invite(v, w)
              \/ \E s \in Settings : PatchRoom(s)
              \/ \E S \in SUBSET Users : Accept(S)
              \/ Reload \/ UNCHANGED vars
    BY <2>7, <2>14
  <2> QED
    BY <2>8, <2>10, <2>11, <2>12, <2>13, <2>14 DEF Next
<1>2. member \in [Users -> Role]
  BY DEF IInv, Shape
<1> QED
  BY <1>1, <1>2 DEF Transferred

(* A kick is for good: no join, request, invitation, hand-over or batch of  *)
(* admissions takes the row of somebody who was kicked to anything else.    *)
THEOREM KickIsForGood == ASSUME ~StrayRequests PROVE Spec => KickedStaysOut
<1>1. Init => IInv
  BY InitHolds
<1>2. IInv /\ [Next]_vars => IInv'
  BY StepKeeps
<1>3. IInv /\ [Next]_vars => [\A u \in Users : member[u] = "kicked" => member'[u] = "kicked"]_vars
  BY KickedStays
<1> QED
  BY <1>1, <1>2, <1>3, PTL DEF Spec, KickedStaysOut

----------------------------------------------------------------------------
(* The types and the order of joining, whatever writes are lost             *)

(* The last to come is after all others.                                    *)
LEMMA LastInTurn ==
  ASSUME JoinedInTurn, NEW u \in Users,
         Joined' = Joined \cup {u}, before' = Last(u)
  PROVE  JoinedInTurn'
<1>1. before' \subseteq Joined' \X Joined'
  BY DEF JoinedInTurn, Last, Without
<1>2. \A v, w \in Users :
        <<v, w>> \in before' <=>
           \/ <<v, w>> \in before /\ u # v /\ u # w
           \/ w = u /\ v \in Joined \ {u}
  BY DEF Last, Without
<1>3. Joined' \subseteq Users
  BY DEF Joined
<1>4. \A v, w \in Joined' : v # w => (<<v, w>> \in before' <=> <<w, v>> \notin before')
  BY <1>2, <1>3 DEF JoinedInTurn
<1>5. \A v, w, x \in Joined' :
        <<v, w>> \in before' /\ <<w, x>> \in before' => <<v, x>> \in before'
  BY <1>2, <1>3 DEF JoinedInTurn
<1>6. \A v \in Joined' : <<v, v>> \notin before'
  BY <1>2, <1>3 DEF JoinedInTurn
<1> QED
  BY <1>1, <1>4, <1>5, <1>6 DEF JoinedInTurn

(* The others stay in turn when one leaves.                                 *)
LEMMA OthersInTurn ==
  ASSUME JoinedInTurn, NEW u \in Users,
         Joined' = Joined \ {u}, before' = Without(u)
  PROVE  JoinedInTurn'
<1>1. before' \subseteq Joined' \X Joined'
  BY DEF JoinedInTurn, Without
<1>2. \A v, w \in Users : <<v, w>> \in before' <=> <<v, w>> \in before /\ u # v /\ u # w
  BY DEF Without
<1>3. Joined' \subseteq Joined /\ Joined \subseteq Users /\ u \notin Joined'
  BY DEF Joined
<1>4. \A v, w \in Joined' : v # w => (<<v, w>> \in before' <=> <<w, v>> \notin before')
  BY <1>2, <1>3 DEF JoinedInTurn
<1>5. \A v, w, x \in Joined' :
        <<v, w>> \in before' /\ <<w, x>> \in before' => <<v, x>> \in before'
  BY <1>2, <1>3 DEF JoinedInTurn
<1>6. \A v \in Joined' : <<v, v>> \notin before'
  BY <1>2, <1>3 DEF JoinedInTurn
<1> QED
  BY <1>1, <1>4, <1>5, <1>6 DEF JoinedInTurn

(* Coming in, by oneself or by an answer: the row, and the last place.      *)
LEMMA ArrivalTyped ==
  ASSUME TypeInv, NEW u \in Users,
         member' = [member EXCEPT ![u] = "viewer"], before' = Last(u),
         host' = host, online' = online,
         req' \in [Users -> {"none", "pending", "rejected"}],
         invite' = invite, room' = room,
         desk' \in [todo : SUBSET Users, found : Users \cup {None}]
  PROVE  TypeInv'
<1>1. member' \in [Users -> Role]
  BY DEF TypeInv, TypeOK, Role
<1>2. Joined' = Joined \cup {u}
  BY DEF TypeInv, TypeOK, Joined
<1>3. JoinedInTurn'
  BY <1>2, LastInTurn DEF TypeInv, TypeOK
<1> QED
  BY <1>1, <1>2, <1>3 DEF TypeInv, TypeOK, Role

(* Leaving and being kicked.                                                *)
LEMMA DepartureTyped ==
  ASSUME TypeInv, NEW u \in Users, NEW how \in {"left", "kicked"},
         RemoveMember(u, how), u # host, host' = host,
         req' \in [Users -> {"none", "pending", "rejected"}],
         invite' \in [Users -> Users \cup {None}], room' = room, desk' = desk
  PROVE  TypeInv'
<1>1. member' \in [Users -> Role]
  BY DEF TypeInv, TypeOK, Role, RemoveMember
<1>2. Joined' = Joined \ {u}
  BY DEF TypeInv, TypeOK, Joined, RemoveMember
<1>3. JoinedInTurn'
  BY <1>2, OthersInTurn DEF TypeInv, TypeOK, RemoveMember
<1> QED
  BY <1>1, <1>2, <1>3 DEF TypeInv, TypeOK, Role, RemoveMember

(* New roles for those who are in, and nothing else about who is in.        *)
LEMMA SameMembersTyped ==
  ASSUME TypeInv, member' \in [Users -> Role], Joined' = Joined, before' = before,
         host' \in Joined, online' \subseteq Joined,
         req' \in [Users -> {"none", "pending", "rejected"}],
         invite' \in [Users -> Users \cup {None}], room' \in Settings,
         desk' \in [todo : SUBSET Users, found : Users \cup {None}]
  PROVE  TypeInv'
<1>1. JoinedInTurn'
  BY DEF TypeInv, TypeOK, JoinedInTurn
<1> QED
  BY <1>1 DEF TypeInv, TypeOK, Role

(* A hand-over changes two roles.                                           *)
LEMMA TransferredTyped ==
  ASSUME TypeInv, NEW next \in Joined, next # host
  PROVE  /\ Transferred(next) \in [Users -> Role]
         /\ \A v \in Users : Transferred(next)[v] \in Seated <=> v \in Joined
<1>1. member \in [Users -> Role] /\ host \in Users /\ next \in Users
  BY DEF TypeInv, TypeOK, Joined, Role
<1>2. Transferred(next) \in [Users -> Role]
  BY <1>1 DEF Transferred, Role
<1>3. /\ Transferred(next)[next] = "host" /\ Transferred(next)[host] = "cohost"
      /\ \A v \in Users \ {next, host} : Transferred(next)[v] = member[v]
  BY <1>1 DEF Transferred
<1>4. host \in Joined
  BY DEF TypeInv
<1> QED
  BY <1>1, <1>2, <1>3, <1>4 DEF Joined, Seated

LEMMA TransferTyped ==
  ASSUME TypeInv, NEW next \in Users, Transfer(next)
  PROVE  TypeInv'
<1>1. next \in Joined /\ next # host
  BY DEF Transfer, IsNextHost, TypeInv, TypeOK
<1>2. member' = Transferred(next) /\ host' = next
  BY DEF Transfer
<1>3. Joined' = Joined
  BY <1>1, <1>2, TransferredTyped DEF Joined, Seated
<1> QED
  BY <1>1, <1>2, <1>3, TransferredTyped, SameMembersTyped DEF Transfer, TypeInv, TypeOK

LEMMA HostLeavesTyped ==
  ASSUME TypeInv, HostLeaves
  PROVE  TypeInv'
<1>1. PICK next \in Users :
        /\ IsNextHost(next, Joined \ {host})
        /\ host' = next
        /\ \/ /\ member' = [Transferred(next) EXCEPT ![host] = "left"]
              /\ before' = Without(host)
              /\ online' = online \ {host}
           \/ member' = Transferred(next) /\ UNCHANGED <<before, online>>
  BY DEF HostLeaves
<1>2. next \in Joined /\ next # host
  BY <1>1 DEF IsNextHost
<1>3. UNCHANGED <<req, invite, room, desk>>
  BY DEF HostLeaves
<1>4. CASE member' = Transferred(next) /\ UNCHANGED <<before, online>>
  <2>1. Joined' = Joined
    BY <1>2, <1>4, TransferredTyped DEF Joined, Seated
  <2> QED
    BY <1>1, <1>2, <1>3, <1>4, <2>1, TransferredTyped, SameMembersTyped DEF TypeInv, TypeOK
<1>5. CASE /\ member' = [Transferred(next) EXCEPT ![host] = "left"]
           /\ before' = Without(host)
           /\ online' = online \ {host}
  <2>1. host \in Users /\ Joined \subseteq Users
    BY DEF TypeInv, Joined
  <2>2. member' \in [Users -> Role]
    BY <1>2, <1>5, TransferredTyped DEF Role
  <2>3. Joined' = Joined \ {host}
    <3>1. member'[host] = "left" /\ \A v \in Users \ {host} : member'[v] = Transferred(next)[v]
      BY <1>2, <1>5, <2>1, TransferredTyped
    <3> QED
      BY <1>2, <2>1, <3>1, TransferredTyped DEF Joined, Seated
  <2>4. JoinedInTurn'
    BY <1>5, <2>1, <2>3, OthersInTurn DEF TypeInv, TypeOK
  <2>5. host' \in Joined' /\ online' \subseteq Joined'
    BY <1>1, <1>2, <1>5, <2>3 DEF TypeInv, TypeOK
  <2> QED
    BY <1>3, <2>2, <2>4, <2>5 DEF TypeInv, TypeOK, Role
<1> QED
  BY <1>1, <1>4, <1>5

LEMMA SetRoleTyped ==
  ASSUME TypeInv, NEW u \in Users, NEW role \in {"cohost", "viewer"}, SetRole(u, role)
  PROVE  TypeInv'
<1>1. u \in Joined /\ member' = [member EXCEPT ![u] = role]
  BY DEF SetRole
<1>2. member' \in [Users -> Role] /\ Joined' = Joined
  BY <1>1 DEF TypeInv, TypeOK, Joined, Role
<1> QED
  BY <1>2, SameMembersTyped DEF SetRole, TypeInv, TypeOK

LEMMA EnterTyped ==
  ASSUME TypeInv, NEW u \in Users, Enter(u)
  PROVE  TypeInv'
<1>1. req' \in [Users -> {"none", "pending", "rejected"}]
  BY DEF Enter, AddMember, TypeInv, TypeOK
<1> QED
  BY <1>1, ArrivalTyped DEF Enter, AddMember, TypeInv, TypeOK

LEMMA AdmitTyped ==
  ASSUME TypeInv, Admit
  PROVE  TypeInv'
<1>1. /\ desk.found \in Users
      /\ desk' \in [todo : SUBSET Users, found : Users \cup {None}]
      /\ req' \in [Users -> {"none", "pending", "rejected"}]
      /\ UNCHANGED <<host, online, invite, room>>
  BY DEF Admit, TypeInv, TypeOK
<1>2. CASE UNCHANGED <<member, before>>
  BY <1>1, <1>2, SameMembersTyped DEF TypeInv, TypeOK, Joined, Role
<1>3. CASE /\ member' = [member EXCEPT ![desk.found] = "viewer"]
           /\ before' = Last(desk.found)
  BY <1>1, <1>3, ArrivalTyped
<1> QED
  BY <1>2, <1>3 DEF Admit

LEMMA LeaveTyped ==
  ASSUME TypeInv, NEW u \in Users, Leave(u)
  PROVE  TypeInv'
  BY DepartureTyped DEF Leave, TypeInv, TypeOK

LEMMA KickTyped ==
  ASSUME TypeInv, NEW u \in Users, Kick(u)
  PROVE  TypeInv'
<1>1. /\ u # host /\ host' = host /\ room' = room /\ desk' = desk
      /\ invite' \in [Users -> Users \cup {None}]
  BY DEF Kick, TypeInv, TypeOK
<1>2. req' \in [Users -> {"none", "pending", "rejected"}]
  BY DEF Kick, Closed, TypeInv, TypeOK
<1>3. CASE u \in Joined
  BY <1>1, <1>2, <1>3, DepartureTyped DEF Kick
<1>4. CASE u \notin Joined
  <2>1. member' = [member EXCEPT ![u] = "kicked"] /\ UNCHANGED <<before, online>>
    BY <1>4 DEF Kick
  <2>2. member' \in [Users -> Role] /\ Joined' = Joined
    BY <1>4, <2>1 DEF TypeInv, TypeOK, Joined, Role
  <2> QED
    BY <1>1, <1>2, <2>1, <2>2, SameMembersTyped DEF TypeInv, TypeOK
<1> QED
  BY <1>3, <1>4

(* Requests and their answers leave the rows and the order alone.           *)
LEMMA RequestsTyped ==
  ASSUME TypeInv,
         \/ \E u \in Users : Ask(u) \/ Cancel(u) \/ Lapse(u) \/ Reject(u) \/ Find(u) \/ Drop(u)
         \/ \E S \in SUBSET Users : Accept(S)
  PROVE  TypeInv'
<1>1. UNCHANGED <<member, before, host, online, invite, room>>
  BY DEF Ask, Cancel, Lapse, Reject, Find, Drop, Accept
<1>2. req' \in [Users -> {"none", "pending", "rejected"}]
  <2>1. \/ req' = req
        \/ \E u \in Users, r \in {"none", "pending", "rejected"} : req' = [req EXCEPT ![u] = r]
    BY DEF Ask, Cancel, Lapse, Reject, Find, Drop, Accept, TypeInv, TypeOK
  <2> QED
    BY <2>1 DEF TypeInv, TypeOK
<1>3. desk' \in [todo : SUBSET Users, found : Users \cup {None}]
  <2>1. \/ desk' = desk
        \/ \E S \in SUBSET Users, v \in Users \cup {None} : desk' = [todo |-> S, found |-> v]
    BY DEF Ask, Cancel, Lapse, Reject, Find, Drop, Accept, TypeInv, TypeOK
  <2> QED
    BY <2>1 DEF TypeInv, TypeOK
<1>4. Joined' = Joined /\ member' \in [Users -> Role]
  BY <1>1 DEF Joined, TypeInv, TypeOK, Role
<1> QED
  BY <1>1, <1>2, <1>3, <1>4, SameMembersTyped DEF TypeInv, TypeOK

(* So do sockets, invitations and settings.                                 *)
LEMMA RestTyped ==
  ASSUME TypeInv,
         \/ \E u \in Users : Connect(u) \/ Disconnect(u)
         \/ \E u, v \in Users : Invite(v, u)
         \/ \E s \in Settings : PatchRoom(s)
         \/ Reload \/ UNCHANGED vars
  PROVE  TypeInv'
<1>1. UNCHANGED <<member, before, host, req>> /\ desk' \in {desk, Free}
  BY DEF Connect, Disconnect, Invite, PatchRoom, Reload, vars
<1>2. online' \subseteq Joined
  <2>1. \/ online' \in {online, {}}
        \/ \E u \in Joined : online' \in {online \cup {u}, online \ {u}}
    BY DEF Connect, Disconnect, Invite, PatchRoom, Reload, vars, TypeInv, TypeOK
  <2> QED
    BY <2>1 DEF TypeInv, TypeOK
<1>3. invite' \in [Users -> Users \cup {None}] /\ room' \in Settings
  <2>1. \/ invite' = invite
        \/ \E u, v \in Users : invite' = [invite EXCEPT ![u] = v]
    BY DEF Connect, Disconnect, Invite, PatchRoom, Reload, vars
  <2>2. room' = room \/ room' \in Settings
    BY DEF Connect, Disconnect, Invite, PatchRoom, Reload, vars
  <2> QED
    BY <2>1, <2>2 DEF TypeInv, TypeOK
<1>4. desk' \in [todo : SUBSET Users, found : Users \cup {None}]
  BY <1>1 DEF TypeInv, TypeOK, Free
<1>5. Joined' = Joined /\ member' \in [Users -> Role]
  BY <1>1 DEF Joined, TypeInv, TypeOK, Role
<1> QED
  BY <1>1, <1>2, <1>3, <1>4, <1>5, SameMembersTyped DEF TypeInv, TypeOK

(* However requests are asked for, cancelled, answered and lost, the rows,  *)
(* the order of joining, who is online, requests, invitations and the desk  *)
(* of the controller keep their types: whoever is in has one place in the   *)
(* order of succession, and whoever is out has none.                        *)
THEOREM MembersTyped == Spec => []TypeOK
<1>1. Init => TypeInv
  <2> SUFFICES ASSUME Init PROVE TypeInv
    OBVIOUS
  <2>1. Creator \in Users
    BY MembersAssumption
  <2>2. Joined = {Creator}
    BY <2>1 DEF Init, Joined
  <2>3. JoinedInTurn
    BY <2>2 DEF Init, JoinedInTurn
  <2> QED
    BY <2>1, <2>2, <2>3 DEF Init, TypeInv, TypeOK, Free
<1>2. TypeInv /\ [Next]_vars => TypeInv'
  <2> SUFFICES ASSUME TypeInv, [Next]_vars PROVE TypeInv'
    OBVIOUS
  <2>1. ASSUME NEW u \in Users,
               Enter(u) \/ Transfer(u) \/ Leave(u) \/ Kick(u)
        PROVE  TypeInv'
    BY <2>1, EnterTyped, TransferTyped, LeaveTyped, KickTyped
  <2>2. ASSUME NEW u \in Users, NEW role \in {"cohost", "viewer"}, SetRole(u, role)
        PROVE  TypeInv'
    BY <2>2, SetRoleTyped
  <2>3. CASE HostLeaves \/ Admit
    BY <2>3, HostLeavesTyped, AdmitTyped
  <2>4. Pending \in SUBSET Users /\ \A u \in Pending : {u} \in SUBSET Users
    BY DEF Pending
  <2>5. CASE (\E u \in Pending : Accept({u})) \/ Accept(Pending)
    <3>1. \E S \in SUBSET Users : Accept(S)
      BY <2>4, <2>5
    <3> QED
      BY <3>1, RequestsTyped
  <2> QED
    BY <2>1, <2>2, <2>3, <2>5, RequestsTyped, RestTyped DEF Next
<1>3. TypeInv => TypeOK
  BY DEF TypeInv
<1> QED
  BY <1>1, <1>2, <1>3, PTL DEF Spec

----------------------------------------------------------------------------
(* The hall: numbers and rounds                                            *)

(* A set of numbers has a least one.                                        *)
LEMMA LeastOfSome ==
  ASSUME NEW T \in SUBSET Nat, T # {}
  PROVE  \E x \in T : \A y \in T : x <= y
<1>1. PICK x \in T : \A y \in T : <<y, x>> \notin OpToRel(<, Nat)
  BY NatLessThanWellFounded, WFMin
<1>2. ASSUME NEW y \in T PROVE x <= y
  <2>1. ~(y < x)
    BY <1>1 DEF OpToRel
  <2> QED BY <2>1
<1> QED BY <1>2

(* What holds at first and is passed on from each round to the next holds    *)
(* after any number of them.                                                *)
LEMMA PassedOn ==
  ASSUME NEW n \in Nat, NEW a, NEW G, a[0] \subseteq G,
         \A k \in 1..n : a[k - 1] \subseteq G => a[k] \subseteq G
  PROVE  a[n] \subseteq G
<1> DEFINE T == {k \in 0..n : ~(a[k] \subseteq G)}
<1>1. CASE T = {}
  BY <1>1
<1>2. CASE T # {}
  <2>0. T \in SUBSET Nat
    OBVIOUS
  <2>1. PICK k \in T : \A j \in T : k <= j
    <3> HIDE DEF T
    <3> QED BY <1>2, <2>0, LeastOfSome
  <2>2. k \in 1..n
    BY <2>1
  <2>3. k - 1 \notin T /\ k - 1 \in 0..n
    BY <2>1, <2>2
  <2> QED BY <2>1, <2>2, <2>3
<1> QED BY <1>1, <1>2

(* A recursive definition whose rounds stay within a set has a solution.     *)
Solves(f, g, C, n, G) ==
  /\ f = [k \in 0..n |-> IF k = 0 THEN C ELSE UNION {g[c] : c \in f[k - 1]}]
  /\ \A k \in 0..n : f[k] \subseteq G

(* What n rounds of g reach, step by step: paths of n steps from C.         *)
LEMMA RoundsExist ==
  ASSUME NEW n \in Nat, NEW G, NEW g \in [G -> SUBSET G], NEW C \in SUBSET G
  PROVE  \E f : Solves(f, g, C, n, G)
<1> DEFINE Path(p, k) == /\ p \in [0..k -> G] /\ p[0] \in C
                         /\ \A j \in 1..k : p[j] \in g[p[j - 1]]
           f == [k \in 0..n |-> {c \in G : \E p : Path(p, k) /\ p[k] = c}]
<1>1. f[0] = C
  <2>1. ASSUME NEW c \in C PROVE c \in f[0]
    <3>1. PICK p : p = [j \in 0..0 |-> c]
      OBVIOUS
    <3>2. Path(p, 0) /\ p[0] = c
      BY <3>1
    <3> QED BY <3>2
  <2>2. ASSUME NEW c \in f[0] PROVE c \in C
    OBVIOUS
  <2> QED BY <2>1, <2>2
<1>2. ASSUME NEW k \in 1..n PROVE f[k] = UNION {g[c] : c \in f[k - 1]}
  <2>0. k \in 0..n /\ k - 1 \in 0..n /\ k - 1 \in Nat
    OBVIOUS
  <2>1. ASSUME NEW d \in f[k] PROVE \E c \in f[k - 1] : d \in g[c]
    <3>1. PICK p : Path(p, k) /\ p[k] = d
      BY <2>0, <2>1
    <3>2. PICK q : q = [j \in 0..(k - 1) |-> p[j]]
      OBVIOUS
    <3>3. Path(q, k - 1)
      <4>1. q \in [0..(k - 1) -> G]
        BY <2>0, <3>1, <3>2
      <4>2. q[0] \in C
        BY <2>0, <3>1, <3>2
      <4>3. \A j \in 1..(k - 1) : q[j] \in g[q[j - 1]]
        <5>1. ASSUME NEW j \in 1..(k - 1) PROVE q[j] \in g[q[j - 1]]
          <6>1. j \in 1..k /\ j \in 0..(k - 1) /\ j - 1 \in 0..(k - 1)
            BY <2>0
          <6> QED BY <3>1, <3>2, <6>1
        <5> QED BY <5>1
      <4> QED BY <4>1, <4>2, <4>3
    <3>4. q[k - 1] = p[k - 1] /\ p[k - 1] \in G
      BY <2>0, <3>1, <3>2
    <3>5. p[k - 1] \in f[k - 1]
      BY <2>0, <3>3, <3>4
    <3>6. d \in g[p[k - 1]]
      BY <2>0, <3>1
    <3> QED BY <3>5, <3>6
  <2>2. ASSUME NEW c \in f[k - 1], NEW d \in g[c] PROVE d \in f[k]
    <3>1. PICK p : Path(p, k - 1) /\ p[k - 1] = c
      BY <2>0, <2>2
    <3>2. c \in G /\ d \in G
      BY <2>0, <2>2
    <3>3. PICK q : q = [j \in 0..k |-> IF j = k THEN d ELSE p[j]]
      OBVIOUS
    <3>4. Path(q, k)
      <4>1. q \in [0..k -> G]
        BY <2>0, <3>1, <3>2, <3>3
      <4>2. q[0] \in C
        BY <2>0, <3>1, <3>3
      <4>3. \A j \in 1..k : q[j] \in g[q[j - 1]]
        <5>1. ASSUME NEW j \in 1..k PROVE q[j] \in g[q[j - 1]]
          <6>1. j - 1 \in 0..k /\ j \in 0..k /\ j - 1 # k
            BY <2>0
          <6>2. CASE j = k
            BY <2>2, <3>1, <3>3, <6>1, <6>2
          <6>3. CASE j # k
            <7>1. j \in 1..(k - 1)
              BY <2>0, <6>3
            <7> QED BY <3>1, <3>3, <6>1, <6>3, <7>1
          <6> QED BY <6>2, <6>3
        <5> QED BY <5>1
      <4> QED BY <4>1, <4>2, <4>3
    <3>5. q[k] = d
      BY <2>0, <3>3
    <3> QED BY <2>0, <3>2, <3>4, <3>5
  <2> HIDE DEF f
  <2>3. f[k] \subseteq UNION {g[c] : c \in f[k - 1]}
    BY <2>1
  <2>4. UNION {g[c] : c \in f[k - 1]} \subseteq f[k]
    BY <2>2
  <2> QED BY <2>3, <2>4
<1>3. f = [k \in 0..n |-> IF k = 0 THEN C ELSE UNION {g[c] : c \in f[k - 1]}]
  <2>1. \A k \in 0..n : f[k] = IF k = 0 THEN C ELSE UNION {g[c] : c \in f[k - 1]}
    <3>1. ASSUME NEW k \in 0..n PROVE f[k] = IF k = 0 THEN C ELSE UNION {g[c] : c \in f[k - 1]}
      <4>1. k = 0 \/ k \in 1..n
        OBVIOUS
      <4> HIDE DEF f
      <4> QED BY <1>1, <1>2, <4>1
    <3> QED BY <3>1
  <2>2. f = [k \in 0..n |-> f[k]]
    OBVIOUS
  <2> HIDE DEF f
  <2> QED BY <2>1, <2>2
<1>4. \A k \in 0..n : f[k] \subseteq G
  OBVIOUS
<1> HIDE DEF f
<1>5. Solves(f, g, C, n, G)
  BY <1>3, <1>4 DEF Solves
<1> QED BY <1>5

----------------------------------------------------------------------------
(* The hall: what each operator does to a hall                              *)

(* Seats, spots on the couch and no place are told apart.                   *)
LEMMA SpotFacts ==
  /\ \A i \in Seats : Seat(i) \in Spots /\ Seat(i) # Nowhere /\ Seat(i) # Nobody
  /\ \A i : Seat(i)[1] = "seat" /\ Seat(i)[2] = i
  /\ \A i, j : Seat(i) = Seat(j) => i = j
  /\ Nowhere \in Spots /\ Nowhere[1] # "seat" /\ Nowhere # Nobody
  /\ \A s \in Spots : /\ s # Nobody
                      /\ s[1] = "seat" => s[2] \in Seats /\ s = Seat(s[2])
                      /\ s[1] # "seat" => \A i : s # Seat(i)
  /\ \A i \in Couch : <<"couch", i>> \in Spots /\ <<"couch", i>> # Nowhere
BY CinemaAssumption DEF Seat, Spots, Nowhere

(* What the parts of a hall range over.                                     *)
LEMMA HallFacts ==
  ASSUME NEW h \in Hall
  PROVE  /\ h.joined \in SUBSET Viewers /\ h.client \in [Viewers -> {"cinema", "old", Nobody}]
         /\ h.since \in SUBSET Viewers
         /\ h.place \in [Viewers -> Spots \cup {Nobody}]
         /\ h.row \in [Viewers -> Spots \cup {Nobody}]
         /\ h.kept \in SUBSET Viewers /\ h.keptRow \in SUBSET Viewers
         /\ h.queue \in [Viewers -> Nat]
         /\ h.offers \in [Seats -> Viewers \cup {Nobody}]
         /\ h.tried \in [Seats -> SUBSET Viewers]
         /\ h.swaps \in SUBSET [from : Viewers, to : Viewers, idx : Seats]
BY DEF Hall

(* A row and its copy in memory change together, and nothing else does.     *)
LEMMA SettleFacts ==
  ASSUME NEW h \in Hall, NEW u \in Viewers, NEW spot \in Spots \cup {Nobody},
         NEW x, x = Settle(h, u, spot)
  PROVE  /\ x \in Hall
         /\ x.place = [h.place EXCEPT ![u] = spot] /\ x.row = [h.row EXCEPT ![u] = spot]
         /\ x.joined = h.joined /\ x.client = h.client /\ x.since = h.since
         /\ x.kept = h.kept /\ x.keptRow = h.keptRow /\ x.queue = h.queue
         /\ x.offers = h.offers /\ x.tried = h.tried /\ x.swaps = h.swaps
BY DEF Hall, Settle

(* A kept place becomes one's own, in memory and in the row.                *)
LEMMA OwnFacts ==
  ASSUME NEW h \in Hall, NEW u, NEW x, x = Own(h, u)
  PROVE  /\ x \in Hall
         /\ x.kept = h.kept \ {u} /\ x.keptRow = h.keptRow \ {u}
         /\ x.joined = h.joined /\ x.client = h.client /\ x.since = h.since
         /\ x.place = h.place /\ x.row = h.row /\ x.queue = h.queue
         /\ x.offers = h.offers /\ x.tried = h.tried /\ x.swaps = h.swaps
BY DEF Hall, Own

(* Requests to swap with u go.                                              *)
LEMMA DropFacts ==
  ASSUME NEW h \in Hall, NEW u, NEW x, x = DropSwaps(h, u)
  PROVE  /\ x \in Hall
         /\ x.swaps = {s \in h.swaps : s.from # u /\ s.to # u}
         /\ x.joined = h.joined /\ x.client = h.client /\ x.since = h.since
         /\ x.place = h.place /\ x.row = h.row /\ x.queue = h.queue
         /\ x.kept = h.kept /\ x.keptRow = h.keptRow
         /\ x.offers = h.offers /\ x.tried = h.tried
BY DEF Hall, DropSwaps

(* Whoever leaves the queue leaves the rest of the hall alone.              *)
LEMMA UnqueueRest ==
  ASSUME NEW h \in Hall, NEW u, NEW x, x = Unqueue(h, u)
  PROVE  /\ x \in Hall
         /\ x.joined = h.joined /\ x.client = h.client /\ x.since = h.since
         /\ x.place = h.place /\ x.row = h.row
         /\ x.kept = h.kept /\ x.keptRow = h.keptRow /\ x.swaps = h.swaps
         /\ x.offers = h.offers /\ x.tried = h.tried
<1>1. PICK q : q = [v \in Viewers |->
                     IF v = u THEN 0
                     ELSE IF h.queue[u] \in 1..h.queue[v] THEN h.queue[v] - 1 ELSE h.queue[v]]
  OBVIOUS
<1>2. q \in [Viewers -> Nat]
  <2>1. ASSUME NEW v \in Viewers PROVE q[v] \in Nat
    <3>1. h.queue[v] \in Nat
      BY HallFacts
    <3>2. h.queue[u] \in 1..h.queue[v] => h.queue[v] - 1 \in Nat
      BY <3>1
    <3> QED BY <1>1, <3>1, <3>2
  <2> QED BY <1>1, <2>1
<1>3. x = [h EXCEPT !.queue = q]
  BY <1>1 DEF Unqueue
<1>4. /\ x \in Hall
      /\ x.joined = h.joined /\ x.client = h.client /\ x.since = h.since
      /\ x.place = h.place /\ x.row = h.row
      /\ x.kept = h.kept /\ x.keptRow = h.keptRow /\ x.swaps = h.swaps
      /\ x.offers = h.offers /\ x.tried = h.tried
  BY <1>2, <1>3 DEF Hall
<1> QED BY <1>4

(* Who was behind moves up.                                                 *)
LEMMA UnqueueFacts ==
  ASSUME NEW h \in Hall, NEW u, NEW x, x = Unqueue(h, u)
  PROVE  x.queue = [v \in Viewers |->
                     IF v = u THEN 0
                     ELSE IF h.queue[u] \in 1..h.queue[v] THEN h.queue[v] - 1 ELSE h.queue[v]]
<1>1. PICK q : q = [v \in Viewers |->
                     IF v = u THEN 0
                     ELSE IF h.queue[u] \in 1..h.queue[v] THEN h.queue[v] - 1 ELSE h.queue[v]]
  OBVIOUS
<1>2. x = [h EXCEPT !.queue = q]
  BY <1>1 DEF Unqueue
<1>3. x.queue = q
  BY <1>2 DEF Hall
<1> QED BY <1>1, <1>3

(* No two have the same turn, and none is behind the last of those who ask.  *)
QueueOK(h) ==
  /\ \A u, v \in Asking(h) : h.queue[u] = h.queue[v] => u = v
  /\ \A u \in Viewers : h.queue[u] <= Cardinality(Asking(h))

(* Those in the queue are finitely many.                                    *)
LEMMA AskingIsFinite ==
  ASSUME NEW h
  PROVE  IsFiniteSet(Asking(h)) /\ Cardinality(Asking(h)) \in Nat
<1>1. Asking(h) \subseteq Viewers
  BY DEF Asking
<1> QED BY <1>1, CinemaAssumption, FS_Subset, FS_CardinalityType

(* The queue is all that its order depends on.                              *)
LEMMA QueueSame ==
  ASSUME NEW h, NEW x, x.queue = h.queue
  PROVE  Asking(x) = Asking(h) /\ (QueueOK(h) => QueueOK(x))
BY DEF Asking, Asks, QueueOK

(* Turns stay distinct and without gaps when somebody leaves the queue.     *)
LEMMA UnqueueKeeps ==
  ASSUME NEW h \in Hall, QueueOK(h), NEW u \in Viewers, NEW x, x = Unqueue(h, u)
  PROVE  QueueOK(x) /\ Asking(x) = Asking(h) \ {u}
<1>1. x.queue = [v \in Viewers |->
                  IF v = u THEN 0
                  ELSE IF h.queue[u] \in 1..h.queue[v] THEN h.queue[v] - 1 ELSE h.queue[v]]
  BY UnqueueFacts
<1>2. \A v \in Viewers : h.queue[v] \in Nat
  BY HallFacts
<1>3. \A v \in Viewers : v \in Asking(h) <=> h.queue[v] > 0
  BY DEF Asking, Asks
<1>4. \A v \in Viewers : v \in Asking(x) <=> x.queue[v] > 0
  BY DEF Asking, Asks
<1>5. \A v \in Viewers \ {u} : h.queue[u] > 0 /\ h.queue[v] > 0 => h.queue[u] # h.queue[v]
  BY <1>3 DEF QueueOK
<1>6. ASSUME NEW v \in Viewers \ {u}
      PROVE  x.queue[v] = IF h.queue[u] > 0 /\ h.queue[u] < h.queue[v] THEN h.queue[v] - 1
                          ELSE h.queue[v]
  <2>1. x.queue[v] = IF h.queue[u] \in 1..h.queue[v] THEN h.queue[v] - 1 ELSE h.queue[v]
    BY <1>1
  <2>2. h.queue[u] \in 1..h.queue[v] <=> h.queue[u] > 0 /\ h.queue[u] < h.queue[v]
    BY <1>2, <1>5
  <2> QED BY <2>1, <2>2
<1>7. x.queue[u] = 0
  BY <1>1
<1>8. ASSUME NEW v \in Viewers PROVE v \in Asking(x) <=> v \in Asking(h) \ {u}
  <2>1. CASE v = u
    BY <1>4, <1>7, <2>1
  <2>2. CASE v # u
    BY <1>2, <1>3, <1>4, <1>6, <2>2
  <2> QED BY <2>1, <2>2
<1>9. Asking(x) = Asking(h) \ {u}
  <2>1. Asking(x) \subseteq Viewers /\ Asking(h) \subseteq Viewers
    BY DEF Asking
  <2> QED BY <1>8, <2>1
<1>10. ASSUME NEW v \in Asking(x), NEW w \in Asking(x), x.queue[v] = x.queue[w] PROVE v = w
  <2>1. v \in Asking(h) /\ w \in Asking(h) /\ v # u /\ w # u /\ v \in Viewers /\ w \in Viewers
    BY <1>9 DEF Asking
  <2>2. h.queue[v] > 0 /\ h.queue[w] > 0
    BY <1>3, <2>1
  <2>3. h.queue[v] = h.queue[w]
    <3>1. h.queue[u] > 0 => h.queue[u] # h.queue[v] /\ h.queue[u] # h.queue[w]
      BY <1>5, <2>1, <2>2
    <3> QED BY <1>2, <1>6, <1>10, <2>1, <2>2, <3>1
  <2> QED BY <2>1, <2>3 DEF QueueOK
<1>11. ASSUME NEW v \in Viewers PROVE x.queue[v] <= Cardinality(Asking(x))
  <2>1. h.queue[v] <= Cardinality(Asking(h)) /\ h.queue[u] <= Cardinality(Asking(h))
    BY DEF QueueOK
  <2>2. IsFiniteSet(Asking(h)) /\ Cardinality(Asking(h)) \in Nat /\ Cardinality(Asking(x)) \in Nat
    BY AskingIsFinite
  <2>3. CASE u \in Asking(h)
    <3>1. Cardinality(Asking(x)) = Cardinality(Asking(h)) - 1
      BY <1>9, <2>2, <2>3, FS_RemoveElement
    <3>2. CASE v = u
      BY <1>7, <2>2, <3>2
    <3>3. CASE v # u
      <4>1. h.queue[u] > 0 /\ (h.queue[v] > 0 => h.queue[u] # h.queue[v])
        BY <1>3, <1>5, <2>3, <3>3
      <4> QED BY <1>2, <1>6, <2>1, <2>2, <3>1, <3>3, <4>1
    <3> QED BY <3>2, <3>3
  <2>4. CASE u \notin Asking(h)
    <3>1. Asking(x) = Asking(h) /\ ~(h.queue[u] > 0)
      BY <1>3, <1>9, <2>4
    <3>2. CASE v = u
      BY <1>7, <2>2, <3>2
    <3>3. CASE v # u
      BY <1>2, <1>6, <2>1, <3>1, <3>3
    <3> QED BY <3>2, <3>3
  <2> QED BY <2>3, <2>4
<1> QED BY <1>9, <1>10, <1>11 DEF QueueOK

(* The new one is behind all others.                                        *)
LEMMA EnqueueKeeps ==
  ASSUME NEW h \in Hall, QueueOK(h), NEW u \in Viewers, ~Asks(h, u), NEW x, x = Enqueue(h, u)
  PROVE  /\ x \in Hall /\ QueueOK(x) /\ Asking(x) = Asking(h) \cup {u}
         /\ x.joined = h.joined /\ x.client = h.client /\ x.since = h.since
         /\ x.place = h.place /\ x.row = h.row
         /\ x.kept = h.kept /\ x.keptRow = h.keptRow /\ x.swaps = h.swaps
         /\ x.offers = h.offers /\ x.tried = h.tried
<1>1. PICK n : n = Cardinality(Asking(h)) + 1
  OBVIOUS
<1>2. n \in Nat /\ n > 0 /\ IsFiniteSet(Asking(h))
  BY <1>1, AskingIsFinite
<1>3. x = [h EXCEPT !.queue[u] = n]
  BY <1>1 DEF Enqueue
<1>4. /\ x \in Hall /\ x.queue = [h.queue EXCEPT ![u] = n]
      /\ x.joined = h.joined /\ x.client = h.client /\ x.since = h.since
      /\ x.place = h.place /\ x.row = h.row
      /\ x.kept = h.kept /\ x.keptRow = h.keptRow /\ x.swaps = h.swaps
      /\ x.offers = h.offers /\ x.tried = h.tried
  <2>1. PICK q : q = [h.queue EXCEPT ![u] = n]
    OBVIOUS
  <2>2. q \in [Viewers -> Nat]
    BY <1>2, <2>1, HallFacts
  <2>3. x = [h EXCEPT !.queue = q]
    BY <1>3, <2>1
  <2> QED BY <2>1, <2>2, <2>3 DEF Hall
<1>5. \A v \in Viewers : h.queue[v] \in Nat /\ x.queue[v] = IF v = u THEN n ELSE h.queue[v]
  BY <1>4, HallFacts
<1>6. Asking(x) = Asking(h) \cup {u}
  BY <1>2, <1>5 DEF Asking, Asks
<1>7. Cardinality(Asking(x)) = n
  <2>1. u \notin Asking(h)
    BY DEF Asking
  <2> QED BY <1>1, <1>2, <1>6, <2>1, FS_AddElement
<1>8. \A v \in Viewers : h.queue[v] < n
  <2>1. \A v \in Viewers : h.queue[v] <= Cardinality(Asking(h))
    BY DEF QueueOK
  <2>2. Cardinality(Asking(h)) \in Nat
    BY AskingIsFinite
  <2> QED BY <1>1, <1>5, <2>1, <2>2
<1>9. \A v, w \in Asking(x) : x.queue[v] = x.queue[w] => v = w
  <2>1. ASSUME NEW v \in Asking(x), NEW w \in Asking(x), x.queue[v] = x.queue[w] PROVE v = w
    <3>1. v \in Viewers /\ w \in Viewers
      BY DEF Asking
    <3>2. CASE v = u \/ w = u
      BY <1>2, <1>5, <1>8, <2>1, <3>1, <3>2
    <3>3. CASE v # u /\ w # u
      BY <1>5, <1>6, <2>1, <3>1, <3>3 DEF QueueOK
    <3> QED BY <3>2, <3>3
  <2> QED BY <2>1
<1>10. \A v \in Viewers : x.queue[v] <= Cardinality(Asking(x))
  BY <1>2, <1>5, <1>7, <1>8
<1> QED BY <1>4, <1>6, <1>9, <1>10 DEF QueueOK

----------------------------------------------------------------------------
(* The hall: a chain of calls, round by round                               *)

(* n rounds of what Ends does.                                               *)
Chain(C, F, n) == LET Round(c) == Goes(c, F) IN Rounds(Round, C, n)

Unfolds(a, C, F, n, G) ==
  /\ a[0] = C /\ a[n] = Chain(C, F, n)
  /\ \A k \in 1..n : a[k] = UNION {Goes(c, F) : c \in a[k - 1]}
  /\ \A k \in 0..n : a[k] \subseteq G

(* Chains that stay within a set are a function of the round.                *)
LEMMA ChainOf ==
  ASSUME NEW F, NEW G, NEW C \in SUBSET G, \A c \in G : Goes(c, F) \subseteq G, NEW n \in Nat
  PROVE  \E a : Unfolds(a, C, F, n, G)
<1> DEFINE g == [c \in G |-> Goes(c, F)]
           a[k \in 0..n] == IF k = 0 THEN C ELSE UNION {Goes(c, F) : c \in a[k - 1]}
<1>3. g \in [G -> SUBSET G] /\ \A c \in G : g[c] = Goes(c, F)
  OBVIOUS
<1>4. PICK f : Solves(f, g, C, n, G)
  <2> HIDE DEF g
  <2> QED BY <1>3, RoundsExist
<1>5. f = [k \in 0..n |-> IF k = 0 THEN C ELSE UNION {Goes(c, F) : c \in f[k - 1]}]
  <2> HIDE DEF g
  <2>1. \A k \in 0..n : f[k] = IF k = 0 THEN C ELSE UNION {Goes(c, F) : c \in f[k - 1]}
    <3>1. ASSUME NEW k \in 0..n
          PROVE f[k] = IF k = 0 THEN C ELSE UNION {Goes(c, F) : c \in f[k - 1]}
      <4>1. f[k] = IF k = 0 THEN C ELSE UNION {g[c] : c \in f[k - 1]}
        BY <1>4 DEF Solves
      <4>2. CASE k = 0
        BY <4>1, <4>2
      <4>3. CASE k # 0
        <5>1. f[k - 1] \subseteq G
          <6>1. k - 1 \in 0..n
            BY <4>3
          <6>2. \A j \in 0..n : f[j] \subseteq G
            BY <1>4 DEF Solves
          <6> QED BY <6>1, <6>2
        <5>2. {g[c] : c \in f[k - 1]} = {Goes(c, F) : c \in f[k - 1]}
          BY <1>3, <5>1
        <5> QED BY <4>1, <4>3, <5>2
      <4> QED BY <4>2, <4>3
    <3> QED BY <3>1
  <2>2. f = [k \in 0..n |-> f[k]]
    BY <1>4 DEF Solves
  <2> QED BY <2>1, <2>2
<1>6. a = [k \in 0..n |-> IF k = 0 THEN C ELSE UNION {Goes(c, F) : c \in a[k - 1]}]
  <2> HIDE DEF g
  <2> QED BY <1>5
<1>7. a[n] = Chain(C, F, n)
  BY DEF Chain, Rounds
<1>8. a[0] = C /\ \A k \in 1..n : a[k] = UNION {Goes(c, F) : c \in a[k - 1]}
  <2>1. 0 \in 0..n /\ \A k \in 1..n : k \in 0..n /\ k # 0
    OBVIOUS
  <2> HIDE DEF a
  <2> QED BY <1>6, <2>1
<1>9. \A k \in 0..n : a[k] \subseteq G
  <2> HIDE DEF a, g
  <2>1. ASSUME NEW k \in 0..n PROVE a[k] \subseteq G
    <3>1. k \in Nat /\ a[0] \subseteq G
      BY <1>8
    <3>2. ASSUME NEW j \in 1..k, a[j - 1] \subseteq G PROVE a[j] \subseteq G
      <4>1. j \in 1..n
        OBVIOUS
      <4>2. a[j] = UNION {Goes(c, F) : c \in a[j - 1]}
        BY <1>8, <4>1
      <4> QED BY <3>2, <4>2
    <3> QED BY <3>1, <3>2, PassedOn
  <2> QED BY <2>1
<1> HIDE DEF a, g
<1>10. Unfolds(a, C, F, n, G)
  BY <1>7, <1>8, <1>9 DEF Unfolds
<1> QED BY <1>10

(* The halls of those that have nothing left to offer.                       *)
Ended(G) == {c.hall : c \in {d \in G : d.seat = {}}}

(* What no round leaves holds of every hall a chain ends in.                 *)
LEMMA EndsKeep ==
  ASSUME NEW F, NEW G, NEW C \in SUBSET G, \A c \in G : Goes(c, F) \subseteq G
  PROVE  Ends(C, F) \subseteq Ended(G)
<1>1. PICK n : n = Cardinality(Viewers) + 1
  OBVIOUS
<1>2. n \in Nat
  BY <1>1, CinemaAssumption, FS_CardinalityType
<1>3. PICK a : Unfolds(a, C, F, n, G)
  BY <1>2, ChainOf
<1>4. a[n] \subseteq G
  <2>1. n \in 0..n
    BY <1>2
  <2> QED BY <1>3, <2>1 DEF Unfolds
<1>5. Ends(C, F) = {c.hall : c \in {d \in a[n] : d.seat = {}}}
  <2>1. a[n] = Chain(C, F, n)
    BY <1>3 DEF Unfolds
  <2> QED BY <1>1, <2>1 DEF Ends, Chain
<1> QED BY <1>4, <1>5 DEF Ended

----------------------------------------------------------------------------
(* The hall: what is true of a hall between two calls                       *)

(* The places, the rows, the queue and the requests to swap, whoever holds   *)
(* which offer.                                                             *)
Base(h) ==
  /\ h \in Hall
  /\ QueueOK(h)
  /\ h.kept = h.keptRow
  /\ \A u \in h.kept : HasPlace(h, u)
  /\ SeatsAreOwn(h)
  /\ \A u \in Viewers : OnSeat(h, u) => ~Asks(h, u)
  /\ \A u \in Viewers : Asks(h, u) => HasPlace(h, u)
  /\ \A u \in Viewers : h.client[u] # Nobody => u \in h.joined
  /\ SwapsStand(h)
  /\ \A t \in h.swaps : t.from # t.to

KeptAway(h) == h.kept \cap h.joined = {}

(* Every offer stands, but that u may not wait for one any more.             *)
StandBut(h, u) ==
  /\ \A i \in Seats : h.offers[i] # Nobody => ~Taken(h, Seat(i))
  /\ \A i, j \in Seats : h.offers[i] # Nobody /\ h.offers[i] = h.offers[j] => i = j
  /\ \A i \in Seats : h.offers[i] # Nobody /\ h.offers[i] # u => h.offers[i] \in Waiting(h)

Sound(h) == Base(h) /\ KeptAway(h) /\ StandBut(h, Nobody)

(* Without exceptions, StandBut says what OffersStand says.                 *)
LEMMA StandsFor ==
  ASSUME NEW h \in Hall
  PROVE  OffersStand(h) <=> StandBut(h, Nobody)
<1>1. ASSUME OffersStand(h) PROVE StandBut(h, Nobody)
  <2>1. ASSUME NEW i \in Seats, NEW j \in Seats, h.offers[i] # Nobody, h.offers[i] = h.offers[j]
        PROVE  i = j
    <3>1. j \in OfferOf(h, h.offers[i])
      BY <2>1 DEF OfferOf
    <3>2. OfferOf(h, h.offers[i]) = {i}
      BY <1>1, <2>1 DEF OffersStand
    <3> QED BY <3>1, <3>2
  <2> QED BY <1>1, <2>1 DEF OffersStand, StandBut
<1>2. ASSUME StandBut(h, Nobody) PROVE OffersStand(h)
  <2>1. ASSUME NEW i \in Seats, h.offers[i] # Nobody PROVE OfferOf(h, h.offers[i]) = {i}
    BY <1>2, <2>1 DEF StandBut, OfferOf
  <2> QED BY <1>2, <2>1 DEF OffersStand, StandBut
<1> QED BY <1>1, <1>2

(* What an offer, a seat and a queue are, at a sound hall.                   *)
LEMMA SoundFacts ==
  ASSUME NEW h, Sound(h)
  PROVE  /\ h \in Hall
         /\ \A u \in Viewers : OnSeat(h, u) => OfferOf(h, u) = {}
         /\ \A u \in Viewers : ~HasPlace(h, u) => OfferOf(h, u) = {} /\ ~Asks(h, u) /\ u \notin h.kept
         /\ \A u \in Viewers \ h.joined : OfferOf(h, u) = {}
         /\ \A i \in Seats : Taken(h, Seat(i)) => h.offers[i] = Nobody
<1>1. h \in Hall
  BY DEF Sound, Base
<1>2. \A u \in Viewers, i \in Seats : h.offers[i] = u => h.offers[i] # Nobody /\ u \in Waiting(h)
  BY CinemaAssumption DEF Sound, StandBut
<1>3. \A u \in Viewers : u \notin Waiting(h) => OfferOf(h, u) = {}
  BY <1>2 DEF OfferOf
<1>4. \A u \in Viewers : u \in Waiting(h) => HasPlace(h, u) /\ ~OnSeat(h, u) /\ u \in h.joined
  BY DEF Waiting
<1>5. \A i \in Seats : Taken(h, Seat(i)) => h.offers[i] = Nobody
  BY DEF Sound, StandBut
<1>6. \A u \in Viewers : ~HasPlace(h, u) => ~Asks(h, u) /\ u \notin h.kept
  BY DEF Sound, Base
<1> QED BY <1>1, <1>3, <1>4, <1>5, <1>6

(* What is read of a hall depends on the parts it reads.                     *)
LEMMA SamePlaces ==
  ASSUME NEW h, NEW x, x.place = h.place
  PROVE  /\ \A u : (HasPlace(x, u) <=> HasPlace(h, u)) /\ (OnSeat(x, u) <=> OnSeat(h, u))
         /\ \A s : Taken(x, s) <=> Taken(h, s)
BY DEF HasPlace, OnSeat, Taken

(* Base is about places, rows, kept seats, the queue and the swaps.         *)
LEMMA SameBase ==
  ASSUME NEW h, NEW x \in Hall, Base(h), x.place = h.place, x.row = h.row, x.kept = h.kept,
         x.keptRow = h.keptRow, x.queue = h.queue, x.client = h.client, x.joined = h.joined,
         x.swaps \subseteq h.swaps
  PROVE  Base(x)
<1>1. \A u : (HasPlace(x, u) <=> HasPlace(h, u)) /\ (OnSeat(x, u) <=> OnSeat(h, u))
  BY SamePlaces
<1>2. \A u : Asks(x, u) <=> Asks(h, u)
  BY DEF Asks
<1>3. QueueOK(x)
  BY QueueSame DEF Base
<1>4. SeatsAreOwn(x)
  BY DEF Base, SeatsAreOwn
<1>5. SwapsStand(x)
  BY DEF Base, SwapsStand
<1> QED BY <1>1, <1>2, <1>3, <1>4, <1>5 DEF Base

(* Sitting down on a free spot: the spot is one's own, the place one had is  *)
(* free, and whoever sits no longer waits.                                   *)
LEMMA SitsKeeps ==
  ASSUME NEW h, Sound(h), NEW u \in Viewers, NEW spot \in Spots, spot # Nowhere,
         ~Taken(h, spot), spot[1] = "seat" => h.offers[spot[2]] = Nobody,
         NEW x, x = Sits(h, u, spot)
  PROVE  /\ Base(x) /\ KeptAway(x) /\ StandBut(x, u)
         /\ spot[1] # "seat" => Sound(x)
         /\ x.joined = h.joined /\ x.client = h.client /\ x.since = h.since
         /\ x.place = [h.place EXCEPT ![u] = spot]
         /\ x.offers = h.offers /\ x.tried = h.tried
         /\ x.swaps \subseteq h.swaps
         /\ \A v \in Viewers : Asks(x, v) => Asks(h, v)
<1>0. h \in Hall /\ QueueOK(h)
  BY DEF Sound, Base
<1>1. h.place[u] # spot
  BY DEF Taken
<1>2. PICK s : s = Settle(h, u, spot)
  OBVIOUS
<1>3. PICK put : put = Own(s, u)
  OBVIOUS
<1>4. PICK off : off = IF spot[1] = "seat" THEN Unqueue(put, u) ELSE put
  OBVIOUS
<1>5. x = DropSwaps(off, u)
  BY <1>1, <1>2, <1>3, <1>4 DEF Sits
<1>6. /\ s \in Hall
      /\ s.place = [h.place EXCEPT ![u] = spot] /\ s.row = [h.row EXCEPT ![u] = spot]
      /\ s.joined = h.joined /\ s.client = h.client /\ s.since = h.since
      /\ s.kept = h.kept /\ s.keptRow = h.keptRow /\ s.queue = h.queue
      /\ s.offers = h.offers /\ s.tried = h.tried /\ s.swaps = h.swaps
  BY <1>0, <1>2, SettleFacts
<1>7. /\ put \in Hall
      /\ put.kept = s.kept \ {u} /\ put.keptRow = s.keptRow \ {u}
      /\ put.joined = s.joined /\ put.client = s.client /\ put.since = s.since
      /\ put.place = s.place /\ put.row = s.row /\ put.queue = s.queue
      /\ put.offers = s.offers /\ put.tried = s.tried /\ put.swaps = s.swaps
  BY <1>3, <1>6, OwnFacts
<1>8. QueueOK(put) /\ Asking(put) = Asking(h)
  BY <1>0, <1>6, <1>7, QueueSame
<1>9. /\ off \in Hall
      /\ off.joined = put.joined /\ off.client = put.client /\ off.since = put.since
      /\ off.place = put.place /\ off.row = put.row
      /\ off.kept = put.kept /\ off.keptRow = put.keptRow /\ off.swaps = put.swaps
      /\ off.offers = put.offers /\ off.tried = put.tried
      /\ spot[1] # "seat" => off.queue = put.queue
  <2>1. CASE spot[1] = "seat"
    <3>1. off = Unqueue(put, u)
      BY <1>4, <2>1
    <3>2. put \in Hall
      BY <1>7
    <3>3. /\ off \in Hall
          /\ off.joined = put.joined /\ off.client = put.client /\ off.since = put.since
          /\ off.place = put.place /\ off.row = put.row
          /\ off.kept = put.kept /\ off.keptRow = put.keptRow /\ off.swaps = put.swaps
          /\ off.offers = put.offers /\ off.tried = put.tried
      BY <3>1, <3>2, UnqueueRest
    <3> QED BY <2>1, <3>3
  <2>2. CASE spot[1] # "seat"
    BY <1>4, <1>7, <2>2
  <2> QED BY <2>1, <2>2
<1>10. /\ QueueOK(off)
       /\ Asking(off) = IF spot[1] = "seat" THEN Asking(h) \ {u} ELSE Asking(h)
  BY <1>4, <1>7, <1>8, UnqueueKeeps
<1>11. /\ x \in Hall
       /\ x.swaps = {t \in off.swaps : t.from # u /\ t.to # u}
       /\ x.joined = off.joined /\ x.client = off.client /\ x.since = off.since
       /\ x.place = off.place /\ x.row = off.row /\ x.queue = off.queue
       /\ x.kept = off.kept /\ x.keptRow = off.keptRow
       /\ x.offers = off.offers /\ x.tried = off.tried
  BY <1>5, <1>9, DropFacts
<1>12. /\ x.joined = h.joined /\ x.client = h.client /\ x.since = h.since
       /\ x.place = [h.place EXCEPT ![u] = spot] /\ x.row = [h.row EXCEPT ![u] = spot]
       /\ x.kept = h.kept \ {u} /\ x.keptRow = h.keptRow \ {u}
       /\ x.offers = h.offers /\ x.tried = h.tried
       /\ x.swaps = {t \in h.swaps : t.from # u /\ t.to # u}
  BY <1>6, <1>7, <1>9, <1>11
<1>13. QueueOK(x) /\ Asking(x) = IF spot[1] = "seat" THEN Asking(h) \ {u} ELSE Asking(h)
  BY <1>10, <1>11, QueueSame
<1>14. \A v \in Viewers : Asks(x, v) <=> Asks(h, v) /\ ~(spot[1] = "seat" /\ v = u)
  BY <1>13 DEF Asking
<1>15. \A v \in Viewers : x.place[v] = IF v = u THEN spot ELSE h.place[v]
  BY <1>0, <1>12, HallFacts
<1>16. spot # Nobody /\ spot # Nowhere
  BY SpotFacts
<1>17. SeatsAreOwn(x)
  <2>1. x.place = x.row
    BY <1>12 DEF Sound, Base, SeatsAreOwn
  <2>2. \A v \in Viewers : h.place[v] # spot
    BY DEF Taken
  <2>3. \A v, w \in Viewers : v # w /\ h.place[v] = h.place[w] => h.place[v] \in {Nowhere, Nobody}
    BY DEF Sound, Base, SeatsAreOwn
  <2>4. \A v, w \in Viewers : v # w /\ x.place[v] = x.place[w] => x.place[v] \in {Nowhere, Nobody}
    BY <1>15, <2>2, <2>3
  <2> QED BY <2>1, <2>4 DEF SeatsAreOwn
<1>18. SwapsStand(x)
  <2>1. SwapsStand(h) /\ h.swaps \subseteq [from : Viewers, to : Viewers, idx : Seats]
    BY <1>0, HallFacts DEF Sound, Base
  <2>2. \A t \in x.swaps : t \in h.swaps /\ t.to # u /\ t.to \in Viewers
    BY <1>12, <2>1
  <2>3. \A t \in x.swaps : x.place[t.to] = h.place[t.to]
    BY <1>15, <2>2
  <2> QED BY <1>12, <2>1, <2>2, <2>3 DEF SwapsStand
<1>19. Base(x)
  <2>1. x.kept = x.keptRow
    BY <1>12 DEF Sound, Base
  <2>2. \A v \in x.kept : HasPlace(x, v)
    <3>1. \A v \in x.kept : v \in h.kept /\ v # u /\ v \in Viewers
      BY <1>0, <1>12, HallFacts
    <3>2. \A v \in h.kept : HasPlace(h, v)
      BY DEF Sound, Base
    <3> QED BY <1>15, <3>1, <3>2 DEF HasPlace
  <2>3. \A v \in Viewers : OnSeat(x, v) => ~Asks(x, v)
    <3>1. \A v \in Viewers : OnSeat(h, v) => ~Asks(h, v)
      BY DEF Sound, Base
    <3>2. \A v \in Viewers : v # u => (OnSeat(x, v) <=> OnSeat(h, v))
      BY <1>15 DEF OnSeat, HasPlace
    <3>3. OnSeat(x, u) => spot[1] = "seat"
      BY <1>15 DEF OnSeat, HasPlace
    <3> QED BY <1>14, <3>1, <3>2, <3>3
  <2>4. \A v \in Viewers : Asks(x, v) => HasPlace(x, v)
    <3>1. \A v \in Viewers : Asks(h, v) => HasPlace(h, v)
      BY DEF Sound, Base
    <3> QED BY <1>14, <1>15, <1>16, <3>1 DEF HasPlace
  <2>5. \A v \in Viewers : x.client[v] # Nobody => v \in x.joined
    BY <1>12 DEF Sound, Base
  <2>6. \A t \in x.swaps : t.from # t.to
    BY <1>12 DEF Sound, Base
  <2> QED BY <1>11, <1>13, <1>17, <1>18, <2>1, <2>2, <2>3, <2>4, <2>5, <2>6 DEF Base
<1>20. KeptAway(x)
  BY <1>12 DEF Sound, KeptAway
<1>21. /\ \A i \in Seats : x.offers[i] # Nobody => ~Taken(x, Seat(i))
       /\ \A i, j \in Seats : x.offers[i] # Nobody /\ x.offers[i] = x.offers[j] => i = j
  <2>1. ASSUME NEW i \in Seats, x.offers[i] # Nobody PROVE ~Taken(x, Seat(i))
    <3>1. ~Taken(h, Seat(i))
      BY <1>12, <2>1 DEF Sound, StandBut
    <3>2. spot # Seat(i)
      BY <1>12, <2>1, SpotFacts
    <3> QED BY <1>15, <3>1, <3>2 DEF Taken
  <2>2. \A i, j \in Seats : x.offers[i] # Nobody /\ x.offers[i] = x.offers[j] => i = j
    BY <1>12 DEF Sound, StandBut
  <2> QED BY <2>1, <2>2
<1>22. ASSUME NEW i \in Seats, x.offers[i] # Nobody
       PROVE  /\ x.offers[i] # u => x.offers[i] \in Waiting(x)
              /\ spot[1] # "seat" => x.offers[i] \in Waiting(x)
  <2>1. h.offers[i] \in Waiting(h) /\ x.offers[i] = h.offers[i]
    BY <1>12, <1>22 DEF Sound, StandBut
  <2>2. PICK v : v = h.offers[i]
    OBVIOUS
  <2>3. v \in h.joined /\ v \in Viewers /\ Asks(h, v) /\ HasPlace(h, v) /\ ~OnSeat(h, v)
    BY <1>0, <2>1, <2>2, HallFacts DEF Waiting
  <2>4. CASE v # u
    <3>1. Asks(x, v) /\ HasPlace(x, v) /\ ~OnSeat(x, v)
      BY <1>14, <1>15, <2>3, <2>4 DEF HasPlace, OnSeat
    <3> QED BY <1>12, <2>1, <2>2, <2>3, <3>1 DEF Waiting
  <2>5. CASE v = u
    <3>1. spot[1] # "seat" => Asks(x, v) /\ HasPlace(x, v) /\ ~OnSeat(x, v)
      BY <1>14, <1>15, <1>16, <2>3, <2>5 DEF HasPlace, OnSeat
    <3> QED BY <1>12, <2>1, <2>2, <2>3, <2>5, <3>1 DEF Waiting
  <2> QED BY <2>4, <2>5
<1>23. StandBut(x, u)
  BY <1>21, <1>22 DEF StandBut
<1>24. spot[1] # "seat" => StandBut(x, Nobody)
  BY <1>21, <1>22 DEF StandBut
<1> QED BY <1>12, <1>14, <1>19, <1>20, <1>23, <1>24 DEF Sound

----------------------------------------------------------------------------
(* The hall: a seat is offered, an offer is given back                      *)

(* What is left of a chain of calls is a sound hall, and at most one seat    *)
(* that is still to be offered.                                             *)
Configs == [hall : Hall, seat : SUBSET Seats, tried : SUBSET Viewers]
Config(c) ==
  /\ c \in Configs
  /\ Sound(c.hall)
  /\ c.seat = {} \/ \E j \in Seats : c.seat = {j} /\ c.hall.offers[j] = Nobody

(* In a chain of calls people only get seats, and requests to swap only go.  *)
Grows(h, x) ==
  /\ x.joined = h.joined /\ x.client = h.client /\ x.since = h.since
  /\ x.swaps \subseteq h.swaps
  /\ \A v \in Viewers : x.place[v] = h.place[v] \/ (h.place[v] = Nowhere /\ OnSeat(x, v))

(* The seat is taken, or held for somebody who can answer, or nobody can be  *)
(* asked.                                                                   *)
Settled(h, i) ==
  \/ Taken(h, Seat(i))
  \/ h.offers[i] # Nobody /\ Answers(h, h.offers[i])
  \/ Candidates(h, {}) = {}

Later(h, x) ==
  /\ Grows(h, x)
  /\ \A i \in Seats : Settled(h, i) => Settled(x, i)
  /\ \A i \in Seats : x.offers[i] \in {h.offers[i], Nobody} \/ Answers(h, x.offers[i])

(* One call after the other: people still only get seats.                   *)
LEMMA GrowsTrans ==
  ASSUME NEW h, NEW x, NEW y, Grows(h, x), Grows(x, y)
  PROVE  Grows(h, y)
<1>1. ASSUME NEW v \in Viewers PROVE y.place[v] = h.place[v] \/ (h.place[v] = Nowhere /\ OnSeat(y, v))
  <2>1. CASE x.place[v] = h.place[v]
    BY <2>1 DEF Grows
  <2>2. CASE h.place[v] = Nowhere /\ OnSeat(x, v)
    <3>1. x.place[v] # Nowhere
      BY <2>2, SpotFacts DEF OnSeat
    <3>2. y.place[v] = x.place[v]
      BY <3>1 DEF Grows
    <3> QED BY <2>2, <3>2 DEF OnSeat, HasPlace
  <2> QED BY <2>1, <2>2 DEF Grows
<1> QED BY <1>1 DEF Grows

(* A seat that is taken stays taken in a chain.                             *)
LEMMA GrowsTaken ==
  ASSUME NEW h, NEW x, Grows(h, x), NEW i \in Seats, Taken(h, Seat(i))
  PROVE  Taken(x, Seat(i))
<1>1. PICK v \in Viewers : h.place[v] = Seat(i)
  BY DEF Taken
<1>2. Seat(i) # Nowhere
  BY SpotFacts
<1> QED BY <1>1, <1>2 DEF Grows, Taken

(* One call after the other: what is settled stays settled.                 *)
LEMMA LaterTrans ==
  ASSUME NEW h, NEW x, NEW y, Later(h, x), Later(x, y)
  PROVE  Later(h, y)
<1>1. Grows(h, y)
  BY GrowsTrans DEF Later
<1>2. \A u : Answers(x, u) <=> Answers(h, u)
  BY DEF Later, Grows, Answers
<1> QED BY <1>1, <1>2 DEF Later

(* A call that does nothing is a chain, too.                                *)
LEMMA LaterSame ==
  ASSUME NEW h
  PROVE  Later(h, h)
BY DEF Later, Grows

(* An offer taken back leaves a sound hall, even if its holder just sat     *)
(* down.                                                                    *)
LEMMA WithdrawKeeps ==
  ASSUME NEW h, Base(h), KeptAway(h), NEW u, StandBut(h, u), NEW i \in Seats,
         u = Nobody \/ h.offers[i] = u,
         NEW x, x = Withdraw(h, i)
  PROVE  /\ Sound(x)
         /\ x.offers = [h.offers EXCEPT ![i] = Nobody]
         /\ x.joined = h.joined /\ x.client = h.client /\ x.since = h.since
         /\ x.place = h.place /\ x.swaps = h.swaps /\ x.queue = h.queue /\ x.kept = h.kept
<1>1. h \in Hall
  BY DEF Base
<1>2. /\ x \in Hall
      /\ x.offers = [h.offers EXCEPT ![i] = Nobody]
      /\ x.joined = h.joined /\ x.client = h.client /\ x.since = h.since
      /\ x.place = h.place /\ x.row = h.row /\ x.queue = h.queue
      /\ x.kept = h.kept /\ x.keptRow = h.keptRow /\ x.swaps = h.swaps
  BY <1>1 DEF Hall, Withdraw
<1>3. Base(x)
  BY <1>2, SameBase
<1>4. KeptAway(x)
  BY <1>2 DEF KeptAway
<1>5. \A j \in Seats : x.offers[j] = IF j = i THEN Nobody ELSE h.offers[j]
  BY <1>1, <1>2, HallFacts
<1>6. Waiting(x) = Waiting(h) /\ \A s : Taken(x, s) <=> Taken(h, s)
  BY <1>2 DEF Waiting, Asks, HasPlace, OnSeat, Taken
<1>7. StandBut(x, Nobody)
  <2>1. \A j \in Seats : x.offers[j] # Nobody => ~Taken(x, Seat(j))
    BY <1>5, <1>6 DEF StandBut
  <2>2. \A j, k \in Seats : x.offers[j] # Nobody /\ x.offers[j] = x.offers[k] => j = k
    BY <1>5 DEF StandBut
  <2>3. ASSUME NEW j \in Seats, x.offers[j] # Nobody PROVE x.offers[j] \in Waiting(x)
    <3>1. j # i /\ x.offers[j] = h.offers[j]
      BY <1>5, <2>3
    <3>2. h.offers[j] # u
      <4>1. CASE u = Nobody
        BY <2>3, <3>1, <4>1
      <4>2. CASE h.offers[i] = u
        BY <2>3, <3>1, <4>2 DEF StandBut
      <4> QED BY <4>1, <4>2
    <3> QED BY <1>6, <2>3, <3>1, <3>2 DEF StandBut
  <2> QED BY <2>1, <2>2, <2>3 DEF StandBut
<1> QED BY <1>2, <1>3, <1>4, <1>7 DEF Sound

(* u's own offer is given back: a sound hall with a seat to offer.          *)
LEMMA GivesBackKeeps ==
  ASSUME NEW h, Base(h), KeptAway(h), NEW u \in Viewers, StandBut(h, u), NEW c \in GivesBack(h, u)
  PROVE  /\ Config(c)
         /\ c.hall.joined = h.joined /\ c.hall.client = h.client /\ c.hall.since = h.since
         /\ c.hall.place = h.place /\ c.hall.swaps = h.swaps /\ c.hall.queue = h.queue
         /\ \A j \in Seats : c.hall.offers[j] = h.offers[j]
                             \/ (c.hall.offers[j] = Nobody /\ h.offers[j] = u)
<1>1. h \in Hall
  BY DEF Base
<1>2. CASE OfferOf(h, u) = {}
  <2>1. c = Done(h)
    BY <1>2 DEF GivesBack
  <2>2. c.hall = h /\ c.seat = {} /\ c.tried = {}
    BY <2>1 DEF Done
  <2>3. StandBut(h, Nobody)
    BY <1>2 DEF OfferOf, StandBut
  <2>4. c \in Configs
    BY <1>1, <2>1 DEF Done, Configs
  <2> QED BY <2>2, <2>3, <2>4 DEF Config, Sound
<1>3. CASE OfferOf(h, u) # {}
  <2>1. PICK i \in OfferOf(h, u) : c = Freed(Withdraw(h, i), i, h.tried[i])
    BY <1>3 DEF GivesBack
  <2>2. i \in Seats /\ h.offers[i] = u
    BY <2>1 DEF OfferOf
  <2>3. PICK x : x = Withdraw(h, i)
    OBVIOUS
  <2>4. c.hall = x /\ c.seat = {i} /\ c.tried = h.tried[i]
    BY <2>1, <2>3 DEF Freed
  <2>5. /\ Sound(x)
        /\ x.offers = [h.offers EXCEPT ![i] = Nobody]
        /\ x.joined = h.joined /\ x.client = h.client /\ x.since = h.since
        /\ x.place = h.place /\ x.swaps = h.swaps /\ x.queue = h.queue
    BY <2>2, <2>3, WithdrawKeeps
  <2>6. h.tried[i] \in SUBSET Viewers /\ \A j \in Seats : x.offers[j] = IF j = i THEN Nobody ELSE h.offers[j]
    BY <1>1, <2>2, <2>5, HallFacts
  <2>7. c \in Configs
    <3>1. x \in Hall
      BY <2>5 DEF Sound, Base
    <3> QED BY <2>1, <2>2, <2>3, <2>6, <3>1 DEF Freed, Configs
  <2> QED BY <2>2, <2>4, <2>5, <2>6, <2>7 DEF Config
<1> QED BY <1>2, <1>3

(* The first of a queue is in it.                                           *)
LEMMA OldestIn ==
  ASSUME NEW h \in Hall, NEW S \in SUBSET Viewers, S # {}
  PROVE  Oldest(h, S) \in S
<1> DEFINE T == {h.queue[v] : v \in S}
<1>1. T \in SUBSET Nat /\ T # {}
  BY HallFacts
<1>2. PICK q \in T : \A r \in T : q <= r
  <2> HIDE DEF T
  <2> QED BY <1>1, LeastOfSome
<1>3. PICK u \in S : h.queue[u] = q
  OBVIOUS
<1>4. \A v \in S : h.queue[u] <= h.queue[v]
  BY <1>2, <1>3
<1> QED BY <1>4 DEF Oldest

(* One call: a sound hall, with one seat to offer at most, and the seat     *)
(* settled unless some were asked before.                                   *)
LEMMA OffersKeeps ==
  ASSUME NEW h, Sound(h), NEW i \in Seats, h.offers[i] = Nobody,
         NEW tried \in SUBSET Viewers, NEW F, NEW c \in Offers(h, i, tried, F)
  PROVE  Config(c) /\ Later(h, c.hall) /\ (tried = {} => Settled(c.hall, i))
<1>0. h \in Hall
  BY DEF Sound, Base
<1>1. ASSUME c = Done(h), Taken(h, Seat(i)) \/ Candidates(h, tried) = {}
      PROVE  Config(c) /\ Later(h, c.hall) /\ (tried = {} => Settled(c.hall, i))
  <2>1. c.hall = h /\ c.seat = {} /\ c.tried = {}
    BY <1>1 DEF Done
  <2>2. Config(c)
    BY <1>0, <1>1, <2>1 DEF Config, Configs, Done
  <2> QED BY <1>1, <2>1, <2>2, LaterSame DEF Settled
<1>2. CASE Taken(h, Seat(i))
  <2>1. c = Done(h)
    BY <1>2 DEF Offers
  <2> QED BY <1>1, <1>2, <2>1
<1>3. CASE ~Taken(h, Seat(i)) /\ Candidates(h, tried) # {}
  <2>1. PICK u : u = Oldest(h, Candidates(h, tried))
    OBVIOUS
  <2>2. c = Done([h EXCEPT !.offers[i] = u, !.tried[i] = tried \cup {u}])
    BY <1>3, <2>1 DEF Offers
  <2>3. PICK x : x = [h EXCEPT !.offers[i] = u, !.tried[i] = tried \cup {u}]
    OBVIOUS
  <2>4. u \in Candidates(h, tried)
    <3>1. Candidates(h, tried) \in SUBSET Viewers
      BY <1>0, HallFacts DEF Candidates, Waiting
    <3> QED BY <1>0, <1>3, <2>1, <3>1, OldestIn
  <2>5. u \in Waiting(h) /\ u \in Viewers /\ Answers(h, u) /\ OfferOf(h, u) = {}
    BY <1>0, <2>4, HallFacts DEF Candidates, Waiting
  <2>6. c.hall = x /\ c.seat = {} /\ c.tried = {}
    BY <2>2, <2>3 DEF Done
  <2>7. /\ x \in Hall /\ x.offers = [h.offers EXCEPT ![i] = u]
        /\ x.joined = h.joined /\ x.client = h.client /\ x.since = h.since
        /\ x.place = h.place /\ x.row = h.row /\ x.queue = h.queue
        /\ x.kept = h.kept /\ x.keptRow = h.keptRow /\ x.swaps = h.swaps
    BY <1>0, <2>3, <2>5 DEF Hall
  <2>8. Base(x) /\ KeptAway(x)
    BY <2>7, SameBase DEF Sound, KeptAway
  <2>9. \A j \in Seats : x.offers[j] = IF j = i THEN u ELSE h.offers[j]
    BY <1>0, <2>7, HallFacts
  <2>10. Waiting(x) = Waiting(h) /\ (\A s : Taken(x, s) <=> Taken(h, s))
         /\ \A v : Answers(x, v) <=> Answers(h, v)
    BY <2>7 DEF Waiting, Asks, HasPlace, OnSeat, Taken, Answers
  <2>11. u # Nobody
    BY <2>5, CinemaAssumption
  <2>12. \A j \in Seats : h.offers[j] # u
    BY <2>5 DEF OfferOf
  <2>13. StandBut(x, Nobody)
    <3>1. \A j \in Seats : x.offers[j] # Nobody => ~Taken(x, Seat(j))
      BY <1>3, <2>9, <2>10 DEF Sound, StandBut
    <3>2. \A j, k \in Seats : x.offers[j] # Nobody /\ x.offers[j] = x.offers[k] => j = k
      BY <2>9, <2>12 DEF Sound, StandBut
    <3>3. \A j \in Seats : x.offers[j] # Nobody => x.offers[j] \in Waiting(x)
      BY <2>5, <2>9, <2>10 DEF Sound, StandBut
    <3> QED BY <3>1, <3>2, <3>3 DEF StandBut
  <2>14. Config(c)
    <3>1. c \in Configs
      BY <2>2, <2>3, <2>7 DEF Configs, Done
    <3> QED BY <2>6, <2>8, <2>13, <3>1 DEF Config, Sound
  <2>15. Settled(x, i)
    BY <2>5, <2>9, <2>10, <2>11 DEF Settled
  <2>16. Candidates(h, {}) = {} => Candidates(x, {}) = {}
    <3>1. ASSUME NEW v \in Candidates(x, {}) PROVE v \in Candidates(h, {})
      <4>1. v \in Waiting(h) /\ Answers(h, v) /\ v \in Viewers
        BY <1>0, <2>10, <3>1, HallFacts DEF Candidates, Waiting
      <4>2. \A j \in Seats : x.offers[j] # v
        BY <3>1 DEF Candidates, OfferOf
      <4>3. \A j \in Seats : h.offers[j] # v
        BY <2>9, <4>1, <4>2, CinemaAssumption
      <4> QED BY <4>1, <4>3 DEF Candidates, OfferOf
    <3> QED BY <3>1
  <2>17. \A j \in Seats : Settled(h, j) => Settled(x, j)
    BY <2>9, <2>10, <2>15, <2>16 DEF Settled
  <2>18. Grows(h, x)
    BY <2>7 DEF Grows
  <2>19. \A j \in Seats : x.offers[j] \in {h.offers[j], Nobody} \/ Answers(h, x.offers[j])
    BY <2>5, <2>9
  <2> QED BY <2>6, <2>14, <2>15, <2>17, <2>18, <2>19 DEF Later
<1>4. CASE ~Taken(h, Seat(i)) /\ Candidates(h, tried) = {} /\ Seatless(h, tried) = {}
  <2>1. c = Done(h)
    BY <1>4 DEF Offers
  <2> QED BY <1>1, <1>4, <2>1
<1>5. CASE ~Taken(h, Seat(i)) /\ Candidates(h, tried) = {} /\ Seatless(h, tried) # {}
  <2>1. PICK u \in Seatless(h, tried) :
          c \in IF Blocked(h, u, Seat(i), F) THEN {Done(h)} ELSE GivesBack(Sits(h, u, Seat(i)), u)
    BY <1>5 DEF Offers
  <2>2. CASE Blocked(h, u, Seat(i), F)
    <3>1. c = Done(h)
      BY <2>1, <2>2
    <3> QED BY <1>1, <1>5, <3>1
  <2>3. CASE ~Blocked(h, u, Seat(i), F)
    <3>1. PICK y : y = Sits(h, u, Seat(i))
      OBVIOUS
    <3>2. c \in GivesBack(y, u)
      BY <2>1, <2>3, <3>1
    <3>3. u \in h.joined /\ h.place[u] = Nowhere /\ ~Answers(h, u) /\ u \in Viewers
      BY <1>0, <2>1, HallFacts DEF Seatless
    <3>4. Seat(i) \in Spots /\ Seat(i) # Nowhere /\ Seat(i)[1] = "seat" /\ Seat(i)[2] = i
          /\ Seat(i) # Nobody
      BY SpotFacts
    <3>5. /\ Base(y) /\ KeptAway(y) /\ StandBut(y, u)
          /\ y.joined = h.joined /\ y.client = h.client /\ y.since = h.since
          /\ y.place = [h.place EXCEPT ![u] = Seat(i)]
          /\ y.offers = h.offers
          /\ y.swaps \subseteq h.swaps
          /\ \A v \in Viewers : Asks(y, v) => Asks(h, v)
      BY <1>5, <3>1, <3>3, <3>4, SitsKeeps
    <3>6. PICK x : x = c.hall
      OBVIOUS
    <3>7. /\ Config(c)
          /\ x.joined = y.joined /\ x.client = y.client /\ x.since = y.since
          /\ x.place = y.place /\ x.swaps = y.swaps /\ x.queue = y.queue
          /\ \A j \in Seats : x.offers[j] = y.offers[j] \/ (x.offers[j] = Nobody /\ y.offers[j] = u)
      BY <3>2, <3>3, <3>5, <3>6, GivesBackKeeps
    <3>8. \A v \in Viewers : x.place[v] = IF v = u THEN Seat(i) ELSE h.place[v]
      BY <1>0, <3>5, <3>7, HallFacts
    <3>9. \A v : Answers(x, v) <=> Answers(h, v)
      BY <3>5, <3>7 DEF Answers
    <3>10. Grows(h, x)
      <4>1. OnSeat(x, u)
        BY <3>3, <3>4, <3>8 DEF OnSeat, HasPlace
      <4> QED BY <3>3, <3>5, <3>7, <3>8, <4>1 DEF Grows
    <3>11. Settled(x, i)
      BY <3>3, <3>8 DEF Settled, Taken
    <3>12. \A v \in Viewers : Asks(x, v) => Asks(h, v)
      BY <3>5, <3>7 DEF Asks
    <3>13. Candidates(h, {}) = {} => Candidates(x, {}) = {}
      <4>1. ASSUME NEW v \in Candidates(x, {}) PROVE v \in Candidates(h, {})
        <5>1. v \in x.joined /\ Asks(x, v) /\ HasPlace(x, v) /\ ~OnSeat(x, v) /\ Answers(x, v)
              /\ OfferOf(x, v) = {}
          BY <4>1 DEF Candidates, Waiting
        <5>2. v # u /\ v \in h.joined /\ v \in Viewers
          BY <1>0, <3>3, <3>5, <3>7, <3>9, <5>1, HallFacts
        <5>3. Asks(h, v) /\ HasPlace(h, v) /\ ~OnSeat(h, v) /\ Answers(h, v)
          BY <3>8, <3>9, <3>12, <5>1, <5>2 DEF HasPlace, OnSeat
        <5>4. OfferOf(h, v) = {}
          BY <3>5, <3>7, <5>1, <5>2 DEF OfferOf
        <5> QED BY <5>2, <5>3, <5>4 DEF Candidates, Waiting
      <4> QED BY <4>1
    <3>14. ASSUME NEW j \in Seats, Settled(h, j) PROVE Settled(x, j)
      <4>1. CASE Taken(h, Seat(j))
        BY <3>10, <4>1, GrowsTaken DEF Settled
      <4>2. CASE h.offers[j] # Nobody /\ Answers(h, h.offers[j])
        <5>1. h.offers[j] # u
          BY <3>3, <4>2
        <5>2. x.offers[j] = h.offers[j]
          BY <3>5, <3>7, <5>1
        <5> QED BY <3>9, <4>2, <5>2 DEF Settled
      <4>3. CASE Candidates(h, {}) = {}
        BY <3>13, <4>3 DEF Settled
      <4> QED BY <3>14, <4>1, <4>2, <4>3 DEF Settled
    <3>15. \A j \in Seats : x.offers[j] \in {h.offers[j], Nobody}
      BY <3>5, <3>7
    <3> QED BY <3>6, <3>7, <3>10, <3>11, <3>14, <3>15 DEF Later
  <2> QED BY <2>2, <2>3
<1> QED BY <1>2, <1>3, <1>4, <1>5

(* One round of a chain is one call.                                        *)
LEMMA GoesKeeps ==
  ASSUME NEW c, Config(c), NEW F, NEW d \in Goes(c, F)
  PROVE  /\ Config(d) /\ Later(c.hall, d.hall)
         /\ \A i \in Seats : c.seat = {i} /\ c.tried = {} => Settled(d.hall, i)
<1>1. CASE c.seat = {}
  <2>1. d = c
    BY <1>1 DEF Goes
  <2> QED BY <1>1, <2>1, LaterSame
<1>2. CASE c.seat # {}
  <2>1. PICK j \in Seats : c.seat = {j} /\ c.hall.offers[j] = Nobody
    BY <1>2 DEF Config
  <2>2. d \in Offers(c.hall, j, c.tried, F)
    BY <2>1 DEF Goes
  <2>3. Sound(c.hall) /\ c.tried \in SUBSET Viewers
    BY DEF Config, Configs
  <2>4. Config(d) /\ Later(c.hall, d.hall) /\ (c.tried = {} => Settled(d.hall, j))
    BY <2>1, <2>2, <2>3, OffersKeeps
  <2> QED BY <2>1, <2>4
<1> QED BY <1>1, <1>2

(* Offering a free seat leaves a sound hall in which it is settled.          *)
LEMMA OfferKeeps ==
  ASSUME NEW h, Sound(h), NEW i \in Seats, h.offers[i] = Nobody,
         NEW tried \in SUBSET Viewers, NEW F, NEW x \in Offer(h, i, tried, F)
  PROVE  Sound(x) /\ Later(h, x) /\ (tried = {} => Settled(x, i))
<1>1. PICK c0 : c0 = Freed(h, i, tried)
  OBVIOUS
<1>2. c0.hall = h /\ c0.seat = {i} /\ c0.tried = tried
  BY <1>1 DEF Freed
<1>3. Config(c0)
  <2>1. c0 \in Configs
    BY <1>1 DEF Freed, Configs, Sound, Base
  <2> QED BY <1>2, <2>1 DEF Config
<1>4. PICK G : G = {c \in Configs : Config(c) /\ Later(h, c.hall)
                                    /\ (tried = {} => c = c0 \/ Settled(c.hall, i))}
  OBVIOUS
<1>5. c0 \in G
  BY <1>2, <1>3, <1>4, LaterSame DEF Config
<1>6. ASSUME NEW c \in G, NEW d \in Goes(c, F) PROVE d \in G
  <2>1. Config(c) /\ Later(h, c.hall) /\ (tried = {} => c = c0 \/ Settled(c.hall, i))
    BY <1>4
  <2>2. /\ Config(d) /\ Later(c.hall, d.hall)
        /\ \A j \in Seats : c.seat = {j} /\ c.tried = {} => Settled(d.hall, j)
    BY <1>6, <2>1, GoesKeeps
  <2>3. Later(h, d.hall)
    BY <2>1, <2>2, LaterTrans
  <2>4. tried = {} => Settled(d.hall, i)
    <3>1. CASE c = c0
      BY <1>2, <2>2, <3>1
    <3>2. CASE Settled(c.hall, i)
      BY <2>2, <3>2 DEF Later
    <3> QED BY <2>1, <3>1, <3>2
  <2>5. d \in Configs
    BY <2>2 DEF Config
  <2> QED BY <1>4, <2>2, <2>3, <2>4, <2>5
<1>7. PICK c \in G : c.seat = {} /\ x = c.hall
  <2>1. {c0} \in SUBSET G
    BY <1>5
  <2>2. x \in Ends({c0}, F)
    BY <1>1 DEF Offer
  <2>3. \A c \in G : Goes(c, F) \subseteq G
    BY <1>6
  <2>4. x \in Ended(G)
    BY <2>1, <2>2, <2>3, EndsKeep
  <2> QED BY <2>4 DEF Ended
<1>8. c # c0
  BY <1>2, <1>7
<1> QED BY <1>4, <1>7, <1>8 DEF Config

(* So does giving back what u holds, whether u may still hold it or not.     *)
LEMMA GiveBackKeeps ==
  ASSUME NEW h, Base(h), KeptAway(h), NEW u \in Viewers, StandBut(h, u),
         NEW F, NEW x \in GiveBack(h, u, F)
  PROVE  Sound(x) /\ Grows(h, x)
<1>1. PICK G : G = {c \in Configs : Config(c) /\ Grows(h, c.hall)}
  OBVIOUS
<1>2. ASSUME NEW c \in GivesBack(h, u) PROVE c \in G
  <2>1. /\ Config(c)
        /\ c.hall.joined = h.joined /\ c.hall.client = h.client /\ c.hall.since = h.since
        /\ c.hall.place = h.place /\ c.hall.swaps = h.swaps
    BY <1>2, GivesBackKeeps
  <2> QED BY <1>1, <2>1 DEF Config, Grows
<1>3. ASSUME NEW c \in G, NEW d \in Goes(c, F) PROVE d \in G
  <2>1. Config(c) /\ Grows(h, c.hall)
    BY <1>1
  <2>2. Config(d) /\ Later(c.hall, d.hall)
    BY <1>3, <2>1, GoesKeeps
  <2>3. Grows(h, d.hall)
    BY <2>1, <2>2, GrowsTrans DEF Later
  <2> QED BY <1>1, <2>2, <2>3 DEF Config
<1>4. PICK c \in G : c.seat = {} /\ x = c.hall
  <2>1. GivesBack(h, u) \in SUBSET G
    BY <1>2
  <2>2. x \in Ends(GivesBack(h, u), F)
    BY DEF GiveBack
  <2>3. \A c \in G : Goes(c, F) \subseteq G
    BY <1>3
  <2>4. x \in Ended(G)
    BY <2>1, <2>2, <2>3, EndsKeep
  <2> QED BY <2>4 DEF Ended
<1> QED BY <1>1, <1>4 DEF Config

(* Whoever holds nothing has nothing to give back.                           *)
LEMMA NothingGivenBack ==
  ASSUME NEW h, NEW u, OfferOf(h, u) = {}, NEW F, NEW x \in GiveBack(h, u, F)
  PROVE  x = h
<1>1. PICK c0 : c0 = Done(h)
  OBVIOUS
<1>2. c0.hall = h /\ c0.seat = {} /\ GivesBack(h, u) = {c0}
  BY <1>1 DEF Done, GivesBack
<1>3. Goes(c0, F) = {c0}
  BY <1>2 DEF Goes
<1>4. PICK G : G = {c0}
  OBVIOUS
<1>5. PICK c \in G : c.seat = {} /\ x = c.hall
  <2>1. GivesBack(h, u) \in SUBSET G
    BY <1>2, <1>4
  <2>2. x \in Ends(GivesBack(h, u), F)
    BY DEF GiveBack
  <2>3. \A c \in G : Goes(c, F) \subseteq G
    BY <1>3, <1>4
  <2>4. x \in Ended(G)
    BY <2>1, <2>2, <2>3, EndsKeep
  <2> QED BY <2>4 DEF Ended
<1> QED BY <1>2, <1>4, <1>5

(* Moving to a free spot: what the mover leaves is settled, and nobody else   *)
(* loses anything.                                                          *)
Moves(h, x, u) ==
  /\ x.joined = h.joined /\ x.client = h.client /\ x.since = h.since
  /\ x.swaps \subseteq h.swaps
  /\ \A v \in Viewers : \/ x.place[v] = h.place[v]
                        \/ h.place[v] = Nowhere /\ OnSeat(x, v)
                        \/ v = u /\ x.place[v] \notin {Nobody, Nowhere}

(* A move, with the chain of offers it sets off, leaves a sound hall where  *)
(* the seat that was left is settled.                                       *)
LEMMA MoveKeeps ==
  ASSUME NEW h, Sound(h), NEW u \in Viewers, NEW spot \in Spots, spot # Nowhere,
         ~Taken(h, spot), spot[1] = "seat" => h.offers[spot[2]] = Nobody,
         NEW F, NEW x \in Move(h, u, spot, F)
  PROVE  /\ Sound(x) /\ Moves(h, x, u)
         /\ \A i \in Seats : Taken(h, Seat(i)) => Settled(x, i)
<1>0. h \in Hall
  BY DEF Sound, Base
<1>1. CASE Blocked(h, u, spot, F)
  <2>1. x = h
    BY <1>1 DEF Move
  <2> QED BY <2>1 DEF Moves, Settled
<1>2. CASE ~Blocked(h, u, spot, F)
  <2>1. PICK old : old = h.place[u]
    OBVIOUS
  <2>2. PICK sat : sat = Sits(h, u, spot)
    OBVIOUS
  <2>3. PICK given : given = IF spot[1] = "seat" THEN GiveBack(sat, u, F) ELSE {sat}
    OBVIOUS
  <2>4. x \in IF OnSeat(h, u) /\ old # spot
               THEN UNION {Offer(y, old[2], {}, F) : y \in given} ELSE given
    BY <1>2, <2>1, <2>2, <2>3 DEF Move
  <2>5. /\ Base(sat) /\ KeptAway(sat) /\ StandBut(sat, u)
        /\ spot[1] # "seat" => Sound(sat)
        /\ sat.joined = h.joined /\ sat.client = h.client /\ sat.since = h.since
        /\ sat.place = [h.place EXCEPT ![u] = spot]
        /\ sat.offers = h.offers
        /\ sat.swaps \subseteq h.swaps
    BY <2>2, SitsKeeps
  <2>6. \A v \in Viewers : sat.place[v] = IF v = u THEN spot ELSE h.place[v]
    BY <1>0, <2>5, HallFacts
  <2>7. spot \notin {Nobody, Nowhere} /\ old # spot
    BY <2>1, SpotFacts DEF Taken
  <2>8. ASSUME NEW y \in given PROVE Sound(y) /\ Grows(sat, y)
    <3>1. CASE spot[1] = "seat"
      BY <2>3, <2>5, <2>8, <3>1, GiveBackKeeps
    <3>2. CASE spot[1] # "seat"
      BY <2>3, <2>5, <2>8, <3>2, LaterSame DEF Later
    <3> QED BY <3>1, <3>2
  <2>9. ASSUME NEW y, Grows(sat, y) PROVE Moves(h, y, u)
    <3>1. ASSUME NEW v \in Viewers
          PROVE \/ y.place[v] = h.place[v]
                \/ h.place[v] = Nowhere /\ OnSeat(y, v)
                \/ v = u /\ y.place[v] \notin {Nobody, Nowhere}
      <4>1. y.place[v] = sat.place[v] \/ (sat.place[v] = Nowhere /\ OnSeat(y, v))
        BY <2>9 DEF Grows
      <4> QED BY <2>6, <2>7, <4>1
    <3> QED BY <2>5, <2>9, <3>1 DEF Grows, Moves
  <2>10. ASSUME NEW i \in Seats, Taken(h, Seat(i)), old # Seat(i) PROVE Taken(sat, Seat(i))
    <3>1. PICK v \in Viewers : h.place[v] = Seat(i)
      BY <2>10 DEF Taken
    <3> QED BY <2>1, <2>6, <2>10, <3>1 DEF Taken
  <2>11. CASE ~OnSeat(h, u)
    <3>1. x \in given
      BY <2>4, <2>11
    <3>2. Sound(x) /\ Grows(sat, x) /\ Moves(h, x, u)
      BY <2>8, <2>9, <3>1
    <3>3. \A i \in Seats : old # Seat(i)
      BY <2>1, <2>11, SpotFacts DEF OnSeat, HasPlace
    <3> QED BY <2>10, <3>2, <3>3, GrowsTaken DEF Settled
  <2>12. CASE OnSeat(h, u)
    <3>1. PICK y \in given : x \in Offer(y, old[2], {}, F)
      BY <2>4, <2>7, <2>12
    <3>2. old[2] \in Seats /\ old = Seat(old[2])
      <4>1. old \in Spots
        BY <1>0, <2>1, <2>12, HallFacts DEF OnSeat, HasPlace
      <4> QED BY <2>1, <2>12, <4>1, SpotFacts DEF OnSeat
    <3>3. OfferOf(h, u) = {} /\ h.offers[old[2]] = Nobody
      <4>1. Taken(h, Seat(old[2]))
        BY <2>1, <3>2 DEF Taken
      <4> QED BY <2>12, <3>2, <4>1, SoundFacts
    <3>4. y = sat
      <4>1. CASE spot[1] = "seat"
        <5>1. OfferOf(sat, u) = {}
          BY <2>5, <3>3 DEF OfferOf
        <5> QED BY <2>3, <4>1, <5>1, NothingGivenBack
      <4>2. CASE spot[1] # "seat"
        BY <2>3, <4>2
      <4> QED BY <4>1, <4>2
    <3>5. y.offers[old[2]] = Nobody /\ Sound(y)
      BY <2>5, <2>8, <3>3, <3>4
    <3>6. Sound(x) /\ Later(y, x) /\ Settled(x, old[2])
      BY <3>1, <3>2, <3>5, OfferKeeps
    <3>7. Grows(sat, x)
      BY <3>4, <3>6 DEF Later
    <3>8. ASSUME NEW i \in Seats, Taken(h, Seat(i)) PROVE Settled(x, i)
      <4>1. CASE old = Seat(i)
        <5>1. i = old[2]
          BY <4>1, SpotFacts
        <5> QED BY <3>6, <5>1
      <4>2. CASE old # Seat(i)
        BY <2>10, <3>7, <3>8, <4>2, GrowsTaken DEF Settled
      <4> QED BY <4>1, <4>2
    <3> QED BY <2>9, <3>6, <3>7, <3>8
  <2> QED BY <2>11, <2>12
<1> QED BY <1>1, <1>2

----------------------------------------------------------------------------
(* The hall: a chain of calls ends                                          *)

(* Those who have a place nowhere: what a chain uses up.                     *)
Unplaced(h) == {v \in Viewers : h.place[v] = Nowhere}

(* One call: it stays a chain, has some outcome, and what it leaves to do    *)
(* has put somebody who was nowhere on a seat.                               *)
LEMMA OffersEnd ==
  ASSUME NEW h \in Hall, NEW i \in Seats, NEW tried \in SUBSET Viewers, NEW F
  PROVE  /\ Offers(h, i, tried, F) # {}
         /\ \A c \in Offers(h, i, tried, F) :
              /\ c \in Configs
              /\ c.seat # {} => \E u \in Unplaced(h) : Unplaced(c.hall) = Unplaced(h) \ {u}
<1>1. Done(h) \in Configs /\ Done(h).seat = {}
  BY DEF Done, Configs
<1>2. CASE Taken(h, Seat(i))
  BY <1>1, <1>2 DEF Offers
<1>3. CASE ~Taken(h, Seat(i)) /\ Candidates(h, tried) # {}
  <2>1. PICK u : u = Oldest(h, Candidates(h, tried))
    OBVIOUS
  <2>2. u \in Viewers
    <3>1. Candidates(h, tried) \in SUBSET Viewers
      BY HallFacts DEF Candidates, Waiting
    <3>2. u \in Candidates(h, tried)
      BY <1>3, <2>1, <3>1, OldestIn
    <3> QED BY <3>1, <3>2
  <2>3. PICK x : x = [h EXCEPT !.offers[i] = u, !.tried[i] = tried \cup {u}]
    OBVIOUS
  <2>4. x \in Hall
    BY <2>2, <2>3 DEF Hall
  <2>5. Offers(h, i, tried, F) = {Done(x)}
    BY <1>3, <2>1, <2>3 DEF Offers
  <2>6. Done(x) \in Configs /\ Done(x).seat = {}
    BY <2>4 DEF Done, Configs
  <2> QED BY <2>5, <2>6
<1>4. CASE ~Taken(h, Seat(i)) /\ Candidates(h, tried) = {} /\ Seatless(h, tried) = {}
  BY <1>1, <1>4 DEF Offers
<1>5. CASE ~Taken(h, Seat(i)) /\ Candidates(h, tried) = {} /\ Seatless(h, tried) # {}
  <2> DEFINE Put(u) == IF Blocked(h, u, Seat(i), F) THEN {Done(h)} ELSE GivesBack(Sits(h, u, Seat(i)), u)
  <2>1. Offers(h, i, tried, F) = UNION {Put(u) : u \in Seatless(h, tried)}
    BY <1>5 DEF Offers
  <2>2. ASSUME NEW u \in Seatless(h, tried)
        PROVE /\ Put(u) # {}
              /\ \A c \in Put(u) :
                   /\ c \in Configs
                   /\ c.seat # {} => u \in Unplaced(h) /\ Unplaced(c.hall) = Unplaced(h) \ {u}
    <3>1. u \in Viewers /\ u \in Unplaced(h) /\ h.place[u] = Nowhere
      BY HallFacts DEF Seatless, Unplaced
    <3>2. CASE Blocked(h, u, Seat(i), F)
      BY <1>1, <3>2
    <3>3. CASE ~Blocked(h, u, Seat(i), F)
      <4>1. PICK x : x = Sits(h, u, Seat(i))
        OBVIOUS
      <4>2. x \in Hall /\ x.place = [h.place EXCEPT ![u] = Seat(i)]
        <5>1. PICK s : s = Settle(h, u, Seat(i))
          OBVIOUS
        <5>2. s \in Hall /\ s.place = [h.place EXCEPT ![u] = Seat(i)]
          <6>1. Seat(i) \in Spots \cup {Nobody}
            BY SpotFacts
          <6>2. PICK spot : spot = Seat(i)
            OBVIOUS
          <6>3. u \in Viewers /\ spot \in Spots \cup {Nobody} /\ s = Settle(h, u, spot)
            BY <3>1, <5>1, <6>1, <6>2
          <6>4. s \in Hall /\ s.place = [h.place EXCEPT ![u] = spot]
            <7>1. /\ s \in Hall
                  /\ s.place = [h.place EXCEPT ![u] = spot] /\ s.row = [h.row EXCEPT ![u] = spot]
                  /\ s.joined = h.joined /\ s.client = h.client /\ s.since = h.since
                  /\ s.kept = h.kept /\ s.keptRow = h.keptRow /\ s.queue = h.queue
                  /\ s.offers = h.offers /\ s.tried = h.tried /\ s.swaps = h.swaps
              BY <6>3, SettleFacts
            <7> QED BY <7>1
          <6> QED BY <6>2, <6>4
        <5>3. PICK put : put = Own(s, u)
          OBVIOUS
        <5>4. put \in Hall /\ put.place = s.place
          BY <5>2, <5>3, OwnFacts
        <5>5. PICK off : off = Unqueue(put, u)
          OBVIOUS
        <5>6. off \in Hall /\ off.place = s.place
          BY <5>4, <5>5, UnqueueRest
        <5>7. Seat(i)[1] = "seat" /\ h.place[u] # Seat(i)
          BY <3>1, SpotFacts
        <5>8. x = DropSwaps(off, u)
          BY <4>1, <5>1, <5>3, <5>5, <5>7 DEF Sits
        <5> QED BY <5>2, <5>6, <5>8, DropFacts
      <4>3. Unplaced(x) = Unplaced(h) \ {u}
        <5>1. Seat(i) # Nowhere /\ h.place \in [Viewers -> Spots \cup {Nobody}]
          BY SpotFacts, HallFacts
        <5>2. \A v \in Viewers : x.place[v] = IF v = u THEN Seat(i) ELSE h.place[v]
          BY <4>2, <5>1
        <5> QED BY <5>1, <5>2 DEF Unplaced
      <4>4. Put(u) = GivesBack(x, u)
        BY <3>3, <4>1
      <4>5. Done(x) \in Configs /\ Done(x).seat = {}
        BY <4>2 DEF Done, Configs
      <4>6. ASSUME NEW j \in OfferOf(x, u)
            PROVE LET c == Freed(Withdraw(x, j), j, x.tried[j])
                  IN c \in Configs /\ Unplaced(c.hall) = Unplaced(x)
        <5>1. PICK y : y = Withdraw(x, j)
          OBVIOUS
        <5>2. j \in Seats /\ x.tried[j] \in SUBSET Viewers
          BY <4>2, HallFacts DEF OfferOf
        <5>3. y \in Hall /\ y.place = x.place
          <6>1. x \in Hall /\ j \in Seats
            BY <4>2, <5>2
          <6> QED BY <5>1, <6>1 DEF Hall, Withdraw
        <5>4. PICK c : c = Freed(y, j, x.tried[j])
          OBVIOUS
        <5>5. c \in Configs /\ c.hall = y
          BY <5>2, <5>3, <5>4 DEF Freed, Configs
        <5>6. Unplaced(y) = Unplaced(x)
          BY <5>3 DEF Unplaced
        <5> QED BY <5>1, <5>4, <5>5, <5>6
      <4>7. CASE OfferOf(x, u) = {}
        BY <4>4, <4>5, <4>7 DEF GivesBack
      <4>8. CASE OfferOf(x, u) # {}
        <5>1. Put(u) = {Freed(Withdraw(x, j), j, x.tried[j]) : j \in OfferOf(x, u)}
          <6> HIDE DEF Put
          <6> QED BY <4>4, <4>8 DEF GivesBack
        <5>2. Put(u) # {}
          <6> HIDE DEF Put
          <6> QED BY <4>8, <5>1
        <5>3. ASSUME NEW c \in Put(u) PROVE c \in Configs /\ Unplaced(c.hall) = Unplaced(h) \ {u}
          <6>1. PICK j \in OfferOf(x, u) : c = Freed(Withdraw(x, j), j, x.tried[j])
            <7> HIDE DEF Put
            <7> QED BY <5>1, <5>3
          <6> QED BY <4>3, <4>6, <6>1
        <5> HIDE DEF Put
        <5> QED BY <3>1, <5>2, <5>3
      <4> QED BY <4>7, <4>8
    <3> QED BY <3>2, <3>3
  <2> HIDE DEF Put
  <2>3. Offers(h, i, tried, F) # {}
    <3>1. PICK u \in Seatless(h, tried) : TRUE
      BY <1>5
    <3>2. PICK c \in Put(u) : TRUE
      BY <2>2
    <3> QED BY <2>1, <3>1, <3>2
  <2>4. ASSUME NEW c \in Offers(h, i, tried, F)
        PROVE /\ c \in Configs
              /\ c.seat # {} => \E u \in Unplaced(h) : Unplaced(c.hall) = Unplaced(h) \ {u}
    <3>1. PICK u \in Seatless(h, tried) : c \in Put(u)
      BY <2>1, <2>4
    <3> QED BY <2>2, <3>1
  <2> QED BY <2>3, <2>4
<1> QED BY <1>2, <1>3, <1>4, <1>5

(* One round: it has some outcome, and does not go on without end.          *)
LEMMA GoesEnd ==
  ASSUME NEW c \in Configs, NEW F
  PROVE  /\ Goes(c, F) # {}
         /\ \A d \in Goes(c, F) :
              /\ d \in Configs
              /\ \/ d.seat = {}
                 \/ c.seat # {} /\ \E u \in Unplaced(c.hall) : Unplaced(d.hall) = Unplaced(c.hall) \ {u}
<1>1. c.hall \in Hall /\ c.seat \in SUBSET Seats /\ c.tried \in SUBSET Viewers
  BY DEF Configs
<1>2. CASE c.seat = {}
  BY <1>2 DEF Goes
<1>3. CASE c.seat # {}
  <2>1. Goes(c, F) = UNION {Offers(c.hall, i, c.tried, F) : i \in c.seat}
    BY <1>3 DEF Goes
  <2>2. PICK i \in c.seat : TRUE
    BY <1>3
  <2>3. Offers(c.hall, i, c.tried, F) # {}
    BY <1>1, OffersEnd
  <2>4. ASSUME NEW d \in Goes(c, F)
        PROVE /\ d \in Configs
              /\ d.seat # {} => \E u \in Unplaced(c.hall) : Unplaced(d.hall) = Unplaced(c.hall) \ {u}
    <3>1. PICK j \in c.seat : d \in Offers(c.hall, j, c.tried, F)
      BY <2>1, <2>4
    <3>2. PICK x, T : x = c.hall /\ T = c.tried
      OBVIOUS
    <3>3. x \in Hall /\ j \in Seats /\ T \in SUBSET Viewers /\ d \in Offers(x, j, T, F)
      BY <1>1, <3>1, <3>2
    <3>4. /\ d \in Configs
          /\ d.seat # {} => \E u \in Unplaced(x) : Unplaced(d.hall) = Unplaced(x) \ {u}
      BY <3>3, OffersEnd
    <3> QED BY <3>2, <3>4
  <2> QED BY <1>3, <2>1, <2>2, <2>3, <2>4
<1> QED BY <1>2, <1>3

(* offerSeatLocked, moveLocked and releaseOfferOfLocked call each other     *)
(* under the room's mutex: however many members and seats there are,        *)
(* whichever rows cannot be written and whoever is picked, a chain of their *)
(* calls ends, after at most one round more than there are members. What    *)
(* Ends looks at is all of its outcomes, and there is one.                  *)
THEOREM ChainsEnd ==
  ASSUME NEW C \in SUBSET Configs, NEW F
  PROVE  /\ \A c \in Chain(C, F, Cardinality(Viewers) + 1) : c.seat = {}
         /\ Ends(C, F) = {c.hall : c \in Chain(C, F, Cardinality(Viewers) + 1)}
         /\ C # {} => Ends(C, F) # {}
<1>1. PICK N : N = Cardinality(Viewers)
  OBVIOUS
<1>2. N \in Nat /\ N + 1 \in Nat
  BY <1>1, CinemaAssumption, FS_CardinalityType
<1>3. \A c \in Configs : Goes(c, F) \subseteq Configs
  BY GoesEnd
<1>4. PICK a : /\ a[0] = C /\ a[N + 1] = Chain(C, F, N + 1)
               /\ \A k \in 1..(N + 1) : a[k] = UNION {Goes(c, F) : c \in a[k - 1]}
               /\ \A k \in 0..(N + 1) : a[k] \subseteq Configs
  <2>1. N + 1 \in Nat /\ C \in SUBSET Configs /\ \A c \in Configs : Goes(c, F) \subseteq Configs
    BY <1>2, <1>3
  <2>2. PICK f : Unfolds(f, C, F, N + 1, Configs)
    BY <2>1, ChainOf
  <2> QED BY <2>2 DEF Unfolds
<1>5. \A h : IsFiniteSet(Unplaced(h)) /\ Cardinality(Unplaced(h)) \in Nat /\ Cardinality(Unplaced(h)) <= N
  <2>1. ASSUME NEW h PROVE IsFiniteSet(Unplaced(h)) /\ Cardinality(Unplaced(h)) \in Nat /\ Cardinality(Unplaced(h)) <= N
    <3>1. Unplaced(h) \in SUBSET Viewers
      BY DEF Unplaced
    <3> QED BY <1>1, <3>1, CinemaAssumption, FS_Subset, FS_CardinalityType
  <2> QED BY <2>1
<1> DEFINE Few(k) == {c \in Configs : c.seat = {} \/ Cardinality(Unplaced(c.hall)) + k <= N}
<1>6. ASSUME NEW k \in 1..(N + 1), a[k - 1] \subseteq Few(k - 1) PROVE a[k] \subseteq Few(k)
  <2>1. ASSUME NEW d \in a[k] PROVE d \in Few(k)
    <3>1. PICK c \in a[k - 1] : d \in Goes(c, F)
      BY <1>4, <2>1
    <3>2. c \in Configs /\ (c.seat = {} \/ Cardinality(Unplaced(c.hall)) + (k - 1) <= N)
      BY <1>6, <3>1
    <3>3. d \in Configs
      BY <3>1, <3>2, GoesEnd
    <3>4. CASE d.seat = {}
      BY <3>3, <3>4
    <3>5. CASE d.seat # {}
      <4>1. c.seat # {}
        BY <3>1, <3>2, <3>5, GoesEnd
      <4>2. PICK u \in Unplaced(c.hall) : Unplaced(d.hall) = Unplaced(c.hall) \ {u}
        BY <3>1, <3>2, <3>5, GoesEnd
      <4>3. Cardinality(Unplaced(d.hall)) = Cardinality(Unplaced(c.hall)) - 1
        <5>1. PICK S : S = Unplaced(c.hall)
          OBVIOUS
        <5>2. u \in S /\ IsFiniteSet(S)
          BY <1>5, <4>2, <5>1
        <5>3. Cardinality(S \ {u}) = Cardinality(S) - 1
          BY <5>2, FS_RemoveElement
        <5> QED BY <4>2, <5>1, <5>3
      <4>4. Cardinality(Unplaced(c.hall)) \in Nat /\ Cardinality(Unplaced(d.hall)) \in Nat
        BY <1>5
      <4>5. Cardinality(Unplaced(d.hall)) + k <= N
        BY <1>2, <3>2, <4>1, <4>3, <4>4
      <4> QED BY <3>3, <4>5
    <3> QED BY <3>4, <3>5
  <2> QED BY <2>1
<1>7. a[0] \subseteq Few(0)
  BY <1>2, <1>4, <1>5
<1>8. a[N + 1] \subseteq Few(N + 1) /\ (C # {} => a[N + 1] # {})
  <2>1. PICK z : z = [k \in 0..(N + 1) |-> IF a[k] \subseteq Few(k) /\ (C # {} => a[k] # {}) THEN {} ELSE {k}]
    OBVIOUS
  <2>2. 0 \in 0..(N + 1) /\ N + 1 \in 0..(N + 1)
    BY <1>2
  <2>3. z[0] \subseteq {}
    <3> HIDE DEF Few
    <3> QED BY <1>4, <1>7, <2>1, <2>2
  <2>4. ASSUME NEW k \in 1..(N + 1), z[k - 1] \subseteq {} PROVE z[k] \subseteq {}
    <3>1. k \in 0..(N + 1) /\ k - 1 \in 0..(N + 1)
      BY <1>2
    <3>2. a[k - 1] \subseteq Few(k - 1) /\ (C # {} => a[k - 1] # {})
      <4> HIDE DEF Few
      <4> QED BY <2>1, <2>4, <3>1
    <3>3. a[k] \subseteq Few(k)
      <4> HIDE DEF Few
      <4> QED BY <1>6, <3>2
    <3>4. C # {} => a[k] # {}
      <4>1. ASSUME NEW c \in a[k - 1] PROVE Goes(c, F) # {}
        BY <1>4, <3>1, GoesEnd
      <4> HIDE DEF Few
      <4> QED BY <1>4, <3>2, <4>1
    <3> HIDE DEF Few
    <3> QED BY <2>1, <3>1, <3>3, <3>4
  <2>5. z[N + 1] \subseteq {}
    <3>1. PICK n, H : n = N + 1 /\ H = {}
      OBVIOUS
    <3> HIDE DEF Few
    <3>2. n \in Nat /\ z[0] \subseteq H /\ \A k \in 1..n : z[k - 1] \subseteq H => z[k] \subseteq H
      BY <1>2, <2>3, <2>4, <3>1
    <3>3. z[n] \subseteq H
      BY <3>2, PassedOn
    <3> QED BY <3>1, <3>3
  <2> HIDE DEF Few
  <2> QED BY <2>1, <2>2, <2>5
<1>9. \A c \in a[N + 1] : c.seat = {}
  <2>1. ASSUME NEW c \in a[N + 1], c.seat # {} PROVE FALSE
    <3>1. Cardinality(Unplaced(c.hall)) + (N + 1) <= N
      BY <1>8, <2>1
    <3>2. Cardinality(Unplaced(c.hall)) \in Nat
      BY <1>5
    <3> QED BY <1>2, <3>1, <3>2
  <2> QED BY <2>1
<1>10. Ends(C, F) = {c.hall : c \in {d \in Chain(C, F, N + 1) : d.seat = {}}}
  BY <1>1 DEF Ends, Chain
<1> HIDE DEF Few
<1>11. {d \in Chain(C, F, N + 1) : d.seat = {}} = Chain(C, F, N + 1)
  BY <1>4, <1>9
<1> QED BY <1>1, <1>4, <1>8, <1>9, <1>10, <1>11

----------------------------------------------------------------------------
(* The hall: the loops that offer one seat after the other                  *)

(* Sets of seats are finite.                                                *)
LEMMA SeatsFinite ==
  \A S \in SUBSET Seats : IsFiniteSet(S) /\ Cardinality(S) \in Nat
<1>1. IsFiniteSet(Seats)
  BY CinemaAssumption, FS_Subset
<1> QED BY <1>1, FS_Subset, FS_CardinalityType

(* The halls of those with no seat left to offer.                            *)
Emptied(G) == {c.hall : c \in {d \in G : d.left = {}}}

(* A set that no round leaves holds what the loop over the free seats ends  *)
(* in.                                                                      *)
LEMMA OfferFreeKeep ==
  ASSUME NEW F, NEW G, NEW h \in Hall, [hall |-> h, left |-> FreeSeats(h)] \in G,
         \A c \in G : OffersFirst(c, F) \subseteq G
  PROVE  OfferFree(h, F) \subseteq Emptied(G)
<1>1. PICK n : n = Cardinality(FreeSeats(h))
  OBVIOUS
<1>2. n \in Nat
  BY <1>1, SeatsFinite DEF FreeSeats
<1>3. PICK C : C = {[hall |-> h, left |-> FreeSeats(h)]}
  OBVIOUS
<1> DEFINE g == [c \in G |-> OffersFirst(c, F)]
           a[k \in 0..n] == IF k = 0 THEN C ELSE UNION {OffersFirst(c, F) : c \in a[k - 1]}
<1>4. g \in [G -> SUBSET G] /\ \A c \in G : g[c] = OffersFirst(c, F)
  OBVIOUS
<1>5. PICK f : Solves(f, g, C, n, G)
  <2> HIDE DEF g
  <2>1. C \in SUBSET G
    BY <1>3
  <2> QED BY <1>2, <1>4, <2>1, RoundsExist
<1>6. f = [k \in 0..n |-> IF k = 0 THEN C ELSE UNION {OffersFirst(c, F) : c \in f[k - 1]}]
  <2> HIDE DEF g
  <2>1. \A k \in 0..n : f[k] = IF k = 0 THEN C ELSE UNION {OffersFirst(c, F) : c \in f[k - 1]}
    <3>1. ASSUME NEW k \in 0..n
          PROVE f[k] = IF k = 0 THEN C ELSE UNION {OffersFirst(c, F) : c \in f[k - 1]}
      <4>1. f[k] = IF k = 0 THEN C ELSE UNION {g[c] : c \in f[k - 1]}
        BY <1>5 DEF Solves
      <4>2. CASE k = 0
        BY <4>1, <4>2
      <4>3. CASE k # 0
        <5>1. f[k - 1] \subseteq G
          <6>1. k - 1 \in 0..n
            BY <1>2, <4>3
          <6>2. \A j \in 0..n : f[j] \subseteq G
            BY <1>5 DEF Solves
          <6> QED BY <6>1, <6>2
        <5>2. {g[c] : c \in f[k - 1]} = {OffersFirst(c, F) : c \in f[k - 1]}
          BY <1>4, <5>1
        <5> QED BY <4>1, <4>3, <5>2
      <4> QED BY <4>2, <4>3
    <3> QED BY <3>1
  <2>2. f = [k \in 0..n |-> f[k]]
    BY <1>5 DEF Solves
  <2> QED BY <2>1, <2>2
<1>7. a = [k \in 0..n |-> IF k = 0 THEN C ELSE UNION {OffersFirst(c, F) : c \in a[k - 1]}]
  <2> HIDE DEF g
  <2> QED BY <1>6
<1>8. a[n] \subseteq G
  <2>1. a[0] \subseteq G
    <3>1. 0 \in 0..n
      BY <1>2
    <3> HIDE DEF a
    <3> QED BY <1>3, <1>7, <3>1
  <2>2. ASSUME NEW k \in 1..n, a[k - 1] \subseteq G PROVE a[k] \subseteq G
    <3>1. k \in 0..n /\ k # 0
      BY <1>2
    <3> HIDE DEF a
    <3>2. a[k] = UNION {OffersFirst(c, F) : c \in a[k - 1]}
      BY <1>7, <3>1
    <3> QED BY <2>2, <3>2
  <2> HIDE DEF a
  <2> QED BY <1>2, <2>1, <2>2, PassedOn
<1>9. OfferFree(h, F) = {c.hall : c \in {d \in a[n] : d.left = {}}}
  BY <1>1, <1>3 DEF OfferFree, Rounds
<1> HIDE DEF a
<1> QED BY <1>8, <1>9 DEF Emptied

(* The same for the loop over the offers that have run out.                 *)
LEMMA ExpireKeep ==
  ASSUME NEW F, NEW G, NEW h, NEW E \in SUBSET Seats, [hall |-> h, left |-> E] \in G,
         \A c \in G : ExpiresOne(c, F) \subseteq G
  PROVE  Expire(h, E, F) \subseteq {c.hall : c \in G}
<1>1. PICK n : n = Cardinality(E)
  OBVIOUS
<1>2. n \in Nat
  BY <1>1, SeatsFinite
<1>3. PICK C : C = {[hall |-> h, left |-> E]}
  OBVIOUS
<1> DEFINE g == [c \in G |-> ExpiresOne(c, F)]
           a[k \in 0..n] == IF k = 0 THEN C ELSE UNION {ExpiresOne(c, F) : c \in a[k - 1]}
<1>4. g \in [G -> SUBSET G] /\ \A c \in G : g[c] = ExpiresOne(c, F)
  OBVIOUS
<1>5. PICK f : Solves(f, g, C, n, G)
  <2> HIDE DEF g
  <2>1. C \in SUBSET G
    BY <1>3
  <2> QED BY <1>2, <1>4, <2>1, RoundsExist
<1>6. f = [k \in 0..n |-> IF k = 0 THEN C ELSE UNION {ExpiresOne(c, F) : c \in f[k - 1]}]
  <2> HIDE DEF g
  <2>1. \A k \in 0..n : f[k] = IF k = 0 THEN C ELSE UNION {ExpiresOne(c, F) : c \in f[k - 1]}
    <3>1. ASSUME NEW k \in 0..n
          PROVE f[k] = IF k = 0 THEN C ELSE UNION {ExpiresOne(c, F) : c \in f[k - 1]}
      <4>1. f[k] = IF k = 0 THEN C ELSE UNION {g[c] : c \in f[k - 1]}
        BY <1>5 DEF Solves
      <4>2. CASE k = 0
        BY <4>1, <4>2
      <4>3. CASE k # 0
        <5>1. f[k - 1] \subseteq G
          <6>1. k - 1 \in 0..n
            BY <1>2, <4>3
          <6>2. \A j \in 0..n : f[j] \subseteq G
            BY <1>5 DEF Solves
          <6> QED BY <6>1, <6>2
        <5>2. {g[c] : c \in f[k - 1]} = {ExpiresOne(c, F) : c \in f[k - 1]}
          BY <1>4, <5>1
        <5> QED BY <4>1, <4>3, <5>2
      <4> QED BY <4>2, <4>3
    <3> QED BY <3>1
  <2>2. f = [k \in 0..n |-> f[k]]
    BY <1>5 DEF Solves
  <2> QED BY <2>1, <2>2
<1>7. a = [k \in 0..n |-> IF k = 0 THEN C ELSE UNION {ExpiresOne(c, F) : c \in a[k - 1]}]
  <2> HIDE DEF g
  <2> QED BY <1>6
<1>8. a[n] \subseteq G
  <2>1. a[0] \subseteq G
    <3>1. 0 \in 0..n
      BY <1>2
    <3> HIDE DEF a
    <3> QED BY <1>3, <1>7, <3>1
  <2>2. ASSUME NEW k \in 1..n, a[k - 1] \subseteq G PROVE a[k] \subseteq G
    <3>1. k \in 0..n /\ k # 0
      BY <1>2
    <3> HIDE DEF a
    <3>2. a[k] = UNION {ExpiresOne(c, F) : c \in a[k - 1]}
      BY <1>7, <3>1
    <3> QED BY <2>2, <3>2
  <2> HIDE DEF a
  <2> QED BY <1>2, <2>1, <2>2, PassedOn
<1>9. Expire(h, E, F) = {c.hall : c \in a[n]}
  BY <1>1, <1>3 DEF Expire, Rounds
<1> HIDE DEF a
<1> QED BY <1>8, <1>9

(* The same for the loop over the kept seats.                               *)
LEMMA FreeKeptKeep ==
  ASSUME NEW F, NEW G, NEW h \in G, h.kept \in SUBSET Viewers, NEW moved,
         \A c \in G : Vacates(c, F) \subseteq G
  PROVE  FreeKept(h, moved, F) \subseteq
           UNION {IF moved \/ h.kept \ F # {} THEN OfferFree(x, F) ELSE {x} : x \in G}
<1>1. PICK n : n = Cardinality(h.kept \ F)
  OBVIOUS
<1>2. n \in Nat
  BY <1>1, CinemaAssumption, FS_CardinalityType, FS_Subset
<1>3. PICK C : C = {h}
  OBVIOUS
<1> DEFINE g == [c \in G |-> Vacates(c, F)]
           a[k \in 0..n] == IF k = 0 THEN C ELSE UNION {Vacates(c, F) : c \in a[k - 1]}
<1>4. g \in [G -> SUBSET G] /\ \A c \in G : g[c] = Vacates(c, F)
  OBVIOUS
<1>5. PICK f : Solves(f, g, C, n, G)
  <2> HIDE DEF g
  <2>1. C \in SUBSET G
    BY <1>3
  <2> QED BY <1>2, <1>4, <2>1, RoundsExist
<1>6. f = [k \in 0..n |-> IF k = 0 THEN C ELSE UNION {Vacates(c, F) : c \in f[k - 1]}]
  <2> HIDE DEF g
  <2>1. \A k \in 0..n : f[k] = IF k = 0 THEN C ELSE UNION {Vacates(c, F) : c \in f[k - 1]}
    <3>1. ASSUME NEW k \in 0..n
          PROVE f[k] = IF k = 0 THEN C ELSE UNION {Vacates(c, F) : c \in f[k - 1]}
      <4>1. f[k] = IF k = 0 THEN C ELSE UNION {g[c] : c \in f[k - 1]}
        BY <1>5 DEF Solves
      <4>2. CASE k = 0
        BY <4>1, <4>2
      <4>3. CASE k # 0
        <5>1. f[k - 1] \subseteq G
          <6>1. k - 1 \in 0..n
            BY <1>2, <4>3
          <6>2. \A j \in 0..n : f[j] \subseteq G
            BY <1>5 DEF Solves
          <6> QED BY <6>1, <6>2
        <5>2. {g[c] : c \in f[k - 1]} = {Vacates(c, F) : c \in f[k - 1]}
          BY <1>4, <5>1
        <5> QED BY <4>1, <4>3, <5>2
      <4> QED BY <4>2, <4>3
    <3> QED BY <3>1
  <2>2. f = [k \in 0..n |-> f[k]]
    BY <1>5 DEF Solves
  <2> QED BY <2>1, <2>2
<1>7. a = [k \in 0..n |-> IF k = 0 THEN C ELSE UNION {Vacates(c, F) : c \in a[k - 1]}]
  <2> HIDE DEF g
  <2> QED BY <1>6
<1>8. a[n] \subseteq G
  <2>1. a[0] \subseteq G
    <3>1. 0 \in 0..n
      BY <1>2
    <3> HIDE DEF a
    <3> QED BY <1>3, <1>7, <3>1
  <2>2. ASSUME NEW k \in 1..n, a[k - 1] \subseteq G PROVE a[k] \subseteq G
    <3>1. k \in 0..n /\ k # 0
      BY <1>2
    <3> HIDE DEF a
    <3>2. a[k] = UNION {Vacates(c, F) : c \in a[k - 1]}
      BY <1>7, <3>1
    <3> QED BY <2>2, <3>2
  <2> HIDE DEF a
  <2> QED BY <1>2, <2>1, <2>2, PassedOn
<1>9. FreeKept(h, moved, F) =
       UNION {IF moved \/ h.kept \ F # {} THEN OfferFree(x, F) ELSE {x} : x \in a[n]}
  BY <1>1, <1>3 DEF FreeKept, Rounds
<1> HIDE DEF a
<1> QED BY <1>8, <1>9

(* The same for the loop over the seats of those who are away.              *)
LEMMA ReclaimKeep ==
  ASSUME NEW F, NEW G, NEW h, NEW L \in SUBSET Viewers,
         [hall |-> h, left |-> L, n |-> Cardinality(Able(h))] \in G,
         \A c \in G : ReclaimsOne(c, F) \subseteq G
  PROVE  Reclaim(h, L, F) \subseteq {h} \cup {c.hall : c \in G}
<1>1. PICK n : n = Cardinality(L)
  OBVIOUS
<1>2. n \in Nat
  BY <1>1, CinemaAssumption, FS_CardinalityType, FS_Subset
<1>3. PICK C : C = {[hall |-> h, left |-> L, n |-> Cardinality(Able(h))]}
  OBVIOUS
<1> DEFINE g == [c \in G |-> ReclaimsOne(c, F)]
           a[k \in 0..n] == IF k = 0 THEN C ELSE UNION {ReclaimsOne(c, F) : c \in a[k - 1]}
<1>4. g \in [G -> SUBSET G] /\ \A c \in G : g[c] = ReclaimsOne(c, F)
  OBVIOUS
<1>5. PICK f : Solves(f, g, C, n, G)
  <2> HIDE DEF g
  <2>1. C \in SUBSET G
    BY <1>3
  <2> QED BY <1>2, <1>4, <2>1, RoundsExist
<1>6. f = [k \in 0..n |-> IF k = 0 THEN C ELSE UNION {ReclaimsOne(c, F) : c \in f[k - 1]}]
  <2> HIDE DEF g
  <2>1. \A k \in 0..n : f[k] = IF k = 0 THEN C ELSE UNION {ReclaimsOne(c, F) : c \in f[k - 1]}
    <3>1. ASSUME NEW k \in 0..n
          PROVE f[k] = IF k = 0 THEN C ELSE UNION {ReclaimsOne(c, F) : c \in f[k - 1]}
      <4>1. f[k] = IF k = 0 THEN C ELSE UNION {g[c] : c \in f[k - 1]}
        BY <1>5 DEF Solves
      <4>2. CASE k = 0
        BY <4>1, <4>2
      <4>3. CASE k # 0
        <5>1. f[k - 1] \subseteq G
          <6>1. k - 1 \in 0..n
            BY <1>2, <4>3
          <6>2. \A j \in 0..n : f[j] \subseteq G
            BY <1>5 DEF Solves
          <6> QED BY <6>1, <6>2
        <5>2. {g[c] : c \in f[k - 1]} = {ReclaimsOne(c, F) : c \in f[k - 1]}
          BY <1>4, <5>1
        <5> QED BY <4>1, <4>3, <5>2
      <4> QED BY <4>2, <4>3
    <3> QED BY <3>1
  <2>2. f = [k \in 0..n |-> f[k]]
    BY <1>5 DEF Solves
  <2> QED BY <2>1, <2>2
<1>7. a = [k \in 0..n |-> IF k = 0 THEN C ELSE UNION {ReclaimsOne(c, F) : c \in a[k - 1]}]
  <2> HIDE DEF g
  <2> QED BY <1>6
<1>8. a[n] \subseteq G
  <2>1. a[0] \subseteq G
    <3>1. 0 \in 0..n
      BY <1>2
    <3> HIDE DEF a
    <3> QED BY <1>3, <1>7, <3>1
  <2>2. ASSUME NEW k \in 1..n, a[k - 1] \subseteq G PROVE a[k] \subseteq G
    <3>1. k \in 0..n /\ k # 0
      BY <1>2
    <3> HIDE DEF a
    <3>2. a[k] = UNION {ReclaimsOne(c, F) : c \in a[k - 1]}
      BY <1>7, <3>1
    <3> QED BY <2>2, <3>2
  <2> HIDE DEF a
  <2> QED BY <1>2, <2>1, <2>2, PassedOn
<1>9. Reclaim(h, L, F) = IF Able(h) = {} \/ FreeSeats(h) # {} THEN {h}
                            ELSE {c.hall : c \in a[n]}
  BY <1>1, <1>3 DEF Reclaim, Rounds
<1> HIDE DEF a
<1> QED BY <1>8, <1>9

----------------------------------------------------------------------------
(* The hall: the best spot, and a place given or taken                      *)

(* The first of a set of seats or spots is in it.                           *)
LEMMA FirstIn ==
  ASSUME NEW S \in SUBSET Nat, S # {}
  PROVE  First(S) \in S
<1>1. \E i \in S : \A j \in S : i <= j
  BY LeastOfSome
<1> QED BY <1>1 DEF First

(* The best of a set of seats is in it.                                     *)
LEMMA BestIn ==
  ASSUME NEW S \in SUBSET Seats, S # {}
  PROVE  Best(S) \in S
<1>0. Seats \subseteq Nat /\ \A i \in S : Score[i] \in Nat
  BY CinemaAssumption
<1> DEFINE T == {Score[i] : i \in S}
<1>1. T \in SUBSET Nat /\ T # {}
  BY <1>0
<1>2. PICK q \in T : \A r \in T : q <= r
  <2> HIDE DEF T
  <2> QED BY <1>1, LeastOfSome
<1> DEFINE M == {i \in S : Score[i] = q}
<1>3. M \in SUBSET Nat /\ M # {}
  BY <1>0
<1>4. PICK i \in M : \A j \in M : i <= j
  <2> HIDE DEF M
  <2> QED BY <1>3, LeastOfSome
<1>5. ASSUME NEW j \in S PROVE Score[i] < Score[j] \/ (Score[i] = Score[j] /\ i <= j)
  <2>1. q <= Score[j] /\ Score[i] = q /\ Score[i] \in Nat /\ Score[j] \in Nat
    BY <1>0, <1>2, <1>4
  <2>2. Score[j] = q => i <= j
    BY <1>4
  <2> QED BY <2>1, <2>2
<1>6. \E k \in S : \A j \in S : Score[k] < Score[j] \/ (Score[k] = Score[j] /\ k <= j)
  BY <1>4, <1>5
<1> QED BY <1>6 DEF Best

(* The best spot is free and held for nobody, or there is none.             *)
LEMMA BestSpotFree ==
  ASSUME NEW h, NEW spot, spot = BestSpot(h)
  PROVE  /\ spot \in Spots
         /\ spot # Nowhere => ~Taken(h, spot)
         /\ spot[1] = "seat" => h.offers[spot[2]] = Nobody
         /\ \A i \in Seats : spot = Seat(i) => h.offers[i] = Nobody
<1>1. CASE FreeSeats(h) # {}
  <2>1. PICK i : i = Best(FreeSeats(h))
    OBVIOUS
  <2>2. i \in FreeSeats(h)
    <3>1. FreeSeats(h) \in SUBSET Seats
      BY DEF FreeSeats
    <3> QED BY <1>1, <2>1, <3>1, BestIn
  <2>3. spot = Seat(i)
    BY <1>1, <2>1 DEF BestSpot
  <2>4. i \in Seats /\ ~Taken(h, Seat(i)) /\ h.offers[i] = Nobody
    BY <2>2 DEF FreeSeats
  <2> QED BY <2>3, <2>4, SpotFacts
<1>2. CASE FreeSeats(h) = {} /\ FreeCouch(h) # {}
  <2>1. PICK i : i = First(FreeCouch(h))
    OBVIOUS
  <2>2. i \in FreeCouch(h)
    <3>1. FreeCouch(h) \in SUBSET Nat
      BY CinemaAssumption DEF FreeCouch
    <3> QED BY <1>2, <2>1, <3>1, FirstIn
  <2>3. spot = <<"couch", i>>
    BY <1>2, <2>1 DEF BestSpot
  <2>4. i \in Couch /\ ~Taken(h, <<"couch", i>>)
    BY <2>2 DEF FreeCouch
  <2>5. <<"couch", i>> \in Spots /\ spot[1] = "couch"
    BY <2>3, <2>4, SpotFacts
  <2> QED BY <2>3, <2>4, <2>5, SpotFacts
<1>3. CASE FreeSeats(h) = {} /\ FreeCouch(h) = {}
  <2>1. spot = Nowhere
    BY <1>3 DEF BestSpot
  <2> QED BY <2>1, SpotFacts
<1> QED BY <1>1, <1>2, <1>3

(* One member, who holds no offer and is not asked to swap, is put somewhere *)
(* free or loses the place.                                                 *)
CanPut(h, u, spot) ==
  /\ OfferOf(h, u) = {}
  /\ \A t \in h.swaps : t.to # u
  /\ spot \notin {Nowhere, Nobody} => ~Taken(h, spot)
  /\ \A i \in Seats : spot = Seat(i) => h.offers[i] = Nobody

IsPut(h, x, u, spot) ==
  /\ x \in Hall /\ QueueOK(x) /\ x.kept = x.keptRow /\ x.kept \subseteq h.kept /\ KeptAway(x)
  /\ spot = Nobody => u \notin x.kept
  /\ x.place = x.row /\ \A v \in Viewers : x.place[v] = IF v = u THEN spot ELSE h.place[v]
  /\ x.joined = h.joined /\ x.client = h.client /\ x.offers = h.offers /\ x.swaps = h.swaps
  /\ \A v \in Viewers : v # u => (Asks(x, v) <=> Asks(h, v))
  /\ Asks(x, u) => spot \in Spots /\ spot[1] # "seat"

(* A place given to somebody who had none leaves a sound hall.              *)
LEMMA PutKeeps ==
  ASSUME NEW h, Base(h), StandBut(h, Nobody), NEW u \in Viewers, NEW spot \in Spots \cup {Nobody},
         CanPut(h, u, spot), NEW x, IsPut(h, x, u, spot)
  PROVE  Sound(x)
<1> USE DEF CanPut, IsPut
<1>0. h \in Hall
  BY DEF Base
<1>1. \A v \in Viewers : x.place[v] = IF v = u THEN spot ELSE h.place[v]
  OBVIOUS
<1>2. \A v \in Viewers : v # u => /\ HasPlace(x, v) <=> HasPlace(h, v)
                                  /\ OnSeat(x, v) <=> OnSeat(h, v)
  BY <1>1 DEF HasPlace, OnSeat
<1>3. HasPlace(x, u) <=> spot # Nobody
  BY <1>1 DEF HasPlace
<1>4. OnSeat(x, u) <=> spot # Nobody /\ spot[1] = "seat"
  BY <1>1 DEF OnSeat, HasPlace
<1>5. SeatsAreOwn(x)
  <2>1. x.place = x.row
    OBVIOUS
  <2>2. \A v, w \in Viewers : v # w /\ h.place[v] = h.place[w] => h.place[v] \in {Nowhere, Nobody}
    BY DEF Base, SeatsAreOwn
  <2>3. spot \in {Nowhere, Nobody} \/ \A v \in Viewers : h.place[v] # spot
    BY DEF Taken
  <2>4. \A v, w \in Viewers : v # w /\ x.place[v] = x.place[w] => x.place[v] \in {Nowhere, Nobody}
    BY <1>1, <2>2, <2>3
  <2> QED BY <2>1, <2>4 DEF SeatsAreOwn
<1>6. SwapsStand(x)
  <2>1. SwapsStand(h)
    BY DEF Base
  <2>2. \A t \in h.swaps : t.to # u /\ t.to \in Viewers
    BY <1>0, HallFacts
  <2>3. \A t \in x.swaps : x.place[t.to] = h.place[t.to]
    BY <1>1, <2>2
  <2> QED BY <2>1, <2>3 DEF SwapsStand
<1>7. Base(x)
  <2>1. \A v \in x.kept : HasPlace(x, v)
    <3>1. \A v \in x.kept : v \in Viewers /\ HasPlace(h, v)
      BY <1>0, HallFacts DEF Base
    <3> QED BY <1>2, <1>3, <3>1
  <2>2. \A v \in Viewers : OnSeat(x, v) => ~Asks(x, v)
    BY <1>2, <1>4 DEF Base
  <2>3. \A v \in Viewers : Asks(x, v) => HasPlace(x, v)
    <3>1. \A v \in Viewers : Asks(h, v) => HasPlace(h, v)
      BY DEF Base
    <3>2. Asks(x, u) => HasPlace(x, u)
      BY <1>3, SpotFacts
    <3> QED BY <1>2, <3>1, <3>2
  <2>4. \A v \in Viewers : x.client[v] # Nobody => v \in x.joined
    BY DEF Base
  <2> QED BY <1>5, <1>6, <2>1, <2>2, <2>3, <2>4 DEF Base
<1>8. StandBut(x, Nobody)
  <2>1. ASSUME NEW i \in Seats, x.offers[i] # Nobody PROVE ~Taken(x, Seat(i))
    <3>1. ~Taken(h, Seat(i)) /\ spot # Seat(i)
      BY <2>1 DEF StandBut
    <3> QED BY <1>1, <3>1 DEF Taken
  <2>2. \A i, j \in Seats : x.offers[i] # Nobody /\ x.offers[i] = x.offers[j] => i = j
    BY DEF StandBut
  <2>3. ASSUME NEW i \in Seats, x.offers[i] # Nobody PROVE x.offers[i] \in Waiting(x)
    <3>1. PICK v : v = h.offers[i]
      OBVIOUS
    <3>2. v \in Waiting(h) /\ v # u
      BY <2>3, <3>1 DEF StandBut, OfferOf
    <3>3. v \in h.joined /\ Asks(h, v) /\ HasPlace(h, v) /\ ~OnSeat(h, v) /\ v \in Viewers
      BY <1>0, <3>2, HallFacts DEF Waiting
    <3> QED BY <1>2, <3>1, <3>2, <3>3 DEF Waiting
  <2> QED BY <2>1, <2>2, <2>3 DEF StandBut
<1> QED BY <1>1, <1>7, <1>8 DEF Sound

(* A place given to somebody who has none, or one's own made of a kept one.  *)
LEMMA AutoSeatKeeps ==
  ASSUME NEW h, Base(h), StandBut(h, Nobody), NEW u \in Viewers,
         \A v \in h.kept \cap h.joined : v = u, ~KeptFaults, NEW F, NEW x, x = AutoSeat(h, u, F)
  PROVE  /\ Sound(x)
         /\ x.joined = h.joined /\ x.client = h.client /\ x.since = h.since
         /\ x.swaps = h.swaps /\ x.offers = h.offers /\ x.queue = h.queue
         /\ \A v \in Viewers : x.place[v] = h.place[v] \/ (v = u /\ h.place[v] = Nobody)
<1>0. h \in Hall /\ QueueOK(h) /\ h.kept = h.keptRow /\ KeptFaults = FALSE
  BY CinemaAssumption DEF Base
<1>1. CASE HasPlace(h, u)
  <2>1. x = [h EXCEPT !.kept = h.kept \ {u}, !.keptRow = h.kept \ {u}]
    BY <1>0, <1>1 DEF AutoSeat
  <2>2. /\ x \in Hall /\ x.kept = h.kept \ {u} /\ x.keptRow = h.kept \ {u}
        /\ x.joined = h.joined /\ x.client = h.client /\ x.since = h.since
        /\ x.place = h.place /\ x.row = h.row /\ x.queue = h.queue
        /\ x.swaps = h.swaps /\ x.offers = h.offers
    BY <1>0, <2>1 DEF Hall
  <2>3. KeptAway(x)
    BY <2>2 DEF KeptAway
  <2>4. \A v : /\ HasPlace(x, v) <=> HasPlace(h, v)
               /\ OnSeat(x, v) <=> OnSeat(h, v)
               /\ Asks(x, v) <=> Asks(h, v)
    BY <2>2 DEF HasPlace, OnSeat, Asks
  <2>5. Base(x)
    <3>1. QueueOK(x)
      BY <1>0, <2>2, QueueSame
    <3>2. SeatsAreOwn(x) /\ SwapsStand(x)
      BY <2>2 DEF Base, SeatsAreOwn, SwapsStand
    <3> QED BY <2>2, <2>4, <3>1, <3>2 DEF Base
  <2>6. StandBut(x, Nobody)
    <3>1. Waiting(x) = Waiting(h) /\ \A s : Taken(x, s) <=> Taken(h, s)
      BY <2>2, <2>4 DEF Waiting, Taken
    <3> QED BY <2>2, <3>1 DEF StandBut
  <2> QED BY <2>2, <2>3, <2>5, <2>6 DEF Sound
<1>2. CASE ~HasPlace(h, u)
  <2>1. u \notin h.kept /\ ~Asks(h, u) /\ h.place[u] = Nobody
    BY <1>2 DEF Base, HasPlace
  <2>2. Sound(h)
    BY <2>1 DEF Sound, KeptAway
  <2>3. CASE u \in F \/ ~Fits(h, u, BestSpot(h))
    <3>1. x = h
      BY <1>2, <2>3 DEF AutoSeat
    <3> QED BY <2>2, <3>1
  <2>4. CASE ~(u \in F \/ ~Fits(h, u, BestSpot(h)))
    <3>1. PICK spot : spot = BestSpot(h)
      OBVIOUS
    <3>2. x = Settle(h, u, spot)
      BY <1>2, <2>4, <3>1 DEF AutoSeat
    <3>3. /\ spot \in Spots /\ spot # Nobody
          /\ spot # Nowhere => ~Taken(h, spot)
          /\ \A i \in Seats : spot = Seat(i) => h.offers[i] = Nobody
      BY <3>1, BestSpotFree, SpotFacts
    <3>4. /\ x \in Hall
          /\ x.place = [h.place EXCEPT ![u] = spot] /\ x.row = [h.row EXCEPT ![u] = spot]
          /\ x.joined = h.joined /\ x.client = h.client /\ x.since = h.since
          /\ x.kept = h.kept /\ x.keptRow = h.keptRow /\ x.queue = h.queue
          /\ x.offers = h.offers /\ x.swaps = h.swaps
      BY <1>0, <3>2, <3>3, SettleFacts
    <3>5. OfferOf(h, u) = {}
      BY <1>2, <2>2, SoundFacts
    <3>6. \A t \in h.swaps : t.to # u
      BY <2>1, SpotFacts, HallFacts DEF Base, SwapsStand
    <3>7. QueueOK(x) /\ KeptAway(x) /\ \A v : Asks(x, v) <=> Asks(h, v)
      BY <1>0, <2>2, <3>4, QueueSame DEF Sound, KeptAway, Asks
    <3>8. Sound(x) /\ \A v \in Viewers : x.place[v] = IF v = u THEN spot ELSE h.place[v]
      <4>1. /\ spot \in Spots \cup {Nobody} /\ (spot \notin {Nowhere, Nobody} => ~Taken(h, spot))
            /\ spot = Nobody => u \notin x.kept
        BY <3>3
      <4>2. x.kept = x.keptRow /\ x.kept \subseteq h.kept
        BY <1>0, <3>4
      <4>3. /\ \A v \in Viewers : v # u => (Asks(x, v) <=> Asks(h, v))
            /\ Asks(x, u) => spot \in Spots /\ spot[1] # "seat"
        BY <2>1, <3>7
      <4>4. x.place = x.row /\ \A v \in Viewers : x.place[v] = IF v = u THEN spot ELSE h.place[v]
        BY <1>0, <3>4, HallFacts DEF Base, SeatsAreOwn
      <4>5. CanPut(h, u, spot)
        BY <3>3, <3>5, <3>6, <4>1 DEF CanPut
      <4>6. IsPut(h, x, u, spot)
        BY <3>4, <3>7, <4>1, <4>2, <4>3, <4>4 DEF IsPut
      <4> QED BY <4>1, <4>4, <4>5, <4>6, PutKeeps
    <3> QED BY <2>1, <3>4, <3>8
  <2> QED BY <2>3, <2>4
<1> QED BY <1>1, <1>2

(* Whatever was free is settled when all free seats have been offered.       *)
LEMMA OfferFreeKeeps ==
  ASSUME NEW h, Sound(h), NEW F, NEW x \in OfferFree(h, F)
  PROVE  Sound(x) /\ Later(h, x) /\ \A i \in FreeSeats(h) : Settled(x, i)
<1>0. h \in Hall
  BY DEF Sound, Base
<1>1. PICK G : G = {c \in [hall : Hall, left : SUBSET Seats] :
                      /\ Sound(c.hall) /\ Later(h, c.hall)
                      /\ \A j \in c.left : c.hall.offers[j] = Nobody
                      /\ \A j \in FreeSeats(h) : j \in c.left \/ Settled(c.hall, j)}
  OBVIOUS
<1>2. [hall |-> h, left |-> FreeSeats(h)] \in G
  <2>1. PICK c : c = [hall |-> h, left |-> FreeSeats(h)]
    OBVIOUS
  <2>2. c.hall = h /\ c.left = FreeSeats(h) /\ FreeSeats(h) \in SUBSET Seats
    BY <2>1 DEF FreeSeats
  <2>3. c \in [hall : Hall, left : SUBSET Seats]
    BY <1>0, <2>1, <2>2
  <2>4. \A j \in c.left : c.hall.offers[j] = Nobody
    BY <2>2 DEF FreeSeats
  <2> QED BY <1>1, <2>1, <2>2, <2>3, <2>4, LaterSame
<1>3. ASSUME NEW c \in G, NEW d \in OffersFirst(c, F) PROVE d \in G
  <2>0. /\ c.left \in SUBSET Seats
        /\ Sound(c.hall) /\ Later(h, c.hall)
        /\ \A j \in c.left : c.hall.offers[j] = Nobody
        /\ \A j \in FreeSeats(h) : j \in c.left \/ Settled(c.hall, j)
    BY <1>1
  <2>1. CASE c.left = {}
    BY <1>3, <2>1 DEF OffersFirst
  <2>2. CASE c.left # {}
    <3>1. PICK i : i = First(c.left)
      OBVIOUS
    <3>2. i \in c.left /\ i \in Seats
      <4>1. c.left \in SUBSET Nat
        BY <2>0, CinemaAssumption
      <4> QED BY <2>0, <2>2, <3>1, <4>1, FirstIn
    <3>3. PICK y \in Offer(c.hall, i, {}, F) :
            d = [hall |-> y, left |-> {j \in c.left \ {i} : y.offers[j] = Nobody}]
      BY <1>3, <2>2, <3>1 DEF OffersFirst
    <3>4. Sound(y) /\ Later(c.hall, y) /\ Settled(y, i)
      BY <2>0, <3>2, <3>3, OfferKeeps
    <3>5. Later(h, y)
      BY <2>0, <3>4, LaterTrans
    <3>6. d.hall = y /\ d.left = {j \in c.left \ {i} : y.offers[j] = Nobody}
      BY <3>3
    <3>7. d \in [hall : Hall, left : SUBSET Seats]
      BY <2>0, <3>3, <3>4 DEF Sound, Base
    <3>8. ASSUME NEW j \in FreeSeats(h), j \notin d.left PROVE Settled(y, j)
      <4>0. j \in Seats
        BY DEF FreeSeats
      <4>1. CASE j \notin c.left
        BY <2>0, <3>4, <4>0, <4>1 DEF Later
      <4>2. CASE j = i
        BY <3>4, <4>2
      <4>3. CASE j \in c.left /\ j # i
        <5>1. y.offers[j] # Nobody /\ c.hall.offers[j] = Nobody
          BY <2>0, <3>6, <3>8, <4>3
        <5>2. Answers(c.hall, y.offers[j])
          BY <3>4, <4>0, <5>1 DEF Later
        <5>3. Answers(y, y.offers[j])
          BY <3>4, <5>2 DEF Later, Grows, Answers
        <5> QED BY <5>1, <5>3 DEF Settled
      <4> QED BY <4>1, <4>2, <4>3
    <3>9. \A j \in d.left : d.hall.offers[j] = Nobody
      BY <3>6
    <3> QED BY <1>1, <3>4, <3>5, <3>6, <3>7, <3>8, <3>9
  <2> QED BY <2>1, <2>2
<1>4. x \in Emptied(G)
  <2>1. \A c \in G : OffersFirst(c, F) \subseteq G
    BY <1>3
  <2>2. OfferFree(h, F) \subseteq Emptied(G)
    BY <1>0, <1>2, <2>1, OfferFreeKeep
  <2> QED BY <2>2
<1>5. PICK c \in G : c.left = {} /\ x = c.hall
  BY <1>4 DEF Emptied
<1> QED BY <1>1, <1>5

(* An offer that has run out goes on, and another may run out meanwhile.     *)
LEMMA ExpireKeeps ==
  ASSUME NEW h, Sound(h), NEW E \in SUBSET Seats, NEW F, NEW x \in Expire(h, E, F)
  PROVE  Sound(x) /\ Grows(h, x)
<1>0. h \in Hall
  BY DEF Sound, Base
<1>1. PICK G : G = {c \in [hall : Hall, left : SUBSET Seats] : Sound(c.hall) /\ Grows(h, c.hall)}
  OBVIOUS
<1>2. [hall |-> h, left |-> E] \in G
  BY <1>0, <1>1, LaterSame DEF Later
<1>3. ASSUME NEW c \in G, NEW d \in ExpiresOne(c, F) PROVE d \in G
  <2>0. c.left \in SUBSET Seats /\ Sound(c.hall) /\ Grows(h, c.hall)
    BY <1>1
  <2>1. CASE c.left = {}
    BY <1>3, <2>1 DEF ExpiresOne
  <2>2. CASE c.left # {}
    <3>0. PICK i \in c.left :
            d \in {[hall |-> y, left |-> {j \in c.left \ {i} : y.offers[j] = c.hall.offers[j]}]
                   : y \in Offer(Withdraw(c.hall, i), i, c.hall.tried[i], F)}
      BY <1>3, <2>2 DEF ExpiresOne
    <3>1. PICK y \in Offer(Withdraw(c.hall, i), i, c.hall.tried[i], F) :
            d = [hall |-> y, left |-> {j \in c.left \ {i} : y.offers[j] = c.hall.offers[j]}]
      BY <3>0
    <3>2. PICK w : w = Withdraw(c.hall, i)
      OBVIOUS
    <3>3. i \in Seats /\ c.hall \in Hall
      BY <2>0 DEF Sound, Base
    <3>4. c.hall.tried[i] \in SUBSET Viewers
      BY <3>3, HallFacts
    <3>5. /\ Sound(w)
          /\ w.offers = [c.hall.offers EXCEPT ![i] = Nobody]
          /\ w.joined = c.hall.joined /\ w.client = c.hall.client /\ w.since = c.hall.since
          /\ w.place = c.hall.place /\ w.swaps = c.hall.swaps
      BY <2>0, <3>2, <3>3, WithdrawKeeps DEF Sound
    <3>6. w.offers[i] = Nobody
      BY <3>3, <3>5, HallFacts
    <3>7. Sound(y) /\ Later(w, y)
      BY <3>1, <3>2, <3>3, <3>4, <3>5, <3>6, OfferKeeps
    <3>8. Grows(h, y)
      <4>1. Grows(c.hall, w)
        BY <3>5 DEF Grows
      <4>2. Grows(c.hall, y)
        BY <3>7, <4>1, GrowsTrans DEF Later
      <4> QED BY <2>0, <4>2, GrowsTrans
    <3>9. d.hall = y /\ d \in [hall : Hall, left : SUBSET Seats]
      BY <2>0, <3>1, <3>7 DEF Sound, Base
    <3> QED BY <1>1, <3>7, <3>8, <3>9
  <2> QED BY <2>1, <2>2
<1>4. PICK c \in G : x = c.hall
  <2>1. \A c \in G : ExpiresOne(c, F) \subseteq G
    BY <1>3
  <2>2. Expire(h, E, F) \subseteq {c.hall : c \in G}
    BY <1>2, <2>1, ExpireKeep
  <2> QED BY <2>2
<1> QED BY <1>1, <1>4

----------------------------------------------------------------------------
(* The hall: seats taken back by the tick                                   *)

(* Only places of those who are not members any more are taken.              *)
Vacated(h, x) ==
  /\ x.joined = h.joined /\ x.client = h.client /\ x.since = h.since
  /\ x.swaps = h.swaps /\ x.offers = h.offers
  /\ \A v \in h.joined : x.place[v] = h.place[v]

(* A kept seat is given up: its owner's place and turn go, nothing else.    *)
LEMMA VacatesKeeps ==
  ASSUME NEW h, Sound(h), NEW F, NEW x \in Vacates(h, F)
  PROVE  Sound(x) /\ Vacated(h, x)
<1>0. h \in Hall /\ QueueOK(h) /\ h.kept = h.keptRow
  BY DEF Sound, Base
<1>1. CASE h.kept \ F = {}
  BY <1>1 DEF Vacates, Vacated
<1>2. CASE h.kept \ F # {}
  <2>1. PICK u \in h.kept \ F : x = Own(Unqueue(Settle(h, u, Nobody), u), u)
    BY <1>2 DEF Vacates
  <2>2. u \in Viewers /\ u \notin h.joined /\ u \in h.kept
    BY <1>0, <2>1, HallFacts DEF Sound, KeptAway
  <2>3. PICK y : y = Settle(h, u, Nobody)
    OBVIOUS
  <2>4. PICK z : z = Unqueue(y, u)
    OBVIOUS
  <2>5. x = Own(z, u)
    BY <2>1, <2>3, <2>4
  <2>6. /\ y \in Hall
        /\ y.place = [h.place EXCEPT ![u] = Nobody] /\ y.row = [h.row EXCEPT ![u] = Nobody]
        /\ y.joined = h.joined /\ y.client = h.client /\ y.since = h.since
        /\ y.kept = h.kept /\ y.keptRow = h.keptRow /\ y.queue = h.queue
        /\ y.offers = h.offers /\ y.tried = h.tried /\ y.swaps = h.swaps
    BY <1>0, <2>2, <2>3, SettleFacts
  <2>7. QueueOK(y) /\ Asking(y) = Asking(h)
    BY <1>0, <2>6, QueueSame
  <2>8. /\ z \in Hall
        /\ z.joined = y.joined /\ z.client = y.client /\ z.since = y.since
        /\ z.place = y.place /\ z.row = y.row
        /\ z.kept = y.kept /\ z.keptRow = y.keptRow /\ z.swaps = y.swaps
        /\ z.offers = y.offers
    BY <2>4, <2>6, UnqueueRest
  <2>9. QueueOK(z) /\ Asking(z) = Asking(h) \ {u}
    BY <2>2, <2>4, <2>6, <2>7, UnqueueKeeps
  <2>10. /\ x \in Hall
         /\ x.kept = z.kept \ {u} /\ x.keptRow = z.keptRow \ {u}
         /\ x.joined = z.joined /\ x.client = z.client /\ x.since = z.since
         /\ x.place = z.place /\ x.row = z.row /\ x.queue = z.queue
         /\ x.offers = z.offers /\ x.swaps = z.swaps
    BY <2>5, <2>8, OwnFacts
  <2>11. QueueOK(x) /\ Asking(x) = Asking(h) \ {u}
    BY <2>9, <2>10, QueueSame
  <2>12. /\ x.joined = h.joined /\ x.client = h.client /\ x.since = h.since
         /\ x.offers = h.offers /\ x.swaps = h.swaps
         /\ x.kept = h.kept \ {u} /\ x.keptRow = h.keptRow \ {u}
         /\ x.place = [h.place EXCEPT ![u] = Nobody] /\ x.row = [h.row EXCEPT ![u] = Nobody]
    BY <2>6, <2>8, <2>10
  <2>13. x.place = x.row /\ \A v \in Viewers : x.place[v] = IF v = u THEN Nobody ELSE h.place[v]
    BY <1>0, <2>12, HallFacts DEF Sound, Base, SeatsAreOwn
  <2>14. \A v \in Viewers : Asks(x, v) <=> Asks(h, v) /\ v # u
    BY <2>11 DEF Asking
  <2>15. CanPut(h, u, Nobody)
    <3>1. OfferOf(h, u) = {}
      BY <2>2, SoundFacts
    <3>2. \A t \in h.swaps : t.to # u
      BY <2>2 DEF Sound, Base, SwapsStand
    <3> QED BY <3>1, <3>2, SpotFacts DEF CanPut
  <2>16. IsPut(h, x, u, Nobody)
    <3>1. KeptAway(x)
      BY <2>12 DEF Sound, KeptAway
    <3>2. ~Asks(x, u)
      BY <2>2, <2>14
    <3> QED BY <1>0, <2>10, <2>11, <2>12, <2>13, <2>14, <3>1, <3>2 DEF IsPut
  <2>17. Sound(x)
    BY <2>2, <2>15, <2>16, PutKeeps DEF Sound
  <2>18. \A v \in h.joined : x.place[v] = h.place[v]
    BY <1>0, <2>2, <2>13, HallFacts
  <2> QED BY <2>12, <2>17, <2>18 DEF Vacated
<1> QED BY <1>1, <1>2

(* After the loop over the kept seats, every seat they had is settled.      *)
LEMMA FreeKeptKeeps ==
  ASSUME NEW h, Sound(h), NEW moved, NEW F, NEW x \in FreeKept(h, moved, F)
  PROVE  /\ Sound(x)
         /\ x.joined = h.joined /\ x.client = h.client /\ x.since = h.since
         /\ x.swaps \subseteq h.swaps
         /\ \A v \in h.joined : x.place[v] = h.place[v] \/ (h.place[v] = Nowhere /\ OnSeat(x, v))
         /\ \A i \in Seats : Taken(h, Seat(i)) => Settled(x, i)
<1>0. h \in Hall /\ h.kept \in SUBSET Viewers /\ h.joined \in SUBSET Viewers
  BY HallFacts DEF Sound, Base
<1>1. PICK G : G = {y \in Hall : Sound(y) /\ Vacated(h, y) /\ (h.kept \ F = {} => y = h)}
  OBVIOUS
<1>2. h \in G
  BY <1>0, <1>1 DEF Vacated
<1>3. ASSUME NEW y \in G, NEW z \in Vacates(y, F) PROVE z \in G
  <2>1. Sound(z) /\ Vacated(y, z)
    BY <1>1, <1>3, VacatesKeeps
  <2>2. Vacated(h, z)
    BY <1>1, <2>1 DEF Vacated
  <2>3. h.kept \ F = {} => z = h
    BY <1>1, <1>3 DEF Vacates
  <2> QED BY <1>1, <2>1, <2>2, <2>3 DEF Sound, Base
<1>4. PICK y \in G : x \in IF moved \/ h.kept \ F # {} THEN OfferFree(y, F) ELSE {y}
  <2>1. \A y \in G : Vacates(y, F) \subseteq G
    BY <1>3
  <2>2. FreeKept(h, moved, F) \subseteq
          UNION {IF moved \/ h.kept \ F # {} THEN OfferFree(y, F) ELSE {y} : y \in G}
    BY <1>0, <1>2, <2>1, FreeKeptKeep
  <2> QED BY <2>2
<1>5. Sound(y) /\ Vacated(h, y) /\ (h.kept \ F = {} => y = h)
  BY <1>1
<1>6. CASE moved \/ h.kept \ F # {}
  <2>1. x \in OfferFree(y, F)
    BY <1>4, <1>6
  <2>2. Sound(x) /\ Later(y, x) /\ \A i \in FreeSeats(y) : Settled(x, i)
    BY <1>5, <2>1, OfferFreeKeeps
  <2>3. ASSUME NEW i \in Seats, Taken(h, Seat(i)) PROVE Settled(x, i)
    <3>1. CASE Taken(y, Seat(i))
      BY <2>2, <3>1, GrowsTaken DEF Later, Settled
    <3>2. CASE ~Taken(y, Seat(i))
      <4>1. h.offers[i] = Nobody
        BY <2>3, SoundFacts
      <4>2. i \in FreeSeats(y)
        BY <1>5, <3>2, <4>1 DEF Vacated, FreeSeats
      <4> QED BY <2>2, <4>2
    <3> QED BY <3>1, <3>2
  <2>4. ASSUME NEW v \in h.joined
        PROVE  x.place[v] = h.place[v] \/ (h.place[v] = Nowhere /\ OnSeat(x, v))
    <3>1. y.place[v] = h.place[v] /\ v \in Viewers
      BY <1>0, <1>5 DEF Vacated
    <3> QED BY <2>2, <3>1 DEF Later, Grows
  <2> QED BY <1>5, <2>2, <2>3, <2>4 DEF Later, Grows, Vacated
<1>7. CASE ~(moved \/ h.kept \ F # {})
  <2>1. x = h
    BY <1>4, <1>5, <1>7
  <2> QED BY <2>1 DEF Settled
<1> QED BY <1>6, <1>7

(* Seats of those who are away are freed one after the other, each offered   *)
(* before the next.                                                         *)
Reclaimed(h, x, L) ==
  /\ x.joined = h.joined /\ x.client = h.client /\ x.since = h.since
  /\ x.swaps \subseteq h.swaps
  /\ \A v \in Viewers \ L : x.place[v] = h.place[v] \/ (h.place[v] = Nowhere /\ OnSeat(x, v))
  /\ \A i \in Seats : Settled(h, i) => Settled(x, i)

(* One seat of somebody away is taken back and settled.                     *)
LEMMA ReclaimsOneKeeps ==
  ASSUME NEW h, Sound(h), NEW u \in Viewers, OnSeat(h, u), h.client[u] = Nobody,
         \A t \in h.swaps : t.to # u, NEW F,
         NEW x \in Offer(Settle(h, u, Nowhere), h.place[u][2], {}, F)
  PROVE  Sound(x) /\ Reclaimed(h, x, {u})
<1>0. h \in Hall /\ QueueOK(h) /\ h.kept = h.keptRow /\ KeptAway(h)
  BY DEF Sound, Base
<1>1. PICK y : y = Settle(h, u, Nowhere)
  OBVIOUS
<1>2. PICK s : s = h.place[u][2]
  OBVIOUS
<1>3. s \in Seats /\ h.place[u] = Seat(s)
  <2>1. h.place[u] \in Spots
    BY <1>0, HallFacts DEF OnSeat, HasPlace
  <2> QED BY <1>2, <2>1, SpotFacts DEF OnSeat
<1>4. /\ y \in Hall
      /\ y.place = [h.place EXCEPT ![u] = Nowhere] /\ y.row = [h.row EXCEPT ![u] = Nowhere]
      /\ y.joined = h.joined /\ y.client = h.client /\ y.since = h.since
      /\ y.kept = h.kept /\ y.keptRow = h.keptRow /\ y.queue = h.queue
      /\ y.offers = h.offers /\ y.tried = h.tried /\ y.swaps = h.swaps
  BY <1>0, <1>1, SettleFacts, SpotFacts
<1>5. y.place = y.row /\ \A v \in Viewers : y.place[v] = IF v = u THEN Nowhere ELSE h.place[v]
  BY <1>0, <1>4, HallFacts DEF Sound, Base, SeatsAreOwn
<1>6. QueueOK(y) /\ KeptAway(y) /\ \A v : Asks(y, v) <=> Asks(h, v)
  BY <1>0, <1>4, QueueSame DEF KeptAway, Asks
<1>7. CanPut(h, u, Nowhere)
  <2>1. OfferOf(h, u) = {}
    BY SoundFacts
  <2> QED BY <2>1, SpotFacts DEF CanPut
<1>8. IsPut(h, y, u, Nowhere)
  BY <1>0, <1>4, <1>5, <1>6, SpotFacts DEF IsPut
<1>9. Sound(y)
  BY <1>7, <1>8, PutKeeps, SpotFacts DEF Sound
<1>10. h.offers[s] = Nobody
  <2>1. Taken(h, Seat(s))
    BY <1>3 DEF Taken
  <2> QED BY <1>3, <2>1, SoundFacts
<1>11. Sound(x) /\ Later(y, x) /\ Settled(x, s)
  BY <1>1, <1>2, <1>3, <1>4, <1>9, <1>10, OfferKeeps
<1>12. ASSUME NEW i \in Seats, Settled(h, i) PROVE Settled(x, i)
  <2>1. CASE i = s
    BY <1>11, <2>1
  <2>2. CASE i # s
    <3>1. ASSUME Taken(h, Seat(i)) PROVE Settled(y, i)
      <4>1. PICK v \in Viewers : h.place[v] = Seat(i)
        BY <3>1 DEF Taken
      <4>2. v # u
        BY <1>3, <2>2, <4>1, SpotFacts
      <4> QED BY <1>5, <4>1, <4>2 DEF Settled, Taken
    <3>2. ASSUME h.offers[i] # Nobody /\ Answers(h, h.offers[i]) PROVE Settled(y, i)
      BY <1>4, <3>2 DEF Settled, Answers
    <3>3. ASSUME Candidates(h, {}) = {} PROVE Settled(y, i)
      <4>1. ASSUME NEW v \in Candidates(y, {}) PROVE v \in Candidates(h, {})
        <5>1. v \in y.joined /\ Asks(y, v) /\ HasPlace(y, v) /\ ~OnSeat(y, v) /\ Answers(y, v)
              /\ OfferOf(y, v) = {}
          BY <4>1 DEF Candidates, Waiting
        <5>2. v \in Viewers /\ v \in h.joined /\ Answers(h, v) /\ OfferOf(h, v) = {}
          BY <1>0, <1>4, <5>1, HallFacts DEF Answers, OfferOf
        <5>3. v # u
          BY <5>2, CinemaAssumption DEF Answers
        <5>4. Asks(h, v) /\ HasPlace(h, v) /\ ~OnSeat(h, v)
          BY <1>5, <1>6, <5>1, <5>2, <5>3 DEF HasPlace, OnSeat
        <5> QED BY <5>2, <5>4 DEF Candidates, Waiting
      <4> QED BY <3>3, <4>1 DEF Settled
    <3>4. Settled(y, i)
      BY <1>12, <3>1, <3>2, <3>3 DEF Settled
    <3> QED BY <1>11, <3>4 DEF Later
  <2> QED BY <2>1, <2>2
<1>13. ASSUME NEW v \in Viewers \ {u}
       PROVE  x.place[v] = h.place[v] \/ (h.place[v] = Nowhere /\ OnSeat(x, v))
  BY <1>5, <1>11 DEF Later, Grows
<1> QED BY <1>4, <1>11, <1>12, <1>13 DEF Later, Grows, Reclaimed

(* Only people without a socket lose a seat, and each seat lost is settled. *)
LEMMA ReclaimKeeps ==
  ASSUME NEW h, Sound(h), NEW L \in SUBSET Viewers, \A u \in L : h.client[u] = Nobody,
         \A t \in h.swaps : t.to \notin L, NEW F, NEW x \in Reclaim(h, L, F)
  PROVE  Sound(x) /\ Reclaimed(h, x, L)
<1>0. h \in Hall
  BY DEF Sound, Base
<1>1. PICK G : G = {c \in [hall : Hall, left : SUBSET L, n : Int] :
                      Sound(c.hall) /\ Reclaimed(h, c.hall, L)}
  OBVIOUS
<1>2. [hall |-> h, left |-> L, n |-> Cardinality(Able(h))] \in G
  <2>1. Cardinality(Able(h)) \in Int
    <3>1. Able(h) \subseteq Viewers
      BY <1>0, HallFacts DEF Able, Waiting
    <3> QED BY <3>1, CinemaAssumption, FS_Subset, FS_CardinalityType
  <2>2. Reclaimed(h, h, L)
    BY DEF Reclaimed
  <2> QED BY <1>0, <1>1, <2>1, <2>2
<1>3. ASSUME NEW c \in G, NEW d \in ReclaimsOne(c, F) PROVE d \in G
  <2>0. /\ c \in [hall : Hall, left : SUBSET L, n : Int]
        /\ Sound(c.hall) /\ Reclaimed(h, c.hall, L)
    BY <1>1
  <2>1. CASE c.n = 0 \/ Reclaimable(c.hall, c.left) = {}
    BY <1>3, <2>1 DEF ReclaimsOne
  <2>2. CASE ~(c.n = 0 \/ Reclaimable(c.hall, c.left) = {})
    <3>1. PICK u \in Reclaimable(c.hall, c.left) :
            d \in IF u \in F THEN {[c EXCEPT !.left = @ \ {u}]}
                  ELSE {[hall |-> y, left |-> c.left \ {u}, n |-> c.n - 1] :
                        y \in Offer(Settle(c.hall, u, Nowhere), c.hall.place[u][2], {}, F)}
      BY <1>3, <2>2 DEF ReclaimsOne
    <3>2. u \in L /\ u \in Viewers /\ OnSeat(c.hall, u)
      BY <2>0, <3>1 DEF Reclaimable
    <3>3. CASE u \in F
      <4>1. d = [c EXCEPT !.left = c.left \ {u}]
        BY <3>1, <3>3
      <4>2. d.hall = c.hall /\ d \in [hall : Hall, left : SUBSET L, n : Int]
        BY <2>0, <4>1
      <4> QED BY <1>1, <2>0, <4>2
    <3>4. CASE u \notin F
      <4>1. PICK y \in Offer(Settle(c.hall, u, Nowhere), c.hall.place[u][2], {}, F) :
              d = [hall |-> y, left |-> c.left \ {u}, n |-> c.n - 1]
        BY <3>1, <3>4
      <4>2. c.hall.client[u] = Nobody /\ \A t \in c.hall.swaps : t.to # u
        BY <2>0, <3>2 DEF Reclaimed
      <4>3. Sound(y) /\ Reclaimed(c.hall, y, {u})
        BY <2>0, <3>2, <4>1, <4>2, ReclaimsOneKeeps
      <4>4. Reclaimed(h, y, L)
        <5>1. ASSUME NEW v \in Viewers \ L
              PROVE  y.place[v] = h.place[v] \/ (h.place[v] = Nowhere /\ OnSeat(y, v))
          <6>1. c.hall.place[v] = h.place[v] \/ (h.place[v] = Nowhere /\ OnSeat(c.hall, v))
            BY <2>0 DEF Reclaimed
          <6>2. y.place[v] = c.hall.place[v] \/ (c.hall.place[v] = Nowhere /\ OnSeat(y, v))
            BY <3>2, <4>3 DEF Reclaimed
          <6>3. OnSeat(c.hall, v) => c.hall.place[v] # Nowhere
            BY SpotFacts DEF OnSeat
          <6>4. OnSeat(c.hall, v) /\ y.place[v] = c.hall.place[v] => OnSeat(y, v)
            BY DEF OnSeat, HasPlace
          <6> QED BY <6>1, <6>2, <6>3, <6>4
        <5> QED BY <2>0, <4>3, <5>1 DEF Reclaimed
      <4>5. d.hall = y /\ d \in [hall : Hall, left : SUBSET L, n : Int]
        <5>1. y \in Hall
          BY <4>3 DEF Sound, Base
        <5> QED BY <2>0, <4>1, <5>1
      <4> QED BY <1>1, <4>3, <4>4, <4>5
    <3> QED BY <3>3, <3>4
  <2> QED BY <2>1, <2>2
<1>4. x = h \/ \E c \in G : x = c.hall
  <2>1. \A c \in G : ReclaimsOne(c, F) \subseteq G
    BY <1>3
  <2>2. Reclaim(h, L, F) \subseteq {h} \cup {c.hall : c \in G}
    BY <1>2, <2>1, ReclaimKeep
  <2> QED BY <2>2
<1>5. Reclaimed(h, h, L)
  BY DEF Reclaimed
<1> QED BY <1>1, <1>4, <1>5

----------------------------------------------------------------------------
(* The hall: a member leaves, two members swap                              *)

Gone(h, u) == [h EXCEPT !.joined = @ \ {u}, !.client[u] = Nobody]

(* Whoever leaves has no place, offer or request any more; the seat is      *)
(* settled.                                                                 *)
LEMMA ReleaseKeeps ==
  ASSUME NEW h, Sound(h), NEW u \in Viewers, NEW F, NEW x \in Release(Gone(h, u), u, F)
  PROVE  /\ Sound(x)
         /\ x.joined = h.joined \ {u}
         /\ \A v \in Viewers : v # u =>
              x.place[v] = h.place[v] \/ (h.place[v] = Nowhere /\ OnSeat(x, v))
         /\ \A i \in Seats : Taken(h, Seat(i)) => Settled(x, i)
<1>0. h \in Hall /\ QueueOK(h) /\ h.kept = h.keptRow /\ KeptAway(h)
  BY DEF Sound, Base
<1>1. PICK w : w = Gone(h, u)
  OBVIOUS
<1>2. /\ w \in Hall /\ w.joined = h.joined \ {u} /\ w.client = [h.client EXCEPT ![u] = Nobody]
      /\ w.place = h.place /\ w.row = h.row /\ w.queue = h.queue
      /\ w.kept = h.kept /\ w.keptRow = h.keptRow /\ w.since = h.since
      /\ w.offers = h.offers /\ w.swaps = h.swaps
  <2>1. PICK client : client = [h.client EXCEPT ![u] = Nobody]
    OBVIOUS
  <2>2. client \in [Viewers -> {"cinema", "old", Nobody}]
    BY <1>0, <2>1, HallFacts
  <2>3. w = [h EXCEPT !.joined = h.joined \ {u}, !.client = client]
    BY <1>1, <2>1 DEF Gone
  <2> QED BY <1>0, <2>1, <2>2, <2>3 DEF Hall
<1>3. PICK d : d = DropSwaps(w, u)
  OBVIOUS
<1>4. /\ d \in Hall
      /\ d.swaps = {s \in h.swaps : s.from # u /\ s.to # u}
      /\ d.joined = h.joined \ {u} /\ d.client = [h.client EXCEPT ![u] = Nobody] /\ d.since = h.since
      /\ d.place = h.place /\ d.row = h.row /\ d.queue = h.queue
      /\ d.kept = h.kept /\ d.keptRow = h.keptRow
      /\ d.offers = h.offers
  BY <1>2, <1>3, DropFacts
<1>5. \A v : /\ HasPlace(d, v) <=> HasPlace(h, v)
             /\ OnSeat(d, v) <=> OnSeat(h, v)
             /\ Asks(d, v) <=> Asks(h, v)
             /\ Taken(d, v) <=> Taken(h, v)
  BY <1>4 DEF HasPlace, OnSeat, Asks, Taken
<1>6. Base(d)
  <2>1. QueueOK(d)
    BY <1>0, <1>4, QueueSame
  <2>2. SeatsAreOwn(d)
    BY <1>4 DEF Sound, Base, SeatsAreOwn
  <2>3. SwapsStand(d)
    <3>1. SwapsStand(h)
      BY DEF Sound, Base
    <3> QED BY <1>4, <3>1 DEF SwapsStand
  <2>4. \A v \in Viewers : d.client[v] # Nobody => v \in d.joined
    <3>1. \A v \in Viewers : d.client[v] = IF v = u THEN Nobody ELSE h.client[v]
      BY <1>0, <1>4, HallFacts
    <3> QED BY <1>4, <3>1 DEF Sound, Base
  <2>5. \A t \in d.swaps : t.from # t.to
    BY <1>4 DEF Sound, Base
  <2>6. \A v \in d.kept : HasPlace(d, v)
    BY <1>4, <1>5 DEF Sound, Base
  <2>7. \A v \in Viewers : (OnSeat(d, v) => ~Asks(d, v)) /\ (Asks(d, v) => HasPlace(d, v))
    BY <1>5 DEF Sound, Base
  <2> QED BY <1>0, <1>4, <2>1, <2>2, <2>3, <2>4, <2>5, <2>6, <2>7 DEF Base
<1>7. KeptAway(d)
  BY <1>0, <1>4 DEF KeptAway
<1>8. StandBut(d, u)
  <2>1. ASSUME NEW i \in Seats, d.offers[i] # Nobody, d.offers[i] # u PROVE d.offers[i] \in Waiting(d)
    <3>1. h.offers[i] \in Waiting(h)
      BY <1>4, <2>1 DEF Sound, StandBut
    <3> QED BY <1>4, <1>5, <2>1, <3>1 DEF Waiting
  <2> QED BY <1>4, <1>5, <2>1 DEF Sound, StandBut
<1>9. PICK y \in GiveBack(d, u, F) :
        x \in IF ~HasPlace(y, u) \/ u \in F THEN {y}
              ELSE LET gone == [Own(Unqueue(Settle(y, u, Nobody), u), u) EXCEPT !.since = @ \ {u}]
                   IN IF OnSeat(y, u) THEN Offer(gone, y.place[u][2], {}, F) ELSE {gone}
  BY <1>1, <1>3 DEF Release
<1>10. Sound(y) /\ Grows(d, y)
  BY <1>6, <1>7, <1>8, <1>9, GiveBackKeeps
<1>11. y.joined = h.joined \ {u}
       /\ \A v \in Viewers : y.place[v] = h.place[v] \/ (h.place[v] = Nowhere /\ OnSeat(y, v))
  BY <1>4, <1>10 DEF Grows
<1>12. \A i \in Seats : Taken(h, Seat(i)) => Taken(y, Seat(i))
  BY <1>5, <1>10, GrowsTaken
<1>13. CASE ~HasPlace(y, u) \/ u \in F
  <2>1. x = y
    BY <1>9, <1>13
  <2> QED BY <1>10, <1>11, <1>12, <2>1 DEF Settled
<1>14. CASE HasPlace(y, u) /\ u \notin F
  <2>0. y \in Hall /\ QueueOK(y) /\ y.kept = y.keptRow
    BY <1>10 DEF Sound, Base
  <2>1. PICK s : s = Settle(y, u, Nobody)
    OBVIOUS
  <2>2. PICK q : q = Unqueue(s, u)
    OBVIOUS
  <2>3. PICK o : o = Own(q, u)
    OBVIOUS
  <2>4. PICK gone : gone = [o EXCEPT !.since = @ \ {u}]
    OBVIOUS
  <2>5. x \in IF OnSeat(y, u) THEN Offer(gone, y.place[u][2], {}, F) ELSE {gone}
    BY <1>9, <1>14, <2>1, <2>2, <2>3, <2>4
  <2>6. /\ s \in Hall
        /\ s.place = [y.place EXCEPT ![u] = Nobody] /\ s.row = [y.row EXCEPT ![u] = Nobody]
        /\ s.joined = y.joined /\ s.client = y.client /\ s.since = y.since
        /\ s.kept = y.kept /\ s.keptRow = y.keptRow /\ s.queue = y.queue
        /\ s.offers = y.offers /\ s.swaps = y.swaps
    BY <2>0, <2>1, SettleFacts
  <2>7. QueueOK(s) /\ Asking(s) = Asking(y)
    BY <2>0, <2>6, QueueSame
  <2>8. /\ q \in Hall
        /\ q.joined = s.joined /\ q.client = s.client /\ q.since = s.since
        /\ q.place = s.place /\ q.row = s.row
        /\ q.kept = s.kept /\ q.keptRow = s.keptRow /\ q.swaps = s.swaps
        /\ q.offers = s.offers
    BY <2>2, <2>6, UnqueueRest
  <2>9. QueueOK(q) /\ Asking(q) = Asking(y) \ {u}
    BY <2>2, <2>6, <2>7, UnqueueKeeps
  <2>10. /\ o \in Hall
         /\ o.kept = q.kept \ {u} /\ o.keptRow = q.keptRow \ {u}
         /\ o.joined = q.joined /\ o.client = q.client /\ o.since = q.since
         /\ o.place = q.place /\ o.row = q.row /\ o.queue = q.queue
         /\ o.offers = q.offers /\ o.swaps = q.swaps
    BY <2>3, <2>8, OwnFacts
  <2>11. /\ gone \in Hall
         /\ gone.kept = o.kept /\ gone.keptRow = o.keptRow
         /\ gone.joined = o.joined /\ gone.client = o.client
         /\ gone.place = o.place /\ gone.row = o.row /\ gone.queue = o.queue
         /\ gone.offers = o.offers /\ gone.swaps = o.swaps
    BY <2>4, <2>10 DEF Hall
  <2>12. QueueOK(gone) /\ Asking(gone) = Asking(y) \ {u}
    BY <2>9, <2>10, <2>11, QueueSame
  <2>13. /\ gone.joined = y.joined /\ gone.client = y.client
         /\ gone.offers = y.offers /\ gone.swaps = y.swaps
         /\ gone.kept = y.kept \ {u} /\ gone.keptRow = y.keptRow \ {u}
         /\ gone.place = [y.place EXCEPT ![u] = Nobody] /\ gone.row = [y.row EXCEPT ![u] = Nobody]
    BY <2>6, <2>8, <2>10, <2>11
  <2>14. gone.place = gone.row /\ \A v \in Viewers : gone.place[v] = IF v = u THEN Nobody ELSE y.place[v]
    BY <1>10, <2>0, <2>13, HallFacts DEF Sound, Base, SeatsAreOwn
  <2>15. \A v \in Viewers : Asks(gone, v) <=> Asks(y, v) /\ v # u
    BY <2>12 DEF Asking
  <2>16. OfferOf(y, u) = {}
    BY <1>10, <1>11, SoundFacts
  <2>17. CanPut(y, u, Nobody)
    <3>1. \A t \in y.swaps : t.to # u
      BY <1>10, <1>11 DEF Sound, Base, SwapsStand
    <3> QED BY <2>16, <3>1, SpotFacts DEF CanPut
  <2>18. IsPut(y, gone, u, Nobody)
    <3>1. KeptAway(gone)
      BY <1>10, <2>13 DEF Sound, KeptAway
    <3>2. ~Asks(gone, u)
      BY <2>15
    <3> QED BY <2>0, <2>11, <2>12, <2>13, <2>14, <2>15, <3>1, <3>2 DEF IsPut
  <2>19. Sound(gone)
    BY <1>10, <2>17, <2>18, PutKeeps DEF Sound
  <2>20. CASE ~OnSeat(y, u)
    <3>1. x = gone
      BY <2>5, <2>20
    <3>2. ASSUME NEW i \in Seats, Taken(h, Seat(i)) PROVE Taken(gone, Seat(i))
      <4>1. PICK v \in Viewers : y.place[v] = Seat(i)
        BY <1>12, <3>2 DEF Taken
      <4>2. v # u
        BY <2>20, <4>1, SpotFacts DEF OnSeat, HasPlace
      <4> QED BY <2>14, <4>1, <4>2 DEF Taken
    <3>3. \A v \in Viewers : v # u =>
            gone.place[v] = h.place[v] \/ (h.place[v] = Nowhere /\ OnSeat(gone, v))
      BY <1>11, <2>14 DEF OnSeat, HasPlace
    <3> QED BY <1>11, <2>13, <2>19, <3>1, <3>2, <3>3 DEF Settled
  <2>21. CASE OnSeat(y, u)
    <3>1. PICK s2 : s2 = y.place[u][2]
      OBVIOUS
    <3>2. s2 \in Seats /\ y.place[u] = Seat(s2)
      <4>1. y.place[u] \in Spots
        BY <2>0, <2>21, HallFacts DEF OnSeat, HasPlace
      <4> QED BY <2>21, <3>1, <4>1, SpotFacts DEF OnSeat
    <3>3. gone.offers[s2] = Nobody
      <4>1. Taken(y, Seat(s2))
        BY <3>2 DEF Taken
      <4> QED BY <1>10, <2>13, <3>2, <4>1, SoundFacts
    <3>4. Sound(x) /\ Later(gone, x) /\ Settled(x, s2)
      BY <2>5, <2>19, <2>21, <3>1, <3>2, <3>3, OfferKeeps
    <3>5. ASSUME NEW i \in Seats, Taken(h, Seat(i)) PROVE Settled(x, i)
      <4>1. PICK v \in Viewers : y.place[v] = Seat(i)
        BY <1>12, <3>5 DEF Taken
      <4>2. CASE v = u
        BY <3>2, <3>4, <4>1, <4>2, SpotFacts
      <4>3. CASE v # u
        <5>1. Taken(gone, Seat(i))
          BY <2>14, <4>1, <4>3 DEF Taken
        <5> QED BY <3>4, <5>1, GrowsTaken DEF Later, Settled
      <4> QED BY <4>2, <4>3
    <3>6. ASSUME NEW v \in Viewers, v # u
          PROVE x.place[v] = h.place[v] \/ (h.place[v] = Nowhere /\ OnSeat(x, v))
      <4>1. x.place[v] = y.place[v] \/ (y.place[v] = Nowhere /\ OnSeat(x, v))
        BY <2>14, <3>4, <3>6 DEF Later, Grows
      <4>2. y.place[v] = h.place[v] \/ (h.place[v] = Nowhere /\ OnSeat(y, v))
        BY <1>11
      <4>3. OnSeat(y, v) => y.place[v] # Nowhere
        BY SpotFacts DEF OnSeat
      <4>4. OnSeat(y, v) /\ x.place[v] = y.place[v] => OnSeat(x, v)
        BY DEF OnSeat, HasPlace
      <4> QED BY <4>1, <4>2, <4>3, <4>4
    <3> QED BY <1>11, <2>13, <3>4, <3>5, <3>6 DEF Later, Grows
  <2> QED BY <2>20, <2>21
<1> QED BY <1>13, <1>14

(* Two rows change places: nobody loses a seat they were not asked for.     *)
LEMMA SwapKeeps ==
  ASSUME NEW h, Sound(h), NEW s \in [from : Viewers, to : Viewers, idx : Seats],
         s.from \in h.joined, s.to \in h.joined, s.from # s.to, h.place[s.to] = Seat(s.idx),
         ~KeptFaults, NEW F, NEW x \in Swap(h, s, F)
  PROVE  /\ Sound(x)
         /\ \A i \in Seats : Taken(h, Seat(i)) => Taken(x, Seat(i))
         /\ \A v \in Viewers : v # s.to /\ OnSeat(h, v) => OnSeat(x, v)
<1> DEFINE a == s.from
           b == s.to
<1>0. a \in Viewers /\ b \in Viewers /\ a # b /\ s.idx \in Seats
  OBVIOUS
<1>1. PICK y : y = IF HasPlace(h, a) THEN h ELSE AutoSeat(h, a, F)
  OBVIOUS
<1>2. Sound(y) /\ y.joined = h.joined
      /\ \A v \in Viewers : y.place[v] = h.place[v] \/ (v = a /\ h.place[v] = Nobody)
  <2>1. CASE HasPlace(h, a)
    BY <1>1, <2>1
  <2>2. CASE ~HasPlace(h, a)
    <3>1. y = AutoSeat(h, a, F)
      BY <1>1, <2>2
    <3>2. \A v \in h.kept \cap h.joined : v = a
      BY DEF Sound, KeptAway
    <3> QED BY <1>0, <3>1, <3>2, AutoSeatKeeps DEF Sound
  <2> QED BY <2>1, <2>2
<1>3. \A i \in Seats : Taken(h, Seat(i)) => Taken(y, Seat(i))
  BY <1>2, SpotFacts DEF Taken
<1>4. \A v \in Viewers : OnSeat(h, v) => OnSeat(y, v)
  BY <1>2 DEF OnSeat, HasPlace
<1>5. PICK p : p = Settle(y, a, y.place[b])
  OBVIOUS
<1>6. PICK done : done = Settle(p, b, y.place[a])
  OBVIOUS
<1>7. x \in IF ~HasPlace(y, a) \/ {a, b} \cap F # {} THEN {y}
            ELSE GiveBack(DropSwaps(DropSwaps(Unqueue(done, a), a), b), a, F)
  BY <1>1, <1>5, <1>6 DEF Swap
<1>8. CASE ~HasPlace(y, a) \/ {a, b} \cap F # {}
  <2>1. x = y
    BY <1>7, <1>8
  <2> QED BY <1>2, <1>3, <1>4, <2>1
<1>9. CASE HasPlace(y, a) /\ {a, b} \cap F = {}
  <2>0. y \in Hall /\ QueueOK(y) /\ y.kept = y.keptRow /\ KeptAway(y)
    BY <1>2 DEF Sound, Base
  <2>1. y.place[b] = Seat(s.idx) /\ y.place[b] \in Spots /\ y.place[b] # Nowhere
        /\ y.place[b] # Nobody /\ y.place[b][1] = "seat"
    BY <1>0, <1>2, SpotFacts
  <2>2. y.place[a] \in Spots /\ y.place[a] # Nobody
    BY <1>0, <1>9, <2>0, HallFacts DEF HasPlace
  <2>3. /\ p \in Hall
        /\ p.place = [y.place EXCEPT ![a] = y.place[b]] /\ p.row = [y.row EXCEPT ![a] = y.place[b]]
        /\ p.joined = y.joined /\ p.client = y.client /\ p.since = y.since
        /\ p.kept = y.kept /\ p.keptRow = y.keptRow /\ p.queue = y.queue
        /\ p.offers = y.offers /\ p.swaps = y.swaps
    BY <1>0, <1>5, <2>0, <2>1, SettleFacts
  <2>4. /\ done \in Hall
        /\ done.place = [p.place EXCEPT ![b] = y.place[a]] /\ done.row = [p.row EXCEPT ![b] = y.place[a]]
        /\ done.joined = p.joined /\ done.client = p.client /\ done.since = p.since
        /\ done.kept = p.kept /\ done.keptRow = p.keptRow /\ done.queue = p.queue
        /\ done.offers = p.offers /\ done.swaps = p.swaps
    BY <1>0, <1>6, <2>2, <2>3, SettleFacts
  <2>5. PICK q : q = Unqueue(done, a)
    OBVIOUS
  <2>6. PICK r : r = DropSwaps(q, a)
    OBVIOUS
  <2>7. PICK z : z = DropSwaps(r, b)
    OBVIOUS
  <2>8. /\ q \in Hall
        /\ q.joined = done.joined /\ q.client = done.client /\ q.since = done.since
        /\ q.place = done.place /\ q.row = done.row
        /\ q.kept = done.kept /\ q.keptRow = done.keptRow /\ q.swaps = done.swaps
        /\ q.offers = done.offers
    BY <2>4, <2>5, UnqueueRest
  <2>9. QueueOK(done) /\ Asking(done) = Asking(y)
    BY <2>0, <2>3, <2>4, QueueSame
  <2>10. QueueOK(q) /\ Asking(q) = Asking(y) \ {a}
    BY <1>0, <2>4, <2>5, <2>9, UnqueueKeeps
  <2>11. /\ r \in Hall
         /\ r.swaps = {t \in q.swaps : t.from # a /\ t.to # a}
         /\ r.joined = q.joined /\ r.client = q.client /\ r.since = q.since
         /\ r.place = q.place /\ r.row = q.row /\ r.queue = q.queue
         /\ r.kept = q.kept /\ r.keptRow = q.keptRow
         /\ r.offers = q.offers
    BY <2>6, <2>8, DropFacts
  <2>12. /\ z \in Hall
         /\ z.swaps = {t \in r.swaps : t.from # b /\ t.to # b}
         /\ z.joined = r.joined /\ z.client = r.client /\ z.since = r.since
         /\ z.place = r.place /\ z.row = r.row /\ z.queue = r.queue
         /\ z.kept = r.kept /\ z.keptRow = r.keptRow
         /\ z.offers = r.offers
    BY <2>7, <2>11, DropFacts
  <2>13. /\ z.joined = y.joined /\ z.client = y.client /\ z.queue = q.queue
         /\ z.kept = y.kept /\ z.keptRow = y.keptRow /\ z.offers = y.offers
         /\ z.swaps \subseteq y.swaps /\ \A t \in z.swaps : t.to # a /\ t.to # b
         /\ z.place = [[y.place EXCEPT ![a] = y.place[b]] EXCEPT ![b] = y.place[a]]
         /\ z.row = [[y.row EXCEPT ![a] = y.place[b]] EXCEPT ![b] = y.place[a]]
    BY <2>3, <2>4, <2>8, <2>11, <2>12
  <2>14. \A v \in Viewers : z.place[v] = IF v = a THEN y.place[b] ELSE IF v = b THEN y.place[a]
                                         ELSE y.place[v]
    BY <1>0, <2>0, <2>13, HallFacts
  <2>15. QueueOK(z) /\ Asking(z) = Asking(y) \ {a}
    BY <2>10, <2>13, QueueSame
  <2>16. \A v \in Viewers : Asks(z, v) <=> Asks(y, v) /\ v # a
    BY <2>15 DEF Asking
  <2>17. OnSeat(y, b) /\ ~Asks(y, b)
    <3>1. OnSeat(y, b)
      BY <2>1 DEF OnSeat, HasPlace
    <3> QED BY <1>0, <1>2, <3>1 DEF Sound, Base
  <2>18. OnSeat(z, a) /\ (OnSeat(z, b) <=> OnSeat(y, a))
    BY <1>0, <2>1, <2>2, <2>14 DEF OnSeat, HasPlace
  <2>19. \A v \in Viewers \ {a, b} : /\ HasPlace(z, v) <=> HasPlace(y, v)
                                     /\ OnSeat(z, v) <=> OnSeat(y, v)
    BY <2>14 DEF OnSeat, HasPlace
  <2>20. \A i \in Seats : Taken(z, Seat(i)) <=> Taken(y, Seat(i))
    <3>1. ASSUME NEW i \in Seats, Taken(z, Seat(i)) PROVE Taken(y, Seat(i))
      BY <1>0, <2>14, <3>1 DEF Taken
    <3>2. ASSUME NEW i \in Seats, Taken(y, Seat(i)) PROVE Taken(z, Seat(i))
      <4>1. PICK v \in Viewers : y.place[v] = Seat(i)
        BY <3>2 DEF Taken
      <4>2. CASE v = a
        BY <1>0, <2>14, <4>1, <4>2 DEF Taken
      <4>3. CASE v = b
        BY <1>0, <2>14, <4>1, <4>3 DEF Taken
      <4>4. CASE v # a /\ v # b
        BY <1>0, <2>14, <4>1, <4>4 DEF Taken
      <4> QED BY <4>2, <4>3, <4>4
    <3> QED BY <3>1, <3>2
  <2>21. SeatsAreOwn(z)
    <3>1. z.place = z.row
      BY <1>2, <2>13 DEF Sound, Base, SeatsAreOwn
    <3>2. \A v, w \in Viewers : v # w /\ y.place[v] = y.place[w] => y.place[v] \in {Nowhere, Nobody}
      BY <1>2 DEF Sound, Base, SeatsAreOwn
    <3>3. ASSUME NEW v \in Viewers, NEW w \in Viewers, v # w, z.place[v] = z.place[w]
          PROVE  z.place[v] \in {Nowhere, Nobody}
      <4>1. PICK v2 \in Viewers : v2 = IF v = a THEN b ELSE IF v = b THEN a ELSE v
        BY <1>0
      <4>2. PICK w2 \in Viewers : w2 = IF w = a THEN b ELSE IF w = b THEN a ELSE w
        BY <1>0
      <4>3. v2 # w2
        BY <1>0, <3>3, <4>1, <4>2
      <4>4. z.place[v] = y.place[v2] /\ z.place[w] = y.place[w2]
        BY <1>0, <2>14, <4>1, <4>2
      <4> QED BY <3>2, <3>3, <4>3, <4>4
    <3> QED BY <3>1, <3>3 DEF SeatsAreOwn
  <2>22. SwapsStand(z)
    <3>1. SwapsStand(y) /\ y.swaps \subseteq [from : Viewers, to : Viewers, idx : Seats]
      BY <1>2, <2>0, HallFacts DEF Sound, Base
    <3>2. \A t \in z.swaps : t \in y.swaps /\ t.to \in Viewers /\ z.place[t.to] = y.place[t.to]
      BY <2>13, <2>14, <3>1
    <3> QED BY <2>13, <3>1, <3>2 DEF SwapsStand
  <2>23. Base(z)
    <3>1. z.kept = z.keptRow
      BY <2>0, <2>13
    <3>2. \A v \in z.kept : HasPlace(z, v)
      <4>1. \A v \in z.kept : v \in Viewers /\ v # a /\ v # b /\ HasPlace(y, v)
        BY <1>2, <2>0, <2>13, HallFacts DEF Sound, Base, KeptAway
      <4> QED BY <2>19, <4>1
    <3>3. \A v \in Viewers : OnSeat(z, v) => ~Asks(z, v)
      <4>1. \A v \in Viewers : OnSeat(y, v) => ~Asks(y, v)
        BY <1>2 DEF Sound, Base
      <4> QED BY <2>16, <2>17, <2>19, <4>1
    <3>4. \A v \in Viewers : Asks(z, v) => HasPlace(z, v)
      <4>1. \A v \in Viewers : Asks(y, v) => HasPlace(y, v)
        BY <1>2 DEF Sound, Base
      <4> QED BY <2>16, <2>17, <2>19, <4>1
    <3>5. \A v \in Viewers : z.client[v] # Nobody => v \in z.joined
      BY <1>2, <2>13 DEF Sound, Base
    <3>6. \A t \in z.swaps : t.from # t.to
      BY <1>2, <2>13 DEF Sound, Base
    <3> QED BY <2>12, <2>15, <2>21, <2>22, <3>1, <3>2, <3>3, <3>4, <3>5, <3>6 DEF Base
  <2>24. KeptAway(z)
    BY <2>0, <2>13 DEF KeptAway
  <2>25. StandBut(z, a)
    <3>1. \A i \in Seats : z.offers[i] # Nobody => ~Taken(z, Seat(i))
      BY <1>2, <2>13, <2>20 DEF Sound, StandBut
    <3>2. \A i, j \in Seats : z.offers[i] # Nobody /\ z.offers[i] = z.offers[j] => i = j
      BY <1>2, <2>13 DEF Sound, StandBut
    <3>3. ASSUME NEW i \in Seats, z.offers[i] # Nobody, z.offers[i] # a
          PROVE  z.offers[i] \in Waiting(z)
      <4>1. PICK v : v = y.offers[i]
        OBVIOUS
      <4>2. v \in Waiting(y) /\ v # a
        BY <1>2, <2>13, <3>3, <4>1 DEF Sound, StandBut
      <4>3. v \in y.joined /\ v \in Viewers /\ Asks(y, v) /\ HasPlace(y, v) /\ ~OnSeat(y, v)
        BY <2>0, <4>2, HallFacts DEF Waiting
      <4>4. v # b
        BY <2>17, <4>3
      <4>5. Asks(z, v) /\ HasPlace(z, v) /\ ~OnSeat(z, v)
        BY <2>16, <2>19, <4>2, <4>3, <4>4
      <4> QED BY <2>13, <4>1, <4>3, <4>5 DEF Waiting
    <3> QED BY <3>1, <3>2, <3>3 DEF StandBut
  <2>26. x \in GiveBack(z, a, F)
    BY <1>7, <1>9, <2>5, <2>6, <2>7
  <2>27. Sound(x) /\ Grows(z, x)
    BY <1>0, <2>23, <2>24, <2>25, <2>26, GiveBackKeeps
  <2>28. \A i \in Seats : Taken(h, Seat(i)) => Taken(x, Seat(i))
    BY <1>3, <2>20, <2>27, GrowsTaken
  <2>29. ASSUME NEW v \in Viewers, v # b, OnSeat(h, v) PROVE OnSeat(x, v)
    <3>1. OnSeat(z, v)
      BY <1>4, <2>18, <2>19, <2>29
    <3>2. z.place[v] # Nowhere
      BY <3>1, SpotFacts DEF OnSeat
    <3>3. x.place[v] = z.place[v]
      BY <2>27, <3>2 DEF Grows
    <3> QED BY <3>1, <3>3 DEF OnSeat, HasPlace
  <2> QED BY <2>27, <2>28, <2>29
<1> QED BY <1>8, <1>9

----------------------------------------------------------------------------
(* The hall: every action                                                   *)

(* Whoever is connected and on a seat stays on one, or was asked to swap.    *)
Stays(h, x) ==
  \A u \in h.joined \cap x.joined :
    h.client[u] # Nobody /\ x.client[u] # Nobody /\ OnSeat(h, u)
      => x.place[u] \notin {Nobody, Nowhere} \/ \E s \in h.swaps : s.to = u

Frees(h, x) == \A i \in Seats : Taken(h, Seat(i)) => Settled(x, i)

StepOK(h, x) == Sound(x) /\ Stays(h, x) /\ Frees(h, x)

(* A chain of calls makes a step of the specification that keeps all we     *)
(* prove.                                                                   *)
LEMMA GrowsOK ==
  ASSUME NEW h, NEW w, NEW x, h \in Hall, w.place = h.place, Grows(w, x), Sound(x)
  PROVE  StepOK(h, x)
<1>1. \A u \in Viewers : OnSeat(h, u) => x.place[u] \notin {Nobody, Nowhere}
  <2>1. \A u \in Viewers : OnSeat(h, u) => h.place[u] \notin {Nobody, Nowhere}
    BY SpotFacts DEF OnSeat, HasPlace
  <2> QED BY <2>1 DEF Grows
<1>2. Stays(h, x)
  BY <1>1, HallFacts DEF Stays
<1>3. ASSUME NEW i \in Seats, Taken(h, Seat(i)) PROVE Settled(x, i)
  <2>1. Taken(w, Seat(i))
    BY <1>3 DEF Taken
  <2> QED BY <2>1, GrowsTaken DEF Settled
<1> QED BY <1>2, <1>3 DEF StepOK, Frees

(* So does a step in which nobody moves.                                    *)
LEMMA SamePlaceOK ==
  ASSUME NEW h \in Hall, NEW x, Sound(x),
         \A v \in Viewers : x.place[v] = h.place[v] \/ h.place[v] = Nobody
  PROVE  StepOK(h, x)
<1>1. \A u \in Viewers : OnSeat(h, u) => x.place[u] \notin {Nobody, Nowhere}
  BY SpotFacts DEF OnSeat, HasPlace
<1>2. Stays(h, x)
  BY <1>1, HallFacts DEF Stays
<1>3. ASSUME NEW i \in Seats, Taken(h, Seat(i)) PROVE Settled(x, i)
  BY <1>3, SpotFacts DEF Taken, Settled
<1> QED BY <1>2, <1>3 DEF StepOK, Frees

(* What is sound does not depend on sockets, nor on which requests to swap   *)
(* stand.                                                                   *)
LEMMA SameSound ==
  ASSUME NEW h, Sound(h), NEW x \in Hall, x.place = h.place, x.row = h.row, x.kept = h.kept,
         x.keptRow = h.keptRow, x.queue = h.queue, x.joined = h.joined, x.offers = h.offers,
         \A v \in Viewers : x.client[v] # Nobody => v \in x.joined,
         SwapsStand(x), \A t \in x.swaps : t.from # t.to
  PROVE  Sound(x)
<1>1. \A v : /\ HasPlace(x, v) <=> HasPlace(h, v)
             /\ OnSeat(x, v) <=> OnSeat(h, v)
             /\ Asks(x, v) <=> Asks(h, v)
             /\ Taken(x, v) <=> Taken(h, v)
  BY DEF HasPlace, OnSeat, Asks, Taken
<1>2. QueueOK(x)
  BY QueueSame DEF Sound, Base
<1>3. SeatsAreOwn(x)
  BY DEF Sound, Base, SeatsAreOwn
<1>4. Base(x)
  BY <1>1, <1>2, <1>3 DEF Sound, Base
<1>5. KeptAway(x)
  BY DEF Sound, KeptAway
<1>6. Waiting(x) = Waiting(h)
  BY <1>1 DEF Waiting
<1>7. StandBut(x, Nobody)
  BY <1>1, <1>6 DEF Sound, StandBut
<1> QED BY <1>4, <1>5, <1>7 DEF Sound

Opens(h, u, app, S) == [h EXCEPT !.client[u] = app, !.since = S]

(* A socket that opens or closes leaves a sound hall.                       *)
LEMMA ClientKeeps ==
  ASSUME NEW h, Sound(h), NEW u \in Viewers, NEW app \in {"cinema", "old", Nobody},
         app # Nobody => u \in h.joined, NEW S \in SUBSET Viewers,
         NEW x, x = Opens(h, u, app, S)
  PROVE  Sound(x) /\ x.place = h.place /\ x.joined = h.joined /\ x.swaps = h.swaps /\ x.kept = h.kept
<1>0. h \in Hall
  BY DEF Sound, Base
<1>1. PICK client : client = [h.client EXCEPT ![u] = app]
  OBVIOUS
<1>2. client \in [Viewers -> {"cinema", "old", Nobody}]
  BY <1>0, <1>1, HallFacts
<1>3. x = [h EXCEPT !.client = client, !.since = S]
  BY <1>1 DEF Opens
<1>4. /\ x \in Hall /\ x.client = client
      /\ x.place = h.place /\ x.row = h.row /\ x.kept = h.kept
      /\ x.keptRow = h.keptRow /\ x.queue = h.queue /\ x.joined = h.joined /\ x.offers = h.offers
      /\ x.swaps = h.swaps
  BY <1>0, <1>2, <1>3 DEF Hall
<1>5. \A v \in Viewers : x.client[v] = IF v = u THEN app ELSE h.client[v]
  BY <1>0, <1>1, <1>4, HallFacts
<1>6. \A v \in Viewers : x.client[v] # Nobody => v \in x.joined
  BY <1>4, <1>5 DEF Sound, Base
<1>7. SwapsStand(x) /\ \A t \in x.swaps : t.from # t.to
  BY <1>4 DEF Sound, Base, SwapsStand
<1> QED BY <1>4, <1>6, <1>7, SameSound

(* cinemaJoinedLocked.                                                      *)
LEMMA JoinOK ==
  ASSUME Sound(hall), ~KeptFaults, NEW u \in Viewers, Join(u)
  PROVE  StepOK(hall, hall')
<1>0. hall \in Hall
  BY DEF Sound, Base
<1>1. PICK F \in Faults : hall' = AutoSeat([hall EXCEPT !.joined = @ \cup {u}], u, F)
  BY DEF Join
<1>2. PICK w : w = [hall EXCEPT !.joined = @ \cup {u}]
  OBVIOUS
<1>3. /\ w \in Hall /\ w.joined = hall.joined \cup {u} /\ w.client = hall.client
      /\ w.place = hall.place /\ w.row = hall.row /\ w.kept = hall.kept
      /\ w.keptRow = hall.keptRow /\ w.queue = hall.queue /\ w.offers = hall.offers
      /\ w.swaps = hall.swaps
  BY <1>0, <1>2 DEF Hall
<1>4. \A v : /\ HasPlace(w, v) <=> HasPlace(hall, v)
             /\ OnSeat(w, v) <=> OnSeat(hall, v)
             /\ Asks(w, v) <=> Asks(hall, v)
             /\ Taken(w, v) <=> Taken(hall, v)
  BY <1>3 DEF HasPlace, OnSeat, Asks, Taken
<1>5. Base(w)
  <2>1. QueueOK(w)
    BY <1>3, QueueSame DEF Sound, Base
  <2>2. SeatsAreOwn(w) /\ SwapsStand(w)
    BY <1>3 DEF Sound, Base, SeatsAreOwn, SwapsStand
  <2>3. \A v \in Viewers : w.client[v] # Nobody => v \in w.joined
    BY <1>3 DEF Sound, Base
  <2>4. w.kept = w.keptRow /\ \A t \in w.swaps : t.from # t.to
    BY <1>3 DEF Sound, Base
  <2>5. \A v \in w.kept : HasPlace(w, v)
    BY <1>3, <1>4 DEF Sound, Base
  <2>6. \A v \in Viewers : (OnSeat(w, v) => ~Asks(w, v)) /\ (Asks(w, v) => HasPlace(w, v))
    BY <1>4 DEF Sound, Base
  <2> QED BY <1>3, <2>1, <2>2, <2>3, <2>4, <2>5, <2>6 DEF Base
<1>6. StandBut(w, Nobody)
  <2>1. Waiting(hall) \subseteq Waiting(w)
    BY <1>3, <1>4 DEF Waiting
  <2> QED BY <1>3, <1>4, <2>1 DEF Sound, StandBut
<1>7. \A v \in w.kept \cap w.joined : v = u
  BY <1>3 DEF Sound, KeptAway
<1>8. PICK x : x = hall'
  OBVIOUS
<1>9. x = AutoSeat(w, u, F)
  BY <1>1, <1>2, <1>8
<1>10. Sound(x) /\ \A v \in Viewers : x.place[v] = w.place[v] \/ (v = u /\ w.place[v] = Nobody)
  BY <1>5, <1>6, <1>7, <1>9, AutoSeatKeeps
<1> QED BY <1>0, <1>3, <1>8, <1>10, SamePlaceOK

(* cinemaLeftLocked.                                                        *)
LEMMA LeaveOK ==
  ASSUME Sound(hall), NEW u \in Viewers, LeaveHall(u)
  PROVE  StepOK(hall, hall')
<1>0. hall \in Hall
  BY DEF Sound, Base
<1>1. PICK F \in Faults :
        hall' \in Release(Gone(hall, u), u, F)
  BY DEF LeaveHall, Gone
<1>2. PICK x : x = hall'
  OBVIOUS
<1>3. /\ Sound(x) /\ x.joined = hall.joined \ {u}
      /\ \A v \in Viewers : v # u =>
           x.place[v] = hall.place[v] \/ (hall.place[v] = Nowhere /\ OnSeat(x, v))
      /\ \A i \in Seats : Taken(hall, Seat(i)) => Settled(x, i)
  BY <1>1, <1>2, ReleaseKeeps
<1>4. Stays(hall, x)
  <2>1. ASSUME NEW v \in hall.joined \cap x.joined, OnSeat(hall, v)
        PROVE  x.place[v] \notin {Nobody, Nowhere}
    <3>1. v \in Viewers /\ v # u
      BY <1>0, <1>3, <2>1, HallFacts
    <3>2. hall.place[v] \notin {Nobody, Nowhere}
      BY <2>1, SpotFacts DEF OnSeat, HasPlace
    <3> QED BY <1>3, <3>1, <3>2
  <2> QED BY <2>1 DEF Stays
<1> QED BY <1>2, <1>3, <1>4 DEF StepOK, Frees

(* cinemaConnectedLocked.                                                   *)
LEMMA OpenOK ==
  ASSUME Sound(hall), ~KeptFaults, NEW u \in Viewers, NEW app \in {"cinema", "old"},
         OpenSocket(u, app)
  PROVE  StepOK(hall, hall')
<1>0. hall \in Hall /\ u \in hall.joined
  BY DEF Sound, Base, OpenSocket, InHall
<1>1. PICK w : w = [hall EXCEPT !.client[u] = app, !.since = @ \ {u}]
  OBVIOUS
<1>2. PICK S : S = hall.since \ {u}
  OBVIOUS
<1>3. S \in SUBSET Viewers /\ w = Opens(hall, u, app, S)
  BY <1>0, <1>1, <1>2, HallFacts DEF Opens
<1>4. Sound(w) /\ w.place = hall.place /\ w.joined = hall.joined /\ w.swaps = hall.swaps
      /\ w.kept = hall.kept
  <2>1. app \in {"cinema", "old", Nobody}
    OBVIOUS
  <2> QED BY <1>0, <1>3, <2>1, ClientKeeps
<1>5. PICK F \in Faults :
        \/ ~HasPlace(w, u) /\ hall' = AutoSeat(w, u, F)
        \/ BestSpot(w) # Nowhere /\ w.place[u] = Nowhere /\ hall' \in Move(w, u, BestSpot(w), F)
        \/ hall' = w
  BY <1>1 DEF OpenSocket
<1>6. PICK x : x = hall'
  OBVIOUS
<1>7. CASE ~HasPlace(w, u) /\ x = AutoSeat(w, u, F)
  <2>1. \A v \in w.kept \cap w.joined : v = u
    BY <1>4 DEF Sound, KeptAway
  <2>2. Sound(x) /\ \A v \in Viewers : x.place[v] = w.place[v] \/ (v = u /\ w.place[v] = Nobody)
    BY <1>4, <1>7, <2>1, AutoSeatKeeps DEF Sound
  <2> QED BY <1>0, <1>4, <1>6, <2>2, SamePlaceOK
<1>8. CASE BestSpot(w) # Nowhere /\ w.place[u] = Nowhere /\ x \in Move(w, u, BestSpot(w), F)
  <2>1. PICK spot : spot = BestSpot(w)
    OBVIOUS
  <2>2. /\ spot \in Spots /\ spot # Nowhere /\ ~Taken(w, spot)
        /\ spot[1] = "seat" => w.offers[spot[2]] = Nobody
    BY <1>8, <2>1, BestSpotFree
  <2>3. /\ Sound(x) /\ Moves(w, x, u)
        /\ \A i \in Seats : Taken(w, Seat(i)) => Settled(x, i)
    BY <1>4, <1>8, <2>1, <2>2, MoveKeeps
  <2>4. Frees(hall, x)
    BY <1>4, <2>3 DEF Frees, Taken
  <2>5. Stays(hall, x)
    <3>1. ASSUME NEW v \in hall.joined \cap x.joined, OnSeat(hall, v)
          PROVE  x.place[v] \notin {Nobody, Nowhere}
      <4>1. v \in Viewers /\ hall.place[v] \notin {Nobody, Nowhere}
        BY <1>0, <3>1, SpotFacts, HallFacts DEF OnSeat, HasPlace
      <4> QED BY <1>4, <2>3, <4>1 DEF Moves
    <3> QED BY <3>1 DEF Stays
  <2> QED BY <1>6, <2>3, <2>4, <2>5 DEF StepOK
<1>9. CASE x = w
  BY <1>0, <1>4, <1>6, <1>9, SamePlaceOK
<1> QED BY <1>5, <1>6, <1>7, <1>8, <1>9

(* A socket closes.                                                         *)
LEMMA CloseOK ==
  ASSUME Sound(hall), NEW u \in Viewers, CloseSocket(u)
  PROVE  StepOK(hall, hall')
<1>0. hall \in Hall
  BY DEF Sound, Base
<1>1. PICK S : S = hall.since \cup {u}
  OBVIOUS
<1>2. PICK x : x = hall'
  OBVIOUS
<1>3. S \in SUBSET Viewers /\ x = Opens(hall, u, Nobody, S)
  BY <1>0, <1>1, <1>2, HallFacts DEF CloseSocket, Opens
<1>4. Sound(x) /\ x.place = hall.place
  BY <1>3, ClientKeeps
<1> QED BY <1>0, <1>2, <1>4, SamePlaceOK

(* loadCinema.                                                              *)
LEMMA ReloadOK ==
  ASSUME Sound(hall), ReloadHall
  PROVE  StepOK(hall, hall')
<1>0. hall \in Hall /\ hall.row = hall.place /\ hall.keptRow = hall.kept /\ QueueOK(hall)
  BY DEF Sound, Base, SeatsAreOwn
<1>1. PICK x : x = hall'
  OBVIOUS
<1>2. PICK client : client = [v \in Viewers |-> Nobody]
  OBVIOUS
<1>3. PICK offers : offers = [i \in Seats |-> Nobody]
  OBVIOUS
<1>4. PICK tried : tried = [i \in Seats |-> {}]
  OBVIOUS
<1>5. PICK since : since = {v \in Viewers : hall.row[v] # Nobody}
  OBVIOUS
<1>6. x = [hall EXCEPT !.place = hall.row, !.kept = hall.keptRow, !.client = client,
                       !.since = since, !.offers = offers, !.tried = tried, !.swaps = {}]
  BY <1>1, <1>2, <1>3, <1>4, <1>5 DEF ReloadHall
<1>7. /\ client \in [Viewers -> {"cinema", "old", Nobody}] /\ since \in SUBSET Viewers
      /\ offers \in [Seats -> Viewers \cup {Nobody}] /\ tried \in [Seats -> SUBSET Viewers]
  BY <1>2, <1>3, <1>4, <1>5
<1>8. /\ x \in Hall /\ x.place = hall.place /\ x.row = hall.row /\ x.kept = hall.kept
      /\ x.keptRow = hall.keptRow /\ x.queue = hall.queue /\ x.joined = hall.joined
      /\ x.client = client /\ x.offers = offers /\ x.swaps = {}
  BY <1>0, <1>6, <1>7 DEF Hall
<1>9. \A v : /\ HasPlace(x, v) <=> HasPlace(hall, v)
             /\ OnSeat(x, v) <=> OnSeat(hall, v)
             /\ Asks(x, v) <=> Asks(hall, v)
  BY <1>8 DEF HasPlace, OnSeat, Asks
<1>10. Base(x)
  <2>1. QueueOK(x)
    BY <1>0, <1>8, QueueSame
  <2>2. SeatsAreOwn(x) /\ SwapsStand(x)
    BY <1>8 DEF Sound, Base, SeatsAreOwn, SwapsStand
  <2>3. \A v \in Viewers : x.client[v] = Nobody
    BY <1>2, <1>8
  <2>4. \A v \in x.kept : HasPlace(x, v)
    BY <1>8, <1>9 DEF Sound, Base
  <2>5. \A v \in Viewers : (OnSeat(x, v) => ~Asks(x, v)) /\ (Asks(x, v) => HasPlace(x, v))
    BY <1>9 DEF Sound, Base
  <2> QED BY <1>0, <1>8, <2>1, <2>2, <2>3, <2>4, <2>5 DEF Base
<1>11. KeptAway(x)
  BY <1>8 DEF Sound, KeptAway
<1>12. StandBut(x, Nobody)
  BY <1>3, <1>8 DEF StandBut
<1>13. Sound(x)
  BY <1>10, <1>11, <1>12 DEF Sound
<1> QED BY <1>0, <1>1, <1>8, <1>13, SamePlaceOK

(* handleCinemaSeat.                                                        *)
LEMMA SitOK ==
  ASSUME Sound(hall), NEW u \in Viewers, NEW spot \in Spots, Sit(u, spot)
  PROVE  StepOK(hall, hall')
<1>0. hall \in Hall
  BY DEF Sound, Base
<1>1. /\ spot # Nowhere /\ ~Taken(hall, spot)
      /\ spot[1] = "seat" => hall.offers[spot[2]] \in {Nobody, u}
  BY DEF Sit
<1>2. PICK F \in Faults : hall' \in Move(Take(hall, u, spot), u, spot, F)
  BY DEF Sit
<1>3. PICK w : w = Take(hall, u, spot)
  OBVIOUS
<1>4. PICK x : x = hall'
  OBVIOUS
<1>5. /\ Sound(w) /\ w.place = hall.place /\ w.joined = hall.joined /\ w.client = hall.client
      /\ w.swaps = hall.swaps
      /\ spot[1] = "seat" => w.offers[spot[2]] = Nobody
  <2>1. CASE spot[1] = "seat" /\ hall.offers[spot[2]] = u
    <3>1. w = Withdraw(hall, spot[2]) /\ spot[2] \in Seats
      BY <1>3, <2>1, SpotFacts DEF Take
    <3>2. /\ Sound(w)
          /\ w.offers = [hall.offers EXCEPT ![spot[2]] = Nobody]
          /\ w.joined = hall.joined /\ w.client = hall.client
          /\ w.place = hall.place /\ w.swaps = hall.swaps
      BY <3>1, WithdrawKeeps DEF Sound
    <3>3. w.offers[spot[2]] = Nobody
      BY <1>0, <3>1, <3>2, HallFacts
    <3> QED BY <3>2, <3>3
  <2>2. CASE ~(spot[1] = "seat" /\ hall.offers[spot[2]] = u)
    <3>1. w = hall
      BY <1>3, <2>2 DEF Take
    <3> QED BY <1>1, <2>2, <3>1
  <2> QED BY <2>1, <2>2
<1>6. ~Taken(w, spot)
  BY <1>1, <1>5 DEF Taken
<1>7. /\ Sound(x) /\ Moves(w, x, u)
      /\ \A i \in Seats : Taken(w, Seat(i)) => Settled(x, i)
  BY <1>1, <1>2, <1>3, <1>4, <1>5, <1>6, MoveKeeps
<1>8. Frees(hall, x)
  BY <1>5, <1>7 DEF Frees, Taken
<1>9. Stays(hall, x)
  <2>1. ASSUME NEW v \in hall.joined \cap x.joined, OnSeat(hall, v)
        PROVE  x.place[v] \notin {Nobody, Nowhere}
    <3>1. v \in Viewers /\ hall.place[v] \notin {Nobody, Nowhere}
      BY <1>0, <2>1, SpotFacts, HallFacts DEF OnSeat, HasPlace
    <3> QED BY <1>5, <1>7, <3>1 DEF Moves
  <2> QED BY <2>1 DEF Stays
<1> QED BY <1>4, <1>7, <1>8, <1>9 DEF StepOK

(* handleCinemaView.                                                        *)
LEMMA ViewOK ==
  ASSUME Sound(hall), ~KeptFaults, NEW u \in Viewers, View(u)
  PROVE  StepOK(hall, hall')
<1>0. hall \in Hall
  BY DEF Sound, Base
<1>1. PICK x : x = hall'
  OBVIOUS
<1>2. PICK F \in Faults : x = AutoSeat(hall, u, F)
  BY <1>1 DEF View
<1>3. \A v \in hall.kept \cap hall.joined : v = u
  BY DEF Sound, KeptAway
<1>4. Sound(x) /\ \A v \in Viewers : x.place[v] = hall.place[v] \/ (v = u /\ hall.place[v] = Nobody)
  BY <1>2, <1>3, AutoSeatKeeps DEF Sound
<1> QED BY <1>0, <1>1, <1>4, SamePlaceOK

(* handleCinemaNotify, on.                                                  *)
LEMMA NotifyOK ==
  ASSUME Sound(hall), ~KeptFaults, NEW u \in Viewers, Notify(u)
  PROVE  StepOK(hall, hall')
<1>0. hall \in Hall /\ ~Asks(hall, u)
  BY DEF Sound, Base, Notify
<1>1. PICK x : x = hall'
  OBVIOUS
<1>2. PICK F \in Faults :
        LET h == IF ~HasPlace(hall, u) THEN AutoSeat(hall, u, F) ELSE hall
        IN IF ~HasPlace(h, u) \/ OnSeat(h, u) \/ u \in F
             THEN x = h ELSE x \in OfferFree(Enqueue(h, u), F)
  BY <1>1 DEF Notify
<1>3. PICK h : h = IF ~HasPlace(hall, u) THEN AutoSeat(hall, u, F) ELSE hall
  OBVIOUS
<1>4. /\ Sound(h) /\ h.queue = hall.queue
      /\ \A v \in Viewers : h.place[v] = hall.place[v] \/ (v = u /\ hall.place[v] = Nobody)
  <2>1. CASE ~HasPlace(hall, u)
    <3>1. h = AutoSeat(hall, u, F)
      BY <1>3, <2>1
    <3>2. \A v \in hall.kept \cap hall.joined : v = u
      BY DEF Sound, KeptAway
    <3> QED BY <3>1, <3>2, AutoSeatKeeps DEF Sound
  <2>2. CASE HasPlace(hall, u)
    BY <1>3, <2>2
  <2> QED BY <2>1, <2>2
<1>5. CASE ~HasPlace(h, u) \/ OnSeat(h, u) \/ u \in F
  <2>1. x = h
    BY <1>2, <1>3, <1>5
  <2> QED BY <1>0, <1>1, <1>4, <2>1, SamePlaceOK
<1>6. CASE ~(~HasPlace(h, u) \/ OnSeat(h, u) \/ u \in F)
  <2>1. PICK w : w = Enqueue(h, u)
    OBVIOUS
  <2>2. x \in OfferFree(w, F)
    BY <1>2, <1>3, <1>6, <2>1
  <2>3. h \in Hall /\ QueueOK(h) /\ ~Asks(h, u)
    BY <1>0, <1>4 DEF Sound, Base, Asks
  <2>4. /\ w \in Hall /\ QueueOK(w) /\ Asking(w) = Asking(h) \cup {u}
        /\ w.joined = h.joined /\ w.client = h.client /\ w.since = h.since
        /\ w.place = h.place /\ w.row = h.row
        /\ w.kept = h.kept /\ w.keptRow = h.keptRow /\ w.swaps = h.swaps
        /\ w.offers = h.offers
    BY <2>1, <2>3, EnqueueKeeps
  <2>5. \A v \in Viewers : Asks(w, v) <=> Asks(h, v) \/ v = u
    BY <2>4 DEF Asking
  <2>6. \A v : /\ HasPlace(w, v) <=> HasPlace(h, v)
               /\ OnSeat(w, v) <=> OnSeat(h, v)
               /\ Taken(w, v) <=> Taken(h, v)
    BY <2>4 DEF HasPlace, OnSeat, Taken
  <2>7. Base(w)
    <3>1. SeatsAreOwn(w) /\ SwapsStand(w)
      BY <1>4, <2>4 DEF Sound, Base, SeatsAreOwn, SwapsStand
    <3>2. \A v \in Viewers : w.client[v] # Nobody => v \in w.joined
      BY <1>4, <2>4 DEF Sound, Base
    <3>3. \A v \in w.kept : HasPlace(w, v)
      BY <1>4, <2>4, <2>6 DEF Sound, Base
    <3>4. \A v \in Viewers : (OnSeat(w, v) => ~Asks(w, v)) /\ (Asks(w, v) => HasPlace(w, v))
      BY <1>4, <1>6, <2>5, <2>6 DEF Sound, Base
    <3>5. w.kept = w.keptRow /\ \A t \in w.swaps : t.from # t.to
      BY <1>4, <2>4 DEF Sound, Base
    <3> QED BY <2>4, <3>1, <3>2, <3>3, <3>4, <3>5 DEF Base
  <2>8. KeptAway(w)
    BY <1>4, <2>4 DEF Sound, KeptAway
  <2>9. StandBut(w, Nobody)
    <3>1. Waiting(h) \subseteq Waiting(w)
      <4>1. Waiting(h) \subseteq Viewers
        BY <2>3, HallFacts DEF Waiting
      <4> QED BY <2>4, <2>5, <2>6, <4>1 DEF Waiting
    <3> QED BY <1>4, <2>4, <2>6, <3>1 DEF Sound, StandBut
  <2>10. Sound(w)
    BY <2>7, <2>8, <2>9 DEF Sound
  <2>11. Sound(x) /\ Later(w, x)
    BY <2>2, <2>10, OfferFreeKeeps
  <2>12. StepOK(h, x)
    BY <2>3, <2>4, <2>11, GrowsOK DEF Later
  <2>13. Frees(hall, x)
    BY <1>4, <2>12, SpotFacts DEF Frees, StepOK, Taken
  <2>14. Stays(hall, x)
    <3>1. ASSUME NEW v \in hall.joined \cap x.joined, OnSeat(hall, v)
          PROVE  x.place[v] \notin {Nobody, Nowhere}
      <4>1. v \in Viewers /\ hall.place[v] \notin {Nobody, Nowhere}
        BY <1>0, <3>1, SpotFacts, HallFacts DEF OnSeat, HasPlace
      <4>2. w.place[v] = hall.place[v]
        BY <1>4, <2>4, <4>1
      <4> QED BY <2>11, <4>1, <4>2 DEF Later, Grows
    <3> QED BY <3>1 DEF Stays
  <2> QED BY <1>1, <2>11, <2>13, <2>14 DEF StepOK
<1> QED BY <1>5, <1>6

(* An offer goes back while nobody moves.                                   *)
LEMMA GiveBackOK ==
  ASSUME Sound(hall), NEW u \in Viewers, NEW F, NEW w, Base(w), KeptAway(w), StandBut(w, u),
         w.place = hall.place, NEW x \in GiveBack(w, u, F)
  PROVE  StepOK(hall, x)
<1>1. Sound(x) /\ Grows(w, x)
  BY GiveBackKeeps
<1>2. hall \in Hall
  BY DEF Sound, Base
<1> QED BY <1>1, <1>2, GrowsOK

(* handleCinemaNotify, off.                                                 *)
LEMMA NotifyOffOK ==
  ASSUME Sound(hall), NEW u \in Viewers, NotifyOff(u)
  PROVE  StepOK(hall, hall')
<1>0. hall \in Hall /\ QueueOK(hall)
  BY DEF Sound, Base
<1>1. PICK F \in Faults : hall' \in GiveBack(Unqueue(hall, u), u, F)
  BY DEF NotifyOff
<1>2. PICK w : w = Unqueue(hall, u)
  OBVIOUS
<1>3. /\ w \in Hall
      /\ w.joined = hall.joined /\ w.client = hall.client /\ w.since = hall.since
      /\ w.place = hall.place /\ w.row = hall.row
      /\ w.kept = hall.kept /\ w.keptRow = hall.keptRow /\ w.swaps = hall.swaps
      /\ w.offers = hall.offers
  BY <1>0, <1>2, UnqueueRest
<1>4. QueueOK(w) /\ Asking(w) = Asking(hall) \ {u}
  BY <1>0, <1>2, UnqueueKeeps
<1>5. \A v \in Viewers : Asks(w, v) <=> Asks(hall, v) /\ v # u
  BY <1>4 DEF Asking
<1>6. \A v : /\ HasPlace(w, v) <=> HasPlace(hall, v)
             /\ OnSeat(w, v) <=> OnSeat(hall, v)
             /\ Taken(w, v) <=> Taken(hall, v)
  BY <1>3 DEF HasPlace, OnSeat, Taken
<1>7. Base(w)
  <2>1. SeatsAreOwn(w) /\ SwapsStand(w)
    BY <1>3 DEF Sound, Base, SeatsAreOwn, SwapsStand
  <2>2. \A v \in Viewers : w.client[v] # Nobody => v \in w.joined
    BY <1>3 DEF Sound, Base
  <2>3. \A v \in w.kept : HasPlace(w, v)
    BY <1>3, <1>6 DEF Sound, Base
  <2>4. \A v \in Viewers : (OnSeat(w, v) => ~Asks(w, v)) /\ (Asks(w, v) => HasPlace(w, v))
    BY <1>5, <1>6 DEF Sound, Base
  <2>5. w.kept = w.keptRow /\ \A t \in w.swaps : t.from # t.to
    BY <1>3 DEF Sound, Base
  <2> QED BY <1>3, <1>4, <2>1, <2>2, <2>3, <2>4, <2>5 DEF Base
<1>8. KeptAway(w)
  BY <1>3 DEF Sound, KeptAway
<1>9. StandBut(w, u)
  <2>1. ASSUME NEW i \in Seats, w.offers[i] # Nobody, w.offers[i] # u PROVE w.offers[i] \in Waiting(w)
    <3>1. hall.offers[i] \in Waiting(hall)
      BY <1>3, <2>1 DEF Sound, StandBut
    <3>2. hall.offers[i] \in Viewers
      BY <1>0, <3>1, HallFacts DEF Waiting
    <3> QED BY <1>3, <1>5, <1>6, <2>1, <3>1, <3>2 DEF Waiting
  <2> QED BY <1>3, <1>6, <2>1 DEF Sound, StandBut
<1>10. PICK x : x = hall'
  OBVIOUS
<1>11. x \in GiveBack(w, u, F)
  BY <1>1, <1>2, <1>10
<1> QED BY <1>3, <1>7, <1>8, <1>9, <1>10, <1>11, GiveBackOK

(* handleCinemaOfferDecline.                                                *)
LEMMA DeclineOK ==
  ASSUME Sound(hall), NEW u \in Viewers, Decline(u)
  PROVE  StepOK(hall, hall')
<1>1. PICK x : x = hall'
  OBVIOUS
<1>2. PICK F \in Faults : x \in GiveBack(hall, u, F)
  BY <1>1 DEF Decline
<1>3. StandBut(hall, u)
  BY DEF Sound, StandBut
<1> QED BY <1>1, <1>2, <1>3, GiveBackOK DEF Sound

(* A request to swap more, or fewer.                                         *)
SwapsSet(h, S) == [h EXCEPT !.swaps = S]

CanSwap(h, s, S) ==
  /\ h.place[s.to] = Seat(s.idx)
  /\ s.from \in h.joined /\ s.to \in h.joined /\ s.from # s.to
  /\ \A t \in S : t.from = s.from => t = s

(* Requests that stand leave the hall sound.                                *)
LEMMA SwapsKeep ==
  ASSUME NEW h, Sound(h), NEW S \in SUBSET [from : Viewers, to : Viewers, idx : Seats],
         NEW x, x = SwapsSet(h, S), \A s \in S : CanSwap(h, s, S)
  PROVE  Sound(x) /\ x.place = h.place /\ x.joined = h.joined /\ x.client = h.client
         /\ x.since = h.since /\ x.swaps = S /\ x.offers = h.offers
<1>0. h \in Hall
  BY DEF Sound, Base
<1>1. /\ x \in Hall /\ x.swaps = S
      /\ x.place = h.place /\ x.row = h.row /\ x.kept = h.kept /\ x.client = h.client
      /\ x.keptRow = h.keptRow /\ x.queue = h.queue /\ x.joined = h.joined /\ x.offers = h.offers
      /\ x.since = h.since
  BY <1>0 DEF Hall, SwapsSet
<1>2. SwapsStand(x) /\ \A t \in x.swaps : t.from # t.to
  BY <1>1 DEF SwapsStand, CanSwap
<1>3. \A v \in Viewers : x.client[v] # Nobody => v \in x.joined
  BY <1>1 DEF Sound, Base
<1> QED BY <1>1, <1>2, <1>3, SameSound

(* Fewer requests do, too.                                                  *)
LEMMA FewerSwaps ==
  ASSUME NEW h, Sound(h), NEW S \in SUBSET h.swaps, NEW x, x = SwapsSet(h, S)
  PROVE  Sound(x) /\ x.place = h.place /\ x.joined = h.joined /\ x.client = h.client
         /\ x.since = h.since /\ x.swaps = S /\ x.offers = h.offers
<1>1. S \in SUBSET [from : Viewers, to : Viewers, idx : Seats]
  BY HallFacts DEF Sound, Base
<1>2. \A s \in S : CanSwap(h, s, S)
  BY DEF Sound, Base, SwapsStand, CanSwap
<1> QED BY <1>1, <1>2, SwapsKeep

(* handleCinemaSwap.                                                        *)
LEMMA AskSwapOK ==
  ASSUME Sound(hall), NEW u \in Viewers, NEW i \in Seats, AskSwap(u, i)
  PROVE  StepOK(hall, hall')
<1>0. hall \in Hall /\ u \in hall.joined
  BY DEF Sound, Base, AskSwap, InHall
<1>1. PICK v \in hall.joined \ {u} :
        /\ hall.place[v] = Seat(i)
        /\ hall' = [hall EXCEPT !.swaps =
                     {s \in @ : s.from # u} \cup {[to |-> v, from |-> u, idx |-> i]}]
  BY DEF AskSwap
<1>2. PICK r : r = [to |-> v, from |-> u, idx |-> i]
  OBVIOUS
<1>3. PICK S : S = {s \in hall.swaps : s.from # u} \cup {r}
  OBVIOUS
<1>4. PICK x : x = hall'
  OBVIOUS
<1>5. x = SwapsSet(hall, S)
  BY <1>1, <1>2, <1>3, <1>4 DEF SwapsSet
<1>6. v \in Viewers /\ v # u /\ hall.swaps \subseteq [from : Viewers, to : Viewers, idx : Seats]
  BY <1>0, HallFacts
<1>7. r \in [from : Viewers, to : Viewers, idx : Seats] /\ r.to = v /\ r.from = u /\ r.idx = i
  BY <1>2, <1>6
<1>8. S \in SUBSET [from : Viewers, to : Viewers, idx : Seats]
  BY <1>3, <1>6, <1>7
<1>9. ASSUME NEW s \in S
      PROVE  CanSwap(hall, s, S)
  <2>1. CASE s = r
    BY <1>0, <1>1, <1>3, <1>6, <1>7, <2>1 DEF CanSwap
  <2>2. CASE s \in hall.swaps /\ s.from # u
    BY <1>3, <1>7, <2>2 DEF Sound, Base, SwapsStand, CanSwap
  <2> QED BY <1>3, <2>1, <2>2
<1>10. Sound(x) /\ x.place = hall.place
  BY <1>5, <1>8, <1>9, SwapsKeep
<1> QED BY <1>0, <1>4, <1>10, SamePlaceOK

(* decideSwap.                                                              *)
LEMMA AnswerSwapOK ==
  ASSUME Sound(hall), ~KeptFaults, NEW s \in hall.swaps, NEW accept \in BOOLEAN,
         AnswerSwap(s, accept)
  PROVE  StepOK(hall, hall')
<1>0. hall \in Hall /\ s \in [from : Viewers, to : Viewers, idx : Seats]
  BY HallFacts DEF Sound, Base
<1>1. PICK x : x = hall'
  OBVIOUS
<1>2. PICK h : h = [hall EXCEPT !.swaps = @ \ {s}]
  OBVIOUS
<1>3. PICK F \in Faults : x \in IF accept /\ StillThere(h, s) THEN Swap(h, s, F) ELSE {h}
  BY <1>1, <1>2 DEF AnswerSwap
<1>4. /\ Sound(h) /\ h.place = hall.place /\ h.joined = hall.joined /\ h.client = hall.client
      /\ h.swaps = hall.swaps \ {s}
  <2>1. PICK S : S = hall.swaps \ {s}
    OBVIOUS
  <2>2. h = SwapsSet(hall, S)
    BY <1>2, <2>1 DEF SwapsSet
  <2> QED BY <2>1, <2>2, FewerSwaps
<1>5. CASE accept /\ StillThere(h, s)
  <2>1. x \in Swap(h, s, F)
    BY <1>3, <1>5
  <2>2. /\ s.from \in h.joined /\ s.to \in h.joined /\ s.from # s.to
        /\ h.place[s.to] = Seat(s.idx)
    BY <1>4 DEF Sound, Base, SwapsStand
  <2>3. /\ Sound(x)
        /\ \A i \in Seats : Taken(h, Seat(i)) => Taken(x, Seat(i))
        /\ \A v \in Viewers : v # s.to /\ OnSeat(h, v) => OnSeat(x, v)
    BY <1>0, <1>4, <2>1, <2>2, SwapKeeps
  <2>4. Frees(hall, x)
    BY <1>4, <2>3 DEF Frees, Settled, Taken
  <2>5. Stays(hall, x)
    <3>1. ASSUME NEW v \in hall.joined \cap x.joined, OnSeat(hall, v), v # s.to
          PROVE  x.place[v] \notin {Nobody, Nowhere}
      <4>1. v \in Viewers /\ OnSeat(h, v)
        BY <1>0, <1>4, <3>1, HallFacts DEF OnSeat, HasPlace
      <4>2. OnSeat(x, v)
        BY <2>3, <3>1, <4>1
      <4> QED BY <4>2, SpotFacts DEF OnSeat, HasPlace
    <3> QED BY <3>1 DEF Stays
  <2> QED BY <1>1, <2>3, <2>4, <2>5 DEF StepOK
<1>6. CASE ~(accept /\ StillThere(h, s))
  <2>1. x = h
    BY <1>3, <1>6
  <2> QED BY <1>0, <1>1, <1>4, <2>1, SamePlaceOK
<1> QED BY <1>5, <1>6

(* cinemaTickLocked: offers that ran out go on, kept seats and the seats of *)
(* those away are freed, all in one step.                                   *)
LEMMA TickOK ==
  ASSUME Sound(hall), NEW E \in SUBSET Seats, NEW X \in SUBSET hall.swaps,
         NEW L \in SUBSET Away, NEW sweep, NEW late, Tick(E, X, L, sweep, late)
  PROVE  StepOK(hall, hall')
<1>0. hall \in Hall
  BY DEF Sound, Base
<1>1. PICK x : x = hall'
  OBVIOUS
<1>2. PICK F \in Faults :
        x \in LET expired == {[h EXCEPT !.swaps = @ \ X] : h \in Expire(hall, E, F)}
                  freed == IF sweep /\ late
                             THEN UNION {FreeKept(h, E # {}, F) : h \in expired} ELSE expired
              IN IF sweep THEN UNION {Reclaim(h, L, F) : h \in freed} ELSE freed
  BY <1>1 DEF Tick
<1>3. PICK expired : expired = {[h EXCEPT !.swaps = @ \ X] : h \in Expire(hall, E, F)}
  OBVIOUS
<1>4. PICK freed : freed = IF sweep /\ late
                             THEN UNION {FreeKept(h, E # {}, F) : h \in expired} ELSE expired
  OBVIOUS
<1>5. x \in IF sweep THEN UNION {Reclaim(h, L, F) : h \in freed} ELSE freed
  BY <1>2, <1>3, <1>4
<1>6. ASSUME NEW y \in expired
      PROVE  Sound(y) /\ Grows(hall, y) /\ \A t \in y.swaps : t.to \notin L
  <2>1. PICK h \in Expire(hall, E, F) : y = [h EXCEPT !.swaps = @ \ X]
    BY <1>3
  <2>2. Sound(h) /\ Grows(hall, h)
    BY <2>1, ExpireKeeps
  <2>3. PICK S : S = h.swaps \ X
    OBVIOUS
  <2>4. y = SwapsSet(h, S) /\ S \in SUBSET h.swaps
    BY <2>1, <2>3 DEF SwapsSet
  <2>5. Sound(y) /\ y.place = h.place /\ y.joined = h.joined /\ y.client = h.client
        /\ y.since = h.since /\ y.swaps = S
    BY <2>2, <2>4, FewerSwaps
  <2>6. Grows(hall, y)
    BY <2>2, <2>4, <2>5 DEF Grows, OnSeat, HasPlace
  <2>7. \A t \in y.swaps : t.to \notin L
    BY <2>2, <2>3, <2>5 DEF Grows, Tick
  <2> QED BY <2>5, <2>6, <2>7
<1>7. L \in SUBSET Viewers /\ \A u \in L : hall.client[u] = Nobody /\ OnSeat(hall, u)
  BY <1>0, HallFacts DEF Away
<1>8. ASSUME NEW z \in freed
      PROVE  /\ Sound(z) /\ Frees(hall, z)
             /\ z.joined = hall.joined /\ z.client = hall.client
             /\ \A v \in hall.joined : z.place[v] = hall.place[v]
                                       \/ (hall.place[v] = Nowhere /\ OnSeat(z, v))
             /\ \A t \in z.swaps : t.to \notin L
  <2>1. CASE sweep /\ late
    <3>1. PICK y \in expired : z \in FreeKept(y, E # {}, F)
      BY <1>4, <1>8, <2>1
    <3>2. Sound(y) /\ Grows(hall, y) /\ \A t \in y.swaps : t.to \notin L
      BY <1>6
    <3>3. PICK moved : moved = (E # {})
      OBVIOUS
    <3>4. /\ Sound(z)
          /\ z.joined = y.joined /\ z.client = y.client
          /\ z.swaps \subseteq y.swaps
          /\ \A v \in y.joined : z.place[v] = y.place[v] \/ (y.place[v] = Nowhere /\ OnSeat(z, v))
          /\ \A i \in Seats : Taken(y, Seat(i)) => Settled(z, i)
      BY <3>1, <3>2, <3>3, FreeKeptKeeps
    <3>5. Frees(hall, z)
      BY <3>2, <3>4, GrowsTaken DEF Frees
    <3>6. ASSUME NEW v \in hall.joined
          PROVE  z.place[v] = hall.place[v] \/ (hall.place[v] = Nowhere /\ OnSeat(z, v))
      <4>1. v \in Viewers /\ v \in y.joined
        BY <1>0, <3>2, HallFacts DEF Grows
      <4>2. y.place[v] = hall.place[v] \/ (hall.place[v] = Nowhere /\ OnSeat(y, v))
        BY <3>2, <4>1 DEF Grows
      <4>3. z.place[v] = y.place[v] \/ (y.place[v] = Nowhere /\ OnSeat(z, v))
        BY <3>4, <4>1
      <4>4. OnSeat(y, v) => y.place[v] # Nowhere
        BY SpotFacts DEF OnSeat
      <4>5. OnSeat(y, v) /\ z.place[v] = y.place[v] => OnSeat(z, v)
        BY DEF OnSeat, HasPlace
      <4> QED BY <4>2, <4>3, <4>4, <4>5
    <3> QED BY <3>2, <3>4, <3>5, <3>6 DEF Grows
  <2>2. CASE ~(sweep /\ late)
    <3>1. z \in expired
      BY <1>4, <1>8, <2>2
    <3>2. Sound(z) /\ Grows(hall, z) /\ \A t \in z.swaps : t.to \notin L
      BY <1>6, <3>1
    <3>3. Frees(hall, z)
      BY <3>2, GrowsTaken DEF Frees, Settled
    <3>4. hall.joined \subseteq Viewers
      BY <1>0, HallFacts
    <3> QED BY <3>2, <3>3, <3>4 DEF Grows
  <2> QED BY <2>1, <2>2
<1>9. ASSUME NEW z, /\ Sound(z) /\ Frees(hall, z)
                    /\ z.client = hall.client
                    /\ \A v \in hall.joined \ L : z.place[v] = hall.place[v]
                                                  \/ (hall.place[v] = Nowhere /\ OnSeat(z, v))
      PROVE  StepOK(hall, z)
  <2>1. ASSUME NEW v \in hall.joined \cap z.joined, hall.client[v] # Nobody, OnSeat(hall, v)
        PROVE  z.place[v] \notin {Nobody, Nowhere}
    <3>1. hall.place[v] \notin {Nobody, Nowhere}
      BY <2>1, SpotFacts DEF OnSeat, HasPlace
    <3>2. v \notin L
      BY <1>7, <2>1
    <3> QED BY <1>9, <3>1, <3>2
  <2>2. Stays(hall, z)
    BY <2>1 DEF Stays
  <2> QED BY <1>9, <2>2 DEF StepOK
<1>10. CASE sweep
  <2>1. PICK z \in freed : x \in Reclaim(z, L, F)
    BY <1>5, <1>10
  <2>2. /\ Sound(z) /\ Frees(hall, z)
        /\ z.joined = hall.joined /\ z.client = hall.client
        /\ \A v \in hall.joined : z.place[v] = hall.place[v]
                                  \/ (hall.place[v] = Nowhere /\ OnSeat(z, v))
        /\ \A t \in z.swaps : t.to \notin L
    BY <1>8
  <2>3. Sound(x) /\ Reclaimed(z, x, L)
    BY <1>7, <2>1, <2>2, ReclaimKeeps
  <2>4. Frees(hall, x)
    BY <2>2, <2>3 DEF Reclaimed, Frees
  <2>5. ASSUME NEW v \in hall.joined \ L
        PROVE  x.place[v] = hall.place[v] \/ (hall.place[v] = Nowhere /\ OnSeat(x, v))
    <3>1. v \in Viewers
      BY <1>0, HallFacts
    <3>2. z.place[v] = hall.place[v] \/ (hall.place[v] = Nowhere /\ OnSeat(z, v))
      BY <2>2
    <3>3. x.place[v] = z.place[v] \/ (z.place[v] = Nowhere /\ OnSeat(x, v))
      BY <2>3, <3>1 DEF Reclaimed
    <3>4. OnSeat(z, v) => z.place[v] # Nowhere
      BY SpotFacts DEF OnSeat
    <3>5. OnSeat(z, v) /\ x.place[v] = z.place[v] => OnSeat(x, v)
      BY DEF OnSeat, HasPlace
    <3> QED BY <3>2, <3>3, <3>4, <3>5
  <2>6. x.client = hall.client
    BY <2>2, <2>3 DEF Reclaimed
  <2>7. StepOK(hall, x)
    BY <1>9, <2>3, <2>4, <2>5, <2>6
  <2> QED BY <1>1, <2>7
<1>11. CASE ~sweep
  <2>1. x \in freed
    BY <1>5, <1>11
  <2>2. /\ Sound(x) /\ Frees(hall, x)
        /\ x.client = hall.client
        /\ \A v \in hall.joined : x.place[v] = hall.place[v]
                                  \/ (hall.place[v] = Nowhere /\ OnSeat(x, v))
    BY <1>8, <2>1
  <2>3. StepOK(hall, x)
    BY <1>9, <2>2
  <2> QED BY <1>1, <2>3
<1> QED BY <1>10, <1>11

(* Whatever the clock says.                                                 *)
LEMMA TicksOK ==
  ASSUME Sound(hall), Ticks
  PROVE  StepOK(hall, hall')
<1>1. PICK E \in SUBSET {i \in Seats : hall.offers[i] # Nobody}, X \in SUBSET hall.swaps :
        \/ Tick(E, X, {}, FALSE, FALSE)
        \/ \E L \in SUBSET Away, late \in BOOLEAN : Tick(E, X, L, TRUE, late)
  BY DEF Ticks
<1>2. E \in SUBSET Seats
  OBVIOUS
<1>3. CASE Tick(E, X, {}, FALSE, FALSE)
  <2>1. {} \in SUBSET Away
    OBVIOUS
  <2> QED BY <1>2, <1>3, <2>1, TickOK
<1>4. CASE \E L \in SUBSET Away, late \in BOOLEAN : Tick(E, X, L, TRUE, late)
  <2>1. PICK L \in SUBSET Away, late \in BOOLEAN : Tick(E, X, L, TRUE, late)
    BY <1>4
  <2> QED BY <1>2, <2>1, TickOK
<1> QED BY <1>1, <1>3, <1>4

(* Every action of the hall.                                                *)
LEMMA StepsOK ==
  ASSUME ~KeptFaults, Sound(hall), CinemaNext
  PROVE  StepOK(hall, hall')
<1>1. CASE \E u \in Viewers : Join(u) \/ LeaveHall(u) \/ CloseSocket(u) \/ View(u)
                              \/ Notify(u) \/ NotifyOff(u) \/ Decline(u)
  BY <1>1, JoinOK, LeaveOK, CloseOK, ViewOK, NotifyOK, NotifyOffOK, DeclineOK
<1>2. CASE \E u \in Viewers : OpenSocket(u, "cinema")
  <2>1. "cinema" \in {"cinema", "old"}
    OBVIOUS
  <2> QED BY <1>2, <2>1, OpenOK
<1>3. CASE \E u \in Old : OpenSocket(u, "old")
  <2>1. "old" \in {"cinema", "old"} /\ Old \subseteq Viewers
    BY CinemaAssumption
  <2> QED BY <1>3, <2>1, OpenOK
<1>4. CASE \E u \in Viewers, spot \in Spots : Sit(u, spot)
  BY <1>4, SitOK
<1>5. CASE \E u \in Viewers, i \in Seats : AskSwap(u, i)
  BY <1>5, AskSwapOK
<1>6. CASE \E s \in hall.swaps, accept \in BOOLEAN : AnswerSwap(s, accept)
  BY <1>6, AnswerSwapOK
<1>7. CASE Ticks
  BY <1>7, TicksOK
<1>8. CASE ReloadHall
  BY <1>8, ReloadOK
<1> QED BY <1>1, <1>2, <1>3, <1>4, <1>5, <1>6, <1>7, <1>8 DEF CinemaNext

(* A room as it was created.                                                *)
LEMMA SoundAtFirst ==
  ASSUME CinemaInit
  PROVE  Sound(hall)
<1>1. PICK kept : kept = DOMAIN Kept
  OBVIOUS
<1>2. /\ Host \in Viewers /\ HostSeat \in Seats
      /\ kept \subseteq Viewers \ {Host}
      /\ \A u \in kept : Kept[u] \in Seats /\ Kept[u] # HostSeat
      /\ \A u, v \in kept : Kept[u] = Kept[v] => u = v
  BY <1>1, CinemaAssumption
<1>3. PICK client : client = [u \in Viewers |-> Nobody]
  OBVIOUS
<1>4. PICK queue : queue = [u \in Viewers |-> 0]
  OBVIOUS
<1>5. PICK offers : offers = [i \in Seats |-> Nobody]
  OBVIOUS
<1>6. PICK tried : tried = [i \in Seats |-> {}]
  OBVIOUS
<1>7. PICK place : place = Opened
  OBVIOUS
<1>8. hall = [joined |-> {Host}, client |-> client, since |-> {Host} \cup kept,
              place |-> place, row |-> place, kept |-> kept, keptRow |-> kept,
              queue |-> queue, offers |-> offers, tried |-> tried, swaps |-> {}]
  BY <1>1, <1>3, <1>4, <1>5, <1>6, <1>7 DEF CinemaInit
<1>9. \A u \in Viewers : place[u] = IF u = Host THEN Seat(HostSeat)
                                    ELSE IF u \in kept THEN Seat(Kept[u]) ELSE Nobody
  BY <1>1, <1>7 DEF Opened
<1>10. place \in [Viewers -> Spots \cup {Nobody}]
  <2>1. \A u \in Viewers : place[u] \in Spots \cup {Nobody}
    BY <1>2, <1>9, SpotFacts
  <2>2. place = [u \in Viewers |-> place[u]]
    BY <1>7 DEF Opened
  <2> QED BY <2>1, <2>2
<1>11. /\ client \in [Viewers -> {"cinema", "old", Nobody}] /\ queue \in [Viewers -> Nat]
       /\ offers \in [Seats -> Viewers \cup {Nobody}] /\ tried \in [Seats -> SUBSET Viewers]
  BY <1>3, <1>4, <1>5, <1>6
<1>12. hall \in Hall
  BY <1>2, <1>8, <1>10, <1>11 DEF Hall
<1>13. /\ hall.joined = {Host} /\ hall.client = client /\ hall.place = place /\ hall.row = place
       /\ hall.kept = kept /\ hall.keptRow = kept /\ hall.queue = queue /\ hall.offers = offers
       /\ hall.swaps = {}
  BY <1>8
<1>14. \A u \in Viewers : ~Asks(hall, u) /\ hall.queue[u] = 0
  BY <1>4, <1>13 DEF Asks
<1>15. QueueOK(hall)
  <2>1. Asking(hall) = {}
    BY <1>14 DEF Asking
  <2>2. Cardinality(Asking(hall)) = 0
    BY <2>1, FS_EmptySet
  <2> QED BY <1>14, <2>1, <2>2 DEF QueueOK
<1>16. SeatsAreOwn(hall)
  <2>1. ASSUME NEW u \in Viewers, NEW v \in Viewers, u # v, place[u] = place[v]
        PROVE  place[u] \in {Nowhere, Nobody}
    <3>1. CASE u = Host
      BY <1>2, <1>9, <2>1, <3>1, SpotFacts
    <3>2. CASE v = Host
      BY <1>2, <1>9, <2>1, <3>2, SpotFacts
    <3>3. CASE u # Host /\ v # Host /\ u \in kept
      BY <1>2, <1>9, <2>1, <3>3, SpotFacts
    <3>4. CASE u # Host /\ u \notin kept
      BY <1>9, <3>4
    <3> QED BY <3>1, <3>2, <3>3, <3>4
  <2> QED BY <1>13, <2>1 DEF SeatsAreOwn
<1>17. SwapsStand(hall) /\ \A t \in hall.swaps : t.from # t.to
  BY <1>13 DEF SwapsStand
<1>18. \A u \in hall.kept : HasPlace(hall, u)
  BY <1>2, <1>9, <1>13, SpotFacts DEF HasPlace
<1>19. \A u \in Viewers : hall.client[u] = Nobody
  BY <1>3, <1>13
<1>20. Base(hall)
  BY <1>12, <1>13, <1>14, <1>15, <1>16, <1>17, <1>18, <1>19 DEF Base
<1>21. KeptAway(hall)
  BY <1>2, <1>13 DEF KeptAway
<1>22. StandBut(hall, Nobody)
  BY <1>5, <1>13 DEF StandBut
<1> QED BY <1>20, <1>21, <1>22 DEF Sound

(* The inductive invariant.                                                 *)
LEMMA HallsAreSound ==
  ASSUME ~KeptFaults
  PROVE  CinemaSpec => []Sound(hall)
<1>1. CinemaInit => Sound(hall)
  BY SoundAtFirst
<1>2. Sound(hall) /\ [CinemaNext]_cinemaVars => Sound(hall)'
  <2>1. ASSUME Sound(hall), CinemaNext PROVE Sound(hall)'
    BY <2>1, StepsOK DEF StepOK
  <2>2. ASSUME Sound(hall), UNCHANGED cinemaVars PROVE Sound(hall)'
    BY <2>2 DEF cinemaVars
  <2> QED BY <2>1, <2>2
<1> QED BY <1>1, <1>2, PTL DEF CinemaSpec

(* Whatever happens in the hall, and whichever rows could not be written:   *)
(* nobody sits on another's lap, memory and rows agree, a held seat is free *)
(* and held for somebody in the queue, and a request to swap still names    *)
(* the seat of whoever is asked (cinema.go, every handler and the tick).    *)
(* ~KeptFaults: autoSeatLocked ignores the error of the write that makes a  *)
(* kept seat one's own. Where it fails the seat is kept again after a       *)
(* reload, and the sweep takes the place of somebody who is in, whatever    *)
(* they were offered: that is a disagreement (README.md), not this          *)
(* theorem's case.                                                          *)
THEOREM PlacesRule ==
  ~KeptFaults /\ CinemaSpec => []PlacesStand
<1> SUFFICES ASSUME ~KeptFaults PROVE CinemaSpec => []PlacesStand
  OBVIOUS
<1>1. Sound(hall) => PlacesStand
  <2> SUFFICES ASSUME Sound(hall) PROVE PlacesStand
    OBVIOUS
  <2>1. hall \in Hall
    BY DEF Sound, Base
  <2>2. OffersStand(hall)
    BY <2>1, StandsFor DEF Sound
  <2>3. CinemaTypeOK(hall)
    BY <2>1 DEF Sound, Base, CinemaTypeOK, QueueOK
  <2> QED BY <2>2, <2>3 DEF Sound, Base, PlacesStand
<1> QED BY <1>1, HallsAreSound, PTL

(* Nobody who is connected and on a seat loses it but by a swap they were   *)
(* asked for: not by another's move, an offer, a sweep or a reload of the   *)
(* room (moveLocked, cinemaTickLocked, reclaimOfflineSeatsLocked).          *)
THEOREM SeatRule ==
  ~KeptFaults /\ CinemaSpec => ConnectedKeepSeat
<1> SUFFICES ASSUME ~KeptFaults PROVE CinemaSpec => ConnectedKeepSeat
  OBVIOUS
<1>1. Sound(hall) /\ CinemaNext =>
        \A u \in hall.joined \cap hall'.joined :
          hall.client[u] # Nobody /\ hall'.client[u] # Nobody /\ OnSeat(hall, u)
            => hall'.place[u] \notin {Nobody, Nowhere} \/ \E s \in hall.swaps : s.to = u
  BY StepsOK DEF StepOK, Stays
<1> QED BY <1>1, HallsAreSound, PTL DEF CinemaSpec, ConnectedKeepSeat

(* A seat that somebody leaves, gives up or loses is taken again, held for  *)
(* somebody of the queue who can answer, or there is nobody to ask          *)
(* (offerSeatLocked, wherever it is called from).                           *)
THEOREM FreedSeatRule ==
  ~KeptFaults /\ CinemaSpec => FreedSeatIsOffered
<1> SUFFICES ASSUME ~KeptFaults PROVE CinemaSpec => FreedSeatIsOffered
  OBVIOUS
<1>1. Sound(hall) /\ CinemaNext =>
        \A i \in Seats :
          Taken(hall, Seat(i)) /\ ~Taken(hall', Seat(i)) /\ hall'.offers[i] = Nobody
            => Candidates(hall', {}) = {}
  BY StepsOK DEF StepOK, Frees, Settled
<1> QED BY <1>1, HallsAreSound, PTL DEF CinemaSpec, FreedSeatIsOffered
=============================================================================
