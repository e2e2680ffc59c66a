---------------------------- MODULE WatchMembers ---------------------------
(***************************************************************************)
(* Who is in a watch room and as what (watch/members.go, watch/rooms.go):   *)
(* joining, requests to join, invitations, roles, kicks, leaving and the    *)
(* succession of hosts, in a room that is open.  Handlers hold the room's   *)
(* mutex from their first read to their last write; cancelling a request    *)
(* and the sweeper change the row of a request without it.  A row is        *)
(* written before memory, with the same values: a write that fails leaves   *)
(* both, so member stands for the two.                                      *)
(***************************************************************************)
EXTENDS Integers, FiniteSets

CONSTANTS
  Users,
  Creator,
  Follows,     \* pairs <<h, u>>: h as the host of a followers-only room lets u in
  KnowCode,    \* those who know the room's code
  Settings,    \* the settings the host may choose
  MaxMembers,
  MaxCohosts,
  StrayRequests, \* may the write that closes a request fail, unnoticed?
  Sockets,     \* those who open a socket
  MaxInvites,  \* bound on the invitations open at once
  None

Accesses == {"public", "approval", "code"}

ASSUME MembersAssumption ==
  /\ IsFiniteSet(Users) /\ Creator \in Users /\ Follows \subseteq Users \X Users /\ KnowCode \subseteq Users
  /\ Settings \subseteq [access : Accesses, followersOnly : BOOLEAN, locked : BOOLEAN]
  /\ MaxMembers \in Nat \ {0} /\ MaxCohosts \in Nat
  /\ Sockets \subseteq Users /\ MaxInvites \in Nat
  /\ StrayRequests \in BOOLEAN /\ None \notin Users

VARIABLES
  member,  \* the state of each user's row, and the role of those who joined
  before,  \* pairs of those who joined: the first has the earlier joined_at
  host,    \* watch_rooms.host_id
  online,  \* members with a socket
  req,     \* requests: pending, rejected within the cool-down, or none
  invite,  \* who invited each user first
  room,    \* access, followers_only, locked
  desk     \* the controller at work under the mutex, between two statements

vars == <<member, before, host, online, req, invite, room, desk>>

Free == [todo |-> {}, found |-> None]

Joined == {u \in Users : member[u] \in {"viewer", "cohost", "host"}}
Cohosts == {u \in Users : member[u] = "cohost"}
IsController(u) == u = host \/ u \in Cohosts
Full == Cardinality(Joined) >= MaxMembers
Pending == {u \in Users : req[u] = "pending"}

----------------------------------------------------------------------------
(* Coming and going.                                                        *)

\* The order of joining without u, and with u as the last.
Without(u) == {p \in before : u \notin {p[1], p[2]}}
Last(u) == Without(u) \cup {<<v, u>> : v \in Joined \ {u}}

\* The row of the member, then the request; the latter may stay behind.
AddMember(u) ==
  /\ member' = [member EXCEPT ![u] = "viewer"]
  /\ before' = Last(u)
  /\ \/ req' = [req EXCEPT ![u] = IF @ = "pending" THEN "none" ELSE @]
     \/ StrayRequests /\ req' = req

\* Mutant: the socket of whoever leaves stays in the room.
RemoveButSocket(u, how) ==
  /\ member' = [member EXCEPT ![u] = how]
  /\ before' = Without(u)
  /\ online' = online

RemoveMember(u, how) ==
  /\ member' = [member EXCEPT ![u] = how]
  /\ before' = Without(u)
  /\ online' = online \ {u}

\* An invitation counts while its sender could still let the person in.
Invited(u) ==
  /\ invite[u] # None
  /\ IsController(invite[u]) \/ (room.access = "public" /\ ~room.followersOnly)

PreApproved(u) == Invited(u) \/ member[u] = "left"
\* Mutant: the row of whoever was kicked is like that of whoever left.
OutsideAgain(u) == u \notin Joined /\ ~room.locked

Outside(u) == member[u] \in {"none", "left"} /\ ~room.locked
Welcome(u) == room.followersOnly => <<host, u>> \in Follows

Enter(u) ==
  /\ desk = Free /\ Outside(u) /\ ~Full
  /\ \/ PreApproved(u)
     \/ Welcome(u) /\ (room.access = "public" \/ (room.access = "code" /\ u \in KnowCode))
  /\ AddMember(u)
  /\ UNCHANGED <<host, online, invite, room, desk>>

Ask(u) ==
  /\ desk = Free /\ Outside(u) /\ ~Full
  /\ ~PreApproved(u) /\ Welcome(u) /\ room.access = "approval"
  /\ req[u] # "rejected"
  /\ req' = [req EXCEPT ![u] = "pending"]
  /\ UNCHANGED <<member, before, host, online, invite, room, desk>>

\* Without the room's mutex: only the row of the request changes.
Cancel(u) ==
  /\ req[u] = "pending"
  /\ req' = [req EXCEPT ![u] = "none"]
  /\ UNCHANGED <<member, before, host, online, invite, room, desk>>

\* A request expires, or a rejection has cooled down.
Lapse(u) ==
  /\ req[u] # "none"
  /\ req' = [req EXCEPT ![u] = "none"]
  /\ UNCHANGED <<member, before, host, online, invite, room, desk>>

Connect(u) ==
  /\ desk = Free /\ u \in Joined \cap Sockets
  /\ online' = online \cup {u}
  /\ UNCHANGED <<member, before, host, req, invite, room, desk>>

Disconnect(u) ==
  /\ desk = Free /\ u \in online
  /\ online' = online \ {u}
  /\ UNCHANGED <<member, before, host, req, invite, room, desk>>

----------------------------------------------------------------------------
(* The host and the succession.                                             *)

Rank(u) ==
  CASE member[u] = "cohost" /\ u \in online -> 0
    [] member[u] = "cohost" -> 1
    [] u \in online -> 2
    [] OTHER -> 3

\* A co-host, online first; then whoever joined first, online first.
Precedes(u, v) == Rank(u) < Rank(v) \/ (Rank(u) = Rank(v) /\ <<v, u>> \notin before)
IsNextHost(u, S) == u \in S /\ \A v \in S : Precedes(u, v)

\* Mutant: the host who hands over keeps the role.
TransferredTwice(next) == [member EXCEPT ![next] = "host"]

Transferred(next) == [member EXCEPT ![next] = "host", ![host] = "cohost"]

\* The host chooses, or has been away for five minutes while others watch.
Transfer(next) ==
  /\ desk = Free
  /\ \/ next \in Joined \ {host}
     \/ host \notin online /\ IsNextHost(next, online)
  /\ member' = Transferred(next) /\ host' = next
  /\ UNCHANGED <<before, online, req, invite, room, desk>>

\* The last member to leave ends the room instead.
Leave(u) ==
  /\ desk = Free /\ u \in Joined /\ u # host
  /\ RemoveMember(u, "left")
  /\ UNCHANGED <<host, req, invite, room, desk>>

\* The host hands over, then leaves, or stays as a co-host if that fails.
HostLeaves ==
  /\ desk = Free
  /\ \E next \in Users :
        /\ IsNextHost(next, Joined \ {host})
        /\ host' = next
        /\ \/ /\ member' = [Transferred(next) EXCEPT ![host] = "left"]
              /\ before' = Without(host)
              /\ online' = online \ {host}
           \/ member' = Transferred(next) /\ UNCHANGED <<before, online>>
  /\ UNCHANGED <<req, invite, room, desk>>

MayPromote(u) == Cardinality(Cohosts) < MaxCohosts

SetRole(u, role) ==
  /\ desk = Free /\ u \in Joined \ {host}
  /\ role = "cohost" /\ u \notin Cohosts => MayPromote(u)
  /\ member' = [member EXCEPT ![u] = role]
  /\ UNCHANGED <<before, host, online, req, invite, room, desk>>

\* Mutant: the request of whoever is kicked stays open.
ClosedLater(u) == req

Closed(u) == [req EXCEPT ![u] = IF @ = "pending" THEN "rejected" ELSE @]

\* A member, or somebody who only asked to join.
Kick(u) ==
  /\ desk = Free /\ u # host
  /\ IF u \in Joined THEN RemoveMember(u, "kicked")
     ELSE member' = [member EXCEPT ![u] = "kicked"] /\ UNCHANGED <<before, online>>
  /\ req' = Closed(u) \/ (StrayRequests /\ req' = req)
  /\ invite' = [invite EXCEPT ![u] = None]
  /\ UNCHANGED <<host, room, desk>>

PatchRoom(s) ==
  /\ desk = Free /\ room # s
  /\ room' = s
  /\ UNCHANGED <<member, before, host, online, req, invite, desk>>

----------------------------------------------------------------------------
(* Requests and invitations.                                                *)

\* By one who may; a second invitation of the same user changes nothing.
Invite(v, u) ==
  /\ desk = Free /\ v \in Joined
  /\ IsController(v) \/ room.access = "public"
  /\ member[u] \in {"none", "left"} /\ invite[u] = None
  /\ Cardinality({w \in Users : invite[w] # None}) < MaxInvites
  /\ invite' = [invite EXCEPT ![u] = v]
  /\ UNCHANGED <<member, before, host, online, req, room, desk>>

Reject(u) ==
  /\ desk = Free /\ req[u] = "pending"
  /\ req' = [req EXCEPT ![u] = "rejected"]
  /\ UNCHANGED <<member, before, host, online, invite, room, desk>>

\* One request is accepted, or all of those that wait.
Accept(S) ==
  /\ desk = Free /\ S # {}
  /\ desk' = [desk EXCEPT !.todo = S]
  /\ UNCHANGED <<member, before, host, online, req, invite, room>>

\* Mutant: the limit is looked at before the first of them, not before each.
MayAdmitAll(u) == member[u] # "kicked"

MayAdmit(u) == member[u] # "kicked" /\ ~Full

\* The request is looked up: a pending one will be accepted.
Find(u) ==
  /\ u \in desk.todo /\ desk.found = None
  /\ desk' = [todo |-> IF Full THEN {} ELSE desk.todo \ {u},
              found |-> IF req[u] = "pending" /\ MayAdmit(u) THEN u ELSE None]
  /\ UNCHANGED <<member, before, host, online, req, invite, room>>

\* Somebody who is gone or blocked is dropped.
Drop(u) ==
  /\ u \in desk.todo /\ desk.found = None
  /\ desk' = [desk EXCEPT !.todo = @ \ {u}]
  /\ req' = [req EXCEPT ![u] = IF @ = "pending" THEN "none" ELSE @]
  /\ UNCHANGED <<member, before, host, online, invite, room>>

\* The request is marked as accepted, whatever has become of it; then the
\* member is added, which may fail.
Admit ==
  /\ desk.found # None
  /\ desk' = [desk EXCEPT !.found = None]
  /\ \/ /\ req' = [req EXCEPT ![desk.found] = "none"]
        /\ member' = [member EXCEPT ![desk.found] = "viewer"]
        /\ before' = Last(desk.found)
     \/ /\ req' = [req EXCEPT ![desk.found] = "none"]
        /\ UNCHANGED <<member, before>>
     \/ UNCHANGED <<req, member, before>>
  /\ UNCHANGED <<host, online, invite, room>>

\* The room leaves memory, or the process stops; the rows stay.
Reload ==
  /\ online' = {} /\ desk' = Free
  /\ UNCHANGED <<member, before, host, req, invite, room>>

----------------------------------------------------------------------------

Init ==
  /\ member = [u \in Users |-> IF u = Creator THEN "host" ELSE "none"]
  /\ before = {} /\ host = Creator /\ online = {}
  /\ req = [u \in Users |-> "none"] /\ invite = [u \in Users |-> None]
  /\ room \in Settings /\ desk = Free

Next ==
  \/ \E u \in Users : Enter(u) \/ Ask(u) \/ Cancel(u) \/ Lapse(u) \/ Connect(u) \/ Disconnect(u)
                        \/ Transfer(u) \/ Leave(u) \/ Kick(u) \/ Reject(u) \/ Find(u) \/ Drop(u)
  \/ \E u \in Users, role \in {"cohost", "viewer"} : SetRole(u, role)
  \/ \E u, v \in Users : Invite(v, u)
  \/ \E u \in Pending : Accept({u})
  \/ Accept(Pending)
  \/ HostLeaves \/ Admit \/ Reload
  \/ \E s \in Settings : PatchRoom(s)

Spec == Init /\ [][Next]_vars

----------------------------------------------------------------------------
(* What makes the membership correct.                                       *)

\* Of two who are in, one joined before the other, and whoever left is
\* nowhere in that order.
JoinedInTurn ==
  /\ before \subseteq Joined \X Joined
  /\ \A u, v \in Joined : u # v => (<<u, v>> \in before <=> <<v, u>> \notin before)
  /\ \A u, v, w \in Joined : <<u, v>> \in before /\ <<v, w>> \in before => <<u, w>> \in before
  /\ \A u \in Joined : <<u, u>> \notin before

\* The rows, the settings and the desk hold what they are made for, and the
\* succession finds everybody who is in in the order of joining.
TypeOK ==
  /\ member \in [Users -> {"none", "viewer", "cohost", "host", "left", "kicked"}]
  /\ JoinedInTurn
  /\ online \subseteq Joined
  /\ req \in [Users -> {"none", "pending", "rejected"}]
  /\ invite \in [Users -> Users \cup {None}]
  /\ room \in Settings
  /\ desk \in [todo : SUBSET Users, found : Users \cup {None}]

\* However hosts hand over, leave, or stay away, the host of record is in the
\* room, and nobody else has the role (transferHostLocked, handleLeave).
OneHost == \A u \in Users : member[u] = "host" <=> u = host

\* No two ways in, used together, bring in more than the room holds
\* (handleJoin, decideLocked, handleAcceptAll).
NotOverfull == Cardinality(Joined) <= MaxMembers

\* Whoever waits for an answer is neither in nor kicked: accepting all can
\* change nobody's role and let nobody back in (addMemberLocked, handleKick).
WaitersAreOutside == \A u \in Pending : member[u] \in {"none", "left"}

\* The room has one host, the one it names, no more members than it holds, and
\* nobody both in and waiting, whichever ways in and out follow one another.
Membership == OneHost /\ NotOverfull /\ WaitersAreOutside

\* A kick is for good: no request, invitation or earlier membership undoes it.
KickedStaysOut == [][\A u \in Users : member[u] = "kicked" => member'[u] = "kicked"]_vars

\* "max 5 cohosts".  Not so: the host who hands over becomes one more.
FewCohosts == Cardinality(Cohosts) <= MaxCohosts

\* Whoever has cancelled does not become a member by that request.  Not so: the
\* row is cancelled between the controller's look and the controller's write.
CancelledStaysOut == desk.found # None => req[desk.found] = "pending"
=============================================================================
