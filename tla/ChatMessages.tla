---------------------------- MODULE ChatMessages ----------------------------
(***************************************************************************)
(* The messages of a group and of a room (handlers/group_message_handler.go, *)
(* room_message_handler.go, the XMPP ingress in websocket/hub_xmpp.go, the   *)
(* delayed notifications in websocket/hub.go).  A handler is a row of        *)
(* statements and frames with nothing around them, except where the code has *)
(* a transaction; it leaves chores behind that run on their own.  Who is in  *)
(* the chat is GroupMembers' and RoomMembers' business: here people come and *)
(* go.                                                                      *)
(***************************************************************************)
EXTENDS Naturals, FiniteSets

CONSTANTS
  Ids,        \* message ids; clients choose them and repeat them
  Folk,
  Managers,   \* owner and admins
  Muted,      \* who has muted the chat
  Emoji,
  Texts,      \* the texts an edit may give; every message begins with Original
  Original,
  Handlers,
  Plans,      \* bound: which chat, which operations, how many handlers at a
              \* time, how many sends, and whether the process may stop
  NoMessage, NoJob, Nobody, Everybody

VARIABLES
  stored,    \* messages
  emoji,     \* group_message_reactions, room_message_reactions
  pinned,    \* conversations.pinned_message_id
  readBy,    \* message_reads (groups)
  lastRead,  \* last_read_message_id (groups)
  readTo,    \* room_members.last_read_at (rooms)
  counted,   \* message_count
  inside,    \* who is in the chat
  joined,    \* joined_at
  watching,  \* ActiveGroupChat: who has the group open
  clock,     \* time: the number of the latest send
  jobs,     \* what each handler has read and has still to do
  chores,    \* goroutines and timers
  screen,    \* what the frames sent so far make a client show
  banner,    \* and which message as pinned
  told,      \* notifications by message and person
  stops,     \* how often the process has stopped
  plan       \* the element of Plans this behaviour explores

readVars == <<readBy, lastRead, readTo>>
dbVars == <<stored, emoji, pinned, counted, readVars>>
placeVars == <<inside, joined, watching>>
seenVars == <<screen, banner, told>>
boundVars == <<stops, plan>>
chatVars == <<dbVars, placeVars, clock, jobs, chores, seenVars, boundVars>>

Message ==
  [by: Folk, at: Nat, text: Texts \cup {Original}, opened: SUBSET Folk, gone: BOOLEAN]
Shown ==
  [text: Texts \cup {Original}, opened: SUBSET Folk, gone: BOOLEAN,
   emoji: [Folk -> Emoji \cup {Nobody}]]

(* at: the next step.  now: created_at.  named: who is mentioned.  text,     *)
(* opened, mood: what the handler has read or is to write.                  *)
Job ==
  [op: {"send", "ingest", "delete", "clear", "pin", "unpin", "edit", "open", "react",
        "read"},
   at: {"ensure", "insert", "ownread", "count", "commit", "fan", "mention", "schedule",
        "erase", "pinned", "unpin", "sweep", "write", "all", "last", "tell"},
   user: Folk, id: Ids, now: Nat, named: Folk \cup {Nobody, Everybody},
   text: Texts \cup {Original}, opened: SUBSET Folk, mood: Emoji \cup {Nobody}]

Chore == [do: {"auto", "last", "push"}, id: Ids, who: SUBSET Folk]

Operations ==
  {"ingest", "mention", "read", "watch", "delete", "clear", "pin", "edit", "open", "react",
   "move", "fail"}
Plan ==
  [kind: {"group", "room"}, width: Nat, sends: Nat, stop: BOOLEAN, ops: SUBSET Operations]

ASSUME ChatAssumption ==
  /\ IsFiniteSet(Ids) /\ IsFiniteSet(Folk)
  /\ Managers \subseteq Folk /\ Muted \subseteq Folk
  /\ Plans \subseteq Plan
  /\ NoMessage \notin Message \cup Shown \cup Ids
  /\ NoJob \notin Job
  /\ Nobody \notin Folk \cup Emoji \cup {Everybody}
  /\ Everybody \notin Folk

Group == plan.kind = "group"
Room == plan.kind = "room"
Allowed(op) == op \in plan.ops

There(i) == stored[i] # NoMessage
(* What a query finds that does not ask for deleted rows.                   *)
Undeleted(i) == There(i) /\ ~stored[i].gone
Sender(i) == stored[i].by

-----------------------------------------------------------------------------
(* Handlers *)

Busy == {h \in Handlers : jobs[h] # NoJob}
MayUndertake(h) == h \notin Busy /\ Cardinality(Busy) < plan.width
Fresh(op, at, u, i) ==
  [op |-> op, at |-> at, user |-> u, id |-> i, now |-> clock, named |-> Nobody,
   text |-> Original, opened |-> {}, mood |-> Nobody]
Undertake(h, job) ==
  /\ MayUndertake(h)
  /\ jobs' = [jobs EXCEPT ![h] = job]

JobAt(h, step) == h \in Busy /\ jobs[h].at = step
JobTo(h, step) == jobs' = [jobs EXCEPT ![h].at = step]
Finish(h) == jobs' = [jobs EXCEPT ![h] = NoJob]

-----------------------------------------------------------------------------
(* Sending *)

\* SendToGroup and IngestGroup: the sender is a member, and may write.
SendToGroup(h, u, i, op, named) ==
  /\ Group /\ u \in inside
  /\ op = "ingest" => Allowed("ingest") /\ named = Nobody
  /\ named # Nobody => Allowed("mention")
  /\ clock < plan.sends /\ clock' = clock + 1
  /\ Undertake(h, [Fresh(op, IF op = "send" THEN "insert" ELSE "commit", u, i) EXCEPT
                 !.now = clock + 1, !.named = named])
  /\ UNCHANGED <<dbVars, placeVars, chores, seenVars, boundVars>>

\* A message that is there is answered before anything else is looked at;
\* must: require_member.
SendToRoom(h, u, i, must) ==
  /\ Room /\ ~There(i)
  /\ must => u \in inside
  /\ clock < plan.sends
  /\ Undertake(h, Fresh("send", "ensure", u, i))
  /\ UNCHANGED <<dbVars, placeVars, clock, chores, seenVars, boundVars>>

\* ensureMember: who writes becomes a member, unless that fails; for who is
\* banned the room does not exist.
EnsureSender(h) ==
  LET u == jobs[h].user IN
  /\ JobAt(h, "ensure")
  /\ \/ /\ clock < plan.sends /\ clock' = clock + 1
        /\ inside' \in {inside, inside \cup {u}}
        /\ jobs' = [jobs EXCEPT ![h].at = "insert", ![h].now = clock + 1]
     \/ /\ u \notin inside
        /\ Finish(h)
        /\ UNCHANGED <<inside, clock>>
  /\ UNCHANGED <<dbVars, joined, watching, chores, seenVars, boundVars>>

Stored(h) ==
  [stored EXCEPT ![jobs[h].id] = [by |-> jobs[h].user, at |-> jobs[h].now, text |-> Original,
                                  opened |-> {}, gone |-> FALSE]]
OwnRead(h) == [readBy EXCEPT ![jobs[h].id] = @ \cup {jobs[h].user}]
OneMore(h) == [counted EXCEPT ![jobs[h].user] = @ + 1]

\* Mutant: the handler does not look how many rows the INSERT wrote.
InsertMessageBlind(h) ==
  /\ JobAt(h, "insert")
  /\ stored' = IF There(jobs[h].id) THEN stored ELSE Stored(h)
  /\ JobTo(h, IF Group THEN "ownread" ELSE "count")
  /\ UNCHANGED <<emoji, pinned, counted, readVars, placeVars, clock, chores, seenVars,
                 boundVars>>

\* ON CONFLICT (id) DO NOTHING: a repeated send, or somebody else's id, is
\* answered and leaves nothing behind.
InsertMessage(h) ==
  /\ JobAt(h, "insert")
  /\ IF There(jobs[h].id) THEN Finish(h) /\ UNCHANGED stored
     ELSE stored' = Stored(h) /\ JobTo(h, IF Group THEN "ownread" ELSE "count")
  /\ UNCHANGED <<emoji, pinned, counted, readVars, placeVars, clock, chores, seenVars,
                 boundVars>>

ReadOwn(h) ==
  /\ JobAt(h, "ownread")
  /\ readBy' = OwnRead(h)
  /\ JobTo(h, "count")
  /\ UNCHANGED <<stored, emoji, pinned, counted, lastRead, readTo, placeVars, clock,
                 chores, seenVars, boundVars>>

\* A room counts the messages of all together.
CountMessage(h) ==
  /\ JobAt(h, "count")
  /\ counted' = OneMore(h)
  /\ JobTo(h, "fan")
  /\ UNCHANGED <<stored, emoji, pinned, readVars, placeVars, clock, chores, seenVars,
                 boundVars>>

\* IngestGroup does the same in one transaction.
Commit(h) ==
  /\ JobAt(h, "commit")
  /\ IF There(jobs[h].id) THEN Finish(h) /\ UNCHANGED <<stored, readBy, counted>>
     ELSE /\ stored' = Stored(h) /\ readBy' = OwnRead(h) /\ counted' = OneMore(h)
          /\ JobTo(h, "fan")
  /\ UNCHANGED <<emoji, pinned, lastRead, readTo, placeVars, clock, chores, seenVars,
                 boundVars>>

NewOnScreen ==
  [text |-> Original, opened |-> {}, gone |-> FALSE, emoji |-> [u \in Folk |-> Nobody]]

\* The new message goes to the members there are now; in a group, those who
\* have it open will have read it.
FanOut(h) ==
  LET i == jobs[h].id IN
  /\ JobAt(h, "fan")
  /\ screen' = [screen EXCEPT ![i] = NewOnScreen]
  /\ chores' =
       chores \cup (IF Group THEN {[do |-> "auto", id |-> i, who |-> inside]} ELSE {})
  /\ JobTo(h, IF Group /\ jobs[h].op = "send" THEN "mention" ELSE "schedule")
  /\ UNCHANGED <<dbVars, placeVars, clock, banner, told, boundVars>>

Notify(i, who) ==
  told' = [told EXCEPT ![i] = [u \in Folk |-> IF u \in who THEN @[u] + 1 ELSE @[u]]]

\* Who is mentioned by name hears of it muted or not, unless the group is open.
Mention(h) ==
  LET named == jobs[h].named
      meant == {u \in inside \ {jobs[h].user} :
                  u = named \/ (named = Everybody /\ u \notin Muted)}
  IN
  /\ JobAt(h, "mention")
  /\ Notify(jobs[h].id, meant \ watching)
  /\ jobs' = [jobs EXCEPT ![h].at = "schedule",
                          ![h].named = IF @ \in Folk \ inside THEN Nobody ELSE @]
  /\ UNCHANGED <<dbVars, placeVars, clock, chores, screen, banner, boundVars>>

Mentioned(named) == IF named = Everybody THEN Folk ELSE {named}

\* The others who have not muted the chat, in ten seconds.
Schedule(h) ==
  LET who == inside \ ({jobs[h].user} \cup Muted \cup Mentioned(jobs[h].named)) IN
  /\ JobAt(h, "schedule")
  /\ chores' = IF who = {} THEN chores
               ELSE chores \cup {[do |-> "push", id |-> jobs[h].id, who |-> who]}
  /\ Finish(h)
  /\ UNCHANGED <<dbVars, placeVars, clock, seenVars, boundVars>>

-----------------------------------------------------------------------------
(* Chores *)

\* A failed INSERT is logged.
AutoRead(c) ==
  LET seen == (c.who \cap watching) \ {Sender(c.id)} IN
  /\ c \in chores /\ c.do = "auto"
  /\ \/ readBy' = [readBy EXCEPT ![c.id] = @ \cup seen]
     \/ Allowed("fail") /\ UNCHANGED readBy
  /\ chores' = (chores \ {c}) \cup
               (IF seen = {} THEN {} ELSE {[do |-> "last", id |-> c.id, who |-> seen]})
  /\ UNCHANGED <<stored, emoji, pinned, counted, lastRead, readTo, placeVars, clock,
                 jobs, seenVars, boundVars>>

AutoLast(c) ==
  /\ c \in chores /\ c.do = "last"
  /\ lastRead' = [u \in Folk |-> IF u \in c.who THEN c.id ELSE lastRead[u]]
  /\ chores' = chores \ {c}
  /\ UNCHANGED <<stored, emoji, pinned, counted, readBy, readTo, placeVars, clock, jobs,
                 seenVars, boundVars>>

\* Who has read the message, or has the group open, is left in peace; a room
\* looks as well who is still in it.
Push(c) ==
  LET away == IF Group THEN c.who \ (readBy[c.id] \cup watching)
              ELSE {u \in c.who \cap inside : readTo[u] < stored[c.id].at}
  IN
  /\ c \in chores /\ c.do = "push"
  /\ Notify(c.id, away)
  /\ chores' = chores \ {c}
  /\ UNCHANGED <<dbVars, placeVars, clock, jobs, screen, banner, boundVars>>

-----------------------------------------------------------------------------
(* Reading *)

Unread(u) ==
  {i \in Ids :
     Undeleted(i) /\ Sender(i) # u /\ u \notin readBy[i] /\ stored[i].at > joined[u]}
AllRead(u) == [i \in Ids |-> IF i \in Unread(u) THEN readBy[i] \cup {u} ELSE readBy[i]]
NewestOf(ids) == CHOOSE i \in ids : \A j \in ids : stored[j].at <= stored[i].at

\* markGroupMessagesRead: the newest ids are listed for the others' ticks, ...
ReadGroup(h, u) ==
  /\ Group /\ Allowed("read") /\ u \in inside
  /\ Unread(u) # {}
  /\ Undertake(h, Fresh("read", "all", u, NewestOf(Unread(u))))
  /\ UNCHANGED <<dbVars, placeVars, clock, chores, seenVars, boundVars>>

\* Mutant: the handler goes on when the INSERT has failed.
ReadAllCareless(h) ==
  /\ JobAt(h, "all")
  /\ readBy' \in {AllRead(jobs[h].user)} \cup (IF Allowed("fail") THEN {readBy} ELSE {})
  /\ JobTo(h, "last")
  /\ UNCHANGED <<stored, emoji, pinned, counted, lastRead, readTo, placeVars, clock,
                 chores, seenVars, boundVars>>

\* ... then one INSERT ... SELECT marks all there are by now (or fails, and
\* the handler gives up), ...
ReadAll(h) ==
  /\ JobAt(h, "all")
  /\ \/ readBy' = AllRead(jobs[h].user) /\ JobTo(h, "last")
     \/ Allowed("fail") /\ Finish(h) /\ UNCHANGED readBy
  /\ UNCHANGED <<stored, emoji, pinned, counted, lastRead, readTo, placeVars, clock,
                 chores, seenVars, boundVars>>

\* ... and the newest of the list is where the reader has got to.
ReadLast(h) ==
  /\ JobAt(h, "last")
  /\ lastRead' = [lastRead EXCEPT ![jobs[h].user] = jobs[h].id]
  /\ Finish(h)
  /\ UNCHANGED <<stored, emoji, pinned, counted, readBy, readTo, placeVars, clock,
                 chores, seenVars, boundVars>>

MarkRoomRead(u) ==
  /\ Room /\ Allowed("read") /\ u \in inside
  /\ readTo' = [readTo EXCEPT ![u] = clock]
  /\ UNCHANGED <<stored, emoji, pinned, counted, readBy, lastRead, placeVars, clock,
                 jobs, chores, seenVars, boundVars>>

-----------------------------------------------------------------------------
(* Deleting *)

\* Senders delete their own messages, managers everybody's; in a room also
\* who has left.
DeleteMessage(h, u, i) ==
  /\ Allowed("delete") /\ Undeleted(i)
  /\ Group => u \in inside
  /\ (u = Sender(i) \/ u \in Managers \cap inside)
  /\ Undertake(h, Fresh("delete", "erase", u, i))
  /\ UNCHANGED <<dbVars, placeVars, clock, chores, seenVars, boundVars>>

Gone(ids) == [i \in Ids |-> IF i \in ids /\ There(i) THEN [stored[i] EXCEPT !.gone = TRUE]
                            ELSE stored[i]]

Erase(h) ==
  /\ JobAt(h, "erase")
  /\ stored' = Gone({jobs[h].id})
  /\ JobTo(h, IF Group THEN "pinned" ELSE "sweep")
  /\ UNCHANGED <<emoji, pinned, counted, readVars, placeVars, clock, chores, seenVars,
                 boundVars>>

\* Mutant: nobody looks whether the message was pinned.
LookForNoPin(h) ==
  /\ JobAt(h, "pinned")
  /\ JobTo(h, "tell")
  /\ UNCHANGED <<dbVars, placeVars, clock, chores, seenVars, boundVars>>

LookForPin(h) ==
  /\ JobAt(h, "pinned")
  /\ JobTo(h, IF pinned = jobs[h].id THEN "unpin" ELSE "tell")
  /\ UNCHANGED <<dbVars, placeVars, clock, chores, seenVars, boundVars>>

\* A group's pin goes with its message (the UPDATE, which does not look again,
\* and a frame).
UnpinDeleted(h) ==
  /\ JobAt(h, "unpin")
  /\ pinned' = NoMessage
  /\ banner' = NoMessage
  /\ JobTo(h, "tell")
  /\ UNCHANGED <<stored, emoji, counted, readVars, placeVars, clock, chores, screen,
                 told, boundVars>>

\* A room's reactions go with their message.
SweepReactions(h) ==
  /\ JobAt(h, "sweep")
  /\ emoji' = [emoji EXCEPT ![jobs[h].id] = [u \in Folk |-> Nobody]]
  /\ JobTo(h, "tell")
  /\ UNCHANGED <<stored, pinned, counted, readVars, placeVars, clock, chores, seenVars,
                 boundVars>>

\* ClearRoomMessages: one transaction, then one frame.
ClearRoomMessages(h, u) ==
  /\ Room /\ Allowed("clear") /\ u \in Managers \cap inside
  /\ stored' = Gone(Ids)
  /\ emoji' = [i \in Ids |-> [v \in Folk |-> Nobody]]
  /\ \E i \in Ids : Undertake(h, Fresh("clear", "tell", u, i))
  /\ UNCHANGED <<pinned, counted, readVars, placeVars, clock, chores, seenVars,
                 boundVars>>

-----------------------------------------------------------------------------
(* Changing *)

\* Each of these looks at a message that is not deleted, by a member (a room
\* lets everybody react), and writes later.
Touch(h, u, i, job) ==
  /\ Undeleted(i)
  /\ Undertake(h, job)
  /\ UNCHANGED <<dbVars, placeVars, clock, chores, seenVars, boundVars>>

PinGroupMessage(h, u, i, op) ==
  /\ Group /\ Allowed("pin") /\ u \in Managers \cap inside
  /\ Touch(h, u, i, Fresh(op, "write", u, i))

EditMessage(h, u, i, text) ==
  /\ Allowed("edit") /\ u \in inside /\ Undeleted(i) /\ u = Sender(i)
  /\ Touch(h, u, i, [Fresh("edit", "write", u, i) EXCEPT !.text = text])

\* "View once": who has opened the picture is written into the message.
OpenOnce(h, u, i) ==
  /\ Group /\ Allowed("open") /\ u \in inside /\ Undeleted(i) /\ u \notin stored[i].opened
  /\ Touch(h, u, i, [Fresh("open", "write", u, i) EXCEPT
                       !.text = stored[i].text, !.opened = stored[i].opened \cup {u}])

\* The same emoji again takes the reaction back.
SetReaction(h, u, i, mood) ==
  /\ Allowed("react") /\ (Group => u \in inside)
  /\ Touch(h, u, i, [Fresh("react", "write", u, i) EXCEPT
                       !.mood = IF emoji[i][u] = mood THEN Nobody ELSE mood])

\* The UPDATE of a text passes over a message deleted since; a pin or a
\* reaction does not look.
Write(h) ==
  LET t == jobs[h] IN
  /\ JobAt(h, "write")
  /\ stored' = IF t.op \in {"edit", "open"} /\ Undeleted(t.id)
               THEN [stored EXCEPT ![t.id].text = t.text, ![t.id].opened = t.opened]
               ELSE stored
  /\ emoji' = IF t.op = "react" THEN [emoji EXCEPT ![t.id][t.user] = t.mood] ELSE emoji
  /\ pinned' = CASE t.op = "pin" -> t.id
                 [] t.op = "unpin" /\ pinned = t.id -> NoMessage
                 [] OTHER -> pinned
  /\ JobTo(h, "tell")
  /\ UNCHANGED <<counted, readVars, placeVars, clock, chores, seenVars, boundVars>>

\* What a client makes of a frame about a message it has.
Told(t, i) ==
  CASE t.op = "clear" \/ (t.op = "delete" /\ i = t.id) -> [screen[i] EXCEPT !.gone = TRUE]
    [] t.op \in {"edit", "open"} /\ i = t.id ->
         [screen[i] EXCEPT !.text = t.text, !.opened = t.opened]
    [] t.op = "react" /\ i = t.id -> [screen[i] EXCEPT !.emoji[t.user] = t.mood]
    [] OTHER -> screen[i]

Tell(h) ==
  LET t == jobs[h] IN
  /\ JobAt(h, "tell")
  /\ screen' = [i \in Ids |-> IF screen[i] = NoMessage THEN NoMessage ELSE Told(t, i)]
  /\ banner' = CASE t.op = "pin" -> t.id
                 [] t.op = "unpin" -> NoMessage
                 [] OTHER -> banner
  /\ Finish(h)
  /\ UNCHANGED <<dbVars, placeVars, clock, chores, told, boundVars>>

-----------------------------------------------------------------------------
(* People come, go, open the group and close it; the process stops.         *)

Enter(u) ==
  /\ Allowed("move") /\ u \notin inside
  /\ inside' = inside \cup {u}
  /\ joined' = [joined EXCEPT ![u] = clock]
  /\ UNCHANGED <<dbVars, watching, clock, jobs, chores, seenVars, boundVars>>

\* A room forgets how far who leaves had read.
Exit(u) ==
  /\ Allowed("move") /\ u \in inside
  /\ inside' = inside \ {u}
  /\ readTo' = [readTo EXCEPT ![u] = 0]
  /\ UNCHANGED <<stored, emoji, pinned, counted, readBy, lastRead, joined, watching,
                 clock, jobs, chores, seenVars, boundVars>>

Watch(u) ==
  /\ Group /\ Allowed("watch")
  /\ watching' = IF u \in watching THEN watching \ {u} ELSE watching \cup {u}
  /\ UNCHANGED <<dbVars, inside, joined, clock, jobs, chores, seenVars, boundVars>>

Stop ==
  /\ plan.stop /\ stops = 0
  /\ stops' = 1
  /\ jobs' = [h \in Handlers |-> NoJob]
  /\ chores' = {}
  /\ watching' = {}
  /\ UNCHANGED <<dbVars, inside, joined, clock, seenVars, plan>>

ChatInit ==
  /\ stored = [i \in Ids |-> NoMessage]
  /\ emoji = [i \in Ids |-> [u \in Folk |-> Nobody]]
  /\ pinned = NoMessage /\ banner = NoMessage
  /\ readBy = [i \in Ids |-> {}]
  /\ lastRead = [u \in Folk |-> NoMessage]
  /\ readTo = [u \in Folk |-> 0]
  /\ counted = [u \in Folk |-> 0]
  /\ inside = Folk
  /\ joined = [u \in Folk |-> 0]
  /\ watching = {}
  /\ clock = 0 /\ stops = 0
  /\ jobs = [h \in Handlers |-> NoJob]
  /\ chores = {}
  /\ screen = [i \in Ids |-> NoMessage]
  /\ told = [i \in Ids |-> [u \in Folk |-> 0]]
  /\ plan \in Plans

ChatRequest(h, u, i) ==
  \/ \E op \in {"send", "ingest"}, named \in Folk \cup {Nobody, Everybody} :
       SendToGroup(h, u, i, op, named)
  \/ \E must \in BOOLEAN : SendToRoom(h, u, i, must)
  \/ DeleteMessage(h, u, i)
  \/ \E op \in {"pin", "unpin"} : PinGroupMessage(h, u, i, op)
  \/ \E text \in Texts : EditMessage(h, u, i, text)
  \/ OpenOnce(h, u, i)
  \/ \E mood \in Emoji : SetReaction(h, u, i, mood)

ChatNext ==
  \/ \E h \in Handlers, u \in Folk, i \in Ids : ChatRequest(h, u, i)
  \/ \E h \in Handlers, u \in Folk : ReadGroup(h, u) \/ ClearRoomMessages(h, u)
  \/ \E h \in Handlers :
       \/ EnsureSender(h) \/ InsertMessage(h) \/ ReadOwn(h) \/ CountMessage(h)
       \/ Commit(h) \/ FanOut(h) \/ Mention(h) \/ Schedule(h)
       \/ ReadAll(h) \/ ReadLast(h)
       \/ Erase(h) \/ LookForPin(h) \/ UnpinDeleted(h) \/ SweepReactions(h)
       \/ Write(h) \/ Tell(h)
  \/ \E c \in chores : AutoRead(c) \/ AutoLast(c) \/ Push(c)
  \/ \E u \in Folk : MarkRoomRead(u) \/ Enter(u) \/ Exit(u) \/ Watch(u)
  \/ Stop

ChatSpec == ChatInit /\ [][ChatNext]_chatVars

-----------------------------------------------------------------------------
(* Properties *)

ChatTypeOK ==
  /\ stored \in [Ids -> Message \cup {NoMessage}]
  /\ emoji \in [Ids -> [Folk -> Emoji \cup {Nobody}]]
  /\ {pinned, banner} \subseteq Ids \cup {NoMessage}
  /\ readBy \in [Ids -> SUBSET Folk]
  /\ lastRead \in [Folk -> Ids \cup {NoMessage}]
  /\ readTo \in [Folk -> Nat] /\ joined \in [Folk -> Nat] /\ counted \in [Folk -> Nat]
  /\ inside \subseteq Folk /\ watching \subseteq Folk
  /\ jobs \in [Handlers -> Job \cup {NoJob}]
  /\ chores \subseteq Chore
  /\ screen \in [Ids -> Shown \cup {NoMessage}]
  /\ told \in [Ids -> [Folk -> Nat]]
  /\ clock \in Nat /\ stops \in {0, 1} /\ plan \in Plans

Pushes(i, u) == {c \in chores : c.do = "push" /\ c.id = i /\ u \in c.who}
OnTheWay(u) == {h \in Busy : jobs[h].user = u /\ jobs[h].at \in {"ownread", "count"}}
By(u) == {i \in Ids : There(i) /\ Sender(i) = u}

\* idempotency.go: however often and wherever a send is repeated, a message
\* counts once, and nobody is notified of it twice - neither as somebody
\* mentioned and again as a member, nor by two timers - and its sender never.
SentOnce ==
  /\ \A u \in Folk :
       LET expected == Cardinality(By(u)) - Cardinality(OnTheWay(u)) IN
       IF stops = 0 THEN counted[u] = expected ELSE counted[u] <= expected
  /\ \A i \in Ids, u \in Folk :
       /\ told[i][u] + Cardinality(Pushes(i, u)) <= 1
       /\ told[i][u] > 0 => There(i) /\ u # Sender(i)

\* One handler at a time, and none cut off: the frames a client got have made
\* it show what is stored, and neither a pin nor a room's reactions outlive
\* their message (group_message_handler.go:1332, room_message_handler.go:768).
ShownIsStored ==
  plan.width = 1 /\ stops = 0 /\ Busy = {} =>
    \A i \in Ids :
      /\ There(i) <=> screen[i] # NoMessage
      /\ There(i) =>
           /\ screen[i].gone = stored[i].gone
           /\ Undeleted(i) => /\ screen[i].text = stored[i].text
                         /\ screen[i].opened = stored[i].opened
                         /\ screen[i].emoji = emoji[i]
           /\ stored[i].gone =>
                pinned # i /\ (Room => \A u \in Folk : emoji[i][u] = Nobody)

\* How far a member of a group has read (group_message_handler.go:1200): the
\* message is there and is read, unless it was deleted or is older than the
\* member's latest return.
ReadersHaveRead ==
  \A u \in Folk :
    lastRead[u] # NoMessage =>
      There(lastRead[u]) /\ (\/ u \in readBy[lastRead[u]]
                             \/ stored[lastRead[u]].gone
                             \/ stored[lastRead[u]].at <= joined[u])

MessagesAreSound == ChatTypeOK /\ ReadersHaveRead

-----------------------------------------------------------------------------
(* What the comments promise and the code does not keep: see README.md.      *)

\* handlePinUnpin: one pin per group, and everybody is told of it.
PinIsShown == plan.width = 1 /\ stops = 0 /\ Busy = {} => banner = pinned

\* MarkGroupViewOnceOpened: every member looks only once.
OpenedStaysOpened ==
  [][\A i \in Ids : There(i) => stored[i].opened \subseteq stored[i]'.opened]_chatVars

\* markGroupMessagesRead: what was sent before one joined is not marked read.
HiddenIsUnread ==
  [][\A i \in Ids : \A u \in readBy'[i] \ readBy[i] :
       u # Sender(i)' => stored[i].at > joined[u]]_chatVars
=============================================================================
