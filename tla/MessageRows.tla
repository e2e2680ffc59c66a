----------------------------- MODULE MessageRows ----------------------------
(***************************************************************************)
(* What becomes of the messages of DirectMessages once they are stored: the *)
(* columns for reading, delivery, deletion, stars, reactions, edits and     *)
(* media that may be opened once (handlers/message_handler.go and the       *)
(* frames of websocket/hub.go).                                             *)
(*                                                                          *)
(* Three kinds of handlers write a row.  Some read it, change a column of   *)
(* their copy and write the WHOLE copy back (gorm's Save).  Opening media   *)
(* reads the text and writes the text back.  The rest are UPDATEs of some   *)
(* columns of all rows that fit a condition, two of them after a SELECT of  *)
(* the ids that the other side will be told about.                          *)
(***************************************************************************)
EXTENDS DirectMessages

CONSTANTS
  Hands,     \* handlers at work on rows at the same time
  MaxTurns,  \* bound: operations on rows in a behaviour
  Plans,     \* bound: "sends" looks at the sends alone, "rows" at both, where
             \* fewer requests send
  Free


VARIABLES
  marks,  \* the columns of each message: those of a new one until it is stored
  work,   \* what each handler has read and will write
  asked,  \* who has asked for what: <<message, what, user>>
  turns,
  plan

rowVars == <<marks, work, asked, turns, plan>>
chatVars == <<vars, rowVars>>

(* gone: is_deleted_by_...; star and reaction: who has set one.  once,      *)
(* opened and edit are the text: media for one look, with those who had it, *)
(* and which edit it is.                                                    *)
Columns ==
  [gone: SUBSET Users, read: BOOLEAN, delivered: BOOLEAN, star: SUBSET Users,
   reaction: SUBSET Users, once: BOOLEAN, opened: SUBSET Users, edit: Nat]

NewColumns(once) ==
  [gone |-> {}, read |-> FALSE, delivered |-> FALSE, star |-> {}, reaction |-> {},
   once |-> once, opened |-> {}, edit |-> 0]

Copying == [at: {"save", "text"}, by: Users, id: Ids, seen: Columns, copy: Columns]
Listing == [at: {"read", "delivered"}, by: Users, ids: SUBSET Ids]

ASSUME RowsAssumption ==
  /\ MaxTurns \in Nat
  /\ Plans \subseteq {"sends", "rows"}
  /\ Free \notin Copying \cup Listing

Deeds == Ids \X {"gone", "read", "star", "reaction", "open"} \X Users

RowsTypeOK ==
  /\ marks \in [Ids -> Columns]
  /\ work \in [Hands -> Copying \cup Listing \cup {Free}]
  /\ asked \subseteq Deeds
  /\ turns \in 0 .. MaxTurns

InitRows ==
  /\ Init
  /\ plan \in Plans
  /\ \E once \in BOOLEAN :
       /\ marks = [i \in Ids |-> NewColumns(once)]
       /\ plan = "sends" => ~once
  /\ work = [h \in Hands |-> Free]
  /\ asked = {}
  /\ turns = IF plan = "rows" THEN MaxTurns ELSE 0

(* The messages of the pair that u has written, or can read.                *)
Of(u) == {i \in Ids : messages[i] # NoMessage /\ messages[i].from = u
                                              /\ messages[i].to = Other(u)}
For(u) == Of(Other(u))

Turn == turns > 0 /\ turns' = turns - 1

-----------------------------------------------------------------------------
(* Handlers that write back what they have read                              *)

(* First(&message): the row is read, and what will be written is made of it. *)
Read(h, u, i, at, copy) ==
  /\ work[h] = Free
  /\ Turn
  /\ work' = [work EXCEPT ![h] =
       [at |-> at, by |-> u, id |-> i, seen |-> marks[i], copy |-> copy]]
  /\ UNCHANGED <<vars, marks, plan>>

(* "read implies delivered"                                                 *)
AsRead(c) == [c EXCEPT !.read = TRUE, !.delivered = TRUE]

MarkAsRead(h, u, i) ==
  /\ i \in For(u) /\ ~marks[i].read
  /\ Read(h, u, i, "save", AsRead(marks[i]))
  /\ asked' = asked \cup {<<i, "read", u>>}

(* Mutant: either may delete for both.                                      *)
DeletesForAnybody(u, i) == Users

(* For whom u may hide a message, at most.                                  *)
DeletesFor(u, i) == IF i \in Of(u) THEN Users ELSE {u}

(* What u asks for by hiding i from `sides`: it counts for u, and for the    *)
(* other only from the sender.                                              *)
Asks(u, i, sides) ==
  {<<i, "gone", v>> : v \in {v \in sides : v = u \/ i \in Of(u)}}

DeleteMessage(h, u, i) ==
  /\ i \in Of(u) \cup For(u)
  /\ \E sides \in {{u}, DeletesFor(u, i)} :
       /\ Read(h, u, i, "save", [marks[i] EXCEPT !.gone = @ \cup sides])
       /\ asked' = asked \cup Asks(u, i, sides)

ToggleStar(h, u, i) ==
  /\ i \in Of(u) \cup For(u)
  /\ Read(h, u, i, "save", [marks[i] EXCEPT !.star = (@ \ {u}) \cup ({u} \ @)])
  /\ asked' = asked \cup {<<i, "star", u>>}

AddReaction(h, u, i) ==
  /\ i \in Of(u) \cup For(u)
  /\ Read(h, u, i, "save", [marks[i] EXCEPT !.reaction = @ \cup {u}])
  /\ asked' = asked \cup {<<i, "reaction", u>>}

RemoveReaction(h, u, i) ==
  /\ i \in Of(u) \cup For(u)
  /\ Read(h, u, i, "save", [marks[i] EXCEPT !.reaction = @ \ {u}])
  /\ UNCHANGED asked

(* applyViewOnceOpened: an opener is added to the list in the text.         *)
OpenOnce(h, u, i) ==
  /\ i \in Of(u) \cup For(u)
  /\ marks[i].once /\ u \notin marks[i].opened
  /\ Read(h, u, i, "text", [marks[i] EXCEPT !.opened = @ \cup {u}])
  /\ asked' = asked \cup {<<i, "open", u>>}

(* Save: every column, from the copy.                                       *)
SaveMessage(h) ==
  /\ work[h] # Free /\ work[h].at = "save"
  /\ marks' = [marks EXCEPT ![work[h].id] = work[h].copy]
  /\ work' = [work EXCEPT ![h] = Free]
  /\ UNCHANGED <<vars, asked, turns, plan>>

(* Updates("encrypted_text"): the text alone, from the copy.                *)
SaveText(h) ==
  /\ work[h] # Free /\ work[h].at = "text"
  /\ LET c == work[h].copy
     IN  marks' = [marks EXCEPT ![work[h].id] =
                     [@ EXCEPT !.once = c.once, !.opened = c.opened, !.edit = c.edit]]
  /\ work' = [work EXCEPT ![h] = Free]
  /\ UNCHANGED <<vars, asked, turns, plan>>

(* A statement fails, or the process stops.                                 *)
GivesUp(h) ==
  /\ work[h] # Free
  /\ work' = [work EXCEPT ![h] = Free]
  /\ UNCHANGED <<vars, marks, asked, turns, plan>>

-----------------------------------------------------------------------------
(* Updates of columns                                                        *)

(* Every message in `ids` gets its new columns; the others keep theirs.     *)
Update(ids, Fresh(_)) == marks' = [i \in Ids |-> IF i \in ids THEN Fresh(marks[i]) ELSE marks[i]]

(* Only the sender edits, and the row is not read for the new text.         *)
EditMessage(u, i) ==
  /\ Turn
  /\ i \in Of(u)
  /\ marks' = [marks EXCEPT ![i] = [@ EXCEPT !.once = FALSE, !.opened = {}, !.edit = turns]]
  /\ UNCHANGED <<vars, work, asked, plan>>

Unread(u) == {i \in For(u) : ~marks[i].read}
Undelivered(u) == {i \in For(u) : ~marks[i].delivered}

(* MarkConversationAsRead, and mark_read over the socket: the sender is told *)
(* how many.                                                                *)
MarkConversationAsRead(u) ==
  /\ Turn
  /\ Update(Unread(u), AsRead)
  /\ asked' = asked \cup {<<i, "read", u>> : i \in Unread(u)}
  /\ UNCHANGED <<vars, work, plan>>

(* markReceivedMessagesAsRead and handleMarkDelivered: first the ids that    *)
(* the sender is going to be told ...                                       *)
ListUnread(h, u) ==
  /\ work[h] = Free
  /\ Turn
  /\ work' = [work EXCEPT ![h] =
       [at |-> "read", by |-> u, ids |-> {i \in Unread(u) : u \notin marks[i].gone}]]
  /\ UNCHANGED <<vars, marks, asked, plan>>

ListUndelivered(h, u) ==
  /\ work[h] = Free
  /\ Undelivered(u) # {}
  /\ Turn
  /\ work' = [work EXCEPT ![h] = [at |-> "delivered", by |-> u, ids |-> Undelivered(u)]]
  /\ UNCHANGED <<vars, marks, asked, plan>>

(* ... then the UPDATE of all rows that fit by now.                         *)
UpdateRead(h) ==
  /\ work[h] # Free /\ work[h].at = "read"
  /\ Update(Unread(work[h].by), AsRead)
  /\ asked' = asked \cup {<<i, "read", work[h].by>> : i \in Unread(work[h].by)}
  /\ work' = [work EXCEPT ![h] = Free]
  /\ UNCHANGED <<vars, turns, plan>>

AsDelivered(c) == [c EXCEPT !.delivered = TRUE]

UpdateDelivered(h) ==
  /\ work[h] # Free /\ work[h].at = "delivered"
  /\ Update(Undelivered(work[h].by), AsDelivered)
  /\ work' = [work EXCEPT ![h] = Free]
  /\ UNCHANGED <<vars, asked, turns, plan>>

(* maybeMarkLivePushDelivered: the fan-out put the message into a buffer of *)
(* its receiver, and a goroutine marks it.                                  *)
PushDelivered(i) ==
  /\ fanned[i] > 0 /\ ~marks[i].delivered
  /\ Update({i}, AsDelivered)
  /\ UNCHANGED <<vars, work, asked, turns, plan>>

(* Mutant: clearing for oneself shows the other what was hidden.            *)
ClearedAlone(c, sides) == [c EXCEPT !.gone = sides]

Cleared(c, sides) == [c EXCEPT !.gone = @ \cup sides]

(* ClearConversation and ClearAllMyMessages, for oneself or for both: what u *)
(* wrote is hidden from `sides`, what u was sent only from u.               *)
Clear(u) ==
  /\ Turn
  /\ \E sides \in {{u}, Users} :
       /\ marks' = [i \in Ids |-> IF i \in Of(u) THEN Cleared(marks[i], sides)
                                  ELSE IF i \in For(u) THEN Cleared(marks[i], {u})
                                  ELSE marks[i]]
       /\ asked' = asked \cup UNION {Asks(u, i, sides) : i \in Of(u) \cup For(u)}
  /\ UNCHANGED <<vars, work, plan>>

-----------------------------------------------------------------------------

(* Where rows are looked at, user 2 sends new messages one by one over the   *)
(* socket, and the conversation's own row is left in peace.                 *)
FewSends ==
  /\ saves' = saves
  /\ Cardinality({i \in Ids : messages'[i] # NoMessage}) <= 2
  /\ \A i \in Ids : messages'[i] # NoMessage => messages'[i].from = 2
  /\ row' # NoRow => ~row'.blocked
  /\ Cardinality({r \in Reqs : reqs'[r] # Idle}) <= 1
  /\ \A r \in Reqs : reqs'[r] # Idle => reqs'[r].by = 2 /\ reqs'[r].via = "ws"
  /\ \A r \in Reqs : reqs'[r].at = "store" => messages[reqs'[r].id] = NoMessage

(* A step of DirectMessages.                                                *)
SendStep ==
  /\ Next
  /\ plan = "rows" => FewSends
  /\ UNCHANGED rowVars

RowStep ==
  \/ \E h \in Hands, u \in Users, i \in Ids :
       \/ MarkAsRead(h, u, i) \/ DeleteMessage(h, u, i) \/ ToggleStar(h, u, i)
       \/ AddReaction(h, u, i) \/ RemoveReaction(h, u, i) \/ OpenOnce(h, u, i)
  \/ \E h \in Hands, u \in Users : ListUnread(h, u) \/ ListUndelivered(h, u)
  \/ \E h \in Hands :
       SaveMessage(h) \/ SaveText(h) \/ UpdateRead(h) \/ UpdateDelivered(h) \/ GivesUp(h)
  \/ \E u \in Users, i \in Ids : EditMessage(u, i)
  \/ \E u \in Users : MarkConversationAsRead(u) \/ Clear(u)
  \/ \E i \in Ids : PushDelivered(i)

NextRows == SendStep \/ (plan = "rows" /\ RowStep)

RowsSpec == InitRows /\ [][NextRows]_chatVars

-----------------------------------------------------------------------------
(* What holds however the handlers interleave.                               *)

(* The columns c of message i hold nothing that was not asked for.          *)
Meant(i, c) ==
  /\ c.read => c.delivered /\ \E u \in Users : <<i, "read", u>> \in asked /\ i \in For(u)
  /\ \A u \in c.gone : <<i, "gone", u>> \in asked
  /\ \A u \in c.star : <<i, "star", u>> \in asked
  /\ \A u \in c.reaction : <<i, "reaction", u>> \in asked
  /\ \A u \in c.opened : <<i, "open", u>> \in asked

(* No message is shown as read before its receiver has read it, or without   *)
(* being delivered; hidden from anybody who did not ask for that, unless its *)
(* sender did; starred, reacted to or opened in somebody's name: neither in  *)
(* the row nor in any copy that is going to be written back over it.        *)
MarksAreMeant ==
  /\ RowsTypeOK
  /\ \A i \in Ids : Meant(i, marks[i])
  /\ \A h \in Hands : work[h] \in Copying => Meant(work[h].id, work[h].copy)

(* A copy that no longer is the row it was read from, but for the change.   *)
Overtaken(h, i) == work[h] \in Copying /\ work[h].id = i /\ work[h].seen # marks[i]

(* A mark that was set goes back only where a copy older than the mark is    *)
(* written over it: no handler undoes what another has done by itself, be it *)
(* the reading, the delivery, a deletion, or the star and the reaction of    *)
(* somebody else (Save of message_handler.go and hub.go; Clear, mark_read).  *)
OnlyOldCopiesUndo ==
  [][\A i \in Ids :
       marks'[i] # marks[i] /\ (~\E h \in Hands : Overtaken(h, i)) =>
         /\ marks[i].read => marks'[i].read
         /\ marks[i].delivered => marks'[i].delivered
         /\ marks[i].gone \subseteq marks'[i].gone
         /\ \A u \in Users :
              \/ (u \in marks[i].star <=> u \in marks'[i].star)
                   /\ (u \in marks[i].reaction <=> u \in marks'[i].reaction)
              \/ \E h \in Hands : /\ work[h] \in Copying /\ work'[h] = Free
                                  /\ work[h].id = i /\ work[h].by = u
    ]_chatVars

-----------------------------------------------------------------------------
(* What the comments promise and the code does not keep: see README.md.      *)

(* message_handler.go:2714-2720 (Issue 11): clients keep a tombstone for     *)
(* ever.  Not so for the server: an old copy brings the message back.       *)
DeletedStaysDeleted == [][\A i \in Ids : marks[i].gone \subseteq marks'[i].gone]_chatVars

(* message_handler.go:3178-3182: who has opened the media stays on its list. *)
OpenedStaysOpened ==
  [][\A i \in Ids : marks'[i].once => marks[i].opened \subseteq marks'[i].opened]_chatVars

(* message_handler.go:1913-1914: each message that becomes read is announced *)
(* to its sender.  Not one that is stored between the two statements.       *)
ReadIsAnnounced ==
  [][\A h \in Hands, i \in Ids :
       UpdateRead(h) /\ marks'[i].read /\ ~marks[i].read /\ work[h].by \notin marks[i].gone
         => i \in work[h].ids]_chatVars
=============================================================================
