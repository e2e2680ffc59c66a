------------------------------ MODULE MCChats -------------------------------
(* A group of at most two among three users, a room of three people; their   *)
(* messages among two.                                                       *)
EXTENDS Chats, TLC

CONSTANTS ann, bob, cem, dan, eva, h1, h2, m1, m2

MCUsers == {ann, bob, cem}
\* Joining and leaving alone, or with kicks, and roles or returns.
MCMay == {{}, {"kick", "role"}, {"kick", "return"}}
\* Bans, with blocks, with the deletion of the room, with statements that fail;
\* a deletion that fails halfway.
MCTools == {{"ban", "block"}, {"ban", "delete"}, {"ban", "reads", "writes"}, {"delete", "writes"}}

P(group, width, sends, stop, ops) ==
  [kind |-> group, width |-> width, sends |-> sends, stop |-> stop, ops |-> ops]
MCPlans == {
  \* One handler at a time: what a client shows.
  P("group", 1, 1, FALSE, {"edit", "open", "delete"}),
  P("group", 1, 1, FALSE, {"react", "delete"}),
  P("group", 1, 2, FALSE, {"pin", "delete"}),
  P("room", 1, 2, FALSE, {"edit", "react", "delete", "clear"}),
  \* Who is told of a message, and how often; how far people have read.
  P("group", 2, 2, TRUE, {"ingest", "mention"}),
  P("group", 2, 1, TRUE, {"ingest", "mention", "move"}),
  P("group", 1, 2, FALSE, {"read", "watch"}),
  P("group", 2, 1, FALSE, {"read", "delete", "move", "fail"}),
  P("room", 2, 2, TRUE, {"read"}),
  P("room", 2, 1, TRUE, {"read", "move"})}

MCHands == {h1, h2}
MCIds == {m1, m2}
MCSymmetry == Permutations({bob, cem}) \cup Permutations(MCHands) \cup Permutations(MCIds)
=============================================================================
