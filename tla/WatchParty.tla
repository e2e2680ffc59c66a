----------------------------- MODULE WatchParty ------------------------------
(* What a watch-party room promises the people in it, without its memory,   *)
(* its database or its clock: WatchRoom is shown to implement it.           *)

VARIABLES
  status,   \* "scheduled", "lobby", "live" or "ended"
  film,     \* "none": nothing shown yet, "running": a viewing session is
            \* open, "over": the film is over
  playing,  \* the clock runs, or will when the countdown is over
  onBreak   \* everyone is on a break

partyVars == <<status, film, playing, onBreak>>

Init ==
  /\ status \in {"scheduled", "lobby"}
  /\ film = "none"
  /\ playing = FALSE
  /\ onBreak = FALSE

\* The host opens a scheduled room.
Open ==
  /\ status = "scheduled"
  /\ status' = "lobby"
  /\ UNCHANGED <<film, playing, onBreak>>

\* The host starts the film: everyone plays it from the same instant.
Start ==
  /\ status = "lobby"
  /\ status' = "live"
  /\ film' = "running"
  /\ playing' = TRUE
  /\ onBreak' = FALSE

\* A controller plays or pauses; nobody plays during a break.
PlayPause ==
  /\ status = "live"
  /\ film = "running"
  /\ ~onBreak
  /\ playing' = ~playing
  /\ UNCHANGED <<status, film, onBreak>>

TakeBreak ==
  /\ status = "live"
  /\ film = "running"
  /\ ~onBreak
  /\ onBreak' = TRUE
  /\ playing' = FALSE
  /\ UNCHANGED <<status, film>>

\* The room goes on after a break, or stays paused when the break ran out
\* while nobody was there.
EndBreak ==
  /\ onBreak
  /\ onBreak' = FALSE
  /\ playing' \in BOOLEAN
  /\ UNCHANGED <<status, film>>

\* The film is over once, and a break never outlives it.
FilmOver ==
  /\ status = "live"
  /\ film = "running"
  /\ film' = "over"
  /\ playing' = FALSE
  /\ onBreak' = FALSE
  /\ UNCHANGED status

\* Only a replay or a new film starts a session again.
NewSession ==
  /\ status = "live"
  /\ film' = "running"
  /\ playing' = TRUE
  /\ onBreak' = FALSE
  /\ UNCHANGED status

End ==
  /\ status # "ended"
  /\ status' = "ended"
  /\ film' = "over"
  /\ playing' = FALSE
  /\ onBreak' = FALSE

Next ==
  \/ Open \/ Start \/ PlayPause \/ TakeBreak \/ EndBreak \/ FilmOver \/ NewSession \/ End

Spec == Init /\ [][Next]_partyVars
=============================================================================
