----------------------------- MODULE MCWatchRoom -----------------------------
(* Small instances of WatchRoom: a film of known length played by the app   *)
(* itself and a show of unknown length in a companion app.                  *)
EXTENDS WatchRoom, TLC

CONSTANTS film, show

MCMedia == {film, show}
MCDuration == film :> 2 @@ show :> 0
MCCompanion == {show}
MCFilmOnly == {film}
MCFilmDuration == film :> 2
MCNone == {}
MCPositions == {-1, 1}
=============================================================================
