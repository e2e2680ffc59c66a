------------------------------ MODULE MafiaGame ------------------------------
(***************************************************************************)
(* The mafia game of a live room (websocket/mafia_engine.go, _flow.go,     *)
(* _state.go, _handler.go).  The whole game is one JSON value in           *)
(* live_rooms.active_game; every handler loads it, changes its copy and    *)
(* writes the copy back, and no lock spans the two.  The handlers run in   *)
(* four kinds of goroutine: the live hub (all WebSocket events, one after  *)
(* the other), the timer, one goroutine per player who left, and the HTTP  *)
(* request that starts a game.  A handler is one step that loads the game  *)
(* and computes its writes, and then one step per write.                   *)
(***************************************************************************)
EXTENDS Integers, Sequences, FiniteSets, SequencesExt

CONSTANTS
  Tables,     \* who plays, and within which bounds: the user ids of the
              \* players on stage, who of them votes, how many goroutines
              \* are in a handler at once, how many UPDATEs of active_game fail
  Host,       \* the player who hosts the room
  MaxDay,     \* bound on the day number
  MaxVoteDay, \* bound on the last day with votes
  NoGame,     \* active_game IS NULL
  Bottle      \* active_game holds the other game, spin the bottle

ASSUME MafiaAssumption ==
  /\ \A t \in Tables :
       /\ t.players \subseteq Nat \ {0} /\ IsFiniteSet(t.players) /\ Host \in t.players
       /\ t.voters \subseteq t.players
       /\ t.width \in Nat \ {0} /\ t.fails \in Nat
  /\ {MaxDay, MaxVoteDay} \subseteq Nat

VARIABLES
  activeGame, \* live_rooms.active_game
  todo,       \* what each goroutine still has to write
  started,    \* a game was started (bound: one game)
  panicked,   \* dealing the roles ran out of players
  fails,      \* UPDATEs that failed so far
  table       \* who plays, chosen at the start

gameVars == <<activeGame, todo, started, panicked, fails, table>>

Players == table.players
AllPlayers == UNION {t.players : t \in Tables}

\* The goroutine of a player who left has the number of the player.
Hub == -1
Timer == -2
Starter == -3
Goroutines == {Hub, Timer, Starter} \cup AllPlayers

Phases == {"intro", "night", "day", "vote", "defense", "final", "execution", "ended"}
NoOne == 0

RoleNames == {"don", "mafia", "detective", "citizen"}

\* MafiaGame, for these players; the phase's end is in time or has passed.
Games(players) ==
  [phase : Phases, day : Nat, role : [players -> RoleNames],
   alive : SUBSET players, ready : SUBSET players,
   don : players \cup {NoOne}, det : players \cup {NoOne},
   votes : UNION {[voters -> players] : voters \in SUBSET players}, voted : SUBSET players,
   trial : Seq(players), turn : Nat, winner : {"none", "town", "mafia"}, expired : BOOLEAN]

ASSUME GameAssumption ==
  \A t \in Tables : NoGame \notin Games(t.players) /\ Bottle \notin Games(t.players)

IsGame(g) == g # NoGame /\ g # Bottle

Save(g) == [op |-> "save", game |-> g]
Clear == [op |-> "clear"]
Advance == [op |-> "advance"]
-----------------------------------------------------------------------------
(* The roles *)

\* rolesByPlayerCount.
RoleTable ==
  [n \in 3..12 |->
    CASE n \in 3..6   -> [don |-> 0, mafia |-> 1, detective |-> 1, citizen |-> n - 2]
      [] n \in 7..8   -> [don |-> 1, mafia |-> 1, detective |-> 1, citizen |-> n - 3]
      [] n \in 9..11  -> [don |-> 1, mafia |-> 2, detective |-> 1, citizen |-> n - 3]
      [] n = 12       -> [don |-> 1, mafia |-> 3, detective |-> 1, citizen |-> 9]]

RolesNeeded(n) ==
  LET row == RoleTable[n] IN row.don + row.mafia + row.detective + row.citizen

\* assignRoles: the players are shuffled and dealt the roles one after the
\* other; a role without a player indexes past the end of the slice.
Deals(ps) ==
  IF RolesNeeded(Cardinality(ps)) > Cardinality(ps) THEN {}
  ELSE {roles \in [ps -> RoleNames] :
          \A role \in RoleNames :
            Cardinality({p \in ps : roles[p] = role}) = RoleTable[Cardinality(ps)][role]}

-----------------------------------------------------------------------------
(* The rules of the game *)

MafiaRoles == {"mafia", "don"}
AliveMafia(g) == {p \in g.alive : g.role[p] \in MafiaRoles}
AliveTown(g) == g.alive \ AliveMafia(g)

\* checkWinner.
Winner(g) ==
  IF AliveMafia(g) = {} THEN "town"
  ELSE IF Cardinality(AliveMafia(g)) >= Cardinality(AliveTown(g)) THEN "mafia"
  ELSE "none"

InPhase(g, phase) == [g EXCEPT !.phase = phase, !.expired = FALSE]

NoVotes == [voter \in {} |-> NoOne]

VotesReset(g) == [g EXCEPT !.votes = NoVotes, !.voted = {}]

TrialResetBeforeFirst(g) == [g EXCEPT !.trial = <<>>, !.turn = -1]

TrialReset(g) == [g EXCEPT !.trial = <<>>, !.turn = 0]

ReassignedNever(g) == {g}

\* reassignDonIfNeeded: some living mafia becomes the don if none is.
Reassigned(g) ==
  IF AliveMafia(g) = {} \/ \E p \in g.alive : g.role[p] = "don" THEN {g}
  ELSE {[g EXCEPT !.role[p] = "don"] : p \in AliveMafia(g)}

Killed(g, p) == [g EXCEPT !.alive = @ \ {p}]

\* resolveNight: the don's kill first; a detective who dies of it finds nobody.
NightResolved(g) ==
  LET shot == IF g.don \in g.alive THEN Killed(g, g.don) ELSE g
      found == /\ g.det \in AliveMafia(shot)
               /\ \E p \in shot.alive : g.role[p] = "detective"
      after == IF found THEN Killed(shot, g.det) ELSE shot
  IN {[h EXCEPT !.don = NoOne, !.det = NoOne] : h \in Reassigned(after)}

Count(g, p) == Cardinality({voter \in DOMAIN g.votes : g.votes[voter] = p})

\* resolveFirstVote: two votes bring a player before the court, those with the
\* most votes first, then by user id.
Accused(g) == {p \in DOMAIN g.role : Count(g, p) >= 2}

Before(g, p, q) ==
  \/ Count(g, p) > Count(g, q)
  \/ Count(g, p) = Count(g, q) /\ p < q

Trials(g) ==
  {t \in [1..Cardinality(Accused(g)) -> Accused(g)] :
     \A i, j \in DOMAIN t : i < j => Before(g, t[i], t[j])}

FirstVoteResolved(g) == {[g EXCEPT !.trial = t, !.turn = 0] : t \in Trials(g)}

\* The one player with the most votes, if there is one and it is alive.
Condemned(g) ==
  {p \in g.alive : /\ Count(g, p) > 0
                   /\ \A q \in DOMAIN g.role \ {p} : Count(g, q) < Count(g, p)}

-----------------------------------------------------------------------------
(* The phases: what is written, in order *)

DayOf(g) == TrialReset(VotesReset(InPhase(g, "day")))

\* enterNight.
NightOf(g) ==
  [TrialReset(VotesReset(InPhase(g, "night"))) EXCEPT
     !.day = @ + 1, !.don = NoOne, !.det = NoOne]

\* After the intro nothing reads is_ready: the model forgets it.
FirstDayOf(g) == DayOf([g EXCEPT !.day = IF @ = 0 THEN 1 ELSE @, !.ready = {}])

EndedOf(g) == [InPhase(g, "ended") EXCEPT !.winner = Winner(g)]

FinishSwapped(g, rest) ==
  IF Winner(g) # "none" THEN <<Clear, Save(EndedOf(g))>> ELSE rest

\* checkAndFinish, and what follows if nobody has won.
FinishOr(g, rest) ==
  IF Winner(g) # "none" THEN <<Save(EndedOf(g)), Clear>> ELSE rest

\* The end of a night: announceNight, checkAndFinish, enterDay.
NightOver(g) ==
  {<<Save(h)>> \o FinishOr(h, <<Save(DayOf(h))>>) : h \in NightResolved(g)}

\* Mutant: the night is entered at once, from the copy before the execution.
FinalVoteOverStale(g) ==
  IF Condemned(g) = {}
  THEN {<<Save(TrialReset(g)), Save(NightOf(g))>>}
  ELSE UNION {{LET out == InPhase(TrialReset(h), "execution")
               IN <<Save(out)>> \o FinishOr(out, <<Save(NightOf(g))>>) : h \in Reassigned(Killed(g, p))} :
                 p \in Condemned(g)}

\* The end of a final vote.
FinalVoteOver(g) ==
  IF Condemned(g) = {}
  THEN {<<Save(TrialReset(g)), Save(NightOf(g))>>}
  ELSE UNION {{LET out == InPhase(TrialReset(h), "execution")
               IN <<Save(out)>> \o FinishOr(out, <<>>) : h \in Reassigned(Killed(g, p))} :
                 p \in Condemned(g)}

\* The end of one defence: the next one's turn, or the final vote.
DefenseOver(g) ==
  IF g.turn + 1 < Len(g.trial)
  THEN <<Save(InPhase([g EXCEPT !.turn = @ + 1], "defense"))>>
  ELSE <<Save(InPhase(VotesReset([g EXCEPT !.turn = @ + 1]), "final"))>>

VoteOver(g) ==
  {IF h.trial = <<>> THEN <<Save(NightOf(h))>> ELSE <<Save(InPhase(h, "defense"))>> :
     h \in FirstVoteResolved(g)}

\* advancePhase.
Advanced(g) ==
  CASE g.phase = "intro"     -> {<<Save(FirstDayOf(g))>>}
    [] g.phase = "night"     -> NightOver(g)
    [] g.phase = "day"       -> {<<Save(InPhase(TrialReset(VotesReset(g)), "vote"))>>}
    [] g.phase = "vote"      -> VoteOver(g)
    [] g.phase = "defense"   -> {DefenseOver(g)}
    [] g.phase = "final"     -> FinalVoteOver(g)
    [] g.phase = "execution" -> {<<Save(NightOf(g))>>}
    [] g.phase = "ended"     -> {<<>>}
-----------------------------------------------------------------------------
(* The goroutines *)

Idle(r) == todo[r] = <<>>

MayRun(r) ==
  /\ Idle(r)
  /\ Cardinality({s \in Goroutines : ~Idle(s)}) < table.width

\* A handler in goroutine r has loaded the game and will write these.
Handle(r, writes) ==
  /\ todo' = [todo EXCEPT ![r] = writes]
  /\ UNCHANGED <<activeGame, started, panicked, fails, table>>

Write(r) ==
  /\ todo[r] # <<>>
  /\ Head(todo[r]).op \in {"save", "clear"}
  /\ todo' = [todo EXCEPT ![r] = Tail(@)]
  /\ activeGame' = IF Head(todo[r]).op = "save" THEN Head(todo[r]).game ELSE NoGame
  /\ UNCHANGED <<started, panicked, fails, table>>

\* The error is ignored, and the handler goes on.
WriteFails(r) ==
  /\ todo[r] # <<>>
  /\ Head(todo[r]).op \in {"save", "clear"}
  /\ fails < table.fails
  /\ fails' = fails + 1
  /\ todo' = [todo EXCEPT ![r] = Tail(@)]
  /\ UNCHANGED <<activeGame, started, panicked, table>>

\* advancePhase loads the game again.
Load(r) ==
  /\ todo[r] # <<>>
  /\ Head(todo[r]).op = "advance"
  /\ \E writes \in IF IsGame(activeGame) THEN Advanced(activeGame) ELSE {<<>>} :
       todo' = [todo EXCEPT ![r] = writes \o Tail(@)]
  /\ UNCHANGED <<activeGame, started, panicked, fails, table>>

EventIn(phases) ==
  /\ MayRun(Hub)
  /\ IsGame(activeGame)
  /\ activeGame.phase \in phases
  /\ activeGame.day <= MaxDay

\* mafia_ready.
Ready ==
  /\ EventIn({"intro"})
  /\ \E p \in activeGame.alive :
       LET g == [activeGame EXCEPT !.ready = @ \cup {p}]
       IN Handle(Hub, <<Save(g)>> \o
                      (IF g.alive \subseteq g.ready THEN <<Save(FirstDayOf(g))>> ELSE <<>>))

\* allNightActionsDone.
NightDone(g) ==
  /\ (\E p \in g.alive : g.role[p] = "don") => g.don # NoOne
  /\ (\E p \in g.alive : g.role[p] = "detective") => g.det # NoOne

Acted(g) ==
  IF NightDone(g) THEN {<<Save(g)>> \o writes : writes \in NightOver(g)} ELSE {<<Save(g)>>}

\* mafia_night_action.
NightAction ==
  /\ EventIn({"night"})
  /\ \E p \in activeGame.alive : \E target \in activeGame.alive \ {p} :
       \/ /\ activeGame.role[p] = "don"
          /\ \E writes \in Acted([activeGame EXCEPT !.don = target]) : Handle(Hub, writes)
       \/ /\ activeGame.role[p] = "detective"
          /\ \E writes \in Acted([activeGame EXCEPT !.det = target]) : Handle(Hub, writes)

AnyTarget(g) == g.alive

Targets(g) == IF g.phase = "final" THEN g.alive \cap ToSet(g.trial) ELSE g.alive

\* mafia_vote: everybody has voted ends the vote.
Vote ==
  /\ EventIn({"vote", "final"})
  /\ activeGame.day <= MaxVoteDay
  /\ \E p \in activeGame.alive \cap table.voters : \E target \in Targets(activeGame) \ {p} :
       LET g == [activeGame EXCEPT !.voted = @ \cup {p},
                   !.votes = [voter \in DOMAIN @ \cup {p} |->
                                IF voter = p THEN target ELSE @[voter]]]
       IN Handle(Hub, <<Save(g)>> \o
                      (IF g.alive \subseteq g.voted THEN <<Advance>> ELSE <<>>))

\* mafia_defense_end, by trial[turn + 1]: only the defender ends the defence.
EndDefense ==
  /\ EventIn({"defense"})
  /\ activeGame.turn < Len(activeGame.trial)
  /\ Handle(Hub, <<Advance>>)

\* mafia_cancel, by the host.
Cancel ==
  /\ MayRun(Hub)
  /\ IsGame(activeGame)
  /\ Handle(Hub, <<Clear>>)

\* game_spin and game_stop, by a moderator: one UPDATE, no load.
SpinBottle ==
  /\ MayRun(Hub)
  /\ activeGame' = Bottle
  /\ UNCHANGED <<todo, started, panicked, fails, table>>

StopGame ==
  /\ MayRun(Hub)
  /\ activeGame' = NoGame
  /\ UNCHANGED <<todo, started, panicked, fails, table>>

LeftUnchecked(g, p) == {<<Save(h)>> : h \in Reassigned(Killed(g, p))}

\* What a player who leaves writes: the death, and the end if it decides the game.
LeftWrites(g, p) ==
  {<<Save(h)>> \o FinishOr(h, <<>>) : h \in Reassigned(Killed(g, p))}

\* mafiaHandlePlayerLeft, in a goroutine of its own.
Leave(p) ==
  /\ MayRun(p)
  /\ p # Host
  /\ IsGame(activeGame)
  /\ activeGame.phase # "ended"
  /\ p \in activeGame.alive
  /\ \E writes \in LeftWrites(activeGame, p) : Handle(p, writes)

-----------------------------------------------------------------------------
(* Time *)

\* Copies of the game with the same phase_ends_at.
Instant(g) == <<g.phase, g.day, g.turn>>

OutOfTime(t) ==
  IF t.op = "save" /\ Instant(t.game) = Instant(activeGame)
  THEN [t EXCEPT !.game.expired = TRUE] ELSE t

\* phase_ends_at passes.
Expire ==
  /\ IsGame(activeGame)
  /\ ~activeGame.expired
  /\ activeGame' = [activeGame EXCEPT !.expired = TRUE]
  /\ todo' = [r \in Goroutines |-> [i \in DOMAIN todo[r] |-> OutOfTime(todo[r][i])]]
  /\ UNCHANGED <<started, panicked, fails, table>>

IsDueAlways(g) == g.phase # "ended"

\* phaseExpired.
IsDue(g) == g.phase # "ended" /\ g.expired

\* RunMafiaTimer: it loads the game, and advancePhase loads it again.
TimerLooks ==
  /\ MayRun(Timer)
  /\ IsGame(activeGame)
  /\ IsDue(activeGame)
  /\ activeGame.day <= MaxDay
  /\ Handle(Timer, <<Advance>>)

-----------------------------------------------------------------------------
NewGame(roles) ==
  [phase |-> "intro", day |-> 0, role |-> roles, alive |-> DOMAIN roles, ready |-> {},
   don |-> NoOne, det |-> NoOne, votes |-> NoVotes, voted |-> {}, trial |-> <<>>,
   turn |-> 0, winner |-> "none", expired |-> FALSE]

\* StartMafia: the room has no game, the players on stage are 3 to 12.
Start ==
  /\ MayRun(Starter)
  /\ ~started
  /\ activeGame = NoGame
  /\ Cardinality(Players) \in 3..12
  /\ started' = TRUE
  /\ UNCHANGED <<activeGame, fails, table>>
  /\ panicked' = (Deals(Players) = {})
  /\ todo' \in IF Deals(Players) = {} THEN {todo}
               ELSE {[todo EXCEPT ![Starter] = <<Save(NewGame(roles))>>] :
                       roles \in Deals(Players)}

GameInit ==
  /\ activeGame = NoGame
  /\ todo = [r \in Goroutines |-> <<>>]
  /\ started = FALSE
  /\ panicked = FALSE
  /\ fails = 0
  /\ table \in Tables

GameNext ==
  \/ Start
  \/ Ready \/ NightAction \/ Vote \/ EndDefense \/ Cancel
  \/ SpinBottle \/ StopGame
  \/ Expire \/ TimerLooks
  \/ \E p \in AllPlayers : Leave(p)
  \/ \E r \in Goroutines : Write(r) \/ WriteFails(r) \/ Load(r)

GameSpec == GameInit /\ [][GameNext]_gameVars

-----------------------------------------------------------------------------
(* Properties *)

\* The game in the database and every copy a goroutine is about to write.
Copies ==
  ({activeGame} \cup {t.game : t \in {u \in UNION {ToSet(todo[r]) : r \in Goroutines} :
                                    u.op = "save"}}) \ {NoGame, Bottle}

\* Every variable, and every copy of the game, keeps its type.
GameTypeOK ==
  /\ Copies \subseteq Games(Players)
  /\ \A r \in Goroutines : \A t \in ToSet(todo[r]) : t.op \in {"save", "clear", "advance"}
  /\ {started, panicked} \subseteq BOOLEAN
  /\ fails \in 0..table.fails

\* A defence always has a defender (enterDefense indexes OnTrial with it),
\* however the writes of the goroutines interleave.
DefenseHasDefender ==
  \A g \in Copies : g.phase = "defense" => g.turn < Len(g.trial)

\* Every copy of the game anybody may write is one the next handler can go on
\* from: no field leaves its range, no defence is without its defender.
WellFormed == GameTypeOK /\ DefenseHasDefender

\* Never two dons, and after the first death living mafia always have one:
\* the night's kill, the detective's find, the lynching and the leaving
\* player each pass the role on.
OneDonOnceSomeoneDied ==
  \A g \in Copies :
    LET dons == {p \in g.alive : g.role[p] = "don"}
    IN /\ Cardinality(dons) <= 1
       /\ g.alive # DOMAIN g.role /\ AliveMafia(g) # {} => dons # {}

\* Whatever gets lost between goroutines, no copy anybody writes breaks the
\* rules of the game.
CopiesKeepRules == WellFormed /\ OneDonOnceSomeoneDied

\* No write pending: nothing of a handler is left to do.
Quiet == \A r \in Goroutines : Idle(r)

\* Between handlers a game goes on exactly while nobody has won, unless a write
\* was lost: while handlers run one after the other.
UndecidedWhileRunning ==
  Quiet /\ IsGame(activeGame) /\ fails = 0 /\ table.width = 1 =>
    activeGame.phase # "ended" /\ Winner(activeGame) = "none"

\* The next two hold while handlers run one after the other; with two
\* goroutines at work they do not (README.md).

\* mafia_flow.go: who left or was killed counts as dead.
NobodyRevives ==
  IsGame(activeGame) /\ IsGame(activeGame') => activeGame'.alive \subseteq activeGame.alive

\* mafia_state.go: active_game is NULL once the game is over; it comes back when
\* a game is started.
NoGameReturns == ~IsGame(activeGame) /\ IsGame(activeGame') => todo[Starter] # <<>>

\* Nothing a handler did is undone by another that read the game before: no
\* player comes back to life, and no game that was cancelled, stopped or
\* finished comes back.
NothingIsUndone == [][table.width = 1 => NobodyRevives /\ NoGameReturns]_gameVars

\* mafia_engine.go: every defence lasts its minute - it ends when the time is
\* out or the defender says so, and not because a phase is advanced twice.
DefenseTurnKept ==
  [][/\ table.width = 1 /\ IsGame(activeGame) /\ IsGame(activeGame')
     /\ activeGame.phase = "defense" /\ ~activeGame.expired
     /\ <<activeGame.phase, activeGame.turn>> # <<activeGame'.phase, activeGame'.turn>>
     => todo[Hub] # <<>> \/ activeGame'.phase = "ended"]_gameVars

-----------------------------------------------------------------------------
(* What the documents and comments promise and the code does not keep: see *)
(* README.md.                                                             *)

\* assignRoles has a player for every role it deals.
RolesFit == ~panicked
=============================================================================
