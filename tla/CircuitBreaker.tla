--------------------------- MODULE CircuitBreaker ---------------------------
(***************************************************************************)
(* The circuit breaker in front of Redis (cache/breaker.go), step by atomic *)
(* step, with the calls that go through it (guard and observe in            *)
(* cache/redis.go, the chunks of MGet in cache/pubsub.go).  The breaker's   *)
(* state, the instant it opened and the list of errors are three variables; *)
(* only the list is under the mutex.                                        *)
(***************************************************************************)
EXTENDS Integers

CONSTANTS
  Calls,       \* goroutines that call Redis
  Threshold,   \* failures within a minute that open the breaker
  Chunks,      \* may a call be an MGet of several chunks?
  MaxOutages   \* bound on the outages of Redis

ASSUME BreakerAssumption ==
  /\ Threshold \in Nat \ {0}
  /\ Chunks \in BOOLEAN
  /\ MaxOutages \in Nat

VARIABLES
  state,    \* "closed", "open" or "half"
  cooled,   \* has the cooldown passed since openedAtNano?
  errors,   \* failures on record, counted up to Threshold
  call,     \* what each goroutine is about to do
  up,       \* does Redis answer?
  outages   \* outages so far

breakerVars == <<state, cooled, errors, call, up, outages>>

Stages == {"idle", "looking", "racing", "calling", "succeeded", "failed",
           "closing", "clearing", "stamping", "opening", "counted", "marking"}

NoCall == [stage |-> "idle", trial |-> FALSE]

Doing(c, stage) == call[c].stage = stage
Goes(c, stage) == call' = [call EXCEPT ![c].stage = stage]
Ends(c) == call' = [call EXCEPT ![c] = NoCall]

\* Failure holds b.mu from the count to its end.
MutexFree == \A c \in Calls : call[c].stage \notin {"counted", "marking"}

-----------------------------------------------------------------------------
(* Allow *)

\* Closed lets the call through, half-open does not.
Allow(c) ==
  /\ Doing(c, "idle")
  /\ state # "half"
  /\ Goes(c, IF state = "closed" THEN "calling" ELSE "looking")
  /\ UNCHANGED <<state, cooled, errors, up, outages>>

\* Open: the instant it opened is read next.
Look(c) ==
  /\ Doing(c, "looking")
  /\ IF cooled THEN Goes(c, "racing") ELSE Ends(c)
  /\ UNCHANGED <<state, cooled, errors, up, outages>>

RaceWithoutSwap(c) ==
  /\ Doing(c, "racing")
  /\ call' = [call EXCEPT ![c] = [stage |-> "calling", trial |-> TRUE]]
  /\ UNCHANGED <<state, cooled, errors, up, outages>>

\* CompareAndSwap(open, half-open): the winner makes the trial call.
Race(c) ==
  /\ Doing(c, "racing")
  /\ IF state = "open"
       THEN /\ state' = "half"
            /\ call' = [call EXCEPT ![c] = [stage |-> "calling", trial |-> TRUE]]
       ELSE Ends(c) /\ UNCHANGED state
  /\ UNCHANGED <<cooled, errors, up, outages>>

-----------------------------------------------------------------------------
(* The call, and observe *)

\* A call may have begun before Redis came up or went down.
Answer(c) ==
  /\ Doing(c, "calling")
  /\ \/ Goes(c, "succeeded")
     \/ ~up /\ Goes(c, "failed")
  /\ UNCHANGED <<state, cooled, errors, up, outages>>

\* MGet goes on to its next chunk without asking the breaker again.
More(c) ==
  IF Chunks
    THEN Ends(c) \/ call' = [call EXCEPT ![c] = [stage |-> "calling", trial |-> FALSE]]
    ELSE Ends(c)

ClosesFromOpen == {"open"}
ClosesFrom == {"half"}

\* Success: only half-open is left, for closed.
Success(c) ==
  /\ Doing(c, "succeeded")
  /\ IF state \in ClosesFrom THEN Goes(c, "closing") ELSE More(c)
  /\ UNCHANGED <<state, cooled, errors, up, outages>>

Close(c) ==
  /\ Doing(c, "closing")
  /\ state' = "closed"
  /\ Goes(c, "clearing")
  /\ UNCHANGED <<cooled, errors, up, outages>>

Clear(c) ==
  /\ Doing(c, "clearing")
  /\ MutexFree
  /\ errors' = 0
  /\ More(c)
  /\ UNCHANGED <<state, cooled, up, outages>>

\* Failure of a half-open breaker: stamp and open again, without the mutex.
Fail(c) ==
  /\ Doing(c, "failed")
  /\ state = "half"
  /\ Goes(c, "stamping")
  /\ UNCHANGED <<state, cooled, errors, up, outages>>

Stamp(c) ==
  /\ Doing(c, "stamping")
  /\ cooled' = FALSE
  /\ Goes(c, "opening")
  /\ UNCHANGED <<state, errors, up, outages>>

Reopen(c) ==
  /\ Doing(c, "opening")
  /\ state' = "open"
  /\ Ends(c)
  /\ UNCHANGED <<cooled, errors, up, outages>>

\* Failure otherwise: errors older than a minute go, this one is recorded.
Count(c) ==
  /\ Doing(c, "failed")
  /\ state # "half"
  /\ MutexFree
  /\ \E kept \in 0..errors :
       /\ errors' = IF kept < Threshold THEN kept + 1 ELSE kept
       /\ IF kept + 1 >= Threshold THEN Goes(c, "counted") ELSE Ends(c)
  /\ UNCHANGED <<state, cooled, up, outages>>

StampCounted(c) ==
  /\ Doing(c, "counted")
  /\ cooled' = FALSE
  /\ Goes(c, "marking")
  /\ UNCHANGED <<state, errors, up, outages>>

OpenCounted(c) ==
  /\ Doing(c, "marking")
  /\ state' = "open"
  /\ Ends(c)
  /\ UNCHANGED <<cooled, errors, up, outages>>

-----------------------------------------------------------------------------
\* The cooldown passes.
Cool ==
  /\ ~cooled
  /\ cooled' = TRUE
  /\ UNCHANGED <<state, errors, call, up, outages>>

GoesDown ==
  /\ up
  /\ outages < MaxOutages
  /\ up' = FALSE
  /\ outages' = outages + 1
  /\ UNCHANGED <<state, cooled, errors, call>>

ComesUp ==
  /\ ~up
  /\ up' = TRUE
  /\ UNCHANGED <<state, cooled, errors, call, outages>>

BreakerInit ==
  /\ state = "closed"
  /\ cooled = TRUE
  /\ errors = 0
  /\ call = [c \in Calls |-> NoCall]
  /\ up = TRUE
  /\ outages = 0

Steps(c) ==
  \/ Allow(c) \/ Look(c) \/ Race(c) \/ Answer(c) \/ Success(c) \/ Close(c) \/ Clear(c)
  \/ Fail(c) \/ Stamp(c) \/ Reopen(c) \/ Count(c) \/ StampCounted(c) \/ OpenCounted(c)

BreakerNext == (\E c \in Calls : Steps(c)) \/ Cool \/ GoesDown \/ ComesUp

BreakerSpec == BreakerInit /\ [][BreakerNext]_breakerVars

\* Goroutines run, calls time out, the mutex is granted, the presence
\* heartbeat keeps calling, and an outage ends.
BreakerFairness ==
  /\ \A c \in Calls : WF_breakerVars(Steps(c)) /\ SF_breakerVars(Clear(c) \/ Count(c))
  /\ WF_breakerVars(Cool)
  /\ WF_breakerVars(ComesUp)

FairBreaker == BreakerSpec /\ BreakerFairness

-----------------------------------------------------------------------------
(* Properties *)

\* Types, and b.mu has one holder: the list of errors is a slice.
BreakerTypeOK ==
  /\ state \in {"closed", "open", "half"}
  /\ cooled \in BOOLEAN
  /\ errors \in 0..Threshold
  /\ call \in [Calls -> [stage : Stages, trial : BOOLEAN]]
  /\ up \in BOOLEAN
  /\ outages \in 0..MaxOutages
  /\ \A c, d \in Calls :
       {call[c].stage, call[d].stage} \subseteq {"counted", "marking"} => c = d

\* Allow refuses everything while half-open, so somebody must be under way
\* whose outcome ends it: the call let through as the trial.
HalfOpenHasTrial ==
  state = "half" =>
    \E c \in Calls :
      /\ call[c].trial
      /\ call[c].stage \in {"calling", "succeeded", "failed", "closing", "stamping", "opening"}

\* Allow, Success and Failure, between their atomic steps: b.mu has one holder, and
\* a half-open breaker is never left without the call that ends it.
BreakerIsSound == BreakerTypeOK /\ HalfOpenHasTrial

\* Once Redis answers for good the breaker closes for good.
Recovers == <>[](up /\ state = "closed")

-----------------------------------------------------------------------------
(* What the documents and comments promise and the code does not keep: see *)
(* README.md.                                                             *)

\* breaker.go: the trial is let through once the cooldown has passed.
TrialsWaitForCooldown == [][state = "open" /\ state' = "half" => cooled]_breakerVars

\* breaker.go: in half-open it is the trial's success that closes the breaker.
TrialCloses ==
  [][state = "half" /\ state' = "closed" =>
       \E c \in Calls : call[c].trial /\ call[c].stage = "closing" /\ call[c] # call'[c]]_breakerVars
=============================================================================
