------------------------------ MODULE Continuous ------------------------------
(***************************************************************************)
(* run-continuous (internal/app/continuous.go) with its rate-limit         *)
(* preflight (internal/app/rate_limit.go): chunks for ever, each of them   *)
(* preflight, run, store, retention and strict check.  A failure is        *)
(* reported and followed by a delay that doubles; a preflight that refuses *)
(* costs the chunk's span only.  The preflight may buy request capacity,   *)
(* within max_reserve_weight of this process.                              *)
(*                                                                         *)
(* A chunk is one run of BenchRunner, of which the loop sees an error or a *)
(* result.  Times are timers in ticks.  A process that dies is started     *)
(* again by its service and has forgotten everything here.  The context is *)
(* never cancelled: the command installs no signal handler.                *)
(***************************************************************************)
EXTENDS Integers, FiniteSetsExt

CONSTANTS
  BaseDelay, MaxDelay,   \* of the supervisor
  Span,                  \* continuousChunkSpan
  MinRemaining, ReserveTarget, MaxReserveWeight,
  Hour,                  \* how long a failed reserve keeps the next one away
  Limits,                \* what the operator chose: [slow : BOOLEAN, reserve : BOOLEAN]
  Capacity,              \* bound on what the venue grants by itself
  MaxFailures,           \* bound on failures counted; the delay is MaxDelay by then
  MaxStarts,             \* bound on starts of the process, and
  MaxUnanswered          \* on reserves whose answer is lost

ASSUME ContinuousAssumption ==
  /\ {BaseDelay, MaxDelay, Span, MinRemaining, Hour} \subseteq Nat \ {0}
  /\ {ReserveTarget, MaxReserveWeight, Capacity, MaxFailures, MaxStarts, MaxUnanswered} \subseteq Nat
  /\ Limits \subseteq [slow : BOOLEAN, reserve : BOOLEAN]
  /\ BaseDelay * 2 ^ MaxFailures >= MaxDelay

VARIABLES
  limit, pc,
  left,         \* ticks until this chunk's span is over, and
  wait,         \* until the sleep under way ends
  failures,     \* of the supervisor
  sour,         \* whether the result of the chunk fails the strict check
  session,      \* "new" when no chunk has run in it
  weight,       \* what the preflight is about to reserve
  reserved, blocked,   \* rateLimitState; reserveBlockedUntil as a timer
  remaining,    \* the venue's count
  starts,
  bought,       \* history: weight the venue has sold,
  unanswered,   \* reserves it carried out or not, without an answer,
  since,        \* ticks since the last of these in this process, up to Hour,
  refilled,     \* whether a status has shown enough capacity after it,
  streak,       \* chunks that failed since the last complete one,
  rest          \* ticks since the last of these, up to MaxDelay

loop == <<limit, pc, left, wait, failures, sour, session>>
preflight == <<weight, reserved, blocked>>
history == <<bought, unanswered, since, refilled, streak, rest>>
supervisorVars == <<loop, preflight, remaining, starts, history>>

Fresh ==
  /\ pc = "chunk" /\ left = 0 /\ wait = 0 /\ failures = 0 /\ sour = FALSE /\ session = "new"
  /\ weight = 0 /\ reserved = 0 /\ blocked = 0
  /\ since = Hour /\ refilled = FALSE /\ streak = 0 /\ rest = MaxDelay

SupervisorInit ==
  /\ Fresh /\ limit \in Limits /\ remaining \in 0..Capacity
  /\ starts = 1 /\ bought = 0 /\ unanswered = 0

Begin ==
  /\ pc = "chunk" /\ pc' = "status" /\ left' = Span
  /\ UNCHANGED <<limit, wait, failures, sour, session, preflight, remaining, starts, history>>

-----------------------------------------------------------------------------
(* preflight                                                               *)

\* The chunk is skipped, not retried: what is left of its span is slept.
Refused == pc' = "sleep" /\ wait' = left /\ UNCHANGED <<limit, left, failures, sour, session>>
Goes(where) == pc' = where /\ UNCHANGED <<limit, left, wait, failures, sour, session>>

Target == Max({ReserveTarget, MinRemaining})
Enough == remaining >= MinRemaining

MayReserve == limit.reserve /\ blocked = 0 /\ reserved + (Target - remaining) <= MaxReserveWeight

StatusFails ==
  /\ pc \in {"status", "statusAfter"} /\ Refused
  /\ UNCHANGED <<preflight, remaining, starts, history>>

StatusEnough ==
  /\ pc = "status" /\ Enough /\ Goes("run") /\ blocked' = 0 /\ refilled' = TRUE
  /\ UNCHANGED <<weight, reserved, remaining, starts, bought, unanswered, since, streak, rest>>

\* Below the minimum a slow benchmark goes on all the same.
StatusSlow ==
  /\ pc = "status" /\ ~Enough /\ limit.slow /\ Goes("run")
  /\ UNCHANGED <<preflight, remaining, starts, history>>

StatusLow ==
  /\ pc = "status" /\ ~Enough /\ ~limit.slow
  /\ IF MayReserve THEN Goes("reserve") /\ weight' = Target - remaining
                   ELSE Refused /\ UNCHANGED weight
  /\ UNCHANGED <<reserved, blocked, remaining, starts, history>>

Reserve ==
  /\ pc = "reserve" /\ Goes("statusAfter")
  /\ remaining' = remaining + weight /\ bought' = bought + weight
  /\ reserved' = reserved + weight /\ blocked' = 0
  /\ UNCHANGED <<weight, starts, unanswered, since, refilled, streak, rest>>

\* Mutant of ReserveFails: the next chunk may try again.
ReserveFailsLightly ==
  /\ pc = "reserve" /\ unanswered < MaxUnanswered /\ Refused
  /\ \E sold \in {0, weight} : remaining' = remaining + sold /\ bought' = bought + sold
  /\ unanswered' = unanswered + 1 /\ since' = 0 /\ refilled' = FALSE
  /\ UNCHANGED <<weight, reserved, blocked, starts, streak, rest>>

\* It failed, or was carried out and its answer was lost or late: not counted.
ReserveFails ==
  /\ pc = "reserve" /\ unanswered < MaxUnanswered /\ Refused
  /\ \E sold \in {0, weight} : remaining' = remaining + sold /\ bought' = bought + sold
  /\ blocked' = Hour
  /\ unanswered' = unanswered + 1 /\ since' = 0 /\ refilled' = FALSE
  /\ UNCHANGED <<weight, reserved, starts, streak, rest>>

StatusAfter ==
  /\ pc = "statusAfter"
  /\ IF Enough THEN Goes("run") ELSE Refused
  /\ UNCHANGED <<preflight, remaining, starts, history>>

-----------------------------------------------------------------------------
(* the chunk                                                               *)

NextDelay == Min({BaseDelay * 2 ^ failures, MaxDelay})

Failed(newSession) ==
  /\ wait' = NextDelay /\ failures' = Min({failures + 1, MaxFailures}) /\ pc' = "sleep"
  /\ session' = IF newSession THEN "new" ELSE session
  /\ streak' = Min({streak + 1, MaxFailures + 1}) /\ rest' = 0
  /\ UNCHANGED <<limit, left, sour, preflight, starts, bought, unanswered, since, refilled>>

Consumed(n) == IF n >= remaining THEN 0 ELSE remaining - n

RunFails ==
  /\ pc = "run" /\ Failed(TRUE)
  /\ \E n \in 0..1 : remaining' = Consumed(n)

Run ==
  /\ pc = "run" /\ pc' = "write" /\ session' = "used"
  /\ sour' \in BOOLEAN /\ \E n \in 0..1 : remaining' = Consumed(n)
  /\ UNCHANGED <<limit, left, wait, failures, preflight, starts, history>>

\* Samples that cannot be stored, or old ones that cannot be deleted: the
\* strict check of this chunk is not reached, and the session goes on.
StoreFails == pc \in {"write", "retain"} /\ Failed(FALSE) /\ UNCHANGED remaining

\* Mutant of Store: a chunk counts as a success once it is stored.
StoreResets ==
  /\ pc \in {"write", "retain"}
  /\ pc' = IF pc = "write" THEN "retain" ELSE "check"
  /\ failures' = 0
  /\ UNCHANGED <<limit, left, wait, sour, session, preflight, remaining, starts, history>>

Store ==
  /\ pc \in {"write", "retain"} /\ Goes(IF pc = "write" THEN "retain" ELSE "check")
  /\ UNCHANGED <<preflight, remaining, starts, history>>

StrictFails == pc = "check" /\ sour /\ Failed(TRUE) /\ UNCHANGED remaining

Complete ==
  /\ pc = "check" /\ ~sour
  /\ failures' = 0 /\ pc' = "sleep" /\ wait' = left
  /\ streak' = 0
  /\ UNCHANGED <<limit, left, sour, session, preflight, remaining, starts,
                 bought, unanswered, since, refilled, rest>>

WakeUp ==
  /\ pc = "sleep" /\ wait = 0 /\ Goes("chunk")
  /\ UNCHANGED <<preflight, remaining, starts, history>>

-----------------------------------------------------------------------------
Down(n) == IF n = 0 THEN 0 ELSE n - 1

TimersTick ==
  /\ left' = Down(left) /\ wait' = Down(wait) /\ blocked' = Down(blocked)
  /\ since' = Min({since + 1, Hour}) /\ rest' = Min({rest + 1, MaxDelay})
  /\ UNCHANGED <<limit, pc, failures, sour, session, weight, reserved, remaining, starts,
                 bought, unanswered, refilled, streak>>

\* Trading volume raises the cap.
Regain ==
  /\ remaining < Capacity /\ remaining' = remaining + 1
  /\ UNCHANGED <<loop, preflight, starts, history>>

Restart ==
  /\ starts < MaxStarts /\ starts' = starts + 1
  /\ pc' = "chunk" /\ left' = 0 /\ wait' = 0 /\ failures' = 0 /\ sour' = FALSE /\ session' = "new"
  /\ weight' = 0 /\ reserved' = 0 /\ blocked' = 0
  /\ since' = Hour /\ refilled' = FALSE /\ streak' = 0 /\ rest' = MaxDelay
  /\ UNCHANGED <<limit, remaining, bought, unanswered>>

Step ==
  \/ Begin \/ StatusFails \/ StatusEnough \/ StatusSlow \/ StatusLow \/ Reserve \/ StatusAfter
  \/ Run \/ RunFails \/ Store \/ StoreFails \/ StrictFails \/ Complete \/ WakeUp

SupervisorNext == Step \/ ReserveFails \/ TimersTick \/ Regain \/ Restart

\* The preflight's commands have a timeout, a run returns (BenchRunner, and
\* OrderSocket for when it does not), and time passes.
Fairness == WF_supervisorVars(Step \/ ReserveFails) /\ WF_supervisorVars(TimersTick)

SupervisorSpec == SupervisorInit /\ [][SupervisorNext]_supervisorVars /\ Fairness

-----------------------------------------------------------------------------
(* Properties                                                              *)

TypeOK ==
  /\ limit \in Limits /\ sour \in BOOLEAN /\ refilled \in BOOLEAN /\ session \in {"new", "used"}
  /\ pc \in {"chunk", "status", "reserve", "statusAfter", "run", "write", "retain", "check", "sleep"}
  /\ left \in 0..Span /\ wait \in 0..Max({MaxDelay, Span}) /\ failures \in 0..MaxFailures
  /\ reserved \in 0..MaxReserveWeight /\ weight \in 0..Target /\ blocked \in 0..Hour
  /\ remaining \in Nat /\ starts \in 1..MaxStarts /\ unanswered \in 0..MaxUnanswered

\* What max_reserve_weight limits is what a process knows it has bought: the
\* account pays up to that much once more for every restart, and for every
\* reserve that was carried out without an answer;
BudgetBounded == bought <= MaxReserveWeight * (starts + unanswered)

\* and a reserve that may have been carried out without an answer is not repeated
\* within the hour, unless the venue has shown enough capacity in between.
ReserveOnceAnHour ==
  [][pc = "status" /\ pc' = "reserve" => since = Hour \/ refilled]_supervisorVars

\* However commands time out and processes die, the operator does not buy
\* capacity without bound.
PurchasesBounded == []BudgetBounded /\ ReserveOnceAnHour

\* After n chunks that failed in a row, whichever step of them did, and whatever
\* chunks the preflight skipped among them, the next begins only after the n-th
\* delay, and the delays double up to the limit;
BackedOff ==
  [][pc' = "chunk" /\ streak' > 0 => rest' >= Min({BaseDelay * 2 ^ (streak' - 1), MaxDelay})]_supervisorVars

\* and whatever fails, there is another chunk.
LoopsOn == []<>(pc = "chunk")

\* "keeps a live benchmark collector process alive ... and backs off instead of
\* turning a transient Venue Account issue into silent service downtime"
\* (CONTEXT.md).
BacksOffAndGoesOn == BackedOff /\ LoopsOn
=============================================================================
