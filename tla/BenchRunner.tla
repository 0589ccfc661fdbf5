----------------------------- MODULE BenchRunner -----------------------------
(***************************************************************************)
(* One run of bench.Runner (internal/bench/runner.go) with its cleanup     *)
(* adapter (internal/cleanup/command.go) and, as the program behind that,  *)
(* internal/venues/hyperliquid/cancel_payload.py.  Without a rate the      *)
(* samples follow one another; with one a goroutine per sample starts at   *)
(* its tick whatever the earlier ones do, and at most MaxInFlight of them  *)
(* are past the semaphore.  Every sample cleans up after itself: it looks  *)
(* for its order, then at the position, and closes what it saw; the        *)
(* cleanups of the open loop overlap.                                      *)
(*                                                                         *)
(* The venue is the environment: an order may land late or never, rest or  *)
(* fill, an answer may be lost, and a reduce-only order never turns the    *)
(* position.  Orders are buys of size one.  Ticks, delays and confirmation *)
(* streams only choose when a step happens; what is measured is left out.  *)
(***************************************************************************)
EXTENDS Integers, Sequences, FiniteSets, FiniteSetsExt, Functions

CONSTANTS
  Total,         \* warmups and iterations
  Settings,      \* what a run may be configured with
  Found          \* accounts it may find: [stale : BOOLEAN, pos : Nat]

\* guard_preexisting_position counts neutralize_on_fill as itself, and
\* ValidateRisk and validateCleanupForRun let fill-likely orders run with
\* neutralize_on_fill and strict cleanup only.
ASSUME RunnerAssumption ==
  /\ Total \in Nat \ {0}
  /\ Found \subseteq [stale : BOOLEAN, pos : Nat]
  /\ Settings \subseteq [open : BOOLEAN, inFlight : Nat \ {0}, stop : BOOLEAN,
                         mode : {"off", "best_effort", "strict"}, taker : BOOLEAN, neutralize : BOOLEAN, guard : BOOLEAN, heal : BOOLEAN]
  /\ \A s \in Settings : /\ s.neutralize => s.guard
                         /\ s.taker => s.neutralize /\ s.mode = "strict"

VARIABLES
  cfg,
  pc,          \* where Run is
  next,        \* the next sample to start
  cancelled,   \* the context
  job,         \* where each sample's runOnce is
  tries,       \* retries of its cleanup
  plan,        \* what its prepared cleanup will close; 0: its own order
  ok,          \* Sample.OK
  results,     \* the channel of finished samples
  samples,     \* Result.Samples
  startup,     \* the outcome of BeforeRun, and of AfterRun
  recon,
  seen,        \* the position BeforeRun read
  baseline,    \* run_metadata["position"]
  left,        \* whether AfterRun saw an order of the result still open
  order,       \* the venue: each sample's order,
  stale,       \* an order of an earlier run with this one's ids,
  pos,         \* and the position
  missed,      \* history: orders in flight when their cleanup looked for them
  atEnd        \* history: orders open and position when AfterRun looked

run == <<cfg, pc, next, cancelled, startup, recon, seen, baseline, left>>
sampling == <<job, tries, plan, ok, results, samples>>
account == <<order, stale, pos>>
history == <<missed, atEnd>>
vars == <<run, sampling, account, history>>

Samples == 1..Total
None == -1
Retries == 2
Strict == cfg.mode = "strict"

Active == {"preparing", "sent", "looking", "weighing", "closing"}
Busy == {i \in Samples : job[i] \in Active}
Started == {i \in Samples : job[i] # "idle"}
Done == {i \in Samples : job[i] = "done"}

Init ==
  /\ cfg \in Settings
  /\ \E a \in Found : stale = a.stale /\ pos = a.pos
  /\ pc = "start" /\ next = 1 /\ cancelled = FALSE
  /\ job = [i \in Samples |-> "idle"] /\ tries = [i \in Samples |-> 0]
  /\ plan = [i \in Samples |-> 0] /\ ok = [i \in Samples |-> FALSE]
  /\ results = <<>> /\ samples = <<>>
  /\ startup = "none" /\ recon = "none" /\ seen = None /\ baseline = None /\ left = FALSE
  /\ order = [i \in Samples |-> "none"]
  /\ missed = {} /\ atEnd = [open |-> {}, pos |-> None]

-----------------------------------------------------------------------------
(* BeforeRun, and what Run makes of it                                     *)

\* A failed or restarting startup ends a strict run without samples.
AfterStartup(outcome, position) ==
  /\ startup' = outcome /\ baseline' = position
  /\ pc' = IF Strict /\ outcome \in {"failed", "restart"} THEN "done" ELSE "loop"

NoCleanup ==
  /\ pc = "start" /\ cfg.mode = "off" /\ pc' = "loop"
  /\ UNCHANGED <<cfg, next, cancelled, startup, recon, seen, baseline, left, sampling, account, history>>

StartPosition ==
  /\ pc = "start" /\ cfg.mode # "off"
  /\ seen' = pos /\ pc' = "startOrders"
  /\ UNCHANGED <<cfg, next, cancelled, startup, recon, baseline, left, sampling, account, history>>

\* The program answers with a finding of its own, or with a request to send.
StartOrders ==
  /\ pc = "startOrders"
  /\ CASE stale -> pc' = "startCancel" /\ UNCHANGED <<startup, baseline>>
       [] ~stale /\ seen # 0 /\ cfg.guard /\ cfg.heal /\ pos # 0 ->
            pc' = "startRepair" /\ UNCHANGED <<startup, baseline>>
       [] ~stale /\ seen # 0 /\ cfg.guard /\ ~(cfg.heal /\ pos # 0) -> AfterStartup("failed", seen)
       [] OTHER -> AfterStartup("ok", seen)
  /\ UNCHANGED <<cfg, next, cancelled, recon, seen, left, sampling, account, history>>

\* The answer to the request carries the request's metadata, in which the
\* position is one level down ("reconciliation"): the run has no baseline.
StartCancel ==
  /\ pc = "startCancel"
  /\ \E landed, answered \in BOOLEAN :
       /\ stale' = (stale /\ ~landed)
       /\ AfterStartup(IF ~(landed /\ answered /\ stale) THEN "failed"
                       ELSE IF seen # 0 /\ cfg.guard THEN "restart" ELSE "ok", None)
  /\ UNCHANGED <<cfg, next, cancelled, recon, seen, left, sampling, order, pos, history>>

StartRepair ==
  /\ pc = "startRepair"
  /\ \E landed, answered \in BOOLEAN :
       /\ pos' = IF landed THEN 0 ELSE pos
       /\ AfterStartup(IF landed /\ answered THEN "restart" ELSE "failed", None)
  /\ UNCHANGED <<cfg, next, cancelled, recon, seen, left, sampling, order, stale, history>>

\* The program fails, or does not answer in time.
StartFails ==
  /\ pc \in {"start", "startOrders"} /\ cfg.mode # "off"
  /\ AfterStartup("failed", None)
  /\ UNCHANGED <<cfg, next, cancelled, recon, seen, left, sampling, account, history>>

-----------------------------------------------------------------------------
(* The two loops                                                           *)

\* The closed loop starts a sample when the one before has returned.
ClosedNext ==
  /\ pc = "loop" /\ ~cfg.open /\ next <= Total
  /\ Started \subseteq Done /\ (cfg.stop => \A i \in Done : ok[i])
  /\ job' = [job EXCEPT ![next] = "preparing"] /\ next' = next + 1
  /\ UNCHANGED <<cfg, pc, cancelled, startup, recon, seen, baseline, left,
                 tries, plan, ok, results, samples, account, history>>

ClosedEnd ==
  /\ pc = "loop" /\ ~cfg.open /\ Started \subseteq Done
  /\ next > Total \/ (cfg.stop /\ \E i \in Done : ~ok[i])
  /\ pc' = "afterOrders" /\ samples' = results
  /\ UNCHANGED <<cfg, next, cancelled, startup, recon, seen, baseline, left,
                 job, tries, plan, ok, results, account, history>>

\* A tick: the goroutine starts, and waits for the semaphore by itself.
Tick ==
  /\ pc = "loop" /\ cfg.open /\ next <= Total
  /\ job' = [job EXCEPT ![next] = "queued"] /\ next' = next + 1
  /\ UNCHANGED <<cfg, pc, cancelled, startup, recon, seen, baseline, left,
                 tries, plan, ok, results, samples, account, history>>

\* The context is looked at between ticks, unless the next one is late.
EndSchedule ==
  /\ pc = "loop" /\ cfg.open /\ (next > Total \/ cancelled)
  /\ pc' = "wait"
  /\ UNCHANGED <<cfg, next, cancelled, startup, recon, seen, baseline, left, sampling, account, history>>

Acquire(i) ==
  /\ job[i] = "queued" /\ Cardinality(Busy) < cfg.inFlight
  /\ job' = [job EXCEPT ![i] = "preparing"]
  /\ UNCHANGED <<run, tries, plan, ok, results, samples, account, history>>

\* Mutant of Kept: the samples stay in the order in which they finished.
KeptUnsorted(finished) ==
  LET failed == {k \in DOMAIN finished : ~ok[finished[k]]}
  IN  IF cfg.stop /\ failed # {} THEN SubSeq(finished, 1, Min(failed)) ELSE finished

\* The same entries, in ascending order.
Sorted(s) ==
  CHOOSE t \in {[k \in DOMAIN s |-> s[p[k]]] : p \in Bijection(DOMAIN s, DOMAIN s)} :
    \A j, k \in DOMAIN s : j < k => t[j] <= t[k]

\* Sorted by index; with --stop-on-error what follows the first failure is cut.
Kept(finished) ==
  LET sorted == Sorted(finished)
      failed == {k \in DOMAIN sorted : ~ok[sorted[k]]}
  IN  IF cfg.stop /\ failed # {} THEN SubSeq(sorted, 1, Min(failed)) ELSE sorted

Collect ==
  /\ pc = "wait" /\ Started \subseteq Done
  /\ pc' = "afterOrders" /\ samples' = Kept(results)
  /\ UNCHANGED <<cfg, next, cancelled, startup, recon, seen, baseline, left,
                 job, tries, plan, ok, results, account, history>>

Cancel ==
  /\ pc \in {"loop", "wait"} /\ cfg.open /\ ~cancelled /\ cancelled' = TRUE
  /\ UNCHANGED <<cfg, pc, next, startup, recon, seen, baseline, left, sampling, account, history>>

-----------------------------------------------------------------------------
(* runOnce                                                                 *)

\* Its sample goes to the channel; the semaphore is released with it.
Return(i, good) ==
  /\ ok' = [ok EXCEPT ![i] = good]
  /\ job' = [job EXCEPT ![i] = "done"] /\ results' = Append(results, i)

PrepareFails(i) ==
  /\ job[i] = "preparing" /\ Return(i, FALSE)
  /\ UNCHANGED <<run, tries, plan, samples, account, history>>

Send(i) ==
  /\ job[i] = "preparing"
  /\ job' = [job EXCEPT ![i] = "sent"] /\ order' = [order EXCEPT ![i] = "flight"]
  /\ UNCHANGED <<run, tries, plan, ok, results, samples, stale, pos, history>>

\* The answer, and the confirmation if the mode asks for one, or a timeout.
\* The sample names its order either way, so that it is cleaned up after.
Answered(i, good) ==
  /\ job[i] = "sent" /\ (good => order[i] \notin {"flight", "gone"})
  /\ IF cfg.mode = "off"
     THEN Return(i, good)
     ELSE /\ ok' = [ok EXCEPT ![i] = good] /\ job' = [job EXCEPT ![i] = "looking"]
          /\ UNCHANGED results
  /\ UNCHANGED <<run, tries, plan, samples, account, history>>

\* PrepareAfterSample: cancel the order if it is open,
LookForOrder(i) ==
  /\ job[i] = "looking"
  /\ missed' = IF order[i] = "flight" THEN missed \union {i} ELSE missed \ {i}
  /\ job' = [job EXCEPT ![i] = IF order[i] = "open" THEN "closing" ELSE "weighing"]
  /\ plan' = [plan EXCEPT ![i] = 0]
  /\ UNCHANGED <<run, tries, ok, results, samples, account, atEnd>>

\* or sell what the position has gained since the run began.
Gained == IF cfg.neutralize /\ baseline # None THEN pos - baseline ELSE 0

Weigh(i) ==
  /\ job[i] = "weighing"
  /\ IF Gained = 0
     THEN Return(i, ok[i]) /\ UNCHANGED plan
     ELSE /\ plan' = [plan EXCEPT ![i] = Gained] /\ job' = [job EXCEPT ![i] = "closing"]
          /\ UNCHANGED <<ok, results>>
  /\ UNCHANGED <<run, tries, samples, account, history>>

\* Mutant of CleanupFailed: the sample keeps the verdict of its measurement.
CleanupFailedUnheard(i) == Return(i, ok[i])

\* A strict run takes a failed cleanup for a failed sample.
CleanupFailed(i) == Return(i, ok[i] /\ ~Strict)

CleanupProgramFails(i) ==
  /\ job[i] \in {"looking", "weighing"} /\ CleanupFailed(i)
  /\ UNCHANGED <<run, tries, plan, samples, account, history>>

\* What the venue does with the request: a reduce-only order closes at most
\* the position, and is refused if there is none or it has the other sign.
Closable(i) == IF plan[i] = 0 THEN order[i] = "open" ELSE plan[i] > 0 /\ pos > 0

Reduced(n) == IF n >= pos THEN 0 ELSE pos - n

Close(i) ==
  /\ job[i] = "closing" /\ Closable(i)
  /\ IF plan[i] = 0
     THEN order' = [order EXCEPT ![i] = "gone"] /\ UNCHANGED pos
     ELSE pos' = Reduced(plan[i]) /\ UNCHANGED order
  /\ \E answered \in BOOLEAN : IF answered THEN Return(i, ok[i]) ELSE CleanupFailed(i)
  /\ UNCHANGED <<run, tries, plan, samples, stale, history>>

CloseFails(i) ==
  /\ job[i] = "closing" /\ CleanupFailed(i)
  /\ UNCHANGED <<run, tries, plan, samples, account, history>>

\* Mutant of Retry: the attempts are not counted.
RetryUncounted(i) ==
  /\ job[i] = "closing" /\ job' = [job EXCEPT ![i] = "looking"]
  /\ UNCHANGED <<run, tries, plan, ok, results, samples, account, history>>

\* A nonce or a clock the venue refused: prepared again, twice at most.
Retry(i) ==
  /\ job[i] = "closing" /\ tries[i] < Retries
  /\ tries' = [tries EXCEPT ![i] = @ + 1] /\ job' = [job EXCEPT ![i] = "looking"]
  /\ UNCHANGED <<run, plan, ok, results, samples, account, history>>

-----------------------------------------------------------------------------
(* AfterRun                                                                *)

\* Mutant of Listed: only accepted samples count as submitted.
ListedAccepted == {i \in Range(samples) : ok[i]}

\* It looks for the orders of the samples it is given.
Listed == Range(samples)

AfterOrders ==
  /\ pc = "afterOrders" /\ cfg.mode # "off"
  /\ left' = (\E i \in Listed : order[i] = "open")
  /\ atEnd' = [atEnd EXCEPT !.open = {i \in Samples : order[i] = "open"}]
  /\ pc' = "afterPosition"
  /\ UNCHANGED <<cfg, next, cancelled, startup, recon, seen, baseline, sampling, account, missed>>

AfterPosition ==
  /\ pc = "afterPosition"
  /\ atEnd' = [atEnd EXCEPT !.pos = pos]
  /\ recon' = IF left \/ (baseline # None /\ baseline # pos) THEN "failed" ELSE "ok"
  /\ pc' = "done"
  /\ UNCHANGED <<cfg, next, cancelled, startup, seen, baseline, left, sampling, account, missed>>

AfterFails ==
  /\ pc \in {"afterOrders", "afterPosition"} /\ cfg.mode # "off"
  /\ recon' = "failed" /\ pc' = "done"
  /\ UNCHANGED <<cfg, next, cancelled, startup, seen, baseline, left, sampling, account, history>>

AfterNothing ==
  /\ pc = "afterOrders" /\ cfg.mode = "off" /\ pc' = "done"
  /\ UNCHANGED <<cfg, next, cancelled, startup, recon, seen, baseline, left, sampling, account, history>>

-----------------------------------------------------------------------------
(* The venue                                                               *)

Land(i) ==
  /\ order[i] = "flight"
  /\ IF cfg.taker THEN order' = [order EXCEPT ![i] = "filled"] /\ pos' = pos + 1
     ELSE order' = [order EXCEPT ![i] = "open"] /\ UNCHANGED pos
  /\ UNCHANGED <<run, sampling, stale, history>>

\* Refused by the venue, or lost on the way.
Vanish(i) ==
  /\ order[i] = "flight" /\ order' = [order EXCEPT ![i] = "gone"]
  /\ UNCHANGED <<run, sampling, stale, pos, history>>

Fill(i) ==
  /\ order[i] = "open" /\ order' = [order EXCEPT ![i] = "filled"] /\ pos' = pos + 1
  /\ UNCHANGED <<run, sampling, stale, history>>

FillStale ==
  /\ stale /\ stale' = FALSE /\ pos' = pos + 1
  /\ UNCHANGED <<run, sampling, order, history>>

Venue == FillStale \/ \E i \in Samples : Land(i) \/ Vanish(i) \/ Fill(i)

Main ==
  \/ NoCleanup \/ StartPosition \/ StartOrders \/ StartCancel \/ StartRepair \/ StartFails
  \/ ClosedNext \/ ClosedEnd \/ Tick \/ EndSchedule \/ Collect
  \/ AfterOrders \/ AfterPosition \/ AfterFails \/ AfterNothing

RunOnce(i) ==
  \/ Acquire(i) \/ PrepareFails(i) \/ Send(i) \/ (\E good \in BOOLEAN : Answered(i, good))
  \/ LookForOrder(i) \/ Weigh(i) \/ CleanupProgramFails(i)
  \/ Close(i) \/ CloseFails(i) \/ Retry(i)

Next == Main \/ Cancel \/ Venue \/ \E i \in Samples : RunOnce(i)

\* Builders, HTTP requests and confirmations have timeouts, so that goroutines go
\* on; nothing is assumed of the venue.  A websocket that is not answered has
\* none (OrderSocket): this is a run over HTTP, or over one that is.
Fairness == WF_vars(Main) /\ \A i \in Samples : WF_vars(RunOnce(i))

Spec == Init /\ [][Next]_vars
FairSpec == Spec /\ Fairness

-----------------------------------------------------------------------------
(* Properties                                                              *)

TypeOK ==
  /\ cfg \in Settings /\ next \in 1..(Total + 1) /\ cancelled \in BOOLEAN
  /\ pc \in {"start", "startOrders", "startCancel", "startRepair", "loop", "wait",
             "afterOrders", "afterPosition", "done"}
  /\ job \in [Samples -> Active \union {"idle", "queued", "done"}]
  /\ tries \in [Samples -> 0..Retries] /\ plan \in [Samples -> Int] /\ ok \in [Samples -> BOOLEAN]
  /\ results \in Seq(Samples) /\ samples \in Seq(Samples) /\ left \in BOOLEAN
  /\ startup \in {"none", "ok", "failed", "restart"} /\ recon \in {"none", "ok", "failed"}
  /\ {seen, baseline} \subseteq Int /\ pos \in Int /\ stale \in BOOLEAN
  /\ order \in [Samples -> {"none", "flight", "open", "filled", "gone"}]
  /\ missed \subseteq Samples /\ atEnd \in [open : SUBSET Samples, pos : Int]

Allowed == IF cfg.open THEN cfg.inFlight ELSE 1

\* The result is the run, in order: when the samples are collected every
\* goroutine has returned, no sample is missing or twice, and the list ends
\* where the run did, or at its first failure with --stop-on-error.  At no
\* time were more requests and cleanups under way than allowed.
WholeAndInOrder ==
  /\ Cardinality(Busy) <= Allowed
  /\ pc \in {"afterOrders", "afterPosition"} =>
       /\ Started = Done
       /\ samples = [k \in 1..Len(samples) |-> k]
       /\ IF cfg.stop /\ (\E i \in Done : ~ok[i])
          THEN samples # <<>> /\ {i \in Listed : ~ok[i]} = {Len(samples)}
          ELSE Len(samples) = next - 1

\* No sample of a strict run is taken on an account that the startup found with
\* a position, repaired, or could not clear of stale orders;
StrictStartsClear ==
  Strict /\ Started # {} => startup = "ok" /\ (cfg.guard => seen = 0)

\* if all its samples are OK, and no cleanup looked before its order had landed,
\* no order is open at the end and, where one has filled, the position is that of
\* the start.  Where none has, a stale order that filled between the two queries
\* of the startup may have moved it, and only the reconciliation says so;
StrictNeverSilent ==
  Strict /\ pc \in {"wait", "afterOrders", "afterPosition", "done"}
    /\ Started # {} /\ Started \subseteq Done /\ missed = {} /\ (\A i \in Done : ok[i]) =>
    /\ \A i \in Samples : order[i] # "open"
    /\ cfg.neutralize /\ baseline # None /\ (\E i \in Samples : order[i] = "filled") => pos = baseline

\* and no cleanup, sized for a position that another has meanwhile closed, or
\* retried after it, sells what the account does not hold.
NeverShort == pos >= 0

\* Overlapping cleanups close everything between them and nothing twice, or one
\* says so.
CleanedUp == StrictStartsClear /\ StrictNeverSilent /\ NeverShort

\* "after the run, those venues reconcile that no submitted benchmark orders
\* remain open and the position did not change" (README.md): an OK
\* reconciliation of orders, when the result has not been cut,
OrdersReconciledUncut == recon = "ok" /\ ~(cfg.open /\ cfg.stop) => atEnd.open = {}

\* and of the position, when the startup left a baseline.
PositionReconciledIfKnown == recon = "ok" /\ baseline # None => atEnd.pos = seen

Reconciled == OrdersReconciledUncut /\ PositionReconciledIfKnown

\* What README.md says of every run that reconciles.
OrdersReconciled == recon = "ok" => atEnd.open = {}
PositionReconciled == recon = "ok" /\ startup = "ok" => atEnd.pos = seen

\* Whatever fails, times out or is cancelled, Run returns.
RunReturns == <>(pc = "done")

\* The inductive form of WholeAndInOrder: the samples started are the first ones,
\* the channel holds those that are done, once each; and the closed loop has at
\* most one under way, the last.
WholeInv ==
  /\ WholeAndInOrder
  /\ Started = 1..(next - 1)
  /\ Range(results) = Done /\ IsInjective(results)
  /\ pc \notin {"loop", "wait"} => Started \subseteq Done
  /\ pc \in {"afterOrders", "afterPosition"} /\ ~(cfg.open /\ cfg.stop) => Len(samples) = next - 1
  /\ ~cfg.open =>
       /\ pc # "wait" /\ results = [k \in 1..Len(results) |-> k]
       /\ \A i \in Samples : job[i] # "queued" /\ (i < next - 1 => job[i] = "done")
       /\ cfg.stop => \A i \in Done : ok[i] \/ i = next - 1

\* The inductive form of StrictStartsClear, and what a baseline stands for.
StartInv ==
  /\ pc \in {"start", "startOrders", "startCancel", "startRepair"} =>
       next = 1 /\ startup = "none" /\ baseline = None
  /\ pc \in {"startOrders", "startCancel", "startRepair"} => cfg.mode # "off" /\ seen \in Nat
  /\ Strict /\ (pc \in {"loop", "wait", "afterOrders", "afterPosition"} \/ Started # {}) =>
       startup = "ok" /\ (cfg.guard => seen = 0)
  /\ baseline # None => baseline = seen /\ ~stale

\* A sample whose order has filled and that will still sell the position, or say
\* that it could not: it has yet to find it, or sized its sale by all there was.
Holds(i) ==
  /\ order[i] = "filled"
  /\ \/ i \in missed \/ (job[i] = "done" /\ ~ok[i])
     \/ job[i] \in {"sent", "looking", "weighing"}
     \/ job[i] = "closing" /\ (plan[i] = 0 \/ plan[i] >= pos)

\* An order exists from its submission on, and once its cleanup has found it
\* landed it is not open.
Handled(i) ==
  /\ job[i] \in {"idle", "queued", "preparing"} => order[i] = "none" /\ i \notin missed
  /\ job[i] \in Active \ {"preparing"} => order[i] # "none"
  /\ job[i] \in {"looking", "weighing", "closing"} => cfg.mode # "off"
  /\ i \notin missed =>
       /\ job[i] \in {"weighing", "closing"} => order[i] # "flight"
       /\ job[i] = "weighing" \/ (job[i] = "closing" /\ plan[i] # 0) => order[i] # "open"
       /\ Strict /\ job[i] = "done" /\ ok[i] => order[i] \in {"filled", "gone"}

Held ==
  Strict /\ cfg.neutralize /\ baseline # None /\ (\E i \in Samples : order[i] = "filled") =>
    pos = 0 \/ \E i \in Samples : Holds(i)

\* The inductive form of StrictNeverSilent and NeverShort.
CleanInv == NeverShort /\ (\A i \in Samples : Handled(i)) /\ Held

\* The inductive form of Reconciled.
ReconInv ==
  /\ pc # "done" => recon = "none"
  /\ (~left /\ pc = "afterPosition") \/ recon = "ok" => (~(cfg.open /\ cfg.stop) => atEnd.open = {})
  /\ PositionReconciledIfKnown
=============================================================================
