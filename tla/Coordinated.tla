----------------------------- MODULE Coordinated -----------------------------
(***************************************************************************)
(* run-coordinated: the loop of internal/app/coordinated.go and the cycle  *)
(* of internal/bench/coordinated.go.  One main goroutine repairs and       *)
(* checks every venue's account, prepares one order per venue in parallel, *)
(* releases all senders through a barrier at the scheduled boundary,       *)
(* closes the orders out through a second barrier, stores the samples and  *)
(* reconciles.  A strict venue that cannot be shown clean ends the process;*)
(* a process supervisor starts it again, and may kill it at any point (the *)
(* command installs no signal handler).                                    *)
(*                                                                         *)
(* The venue is the environment.  A request may land late, or never, and   *)
(* its answer may be lost; an order that lands fills, or rests and may     *)
(* fill later.  The cleanup program is that of hyperliquid.  It is told    *)
(* the run's id, which no other process has (--run-id is not given), and   *)
(* finds orders by the ids it derives from that: what another process left *)
(* it sees only if it is to look at all open orders.  Boundaries, leads    *)
(* and spin waits only choose when a step happens and are left out; so are *)
(* prices, costs and what a sample measures.                               *)
(***************************************************************************)
EXTENDS Integers, Sequences, SequencesExt

CONSTANTS
  Venues,
  Cleanable,     \* venues with cleanup enabled and an adapter
  Strict,        \* venues in strict cleanup mode
  RefVenues,     \* venues whose prepared metadata names the order
  CleanupAll,    \* cleanup_all_open_orders
  Guarded,       \* guard_preexisting_position or neutralize_on_fill;
  Neutralizing,  \* neutralize_on_fill
  Healing,       \* neutralize_preexisting_position
  Allowing,      \* allow_preexisting_position
  PlannedIterations, \* of the venues' benchmark configuration
  WarmupCycles,
  Starts,        \* what a start may be given for --config and --cycles:
                 \* [items : SUBSET Venues, cycles : Nat]; 0: run for ever
  KeepCycles,    \* cycles in retain-hours, when it runs for ever
  MaxRuns,       \* bound on starts of the process
  MaxIndex,      \* bound on the cycles of one process, and
  MaxCycles      \* on those of all of them that send

\* validateCleanupForRun refuses cleanup without an adapter.
ASSUME CoordinatedAssumption ==
  /\ Cleanable \subseteq Venues /\ RefVenues \subseteq Venues
  /\ Strict \subseteq Cleanable /\ CleanupAll \subseteq Cleanable /\ Guarded \subseteq Cleanable
  /\ Neutralizing \subseteq Guarded /\ Healing \subseteq Guarded /\ Allowing \subseteq Guarded
  /\ PlannedIterations \subseteq Int
  /\ Starts \subseteq [items : (SUBSET Venues) \ {{}}, cycles : Nat]
  /\ WarmupCycles \in Nat /\ KeepCycles \in Nat \ {0}
  /\ MaxRuns \in Nat /\ MaxIndex \in Nat /\ MaxCycles \in Nat

VARIABLES
  pc,          \* where the main goroutine is
  todo,        \* venues a loop over the items has still to visit
  cycleIndex,
  retained,    \* retainedSamples, as the cycles they belong to
  g,           \* each venue's goroutine in the current phase of the cycle
  prepared,    \* venues whose preparation in that phase succeeded
  sample,      \* each venue's sample of the current cycle
  report,      \* each venue's CleanupResult of the current loop over the items
  args,        \* what this process was started with
  run, serial, \* starts of the process, and cycles all of them began to send in
  resting,     \* orders that rest on each venue, by the cycle that sent them
  held,        \* the position on each venue, as the fills it consists of
  flight,      \* requests that may still land
  seen,        \* the position that the check in progress has read, if it has
  baseline,    \* run_metadata: the position it kept, if it did
  planned,     \* orders of this process whose iteration its run plans
  plan,        \* what each venue's close-out is prepared to do
  before,      \* history: what was on each venue when the cycle began
  sent,        \* history: orders this process, or the one that has ended itself, sent
  stored       \* samples that it has written to the database

main == <<pc, todo, cycleIndex, retained>>
cycle == <<g, prepared, sample, report>>
count == <<args, run, serial>>
venue == <<resting, held, flight>>
cleanup == <<seen, baseline, planned, plan>>
history == <<before, sent, stored>>
vars == <<main, cycle, count, venue, cleanup, history>>

Goroutines == {"none", "preparing", "prepared", "spawned", "ready", "sent", "done"}
NoSample == [ok |-> FALSE, closed |-> "none"]
NoArgs == [items |-> {}, cycles |-> 0]
Nowhere == [v \in Venues |-> {}]
Account(v) == [resting |-> resting[v], held |-> held[v]]
Nothing == [v \in Venues |-> [resting |-> {}, held |-> {}]]
All(x) == [v \in Venues |-> x]
Items == args.items
Each(x) == [v \in Venues |-> IF v \in Items THEN x ELSE "none"]

Init ==
  /\ pc = "down" /\ todo = {} /\ cycleIndex = 0 /\ retained = <<>>
  /\ g = All("none") /\ prepared = {} /\ sample = All(NoSample) /\ report = All("none")
  /\ args = NoArgs /\ run = 0 /\ serial = 0
  /\ resting = Nowhere /\ held = Nowhere /\ flight = Nowhere
  /\ seen = {} /\ baseline = Nowhere /\ planned = {} /\ plan = All("none")
  /\ before = Nothing /\ sent = {} /\ stored = {}

\* The process ends: killed or by an error ("down"), by a strict check
\* ("failed"), or at the end of its cycles.  What it has sent stays on the
\* venues, and what it has stored in the database.
Ends(how) ==
  /\ pc' = how /\ todo' = {} /\ cycleIndex' = 0 /\ retained' = <<>>
  /\ g' = All("none") /\ prepared' = {} /\ sample' = All(NoSample) /\ report' = All("none")
  /\ seen' = {} /\ baseline' = Nowhere /\ planned' = {} /\ plan' = All("none")
  /\ before' = Nothing /\ args' = NoArgs
  /\ IF how = "down" THEN sent' = {} /\ stored' = {} ELSE UNCHANGED <<sent, stored>>
  /\ UNCHANGED <<run, serial, venue>>

Visit(next) == pc' = next /\ todo' = Items
Goto(next) == pc' = next /\ UNCHANGED todo

\* for _, item := range items
Visited(v) == todo # {} /\ v = CHOOSE u \in todo : TRUE

-----------------------------------------------------------------------------
(* Start, and the checks before a cycle                                    *)

Start ==
  /\ pc \in {"down", "failed", "finished"} /\ run < MaxRuns
  /\ args' \in Starts /\ run' = run + 1
  /\ pc' = "startup" /\ todo' = args'.items
  /\ sent' = {} /\ stored' = {}
  /\ UNCHANGED <<cycleIndex, retained, cycle, serial, venue, cleanup, before>>

\* What before_run looks for, and what it finds: with cleanup_all_open_orders
\* every open order, else those that this process has planned.
LookedFor(v) == IF v \in CleanupAll THEN 1..serial ELSE planned
Stale(v) == resting[v] \cap LookedFor(v)

\* The end of a venue's check: BeforeRun keeps the position it finds in the
\* metadata for the later phases.
CheckDone(v, result, position) ==
  /\ pc \in {"startup", "pre-cycle"} /\ Visited(v)
  /\ todo' = todo \ {v} /\ seen' = {}
  /\ report' = [report EXCEPT ![v] = result]
  /\ baseline' = [baseline EXCEPT ![v] = position]
  /\ UNCHANGED <<pc, cycleIndex, retained, g, prepared, sample, count, flight,
                 planned, plan, history>>

CheckSkipped(v) ==
  /\ v \notin Cleanable
  /\ CheckDone(v, "none", {})
  /\ UNCHANGED <<resting, held>>

\* The program, or one of its reads, fails.
CheckFails(v) ==
  /\ v \in Cleanable
  /\ CheckDone(v, "failed", {})
  /\ UNCHANGED <<resting, held>>

\* before_run reads the position, and the open orders after it.
CheckPosition(v) ==
  /\ pc \in {"startup", "pre-cycle"} /\ Visited(v) /\ v \in Cleanable /\ seen = {}
  /\ seen' = {held[v]}
  /\ UNCHANGED <<main, cycle, count, venue, baseline, planned, plan, history>>

Positioned == seen # {} /\ seen # {{}}

\* Orders are found and cancelled; one that fills meanwhile is not open any
\* more either, which is all that the confirmation asks.  The position is kept
\* elsewhere in the metadata, where the later phases do not look.
CancelStale(v) ==
  /\ seen # {} /\ Stale(v) # {}
  /\ \E gone \in SUBSET Stale(v) : \E filled \in SUBSET gone :
       /\ resting' = [resting EXCEPT ![v] = @ \ gone]
       /\ held' = [held EXCEPT ![v] = @ \cup filled]
       /\ \/ CheckDone(v, "failed", {})
          \/ gone = Stale(v)
             /\ CheckDone(v, IF v \in Guarded /\ Positioned THEN "repaired" ELSE "ok", {})

\* neutralize_preexisting_position: what is held is sold, as far as the venue
\* fills it; whether it did is not looked at.
Heal(v) ==
  /\ seen # {} /\ Stale(v) = {}
  /\ Positioned /\ v \in Healing /\ held[v] # {}
  /\ \E sold \in SUBSET held[v] : held' = [held EXCEPT ![v] = @ \ sold]
  /\ \E result \in {"repaired", "failed"} : CheckDone(v, result, {})
  /\ UNCHANGED resting

\* flat_position_guard, or an account on which nothing is found
CheckAccount(v) ==
  /\ seen # {} /\ Stale(v) = {}
  /\ ~(Positioned /\ v \in Healing /\ held[v] # {})
  /\ CheckDone(v, IF Positioned /\ v \in Guarded \ Allowing THEN "failed" ELSE "ok", seen)
  /\ UNCHANGED <<resting, held>>

BeforeRun(v) ==
  \/ CheckSkipped(v) \/ CheckPosition(v) \/ CheckFails(v)
  \/ CancelStale(v) \/ Heal(v) \/ CheckAccount(v)

\* Mutant of StartupError: a cleanup that failed is not looked at.
StartupErrorRepaired == \E v \in Items \cap Strict : report[v] = "repaired"

\* coordinatedStrictStartupCleanupError
StartupError == \E v \in Items \cap Strict : report[v] \in {"repaired", "failed"}

BeforeFails ==
  /\ pc \in {"startup", "pre-cycle"} /\ todo = {} /\ StartupError
  /\ Ends("failed")

BeforePasses ==
  /\ pc \in {"startup", "pre-cycle"} /\ todo = {} /\ ~StartupError
  /\ Goto(IF pc = "startup" THEN "loop" ELSE "preflight")
  /\ report' = All("none")
  /\ UNCHANGED <<cycleIndex, retained, g, prepared, sample, count, venue, cleanup, history>>

Over == args.cycles > 0 /\ cycleIndex >= WarmupCycles + args.cycles

Loop ==
  /\ pc = "loop" /\ ~Over /\ cycleIndex < MaxIndex
  /\ Visit("pre-cycle")
  /\ before' = [v \in Venues |-> Account(v)]
  /\ UNCHANGED <<cycleIndex, retained, cycle, count, venue, cleanup, sent, stored>>

LoopOver ==
  /\ pc = "loop" /\ Over
  /\ Visit("final")
  /\ UNCHANGED <<cycleIndex, retained, cycle, count, venue, cleanup, history>>

\* coordinatedRateLimitPreflight fails for one of the venues.
RateLimited ==
  /\ pc = "preflight"
  /\ Goto("loop")
  /\ cycleIndex' = cycleIndex + 1
  /\ UNCHANGED <<retained, cycle, count, venue, cleanup, history>>

\* The venues' own iterations are those that planned_orders derives ids for.
Planned == cycleIndex - WarmupCycles \in PlannedIterations

BeginCycle ==
  /\ pc = "preflight" /\ serial < MaxCycles
  /\ Goto("prepare")
  /\ serial' = serial + 1
  /\ planned' = IF Planned THEN planned \cup {serial'} ELSE planned
  /\ g' = Each("preparing")
  /\ UNCHANGED <<cycleIndex, retained, prepared, sample, report, args, run, venue,
                 seen, baseline, plan, history>>

-----------------------------------------------------------------------------
(* Entry: prepareCoordinated and submitPreparedCoordinated                 *)

Prepare(v) ==
  /\ pc = "prepare" /\ g[v] = "preparing"
  /\ g' = [g EXCEPT ![v] = "prepared"]
  /\ prepared' \in {prepared, prepared \cup {v}}
  /\ UNCHANGED <<main, sample, report, count, venue, cleanup, history>>

\* Mutant of SpawnSenders: no goroutine for a venue that failed to prepare.
SpawnPreparedSenders ==
  /\ pc = "prepare" /\ g = Each("prepared")
  /\ Goto("enter")
  /\ g' = [v \in Venues |-> IF v \in prepared THEN "spawned" ELSE "none"]
  /\ UNCHANGED <<cycleIndex, retained, prepared, sample, report, count, venue, cleanup, history>>

\* wg.Wait(); then one goroutine per venue, those that failed to prepare too.
SpawnSenders ==
  /\ pc = "prepare" /\ g = Each("prepared")
  /\ Goto("enter")
  /\ g' = Each("spawned")
  /\ UNCHANGED <<cycleIndex, retained, prepared, sample, report, count, venue, cleanup, history>>

\* ready.Done() of coordinatedTiming.run
Ready(v) ==
  /\ pc \in {"enter", "close"} /\ g[v] = "spawned"
  /\ g' = [g EXCEPT ![v] = "ready"]
  /\ UNCHANGED <<main, prepared, sample, report, count, venue, cleanup, history>>

\* Mutant of AllReady: ready.Add(1) instead of ready.Add(len(prepared)).
AnyReady == \E v \in Items : g[v] # "spawned"

\* ready.Wait() of coordinatedTiming.release
AllReady == \A v \in Items : g[v] # "spawned"

\* close(start)
Release ==
  /\ pc \in {"enter", "close"} /\ AllReady
  /\ Goto(IF pc = "enter" THEN "collect" ELSE "closing")
  /\ UNCHANGED <<cycleIndex, retained, cycle, count, venue, cleanup, history>>

\* A venue whose preparation failed yields its failed sample at once.
Unprepared(v) ==
  /\ pc = "collect" /\ g[v] = "ready" /\ v \notin prepared
  /\ g' = [g EXCEPT ![v] = "done"]
  /\ UNCHANGED <<main, prepared, sample, report, count, venue, cleanup, history>>

Send(v) ==
  /\ pc = "collect" /\ g[v] = "ready" /\ v \in prepared
  /\ g' = [g EXCEPT ![v] = "sent"]
  /\ flight' = [flight EXCEPT ![v] = @ \cup {serial}]
  /\ sent' = sent \cup {[serial |-> serial, venue |-> v]}
  /\ UNCHANGED <<main, prepared, sample, report, count, resting, held, cleanup, before, stored>>

\* The answer and, in ws_confirmation mode, the confirmation: accepted only
\* if the order has landed; rejected, lost or unconfirmed whether or not.
Answer(v) ==
  /\ pc = "collect" /\ g[v] = "sent"
  /\ \E ok \in BOOLEAN :
       /\ ok => serial \notin flight[v]
       /\ sample' = [sample EXCEPT ![v] = [ok |-> ok, closed |-> "none"]]
  /\ g' = [g EXCEPT ![v] = "done"]
  /\ UNCHANGED <<main, prepared, report, count, venue, cleanup, history>>

\* The venue accepts a request, which rests or fills at once; one it never
\* accepts stays in flight.
Land(v) ==
  \E o \in flight[v] :
    /\ flight' = [flight EXCEPT ![v] = @ \ {o}]
    /\ \/ resting' = [resting EXCEPT ![v] = @ \cup {o}] /\ UNCHANGED held
       \/ held' = [held EXCEPT ![v] = @ \cup {o}] /\ UNCHANGED resting
    /\ UNCHANGED <<main, cycle, count, cleanup, history>>

Fill(v) ==
  \E o \in resting[v] :
    /\ resting' = [resting EXCEPT ![v] = @ \ {o}]
    /\ held' = [held EXCEPT ![v] = @ \cup {o}]
    /\ UNCHANGED <<main, cycle, count, flight, cleanup, history>>

-----------------------------------------------------------------------------
(* Close-out: applyCoordinatedCleanup                                      *)

\* One result has come from every goroutine.
AllDone == g = Each("done")

\* shouldCleanupAfterSample
NeedsCleanup(v) ==
  v \in Cleanable /\ (sample[v].ok \/ v \in prepared \cap RefVenues)

\* The venues to close out are prepared one by one.
BeginCloseout ==
  /\ pc = "collect" /\ AllDone
  /\ pc' = "close-prepare"
  /\ todo' = {v \in Items : NeedsCleanup(v)}
  /\ g' = All("none") /\ prepared' = {} /\ before' = Nothing
  /\ UNCHANGED <<cycleIndex, retained, sample, report, count, venue, cleanup, sent, stored>>

\* What was gained since the position that is known of, and what after_sample
\* finds to do: nothing for a sample that names no order (SkipNoRefs).
Gained(v) == UNION {held[v] \ known : known \in baseline[v]}
Look(v) == IF v \notin RefVenues THEN "skip"
           ELSE IF serial \in resting[v] THEN "cancel"
           ELSE IF v \in Neutralizing /\ Gained(v) # {} THEN "neutralize"
           ELSE "skip"

PrepareCloseout(v) ==
  /\ pc = "close-prepare" /\ Visited(v)
  /\ todo' = todo \ {v}
  /\ \E does \in {Look(v), "fail"} : plan' = [plan EXCEPT ![v] = does]
  /\ g' = [g EXCEPT ![v] = "spawned"]
  /\ UNCHANGED <<pc, cycleIndex, retained, prepared, sample, report, count, venue,
                 seen, baseline, planned, history>>

SpawnClosers ==
  /\ pc = "close-prepare" /\ todo = {}
  /\ Goto("close")
  /\ UNCHANGED <<cycleIndex, retained, cycle, count, venue, cleanup, history>>

\* The end of a close-out.  Strict mode fails the sample with its cleanup.
CloseDone(v, ok) ==
  /\ pc = "closing" /\ g[v] = "ready"
  /\ g' = [g EXCEPT ![v] = "done"]
  /\ plan' = [plan EXCEPT ![v] = "none"]
  /\ sample' = [sample EXCEPT ![v] =
       [ok |-> @.ok /\ (ok \/ v \notin Strict), closed |-> IF ok THEN "ok" ELSE "failed"]]
  /\ UNCHANGED <<main, prepared, report, count, flight, seen, baseline, planned, history>>

\* Its preparation failed, or found nothing to do.
CloseNothing(v) ==
  /\ plan[v] \in {"fail", "skip"}
  /\ CloseDone(v, plan[v] = "skip")
  /\ UNCHANGED <<resting, held>>

\* The request that was prepared, or after a refused one that of another look.
\* An OK cancel leaves the order not open; a closing order sells what the venue
\* fills of it, and either may be carried out and reported as failed.
CloseRequest(v) ==
  /\ plan[v] \in {"cancel", "neutralize"}
  /\ \E does \in {plan[v], Look(v)}, ok \in BOOLEAN :
       /\ CloseDone(v, ok)
       /\ \/ does = "skip" /\ ok /\ UNCHANGED <<resting, held>>
          \/ /\ does = "cancel" /\ UNCHANGED held
             /\ resting' \in {resting, [resting EXCEPT ![v] = @ \ {serial}]}
             /\ ok => serial \notin resting'[v]
          \/ /\ does = "neutralize" /\ UNCHANGED resting
             /\ \E sold \in SUBSET Gained(v) : held' = [held EXCEPT ![v] = @ \ sold]

\* executePreparedCleanup
Close(v) == CloseNothing(v) \/ CloseRequest(v)

-----------------------------------------------------------------------------
(* Storing, and the checks after a cycle                                   *)

\* coordinatedSampleRetentionLimit, in cycles
RetainCycles == IF args.cycles > 0 THEN WarmupCycles + args.cycles
                              ELSE WarmupCycles + KeepCycles + 1

\* Mutant of Retain: the slice is cut without moving the newest to its front.
RetainOldest(s) == IF Len(s) <= RetainCycles THEN s ELSE SubSeq(s, 1, RetainCycles)

\* retainCoordinatedSamples: the newest samples, up to the limit
Retain(s) == IF Len(s) <= RetainCycles THEN s
             ELSE SubSeq(s, Len(s) - RetainCycles + 1, Len(s))

EndCycle ==
  /\ pc = "closing" /\ \A v \in Venues : g[v] \in {"none", "done"}
  /\ Goto("store")
  /\ retained' = Retain(Append(retained, serial))
  /\ g' = All("none") /\ prepared' = {}
  /\ UNCHANGED <<cycleIndex, sample, report, count, venue, cleanup, history>>

\* WriteSamples
Store ==
  /\ pc = "store"
  /\ Goto("costs")
  /\ stored' = stored \cup
       {[serial |-> serial, venue |-> v, closed |-> sample[v].closed] : v \in Items}
  /\ UNCHANGED <<cycleIndex, retained, cycle, count, venue, cleanup, before, sent>>

\* WriteSamples, WriteSampleCosts or DeleteBefore fails.
StoreFails ==
  /\ pc \in {"store", "costs"}
  /\ Ends("down")

\* coordinatedStrictCleanupError
CleanupError == \E v \in Items \cap Strict : sample[v].closed = "failed"

\* Mutant of StrictFails: the samples are looked at before they are stored.
StrictFailsUnstored ==
  /\ pc = "store" /\ CleanupError
  /\ Ends("failed")

StrictFails ==
  /\ pc = "costs" /\ CleanupError
  /\ Ends("failed")

StrictPasses ==
  /\ pc = "costs" /\ ~CleanupError
  /\ Visit("reconcile")
  /\ sample' = All(NoSample)
  /\ UNCHANGED <<cycleIndex, retained, g, prepared, report, count, venue, cleanup, history>>

\* after_run looks whether an order of the retained samples is open or the
\* position is another than the one that is known of, and changes neither.
Outstanding(v) == v \in RefVenues /\ resting[v] \cap ToSet(retained) # {}
Moved(v) == ~(baseline[v] \subseteq {held[v]})

\* CommandAdapter.AfterRun, with the retained samples.
AfterRun(v) ==
  /\ pc \in {"reconcile", "final"} /\ Visited(v)
  /\ todo' = todo \ {v}
  /\ \E result \in {"none", "ok", "failed"} :
       /\ (result = "none") <=> (v \notin Cleanable)
       /\ (result = "ok") => ~Outstanding(v) /\ ~Moved(v)
       /\ report' = [report EXCEPT ![v] = result]
  /\ UNCHANGED <<pc, cycleIndex, retained, g, prepared, sample, count, venue, cleanup, history>>

\* coordinatedStrictRunCleanupError
RunCleanupError == \E v \in Items \cap Strict : report[v] = "failed"

AfterFails ==
  /\ pc \in {"reconcile", "final"} /\ todo = {} /\ RunCleanupError
  /\ Ends("failed")

NextCycle ==
  /\ pc = "reconcile" /\ todo = {} /\ ~RunCleanupError
  /\ Goto("loop")
  /\ cycleIndex' = cycleIndex + 1
  /\ report' = All("none")
  /\ UNCHANGED <<retained, g, prepared, sample, count, venue, cleanup, history>>

Finish ==
  /\ pc = "final" /\ todo = {} /\ ~RunCleanupError
  /\ Ends("finished")

Kill ==
  /\ pc \notin {"down", "failed", "finished"}
  /\ Ends("down")

Main ==
  \/ BeforeFails \/ BeforePasses \/ Loop \/ LoopOver \/ RateLimited \/ BeginCycle
  \/ SpawnSenders \/ Release \/ BeginCloseout \/ SpawnClosers \/ EndCycle
  \/ Store \/ StoreFails \/ StrictFails \/ StrictPasses
  \/ AfterFails \/ NextCycle \/ Finish
  \/ \E v \in Venues : BeforeRun(v) \/ PrepareCloseout(v) \/ AfterRun(v)

Goroutine(v) ==
  Prepare(v) \/ Ready(v) \/ Unprepared(v) \/ Send(v) \/ Answer(v) \/ Close(v)

Next ==
  \/ Start \/ Main \/ Kill
  \/ \E v \in Venues : Goroutine(v) \/ Land(v) \/ Fill(v)

Spec == Init /\ [][Next]_vars

\* Builders, HTTP requests and confirmations have timeouts, so the main goroutine
\* and the venues' goroutines go on; nothing is assumed of what the venues do, of
\* the supervisor or the operator.  A websocket that is not answered has no
\* timeout (OrderSocket): these are cycles over HTTP, or over ones that are.
FairSpec ==
  /\ Spec
  /\ WF_vars(Main)
  /\ \A v \in Venues : WF_vars(Goroutine(v))

-----------------------------------------------------------------------------
(* Properties                                                              *)

\* Types of the process's and the venues' state.
TypeOK ==
  /\ pc \in {"down", "startup", "loop", "pre-cycle", "preflight", "prepare",
             "enter", "collect", "close-prepare", "close", "closing", "store",
             "costs", "reconcile", "final", "failed", "finished"}
  /\ todo \subseteq Venues
  /\ cycleIndex \in Nat /\ (args.cycles > 0 => cycleIndex <= WarmupCycles + args.cycles)
  /\ g \in [Venues -> Goroutines] /\ prepared \subseteq Venues
  /\ sample \in [Venues -> [ok : BOOLEAN, closed : {"none", "ok", "failed"}]]
  /\ report \in [Venues -> {"none", "ok", "repaired", "failed"}]
  /\ args \in Starts \cup {NoArgs}
  /\ retained \in Seq(1..serial) /\ Len(retained) <= RetainCycles
  /\ run \in Nat /\ serial \in Nat
  /\ resting \in [Venues -> SUBSET (1..serial)]
  /\ held \in [Venues -> SUBSET (1..serial)]
  /\ flight \in [Venues -> SUBSET (1..serial)]
  /\ seen \subseteq SUBSET (1..serial) /\ planned \subseteq 1..serial
  /\ baseline \in [Venues -> SUBSET SUBSET (1..serial)]
  /\ plan \in [Venues -> {"none", "skip", "cancel", "neutralize", "fail"}]
  /\ before \in [Venues -> [resting : SUBSET (1..serial), held : SUBSET (1..serial)]]
  /\ sent \subseteq [serial : 1..serial, venue : Venues]
  /\ stored \subseteq [serial : 1..serial, venue : Venues, closed : {"none", "ok", "failed"}]

\* No strict venue is measured on an account on which the check before the
\* cycle should have found something (coordinated.go:139).  With a guard it
\* held no position when the cycle began; and of the orders that rested then
\* and that the check looks for, none is left when the order is sent.  Late
\* landings, lost answers, failed or skipped close-outs and fills, also those
\* of killed processes, are all caught then.
MeasuredClean ==
  \A v \in Strict : g[v] = "sent" =>
    /\ v \in Guarded \ Allowing => before[v].held = {}
    /\ resting[v] \cap before[v].resting \cap LookedFor(v) = {}

\* What README.md:294-296 says of the check, and its own "no stale hyperliquid
\* benchmark orders" (cancel_payload.py:87): it looks for stale orders of the same
\* run, so that none rests on a strict venue that is measured.
StaleFound ==
  \A v \in Strict : g[v] = "sent" =>
    \A o \in sent : o.venue = v => o.serial \notin resting[v] \cap before[v].resting

\* The boundary is shared: no venue's order of the current cycle is out while
\* another venue still prepares or is not at the barrier (bench/coordinated.go:
\* 153, 201), and nothing is closed out while a sample is undecided (203-206)
\* or another close-out still prepares (254-287, 312).
SharedBoundary ==
  /\ pc \in {"prepare", "enter", "collect"} /\ (\E o \in sent : o.serial = serial) =>
       \A u \in Items : g[u] \in {"ready", "sent", "done"}
  /\ (\E v \in Venues : sample[v].closed # "none") =>
       \A u \in Venues : g[u] \in {"none", "ready", "done"}

\* When a process sends in a new cycle, every order it sent in an earlier one
\* has its sample in the database; a process that a strict check has ended has
\* stored them all, the failed one's too; and no cycle follows one whose strict
\* cleanup failed (coordinated.go:159, 171).
StoredBeforeNext ==
  /\ \A o \in sent : o.serial < serial \/ pc \in {"failed", "finished"} =>
       \E r \in stored : r.serial = o.serial /\ r.venue = o.venue
  /\ \A r \in stored : r.venue \in Strict /\ r.closed = "failed" => r.serial = serial

\* What reconciliation is told of: the process's newest cycles, none missing
\* (coordinated.go:158, 174, 204-214).
ReconcilesNewest ==
  pc \in {"reconcile", "final"} =>
    \A o \in sent : o.serial > serial - RetainCycles => o.serial \in ToSet(retained)

\* A cycle that has begun is carried through: neither barrier waits for ever,
\* whatever preparations, answers and cleanups fail.
CycleEnds == pc = "prepare" ~> pc \in {"loop", "down", "failed"}
=============================================================================
