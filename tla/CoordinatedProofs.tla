-------------------------- MODULE CoordinatedProofs --------------------------
(***************************************************************************)
(* TLAPS proofs about Coordinated, for any venues, any starts of the       *)
(* process, any number of cycles and kills, and whatever fails or is late: *)
(* its types, and its four safety properties, each from an inductive       *)
(* invariant of its own over TypeInv and Barriers.                         *)
(***************************************************************************)
EXTENDS Coordinated, SequenceTheorems, TLAPS

\* A loop over the items visits one it has still to visit.
LEMMA VisitedLeft == ASSUME NEW v, Visited(v) PROVE v \in todo
BY DEF Visited

\* A limit on the samples retained is a number.
LEMMA LimitIsNumber == ASSUME args \in Starts \cup {NoArgs} PROVE RetainCycles \in Nat
BY CoordinatedAssumption DEF RetainCycles, NoArgs

\* What is retained of a sequence is a part of it, within the limit.
LEMMA RetainType ==
  ASSUME NEW S, NEW s \in Seq(S), RetainCycles \in Nat
  PROVE  Retain(s) \in Seq(S) /\ Len(Retain(s)) <= RetainCycles
<1>1. CASE Len(s) <= RetainCycles
  BY <1>1 DEF Retain
<1>2. CASE ~(Len(s) <= RetainCycles)
  <2> DEFINE m == Len(s) - RetainCycles + 1
  <2>1. Len(s) \in Nat /\ m \in Int /\ m >= 1
    BY <1>2, LenProperties
  <2>2. \A i \in m..Len(s) : s[i] \in S
    BY <2>1, ElementOfSeq
  <2>3. Retain(s) = SubSeq(s, m, Len(s))
    BY <1>2 DEF Retain
  <2> QED
    BY <2>1, <2>2, <2>3, SubSeqProperties
<1> QED
  BY <1>1, <1>2

-----------------------------------------------------------------------------
(* Types                                                                   *)

\* The phases of a cycle, and those after its serial number was taken.
Sending == {"prepare", "enter", "collect", "close-prepare", "close", "closing", "store", "costs"}
Within == Sending \cup {"pre-cycle", "preflight", "reconcile"}
Ended == {"down", "failed", "finished"}

\* A process that has ended keeps nothing in memory; a cycle begins only below the limit,
\* and with a serial number of its own; a loop over the items stays in them.
Process ==
  /\ pc \in Ended =>
       /\ args = NoArgs /\ retained = <<>> /\ cycleIndex = 0
       /\ before = Nothing /\ g = All("none")
  /\ pc \in Within => ~Over
  /\ pc \in Sending => serial >= 1
  /\ todo \subseteq Items

TypeInv == TypeOK /\ Process

\* A process that has not started.
LEMMA TypeInit == Init => TypeInv
<1> SUFFICES ASSUME Init PROVE TypeInv
  OBVIOUS
<1>1. retained \in Seq(1..serial) /\ Len(retained) = 0
  BY DEF Init
<1>2. RetainCycles \in Nat
  BY LimitIsNumber DEF Init
<1>3. TypeOK
  BY <1>1, <1>2, CoordinatedAssumption DEF Init, TypeOK, Goroutines, NoSample, NoArgs, Nowhere, Nothing, All
<1> QED
  BY <1>3 DEF Init, TypeInv, Process, Within, Sending, Ended, Items, NoArgs

\* A process that ends leaves its types behind it.
LEMMA EndsType ==
  ASSUME TypeInv, NEW how \in Ended, Ends(how)
  PROVE  TypeInv'
<1> USE DEF Ends, venue
<1>1. retained' \in Seq(1..serial)' /\ Len(retained') = 0
  OBVIOUS
<1>2. RetainCycles' \in Nat
  BY CoordinatedAssumption DEF RetainCycles, NoArgs
<1>3. TypeOK'
  BY <1>1, <1>2, CoordinatedAssumption DEF TypeInv, TypeOK, Goroutines, NoSample, NoArgs, Nowhere, Nothing, All, Ended
<1> QED
  BY <1>3 DEF TypeInv, Process, Within, Sending, Ended, Items, NoArgs

\* What a step of a venue's check may change, and the types of that.
LEMMA CheckIs ==
  ASSUME TypeInv, NEW v \in Venues, BeforeRun(v)
  PROVE  /\ pc' = pc /\ pc \in {"startup", "pre-cycle"} /\ Visited(v)
         /\ UNCHANGED <<cycleIndex, retained, g, prepared, sample, count, flight,
                        planned, plan, history>>
         /\ (todo' = todo \/ (todo' = todo \ {v} /\ seen' = {}))
         /\ seen' \subseteq SUBSET (1..serial)
         /\ resting' \in [Venues -> SUBSET (1..serial)]
         /\ held' \in [Venues -> SUBSET (1..serial)]
         /\ report' \in [Venues -> {"none", "ok", "repaired", "failed"}]
         /\ baseline' \in [Venues -> SUBSET SUBSET (1..serial)]
<1> USE DEF TypeInv, TypeOK, main, cycle, count, venue, history
<1>1. ASSUME NEW result \in {"none", "ok", "repaired", "failed"},
             NEW position \in SUBSET SUBSET (1..serial), CheckDone(v, result, position)
      PROVE  /\ pc' = pc /\ pc \in {"startup", "pre-cycle"} /\ Visited(v)
             /\ UNCHANGED <<cycleIndex, retained, g, prepared, sample, count, flight,
                            planned, plan, history>>
             /\ todo' = todo \ {v} /\ seen' = {}
             /\ report' \in [Venues -> {"none", "ok", "repaired", "failed"}]
             /\ baseline' \in [Venues -> SUBSET SUBSET (1..serial)]
  BY <1>1 DEF CheckDone
<1>2. CASE CheckSkipped(v)
  BY <1>1, <1>2 DEF CheckSkipped
<1>3. CASE CheckFails(v)
  BY <1>1, <1>3 DEF CheckFails
<1>4. CASE CheckPosition(v)
  BY <1>4 DEF CheckPosition
<1>5. CASE CancelStale(v)
  <2>1. PICK gone \in SUBSET Stale(v), filled \in SUBSET Stale(v) :
          /\ resting' = [resting EXCEPT ![v] = @ \ gone]
          /\ held' = [held EXCEPT ![v] = @ \cup filled]
          /\ \E result \in {"ok", "repaired", "failed"} : CheckDone(v, result, {})
    BY <1>5 DEF CancelStale
  <2>2. gone \subseteq 1..serial /\ filled \subseteq 1..serial
    BY DEF Stale
  <2>3. resting' \in [Venues -> SUBSET (1..serial)] /\ held' \in [Venues -> SUBSET (1..serial)]
    BY <2>1, <2>2
  <2>4. PICK result \in {"ok", "repaired", "failed"} : CheckDone(v, result, {})
    BY <2>1
  <2> QED
    BY <1>1, <2>3, <2>4
<1>6. CASE Heal(v)
  <2>1. \E result \in {"repaired", "failed"} : CheckDone(v, result, {})
    BY <1>6 DEF Heal
  <2>2. resting' = resting /\ held' \in [Venues -> SUBSET (1..serial)]
    BY <1>6 DEF Heal
  <2> QED
    BY <1>1, <2>1, <2>2
<1>7. CASE CheckAccount(v)
  BY <1>1, <1>7 DEF CheckAccount
<1> QED
  BY <1>2, <1>3, <1>4, <1>5, <1>6, <1>7 DEF BeforeRun

\* Taking from one venue's orders.
LEMMA LessAtOne ==
  ASSUME NEW S, NEW f \in [Venues -> SUBSET S], NEW v \in Venues, NEW less,
         NEW h, h = [f EXCEPT ![v] = @ \ less]
  PROVE  h \in [Venues -> SUBSET S] /\ \A u \in Venues : h[u] \subseteq f[u]
OBVIOUS

\* What the end of a close-out may change, and the types of that.
LEMMA CloseIs ==
  ASSUME TypeInv, NEW v \in Venues, Close(v)
  PROVE  /\ pc = "closing" /\ g[v] = "ready" /\ g' = [g EXCEPT ![v] = "done"]
         /\ UNCHANGED <<main, prepared, report, count, flight, seen, baseline, planned, history>>
         /\ plan' \in [Venues -> {"none", "skip", "cancel", "neutralize", "fail"}]
         /\ sample' \in [Venues -> [ok : BOOLEAN, closed : {"none", "ok", "failed"}]]
         /\ \A u \in Venues : u # v => sample'[u] = sample[u]
         /\ resting' \in [Venues -> SUBSET (1..serial)]
         /\ \A u \in Venues : resting'[u] \subseteq resting[u]
         /\ held' \in [Venues -> SUBSET (1..serial)]
<1>0. resting \in [Venues -> SUBSET (1..serial)] /\ held \in [Venues -> SUBSET (1..serial)]
  BY DEF TypeInv, TypeOK
<1>1. ASSUME NEW ok \in BOOLEAN, CloseDone(v, ok)
      PROVE  /\ pc = "closing" /\ g[v] = "ready" /\ g' = [g EXCEPT ![v] = "done"]
             /\ UNCHANGED <<main, prepared, report, count, flight, seen, baseline, planned, history>>
             /\ plan' \in [Venues -> {"none", "skip", "cancel", "neutralize", "fail"}]
             /\ sample' \in [Venues -> [ok : BOOLEAN, closed : {"none", "ok", "failed"}]]
             /\ \A u \in Venues : u # v => sample'[u] = sample[u]
  <2>1. (sample[v].ok /\ (ok \/ v \notin Strict)) \in BOOLEAN
    BY DEF TypeInv, TypeOK
  <2> QED
    BY <1>1, <2>1 DEF CloseDone, TypeInv, TypeOK
<1>2. CASE CloseNothing(v)
  BY <1>0, <1>1, <1>2 DEF CloseNothing
<1>3. CASE CloseRequest(v)
  <2>1. \E ok \in BOOLEAN : CloseDone(v, ok)
    BY <1>3 DEF CloseRequest
  <2>2. resting' = resting \/ resting' = [resting EXCEPT ![v] = @ \ {serial}]
    BY <1>3 DEF CloseRequest
  <2>3. held' = held \/ \E sold \in SUBSET Gained(v) : held' = [held EXCEPT ![v] = @ \ sold]
    BY <1>3 DEF CloseRequest
  <2>4. /\ resting' \in [Venues -> SUBSET (1..serial)]
        /\ \A u \in Venues : resting'[u] \subseteq resting[u]
    BY <1>0, <2>2, LessAtOne
  <2>5. held' \in [Venues -> SUBSET (1..serial)]
    BY <1>0, <2>3, LessAtOne
  <2>6. PICK ok \in BOOLEAN : CloseDone(v, ok)
    BY <2>1
  <2> QED
    BY <1>1, <2>4, <2>5, <2>6
<1> QED
  BY <1>2, <1>3 DEF Close

\* Every step keeps the types and what is known of the process.
LEMMA TypeNext == TypeInv /\ [Next]_vars => TypeInv'
<1> SUFFICES ASSUME TypeInv, [Next]_vars PROVE TypeInv'
  OBVIOUS
<1> USE CoordinatedAssumption DEF TypeInv, TypeOK, Process, main, cycle, count, venue, cleanup, history
<1>0. RetainCycles \in Nat
  BY LimitIsNumber
<1>01. Items \subseteq Venues
  BY DEF Items, NoArgs
<1>1. CASE UNCHANGED vars
  BY <1>1 DEF vars, Items, RetainCycles, Over
<1>2. CASE Start
  <2>1. args' \in [items : (SUBSET Venues) \ {{}}, cycles : Nat]
    BY <1>2 DEF Start
  <2>2. RetainCycles' \in Nat
    BY <2>1 DEF RetainCycles
  <2>3. Len(retained') = 0
    BY <1>2 DEF Start, Ended
  <2> QED
    BY <1>2, <2>1, <2>2, <2>3 DEF Start, Within, Sending, Ended, Items
<1>3. ASSUME NEW how \in Ended, Ends(how) PROVE TypeInv'
  BY <1>3, EndsType
<1>4. CASE BeforeFails \/ StoreFails \/ StrictFails \/ AfterFails \/ Finish \/ Kill
  BY <1>3, <1>4 DEF BeforeFails, StoreFails, StrictFails, AfterFails, Finish, Kill, Ended
<1> DEFINE Same == RetainCycles' = RetainCycles /\ Items' = Items
<1>5. UNCHANGED args => Same
  BY DEF RetainCycles, Items
<1>6. CASE BeforePasses
  BY <1>5, <1>6 DEF BeforePasses, Goto, All, Over, Within, Sending, Ended
<1>7. CASE Loop
  BY <1>01, <1>5, <1>7 DEF Loop, Visit, Account, Over, Within, Sending, Ended, Items
<1>8. CASE LoopOver
  BY <1>01, <1>5, <1>8 DEF LoopOver, Visit, Over, Within, Sending, Ended, Items
<1>9. CASE RateLimited
  BY <1>5, <1>9 DEF RateLimited, Goto, Over, Within, Sending, Ended, NoArgs
<1>10. CASE BeginCycle
  <2>1. 1..serial \subseteq 1..serial'
    BY <1>10 DEF BeginCycle
  <2>2. retained' \in Seq(1..serial')
    BY <1>10, <2>1, SeqMonotonic DEF BeginCycle
  <2> QED
    BY <1>5, <1>10, <2>1, <2>2
    DEF BeginCycle, Goto, Over, Within, Sending, Ended, Each, Goroutines, Items
<1>11. CASE SpawnSenders
  BY <1>5, <1>11 DEF SpawnSenders, Goto, Over, Within, Sending, Ended, Each, Goroutines
<1>12. CASE Release
  BY <1>5, <1>12 DEF Release, Goto, Over, Within, Sending, Ended
<1>13. CASE BeginCloseout
  BY <1>01, <1>5, <1>13 DEF BeginCloseout, Over, Within, Sending, Ended, All, Goroutines, Nothing
<1>14. CASE SpawnClosers
  BY <1>5, <1>14 DEF SpawnClosers, Goto, Over, Within, Sending, Ended
<1>15. CASE EndCycle
  <2>1. Append(retained, serial) \in Seq(1..serial)
    BY <1>15 DEF EndCycle, Sending
  <2>2. retained' \in Seq(1..serial) /\ Len(retained') <= RetainCycles
    BY <1>0, <1>15, <2>1, RetainType DEF EndCycle
  <2> QED
    BY <1>5, <1>15, <2>2 DEF EndCycle, Goto, Over, Within, Sending, Ended, All, Goroutines
<1>16. CASE Store
  BY <1>5, <1>16 DEF Store, Goto, Over, Within, Sending, Ended, Items, NoArgs
<1>17. CASE StrictPasses
  BY <1>01, <1>5, <1>17 DEF StrictPasses, Visit, Over, Within, Sending, Ended, All, NoSample, Items
<1>18. CASE NextCycle
  BY <1>5, <1>18 DEF NextCycle, Goto, Over, Within, Sending, Ended, All, NoArgs
<1>19. ASSUME NEW v \in Venues, BeforeRun(v) PROVE TypeInv'
  BY <1>01, <1>5, <1>19, CheckIs DEF Over, Within, Sending, Ended
<1>20. ASSUME NEW v \in Venues, PrepareCloseout(v) PROVE TypeInv'
  BY <1>5, <1>20 DEF PrepareCloseout, Look, Over, Within, Sending, Ended, Goroutines
<1>21. ASSUME NEW v \in Venues, AfterRun(v) PROVE TypeInv'
  <2>1. report' \in [Venues -> {"none", "ok", "repaired", "failed"}]
    BY <1>21 DEF AfterRun
  <2>2. todo' \subseteq Items
    BY <1>21 DEF AfterRun
  <2>3. UNCHANGED <<pc, cycleIndex, retained, g, prepared, sample, count, venue, cleanup, history>>
    BY <1>21 DEF AfterRun
  <2> QED
    BY <1>01, <1>5, <2>1, <2>2, <2>3 DEF Over, Within, Sending, Ended
<1>22. ASSUME NEW v \in Venues, Prepare(v) PROVE TypeInv'
  BY <1>5, <1>22 DEF Prepare, Over, Within, Sending, Ended, Goroutines
<1>23. ASSUME NEW v \in Venues, Ready(v) PROVE TypeInv'
  BY <1>5, <1>23 DEF Ready, Over, Within, Sending, Ended, Goroutines
<1>24. ASSUME NEW v \in Venues, Unprepared(v) PROVE TypeInv'
  BY <1>5, <1>24 DEF Unprepared, Over, Within, Sending, Ended, Goroutines
<1>25. ASSUME NEW v \in Venues, Send(v) PROVE TypeInv'
  BY <1>5, <1>25 DEF Send, Over, Within, Sending, Ended, Goroutines
<1>26. ASSUME NEW v \in Venues, Answer(v) PROVE TypeInv'
  <2>1. PICK ok \in BOOLEAN : sample' = [sample EXCEPT ![v] = [ok |-> ok, closed |-> "none"]]
    BY <1>26 DEF Answer
  <2>2. sample' \in [Venues -> [ok : BOOLEAN, closed : {"none", "ok", "failed"}]]
    BY <2>1
  <2>3. /\ pc = "collect" /\ g' \in [Venues -> Goroutines]
        /\ UNCHANGED <<main, prepared, report, count, venue, cleanup, history>>
    BY <1>26 DEF Answer, Goroutines
  <2>4. TypeOK'
    BY <1>5, <2>2, <2>3
  <2>5. Process'
    BY <1>5, <2>3 DEF Over, Within, Sending, Ended
  <2> QED
    BY <2>4, <2>5
<1>27. ASSUME NEW v \in Venues, Close(v) PROVE TypeInv'
  <2>1. /\ pc = "closing" /\ g' = [g EXCEPT ![v] = "done"]
        /\ UNCHANGED <<main, prepared, report, count, flight, seen, baseline, planned, history>>
        /\ plan' \in [Venues -> {"none", "skip", "cancel", "neutralize", "fail"}]
        /\ sample' \in [Venues -> [ok : BOOLEAN, closed : {"none", "ok", "failed"}]]
        /\ resting' \in [Venues -> SUBSET (1..serial)]
        /\ held' \in [Venues -> SUBSET (1..serial)]
    BY <1>27, CloseIs
  <2>2. g' \in [Venues -> Goroutines]
    BY <2>1 DEF Goroutines
  <2>3. TypeOK'
    BY <1>5, <2>1, <2>2
  <2>4. Process'
    BY <1>5, <2>1 DEF Over, Within, Sending, Ended
  <2> QED
    BY <2>3, <2>4
<1>28. ASSUME NEW v \in Venues, Land(v) PROVE TypeInv'
  BY <1>5, <1>28 DEF Land, Over, Within, Sending, Ended
<1>29. ASSUME NEW v \in Venues, Fill(v) PROVE TypeInv'
  BY <1>5, <1>29 DEF Fill, Over, Within, Sending, Ended
<1> QED
  BY <1>1, <1>2, <1>4, <1>6, <1>7, <1>8, <1>9, <1>10, <1>11, <1>12, <1>13, <1>14, <1>15,
     <1>16, <1>17, <1>18, <1>19, <1>20, <1>21, <1>22, <1>23, <1>24, <1>25, <1>26, <1>27, <1>28, <1>29
  DEF Next, Main, Goroutine

\* The types of the loop, its goroutines and the venues.
THEOREM TypeCorrect == Spec => []TypeOK
<1>1. Init => TypeInv
  BY TypeInit
<1>2. TypeInv /\ [Next]_vars => TypeInv'
  BY TypeNext
<1>3. TypeInv => TypeOK
  BY DEF TypeInv
<1> QED
  BY <1>1, <1>2, <1>3, PTL DEF Spec

-----------------------------------------------------------------------------
(* Barriers                                                                *)

\* Where each venue's goroutine may be in a phase; a venue that the process
\* was not given has none.
Stage == CASE pc = "prepare" -> {"preparing", "prepared"}
           [] pc = "enter" -> {"spawned", "ready"}
           [] pc = "collect" -> {"ready", "sent", "done"}
           [] pc = "close-prepare" -> {"none", "spawned"}
           [] pc = "close" -> {"none", "spawned", "ready"}
           [] pc = "closing" -> {"none", "ready", "done"}
           [] OTHER -> {"none"}

\* Nothing of the current cycle is sent before the first barrier opens, and no
\* sample has a close-out before the second.
Barriers ==
  /\ \A v \in Items : g[v] \in Stage
  /\ \A v \in Venues \ Items : g[v] = "none"
  /\ pc \in {"prepare", "enter"} => \A o \in sent : o.serial < serial
  /\ pc \notin {"closing", "store", "costs"} => \A v \in Venues : sample[v].closed = "none"

\* No goroutine has been started.
LEMMA BarriersInit == Init => Barriers
BY DEF Init, Barriers, Stage, All, NoSample, Items, NoArgs

\* Each phase lets the venues' goroutines through the barriers together.
LEMMA BarriersNext == TypeInv /\ Barriers /\ [Next]_vars => Barriers'
<1> SUFFICES ASSUME TypeInv, Barriers, [Next]_vars PROVE Barriers'
  OBVIOUS
<1> USE DEF TypeInv, TypeOK, Process, Barriers, Stage, main, cycle, count, venue, cleanup, history, Goto, Visit
<1>1. CASE UNCHANGED vars
  BY <1>1 DEF vars, Items
<1>2. CASE Start
  <2>1. Items' \subseteq Venues
    BY <1>2, CoordinatedAssumption DEF Start, Items
  <2>2. pc' = "startup" /\ UNCHANGED <<g, sample, serial>> /\ g = All("none")
    BY <1>2 DEF Start, Ended
  <2> QED
    BY <1>2, <2>1, <2>2 DEF Start, All
<1>3. ASSUME NEW how \in Ended, Ends(how) PROVE Barriers'
  BY <1>3 DEF Ends, Ended, Items, NoArgs, All, NoSample
<1>4. CASE BeforeFails \/ StoreFails \/ StrictFails \/ AfterFails \/ Finish \/ Kill
  BY <1>3, <1>4 DEF BeforeFails, StoreFails, StrictFails, AfterFails, Finish, Kill, Ended
<1>5. UNCHANGED args => Items' = Items
  BY DEF Items
<1>01. Items \subseteq Venues
  BY CoordinatedAssumption DEF Items, NoArgs
<1>6. CASE BeforePasses
  BY <1>5, <1>6 DEF BeforePasses
<1>7. CASE Loop
  BY <1>5, <1>7 DEF Loop
<1>8. CASE LoopOver
  BY <1>5, <1>8 DEF LoopOver
<1>9. CASE RateLimited
  BY <1>5, <1>9 DEF RateLimited
<1>10. CASE BeginCycle
  <2>1. Items' = Items
    BY <1>10, <1>5 DEF BeginCycle
  <2>2. \A v \in Venues : g'[v] = IF v \in Items THEN "preparing" ELSE "none"
    BY <1>10 DEF BeginCycle, Each
  <2>3. \A o \in sent' : o.serial < serial'
    BY <1>10 DEF BeginCycle
  <2>4. pc' = "prepare" /\ sample' = sample /\ pc = "preflight"
    BY <1>10 DEF BeginCycle
  <2> QED
    BY <1>01, <2>1, <2>2, <2>3, <2>4
<1>11. CASE SpawnSenders
  BY <1>01, <1>5, <1>11 DEF SpawnSenders, Each
<1>12. CASE Release
  BY <1>01, <1>5, <1>12 DEF Release, AllReady
<1>13. CASE BeginCloseout
  BY <1>01, <1>5, <1>13 DEF BeginCloseout, All
<1>14. CASE SpawnClosers
  BY <1>5, <1>14 DEF SpawnClosers
<1>15. CASE EndCycle
  BY <1>01, <1>5, <1>15 DEF EndCycle, All
<1>16. CASE Store
  BY <1>5, <1>16 DEF Store
<1>17. CASE StrictPasses
  BY <1>01, <1>5, <1>17 DEF StrictPasses, All, NoSample
<1>18. CASE NextCycle
  BY <1>5, <1>18 DEF NextCycle
<1>19. ASSUME NEW v \in Venues, BeforeRun(v) PROVE Barriers'
  BY <1>5, <1>19, CheckIs
<1>21. ASSUME NEW v \in Venues, AfterRun(v) PROVE Barriers'
  BY <1>5, <1>21 DEF AfterRun
<1>20. ASSUME NEW v \in Venues, PrepareCloseout(v) PROVE Barriers'
  BY <1>5, <1>20, VisitedLeft DEF PrepareCloseout
<1>22. ASSUME NEW v \in Venues, Prepare(v) PROVE Barriers'
  BY <1>01, <1>5, <1>22 DEF Prepare
<1>23. ASSUME NEW v \in Venues, Ready(v) PROVE Barriers'
  BY <1>01, <1>5, <1>23 DEF Ready
<1>24. ASSUME NEW v \in Venues, Unprepared(v) PROVE Barriers'
  BY <1>01, <1>5, <1>24 DEF Unprepared
<1>25. ASSUME NEW v \in Venues, Send(v) PROVE Barriers'
  BY <1>01, <1>5, <1>25 DEF Send
<1>26. ASSUME NEW v \in Venues, Answer(v) PROVE Barriers'
  BY <1>01, <1>5, <1>26 DEF Answer
<1>27. ASSUME NEW v \in Venues, Close(v) PROVE Barriers'
  <2>1. /\ pc = "closing" /\ pc' = pc /\ g[v] = "ready" /\ g' = [g EXCEPT ![v] = "done"]
        /\ Items' = Items
    BY <1>5, <1>27, CloseIs
  <2> QED
    BY <1>01, <2>1
<1>28. ASSUME NEW v \in Venues, Land(v) \/ Fill(v) PROVE Barriers'
  BY <1>5, <1>28 DEF Land, Fill
<1> QED
  BY <1>1, <1>2, <1>4, <1>6, <1>7, <1>8, <1>9, <1>10, <1>11, <1>12, <1>13, <1>14, <1>15,
     <1>16, <1>17, <1>18, <1>19, <1>20, <1>21, <1>22, <1>23, <1>24, <1>25, <1>26, <1>27, <1>28
  DEF Next, Main, Goroutine

\* The boundary is shared, whatever the venues' goroutines do in which order:
\* no order is out before all are at the barrier, and none is closed out before
\* all samples are decided.
THEOREM BoundaryShared == Spec => []SharedBoundary
<1>1. TypeInv /\ Barriers => SharedBoundary
  BY CoordinatedAssumption
  DEF TypeInv, TypeOK, Barriers, Stage, SharedBoundary, Items, NoArgs
<1> QED
  BY <1>1, TypeInit, TypeNext, BarriersInit, BarriersNext, PTL DEF Spec

-----------------------------------------------------------------------------
(* Measured accounts                                                       *)

\* A request is in flight or rests, never both, and what rested when the cycle
\* began is no longer in flight.
Apart == \A v \in Venues : flight[v] \cap (resting[v] \cup before[v].resting) = {}

\* The order a venue is about to be sent is a new one.
Fresh ==
  pc \in {"prepare", "enter", "collect"} =>
    \A v \in Items : g[v] \notin {"sent", "done"} =>
      serial \notin flight[v] \cup resting[v] \cup before[v].resting

\* A check in progress is of the venue that the loop visits; and until a venue's
\* check is over, the position of before the cycle is still held, so that it is
\* part of what the check has read.
Reading ==
  /\ seen # {} => pc \in {"startup", "pre-cycle"} /\ todo # {}
  /\ pc = "pre-cycle" => \A v \in todo : before[v].held \subseteq held[v]
  /\ pc = "pre-cycle" => \A v \in todo : Visited(v) =>
       \A position \in seen : before[v].held \subseteq position

\* What a check that passed has established of its venue.
Clean(v) ==
  /\ v \in Guarded \ Allowing => before[v].held = {}
  /\ resting[v] \cap before[v].resting \cap LookedFor(v) = {}

\* Every strict venue that the check before the cycle has passed is clean.
Checked ==
  \A v \in Strict \cap Items :
    \/ pc = "pre-cycle" /\ v \notin todo /\ report[v] \notin {"repaired", "failed"}
    \/ pc \in {"preflight", "prepare", "enter", "collect"}
    => Clean(v)

CleanInv == Apart /\ Fresh /\ Reading /\ Checked

\* A check that neither fails nor repairs has read no position that it guards
\* against, and leaves no order that it looks for.
LEMMA CheckPasses ==
  ASSUME TypeInv, NEW v \in Venues, v \in Cleanable, BeforeRun(v), v \notin todo',
         report'[v] \notin {"repaired", "failed"}
  PROVE  /\ seen # {} /\ (v \in Guarded \ Allowing => seen = {{}})
         /\ resting'[v] \cap LookedFor(v) = {}
<1> USE DEF TypeInv, TypeOK
<1>1. v \in todo
  BY CheckIs, VisitedLeft
<1>2. ASSUME NEW result, NEW position, CheckDone(v, result, position)
      PROVE  result = report'[v]
  BY <1>2 DEF CheckDone
<1>3. ~CheckSkipped(v) /\ ~CheckPosition(v)
  BY <1>1 DEF CheckSkipped, CheckPosition, main
<1>4. ~CheckFails(v)
  BY <1>2 DEF CheckFails
<1>5. CASE CancelStale(v)
  <2>1. PICK gone \in SUBSET Stale(v) :
          /\ resting' = [resting EXCEPT ![v] = @ \ gone]
          /\ \/ CheckDone(v, "failed", {})
             \/ /\ gone = Stale(v)
                /\ CheckDone(v, IF v \in Guarded /\ Positioned THEN "repaired" ELSE "ok", {})
    BY <1>5 DEF CancelStale
  <2>2. gone = Stale(v) /\ ~(v \in Guarded /\ Positioned)
    BY <1>2, <2>1
  <2> QED
    BY <1>5, <2>1, <2>2 DEF CancelStale, Positioned, Stale
<1>6. ~Heal(v)
  BY <1>2 DEF Heal
<1>7. CASE CheckAccount(v)
  <2>1. ~(Positioned /\ v \in Guarded \ Allowing)
    BY <1>2, <1>7 DEF CheckAccount
  <2> QED
    BY <1>7, <2>1 DEF CheckAccount, Positioned, Stale
<1> QED
  BY <1>3, <1>4, <1>5, <1>6, <1>7 DEF BeforeRun

\* A check that ends leaves the other venues alone, and no more orders resting.
LEMMA CheckOver ==
  ASSUME TypeInv, NEW v \in Venues, BeforeRun(v), ~CheckPosition(v)
  PROVE  /\ todo' = todo \ {v} /\ seen' = {}
         /\ \A u \in Venues : resting'[u] \subseteq resting[u]
         /\ \A u \in Venues : u # v => held'[u] = held[u] /\ report'[u] = report[u]
<1> USE DEF TypeInv, TypeOK
<1>1. ASSUME NEW result, NEW position, CheckDone(v, result, position)
      PROVE  /\ todo' = todo \ {v} /\ seen' = {}
             /\ \A u \in Venues : u # v => report'[u] = report[u]
  BY <1>1 DEF CheckDone
<1>2. CASE CheckSkipped(v) \/ CheckFails(v) \/ CheckAccount(v)
  BY <1>1, <1>2 DEF CheckSkipped, CheckFails, CheckAccount
<1>3. CASE CancelStale(v)
  <2>1. \E result : CheckDone(v, result, {})
    BY <1>3 DEF CancelStale
  <2>2. \E gone, filled : /\ resting' = [resting EXCEPT ![v] = @ \ gone]
                          /\ held' = [held EXCEPT ![v] = @ \cup filled]
    BY <1>3 DEF CancelStale
  <2> QED
    BY <1>1, <2>1, <2>2
<1>4. CASE Heal(v)
  <2>1. (\E result : CheckDone(v, result, {})) /\ resting' = resting
    BY <1>4 DEF Heal
  <2>2. \E sold : held' = [held EXCEPT ![v] = @ \ sold]
    BY <1>4 DEF Heal
  <2> QED
    BY <1>1, <2>1, <2>2
<1> QED
  BY <1>2, <1>3, <1>4 DEF BeforeRun

\* Nothing is on the venues.
LEMMA CleanInit == Init => CleanInv
BY DEF Init, CleanInv, Apart, Fresh, Reading, Checked, Nowhere, Nothing

\* What a step that moves no order and reads no account leaves as it is.
LEMMA CleanFrame ==
  ASSUME CleanInv, UNCHANGED <<args, serial, venue, planned, before, seen, g>>,
         seen = {} \/ UNCHANGED <<pc, todo, report>>,
         pc' # "pre-cycle" \/ UNCHANGED <<pc, todo, report>>,
         pc' \in {"preflight", "prepare", "enter", "collect"} =>
           pc \in {"preflight", "prepare", "enter", "collect"},
         pc' \in {"prepare", "enter", "collect"} => pc \in {"prepare", "enter", "collect"}
  PROVE  CleanInv'
BY DEF CleanInv, Apart, Fresh, Reading, Checked, Clean, LookedFor, Items, Visited, venue

\* Every step keeps the accounts' invariant.
LEMMA CleanNext == TypeInv /\ Barriers /\ CleanInv /\ [Next]_vars => CleanInv'
<1> SUFFICES ASSUME TypeInv, Barriers, CleanInv, [Next]_vars PROVE CleanInv'
  OBVIOUS
<1> USE DEF main, cycle, count, venue, cleanup, history, Goto, Visit
<1>01. Items \subseteq Venues /\ Strict \subseteq Cleanable /\ Cleanable \subseteq Venues
  BY CoordinatedAssumption DEF Items, NoArgs, TypeInv, TypeOK
<1>04. /\ serial \in Nat /\ planned \subseteq 1..serial /\ g \in [Venues -> Goroutines]
       /\ resting \in [Venues -> SUBSET (1..serial)]
       /\ held \in [Venues -> SUBSET (1..serial)]
       /\ flight \in [Venues -> SUBSET (1..serial)]
       /\ \A v \in Venues : before[v].resting \subseteq 1..serial /\ before[v].held \subseteq 1..serial
  BY DEF TypeInv, TypeOK
<1>05. DOMAIN before = Venues /\ DOMAIN report = Venues
  BY DEF TypeInv, TypeOK
<1>02. UNCHANGED args => Items' = Items
  BY DEF Items
<1>03. pc \notin {"startup", "pre-cycle"} \/ todo = {} => seen = {}
  BY DEF CleanInv, Reading
<1>1. CASE UNCHANGED vars
  BY <1>1, CleanFrame DEF vars
<1>2. CASE Start
  BY <1>2 DEF Start, Ended, CleanInv, Apart, Fresh, Reading, Checked
<1>3. ASSUME NEW how \in Ended, Ends(how) PROVE CleanInv'
  BY <1>3 DEF Ends, Ended, Nothing, CleanInv, Apart, Fresh, Reading, Checked
<1>4. CASE BeforeFails \/ StoreFails \/ StrictFails \/ AfterFails \/ Finish \/ Kill
  BY <1>3, <1>4 DEF BeforeFails, StoreFails, StrictFails, AfterFails, Finish, Kill, Ended
<1>6. CASE BeforePasses
  <2>1. /\ seen = {} /\ seen' = {} /\ todo = {} /\ todo' = {} /\ pc' \in {"loop", "preflight"}
        /\ UNCHANGED <<g, count, venue, cleanup, history>> /\ Items' = Items
    BY <1>02, <1>03, <1>6 DEF BeforePasses
  <2>2. pc' = "preflight" => \A v \in Strict \cap Items : Clean(v)
    BY <1>6 DEF BeforePasses, StartupError, CleanInv, Checked
  <2>3. Checked'
    BY <2>1, <2>2 DEF Checked, Clean, LookedFor
  <2> QED
    BY <2>1, <2>3 DEF CleanInv, Apart, Fresh, Reading
<1>7. CASE Loop
  <2>1. /\ pc' = "pre-cycle" /\ todo' = Items /\ seen = {} /\ seen' = {}
        /\ UNCHANGED <<g, count, venue>> /\ Items' = Items
        /\ \A v \in Venues : before'[v] = [resting |-> resting[v], held |-> held[v]]
    BY <1>02, <1>03, <1>7 DEF Loop, Account
  <2>2. \A v \in Venues : before'[v].resting = resting[v] /\ before'[v].held = held[v]
    <3> SUFFICES ASSUME NEW v \in Venues
                 PROVE  before'[v].resting = resting[v] /\ before'[v].held = held[v]
      OBVIOUS
    <3>1. before'[v] = [resting |-> resting[v], held |-> held[v]]
      BY <2>1
    <3> QED
      BY <3>1
  <2>3. Apart' /\ Fresh'
    BY <2>1, <2>2 DEF CleanInv, Apart, Fresh
  <2> QED
    BY <1>01, <2>1, <2>2, <2>3 DEF CleanInv, Reading, Checked
<1>9. CASE LoopOver \/ RateLimited \/ SpawnClosers \/ Store \/ StrictPasses \/ NextCycle
  <2>1. UNCHANGED <<args, serial, venue, planned, before, seen, g>> /\ seen = {}
    BY <1>03, <1>9
    DEF LoopOver, RateLimited, SpawnClosers, Store, StrictPasses, NextCycle
  <2>2. pc' \notin {"pre-cycle", "preflight", "prepare", "enter", "collect"}
    BY <1>9
    DEF LoopOver, RateLimited, SpawnClosers, Store, StrictPasses, NextCycle
  <2> QED
    BY <2>1, <2>2, CleanFrame
<1>10. CASE BeginCycle
  <2>1. /\ pc = "preflight" /\ pc' = "prepare" /\ serial' = serial + 1 /\ seen' = seen
        /\ planned' \subseteq planned \cup {serial'}
        /\ UNCHANGED <<args, venue, before, todo>> /\ Items' = Items
    BY <1>02, <1>10 DEF BeginCycle
  <2>2. \A v \in Venues : serial' \notin flight[v] \cup resting[v] \cup before[v].resting
    BY <1>04, <2>1
  <2>3. \A v \in Venues :
          before[v].resting \cap LookedFor(v)' \subseteq before[v].resting \cap LookedFor(v)
    BY <1>04, <2>1, <2>2 DEF LookedFor
  <2>4. Checked'
    BY <1>01, <2>1, <2>3 DEF CleanInv, Checked, Clean
  <2> QED
    BY <1>01, <1>03, <2>1, <2>2, <2>4 DEF CleanInv, Apart, Fresh, Reading
<1>11. CASE SpawnSenders
  BY <1>01, <1>02, <1>03, <1>11
  DEF SpawnSenders, Each, CleanInv, Apart, Fresh, Reading, Checked, Clean, LookedFor
<1>12. CASE Release
  BY <1>01, <1>02, <1>03, <1>12
  DEF Release, CleanInv, Apart, Fresh, Reading, Checked, Clean, LookedFor
<1>13. CASE BeginCloseout \/ EndCycle
  <2>1. /\ UNCHANGED <<args, serial, venue, seen>> /\ seen = {} /\ pc' \in {"close-prepare", "store"}
        /\ before' = Nothing \/ before' = before
    BY <1>03, <1>13 DEF BeginCloseout, EndCycle
  <2> QED
    BY <2>1 DEF Nothing, CleanInv, Apart, Fresh, Reading, Checked
<1>19. ASSUME NEW v \in Venues, BeforeRun(v) PROVE CleanInv'
  <2>1. /\ pc' = pc /\ pc \in {"startup", "pre-cycle"} /\ v \in todo /\ Visited(v)
        /\ UNCHANGED <<g, count, flight, planned, before>> /\ Items' = Items
    BY <1>02, <1>19, CheckIs, VisitedLeft
  <2>2. CASE CheckPosition(v)
    <3>1. seen' = {held[v]} /\ UNCHANGED <<todo, report, resting, held>>
      BY <2>2 DEF CheckPosition
    <3>2. \A u \in todo : Visited(u) => u = v
      BY <2>1 DEF Visited
    <3>3. \A u : Visited(u)' <=> Visited(u)
      BY <3>1 DEF Visited
    <3>4. Reading'
      BY <2>1, <3>1, <3>2, <3>3 DEF CleanInv, Reading
    <3> QED
      BY <2>1, <3>1, <3>4 DEF CleanInv, Apart, Fresh, Checked, Clean, LookedFor
  <2>3. CASE ~CheckPosition(v)
    <3>1. /\ todo' = todo \ {v} /\ seen' = {}
          /\ \A u \in Venues : resting'[u] \subseteq resting[u]
          /\ \A u \in Venues : u # v => held'[u] = held[u] /\ report'[u] = report[u]
      BY <1>19, <2>3, CheckOver
    <3>2. Apart' /\ Fresh'
      BY <1>01, <2>1, <3>1 DEF CleanInv, Apart, Fresh
    <3>6. Reading'
      <4>1. \A u \in todo' : u # v /\ u \in todo /\ u \in Venues
        BY <1>01, <3>1 DEF TypeInv, TypeOK
      <4>2. pc' = "pre-cycle" => \A u \in todo' : before'[u].held \subseteq held'[u]
        BY <2>1, <3>1, <4>1 DEF CleanInv, Reading
      <4> QED
        BY <3>1, <4>2 DEF Reading
    <3>3. ASSUME v \in Strict, pc = "pre-cycle", report'[v] \notin {"repaired", "failed"}
          PROVE  Clean(v)'
      <4>1. /\ seen # {} /\ (v \in Guarded \ Allowing => seen = {{}})
            /\ resting'[v] \cap LookedFor(v) = {}
        BY <1>01, <1>19, <3>1, <3>3, CheckPasses
      <4>2. v \in Guarded \ Allowing => before[v].held = {}
        BY <2>1, <3>3, <4>1 DEF CleanInv, Reading
      <4> QED
        BY <2>1, <4>1, <4>2 DEF Clean, LookedFor
    <3>4. \A u \in Venues : u # v /\ Clean(u) => Clean(u)'
      BY <2>1, <3>1 DEF Clean, LookedFor
    <3>5. Checked'
      BY <1>01, <2>1, <3>1, <3>3, <3>4 DEF CleanInv, Checked
    <3> QED
      BY <3>2, <3>5, <3>6 DEF CleanInv
  <2> QED
    BY <2>2, <2>3
<1>20. ASSUME NEW v \in Venues, PrepareCloseout(v) \/ AfterRun(v) PROVE CleanInv'
  <2>1. /\ pc' = pc /\ pc \in {"close-prepare", "reconcile", "final"} /\ seen = {} /\ seen' = {}
        /\ UNCHANGED <<count, venue, before>>
    BY <1>03, <1>20 DEF PrepareCloseout, AfterRun
  <2> QED
    BY <2>1 DEF CleanInv, Apart, Fresh, Reading, Checked
<1>22. ASSUME NEW v \in Venues, Prepare(v) \/ Ready(v) \/ Unprepared(v) \/ Answer(v)
       PROVE  CleanInv'
  <2>1. /\ UNCHANGED <<pc, todo, report, count, venue, planned, before, seen>> /\ Items' = Items
        /\ \A u \in Items : g'[u] \notin {"sent", "done"} => g[u] \notin {"sent", "done"}
    BY <1>01, <1>02, <1>04, <1>22 DEF Prepare, Ready, Unprepared, Answer
  <2>2. \A u : (Clean(u)' <=> Clean(u)) /\ (Visited(u)' <=> Visited(u))
    BY <2>1 DEF Clean, LookedFor, Visited
  <2>3. Apart' /\ Fresh'
    BY <1>01, <2>1 DEF CleanInv, Apart, Fresh
  <2>4. Reading'
    BY <2>1, <2>2 DEF CleanInv, Reading
  <2>5. Checked'
    BY <2>1, <2>2 DEF CleanInv, Checked
  <2> QED
    BY <2>3, <2>4, <2>5 DEF CleanInv
<1>25. ASSUME NEW v \in Venues, Send(v) PROVE CleanInv'
  <2>1. v \in Items
    BY <1>25 DEF Send, Barriers
  <2>2. /\ UNCHANGED <<pc, todo, report, count, resting, held, planned, before, seen>> /\ Items' = Items
        /\ pc = "collect" /\ g[v] = "ready" /\ g' = [g EXCEPT ![v] = "sent"]
        /\ flight' = [flight EXCEPT ![v] = @ \cup {serial}]
    BY <1>02, <1>25 DEF Send
  <2>3. serial \notin flight[v] \cup resting[v] \cup before[v].resting
    BY <2>1, <2>2 DEF CleanInv, Fresh
  <2>4. \A u \in Venues : IF u = v THEN flight'[u] = flight[u] \cup {serial} /\ g'[u] = "sent"
                                    ELSE flight'[u] = flight[u] /\ g'[u] = g[u]
    BY <1>04, <2>2
  <2>5. Apart'
    BY <2>2, <2>3, <2>4 DEF CleanInv, Apart
  <2>6. Fresh'
    BY <1>01, <2>2, <2>4 DEF CleanInv, Fresh
  <2> QED
    BY <1>01, <2>2, <2>5, <2>6 DEF CleanInv, Reading, Checked, Clean, LookedFor
<1>27. ASSUME NEW v \in Venues, Close(v) PROVE CleanInv'
  <2>1. /\ pc' = pc /\ pc = "closing" /\ UNCHANGED <<count, flight, before, seen>> /\ seen = {}
        /\ \A u \in Venues : resting'[u] \subseteq resting[u]
    BY <1>03, <1>27, CloseIs
  <2> QED
    BY <2>1 DEF CleanInv, Apart, Fresh, Reading, Checked
<1>28. ASSUME NEW v \in Venues, Land(v) PROVE CleanInv'
  <2>1. PICK o \in flight[v] :
          /\ flight' = [flight EXCEPT ![v] = @ \ {o}]
          /\ \/ resting' = [resting EXCEPT ![v] = @ \cup {o}] /\ UNCHANGED held
             \/ held' = [held EXCEPT ![v] = @ \cup {o}] /\ UNCHANGED resting
          /\ UNCHANGED <<main, cycle, count, cleanup, history>>
    BY <1>28 DEF Land
  <2>2. Items' = Items /\ o \notin resting[v] \cup before[v].resting
    BY <1>02, <2>1 DEF CleanInv, Apart
  <2>3. \A u \in Venues :
          /\ flight'[u] \cup resting'[u] \subseteq flight[u] \cup resting[u]
          /\ flight'[u] \subseteq flight[u] /\ held[u] \subseteq held'[u]
          /\ flight'[u] \cap resting'[u] \subseteq flight[u] \cap resting[u]
          /\ resting'[u] \cap before[u].resting \subseteq resting[u]
    BY <1>04, <2>1, <2>2
  <2>4. Apart'
    BY <2>1, <2>3 DEF CleanInv, Apart
  <2>5. Fresh'
    BY <1>01, <2>1, <2>2, <2>3 DEF CleanInv, Fresh
  <2>6. Reading'
    <3>1. (\A u : Visited(u)' <=> Visited(u)) /\ todo \subseteq Venues
      BY <2>1 DEF Visited, TypeInv, TypeOK
    <3> QED
      BY <2>1, <2>3, <3>1 DEF CleanInv, Reading
  <2>7. Checked'
    BY <1>01, <2>1, <2>2, <2>3 DEF CleanInv, Checked, Clean, LookedFor
  <2> QED
    BY <2>4, <2>5, <2>6, <2>7 DEF CleanInv
<1>29. ASSUME NEW v \in Venues, Fill(v) PROVE CleanInv'
  <2>1. Items' = Items /\ UNCHANGED <<main, cycle, count, flight, cleanup, history>>
    BY <1>02, <1>29 DEF Fill
  <2>2. \A u \in Venues : resting'[u] \subseteq resting[u] /\ held[u] \subseteq held'[u]
    BY <1>04, <1>29 DEF Fill
  <2>3. Apart' /\ Fresh'
    BY <1>01, <2>1, <2>2 DEF CleanInv, Apart, Fresh
  <2>4. Reading'
    <3>1. (\A u : Visited(u)' <=> Visited(u)) /\ todo \subseteq Venues
      BY <2>1 DEF Visited, TypeInv, TypeOK
    <3> QED
      BY <2>1, <2>2, <3>1 DEF CleanInv, Reading
  <2>5. Checked'
    BY <1>01, <2>1, <2>2 DEF CleanInv, Checked, Clean, LookedFor
  <2> QED
    BY <2>3, <2>4, <2>5 DEF CleanInv
<1> QED
  BY <1>1, <1>2, <1>4, <1>6, <1>7, <1>9, <1>10, <1>11, <1>12, <1>13,
     <1>19, <1>20, <1>22, <1>25, <1>27, <1>28, <1>29
  DEF Next, Main, Goroutine

\* No strict venue is sent an order on an account on which its check should have
\* found something, whatever was killed, lost, skipped or late.
THEOREM CleanAccountsMeasured == Spec => []MeasuredClean
<1>1. TypeInv /\ Barriers /\ CleanInv => MeasuredClean
  <2> SUFFICES ASSUME TypeInv, Barriers, CleanInv, NEW v \in Strict, g[v] = "sent"
               PROVE  Clean(v)
    BY DEF MeasuredClean, Clean
  <2>1. v \in Items /\ pc = "collect"
    BY CoordinatedAssumption DEF Barriers, Stage
  <2> QED
    BY <2>1 DEF CleanInv, Checked
<1> QED
  BY <1>1, TypeInit, TypeNext, BarriersInit, BarriersNext, CleanInit, CleanNext, PTL DEF Spec

-----------------------------------------------------------------------------
(* What is stored, and what is retained                                    *)

HasSample(o) == \E r \in stored : r.serial = o.serial /\ r.venue = o.venue
Failed(r) == r.venue \in Strict /\ r.closed = "failed"

\* Every order has its sample stored, but for those of the cycle that has not
\* come to it; a failure that is stored is of the cycle's own samples, and lasts
\* until they are looked at or the process has failed.
Stored ==
  /\ pc \notin Ended => \A o \in sent : o.venue \in Items
  /\ \A o \in sent : (pc \in Sending \ {"costs"} => o.serial < serial) => HasSample(o)
  /\ \A r \in stored : Failed(r) =>
       /\ pc \in {"costs", "failed"} /\ r.serial = serial
       /\ pc = "costs" => r.venue \in Items /\ sample[r.venue].closed = r.closed

\* Nothing was sent.
LEMMA StoredInit == Init => Stored
BY DEF Init, Stored, Ended

\* Every step keeps what is stored in line with what was sent.
LEMMA StoredNext == TypeInv /\ Barriers /\ Stored /\ [Next]_vars => Stored'
<1> SUFFICES ASSUME TypeInv, Barriers, Stored, [Next]_vars PROVE Stored'
  OBVIOUS
<1> USE DEF TypeInv, TypeOK, Process, Stored, HasSample, Failed, Sending, Ended,
            main, cycle, count, venue, cleanup, history, Goto, Visit
<1>1. CASE UNCHANGED vars
  BY <1>1 DEF vars, Items
<1>2. CASE Start
  BY <1>2 DEF Start
<1>3. CASE BeforeFails \/ StrictFails \/ AfterFails \/ Finish
  <2>1. /\ UNCHANGED <<sent, stored, serial>> /\ pc' \in {"failed", "finished"}
        /\ pc \in {"startup", "pre-cycle", "costs", "reconcile", "final"}
        /\ pc = "costs" => pc' = "failed"
    BY <1>3 DEF BeforeFails, StrictFails, AfterFails, Finish, Ends
  <2> QED
    BY <2>1
<1>4. CASE StoreFails \/ Kill
  BY <1>4 DEF StoreFails, Kill, Ends
<1>5. UNCHANGED args => Items' = Items
  BY DEF Items
<1>6. CASE BeforePasses
  BY <1>5, <1>6 DEF BeforePasses
<1>7. CASE Loop \/ LoopOver \/ RateLimited \/ NextCycle
  BY <1>5, <1>7 DEF Loop, LoopOver, RateLimited, NextCycle
<1>10. CASE BeginCycle
  BY <1>5, <1>10 DEF BeginCycle
<1>11. CASE SpawnSenders \/ Release \/ SpawnClosers
  BY <1>5, <1>11 DEF SpawnSenders, Release, SpawnClosers
<1>13. CASE BeginCloseout \/ EndCycle
  BY <1>5, <1>13 DEF BeginCloseout, EndCycle
<1>16. CASE Store
  <2> DEFINE now == {[serial |-> serial, venue |-> v, closed |-> sample[v].closed] : v \in Items}
  <2>1. /\ stored' = stored \cup now /\ pc = "store" /\ pc' = "costs"
        /\ UNCHANGED <<sent, serial, sample, args>> /\ Items' = Items
    BY <1>5, <1>16 DEF Store
  <2>2. \A o \in sent : HasSample(o)'
    <3> SUFFICES ASSUME NEW o \in sent PROVE HasSample(o)'
      OBVIOUS
    <3>1. CASE o.serial < serial
      BY <2>1, <3>1
    <3>2. CASE o.serial = serial
      <4> DEFINE r == [serial |-> serial, venue |-> o.venue, closed |-> sample[o.venue].closed]
      <4>1. r \in now /\ r.serial = o.serial /\ r.venue = o.venue
        BY <2>1, <3>2
      <4> QED
        BY <2>1, <4>1
    <3> QED
      BY <3>1, <3>2
  <2>3. \A r \in now : r.serial = serial /\ r.venue \in Items /\ sample[r.venue].closed = r.closed
    OBVIOUS
  <2>4. \A r \in stored' : Failed(r) => r \in now
    BY <2>1
  <2> QED
    BY <2>1, <2>2, <2>3, <2>4
<1>17. CASE StrictPasses
  <2>1. \A r \in stored : ~Failed(r)
    BY <1>17 DEF StrictPasses, CleanupError
  <2> QED
    BY <1>5, <1>17, <2>1 DEF StrictPasses
<1>19. ASSUME NEW v \in Venues, BeforeRun(v) PROVE Stored'
  BY <1>5, <1>19, CheckIs
<1>21. ASSUME NEW v \in Venues, AfterRun(v) PROVE Stored'
  BY <1>5, <1>21 DEF AfterRun
<1>20. ASSUME NEW v \in Venues, PrepareCloseout(v) \/ Prepare(v) \/ Ready(v) \/ Unprepared(v)
       PROVE  Stored'
  BY <1>5, <1>20 DEF PrepareCloseout, Prepare, Ready, Unprepared
<1>25. ASSUME NEW v \in Venues, Send(v) PROVE Stored'
  BY <1>5, <1>25 DEF Send, Barriers
<1>26. ASSUME NEW v \in Venues, Answer(v) \/ Close(v) PROVE Stored'
  <2>1. /\ pc' = pc /\ pc \in {"collect", "closing"}
        /\ UNCHANGED <<sent, stored, serial, args>>
    BY <1>26, CloseIs DEF Answer
  <2> QED
    BY <1>5, <2>1
<1>28. ASSUME NEW v \in Venues, Land(v) \/ Fill(v) PROVE Stored'
  BY <1>5, <1>28 DEF Land, Fill
<1> QED
  BY <1>1, <1>2, <1>3, <1>4, <1>6, <1>7, <1>10, <1>11, <1>13, <1>16, <1>17,
     <1>19, <1>20, <1>21, <1>25, <1>26, <1>28
  DEF Next, Main, Goroutine

\* Before a process sends in a new cycle, all it sent in earlier ones is in the
\* database, and none of it with a strict cleanup that failed; a process that a
\* strict check has ended has stored all.
THEOREM EarlierStored == Spec => []StoredBeforeNext
<1>1. TypeInv /\ Stored => StoredBeforeNext
  BY DEF TypeInv, TypeOK, Stored, HasSample, Failed, StoredBeforeNext, Sending
<1> QED
  BY <1>1, TypeInit, TypeNext, BarriersInit, BarriersNext, StoredInit, StoredNext, PTL DEF Spec

\* The last cycle that has come to its end.
Top == IF pc \in {"prepare", "enter", "collect", "close-prepare", "close", "closing"}
       THEN serial - 1 ELSE serial

\* The cycles retained are the last ones, in order; all the process sent in while
\* it runs, unless the limit is reached.
Retained ==
  /\ \A i \in 1..Len(retained) : retained[i] = Top - Len(retained) + i
  /\ pc \notin Ended =>
       \A o \in sent : o.serial <= Top - Len(retained) => Len(retained) = RetainCycles

\* Retain keeps the newest.
LEMMA RetainNewest ==
  ASSUME NEW S, NEW s \in Seq(S), RetainCycles \in Nat, RetainCycles < Len(s)
  PROVE  /\ Len(Retain(s)) = RetainCycles
         /\ \A i \in 1..RetainCycles : Retain(s)[i] = s[Len(s) - RetainCycles + i]
<1> DEFINE m == Len(s) - RetainCycles + 1
<1>1. Len(s) \in Nat /\ m \in Int /\ m >= 1
  BY LenProperties
<1>2. \A i \in m..Len(s) : s[i] \in S
  BY <1>1, ElementOfSeq
<1>3. Retain(s) = SubSeq(s, m, Len(s))
  BY <1>1 DEF Retain
<1>4. ASSUME NEW n \in Int, n = Len(s)
      PROVE  /\ Len(SubSeq(s, m, n)) = IF m <= n THEN n - m + 1 ELSE 0
             /\ \A i \in 1..n - m + 1 : SubSeq(s, m, n)[i] = s[m + i - 1]
  <2>1. \A i \in m..n : s[i] \in S
    BY <1>2, <1>4
  <2> HIDE DEF m
  <2> QED
    BY <1>1, <2>1, SubSeqProperties
<1>5. \A i \in 1..RetainCycles : m + i - 1 = Len(s) - RetainCycles + i
  BY <1>1
<1> QED
  BY <1>1, <1>3, <1>4, <1>5

\* Nothing is retained.
LEMMA RetainedInit == Init => Retained
BY DEF Init, Retained

\* Every step keeps the newest cycles, in order.
LEMMA RetainedNext == TypeInv /\ TypeInv' /\ Retained /\ [Next]_vars => Retained'
<1> SUFFICES ASSUME TypeInv, TypeInv', Retained, [Next]_vars PROVE Retained'
  OBVIOUS
<1> USE DEF main, cycle, count, venue, cleanup, history, Goto, Visit
<1>0. RetainCycles \in Nat /\ serial \in Nat /\ Len(retained) \in Nat /\ Len(retained) <= RetainCycles
  BY LimitIsNumber, LenProperties DEF TypeInv, TypeOK
<1>01. UNCHANGED args => RetainCycles' = RetainCycles
  BY DEF RetainCycles
<1>1. CASE UNCHANGED <<retained, args, sent>> /\ Top' = Top /\ pc \notin Ended
  BY <1>01, <1>1 DEF Retained
<1>2. CASE retained' = <<>> /\ (pc' \in Ended \/ sent' = {})
  BY <1>2 DEF Retained
<1>3. CASE BeforeFails \/ StoreFails \/ StrictFails \/ AfterFails \/ Finish \/ Kill
  BY <1>2, <1>3 DEF BeforeFails, StoreFails, StrictFails, AfterFails, Finish, Kill, Ends, Ended
<1>4. CASE Start
  BY <1>2, <1>4 DEF Start, TypeInv, Process, Ended
<1>5. CASE EndCycle
  <2> DEFINE s == Append(retained, serial)
  <2>1. /\ retained' = Retain(s) /\ Top = serial - 1 /\ Top' = serial
        /\ sent' = sent /\ args' = args /\ pc \notin Ended
    BY <1>5 DEF EndCycle, Top, Ended
  <2>2. s \in Seq(Nat) /\ Len(s) = Len(retained) + 1
    BY <1>0 DEF TypeInv, TypeOK
  <2>3. \A i \in 1..Len(s) : s[i] = serial - Len(s) + i
    BY <1>0, <2>1, <2>2 DEF Retained, TypeInv, TypeOK
  <2>4. CASE Len(s) <= RetainCycles
    <3>1. retained' = s
      BY <2>1, <2>4 DEF Retain
    <3>2. \A o \in sent : ~(o.serial <= Top - Len(retained))
      BY <1>0, <2>1, <2>2, <2>4 DEF Retained
    <3>3. Top - Len(retained) = serial - Len(s)
      BY <1>0, <2>1, <2>2
    <3> QED
      BY <1>01, <2>1, <2>3, <3>1, <3>2, <3>3 DEF Retained
  <2>5. CASE RetainCycles < Len(s)
    <3>1. Len(retained') = RetainCycles
      BY <1>0, <2>1, <2>2, <2>5, RetainNewest
    <3>2. \A i \in 1..RetainCycles : retained'[i] = s[Len(s) - RetainCycles + i]
      BY <1>0, <2>1, <2>2, <2>5, RetainNewest
    <3>3. \A i \in 1..RetainCycles : Len(s) - RetainCycles + i \in 1..Len(s)
      BY <1>0, <2>2, <2>5
    <3>4. \A i \in 1..RetainCycles : retained'[i] = serial - RetainCycles + i
      <4> SUFFICES ASSUME NEW i \in 1..RetainCycles
                   PROVE  retained'[i] = serial - RetainCycles + i
        OBVIOUS
      <4> DEFINE j == Len(s) - RetainCycles + i
      <4>1. retained'[i] = s[j] /\ s[j] = serial - Len(s) + j
        BY <2>3, <3>2, <3>3
      <4>2. serial - Len(s) + j = serial - RetainCycles + i
        BY <1>0, <2>2
      <4> QED
        BY <4>1, <4>2
    <3> QED
      BY <1>01, <2>1, <3>1, <3>4 DEF Retained
  <2> QED
    BY <1>0, <2>2, <2>4, <2>5
<1>6. CASE BeginCycle
  BY <1>1, <1>6, <1>0 DEF BeginCycle, Top, Ended
<1>7. CASE BeforePasses \/ Loop \/ LoopOver \/ RateLimited \/ SpawnSenders \/ Release
  BY <1>1, <1>7 DEF BeforePasses, Loop, LoopOver, RateLimited, SpawnSenders, Release, Top, Ended
<1>8. CASE BeginCloseout \/ SpawnClosers \/ Store \/ StrictPasses \/ NextCycle
  BY <1>1, <1>8 DEF BeginCloseout, SpawnClosers, Store, StrictPasses, NextCycle, Top, Ended
<1>9. ASSUME NEW v \in Venues, BeforeRun(v) PROVE Retained'
  BY <1>1, <1>9, CheckIs DEF Top, Ended, TypeInv
<1>10. ASSUME NEW v \in Venues, AfterRun(v) \/ PrepareCloseout(v) \/ Prepare(v) \/ Ready(v)
                                 \/ Unprepared(v) \/ Answer(v)
       PROVE  Retained'
  BY <1>1, <1>10 DEF AfterRun, PrepareCloseout, Prepare, Ready, Unprepared, Answer, Top, Ended
<1>13. ASSUME NEW v \in Venues, Close(v) PROVE Retained'
  BY <1>1, <1>13, CloseIs DEF Top, Ended, TypeInv
<1>14. ASSUME NEW v \in Venues, Land(v) \/ Fill(v) PROVE Retained'
  <2>1. UNCHANGED <<retained, args, sent, pc, serial>>
    BY <1>14 DEF Land, Fill
  <2> QED
    BY <1>01, <2>1 DEF Retained, Top
<1>11. ASSUME NEW v \in Venues, Send(v) PROVE Retained'
  <2>1. /\ UNCHANGED <<retained, args, pc>> /\ Top' = Top /\ Top = serial - 1
        /\ sent' = sent \cup {[serial |-> serial, venue |-> v]}
    BY <1>11 DEF Send, Top
  <2> QED
    BY <1>0, <1>01, <2>1 DEF Retained
<1>12. CASE UNCHANGED vars
  <2>1. UNCHANGED <<retained, args, sent, pc, serial>>
    BY <1>12 DEF vars
  <2> QED
    BY <1>01, <2>1 DEF Retained, Top
<1> QED
  BY <1>3, <1>4, <1>5, <1>6, <1>7, <1>8, <1>9, <1>10, <1>11, <1>12,
     <1>13, <1>14
  DEF Next, Main, Goroutine

\* Reconciliation is told of the newest cycles, none missing.
THEOREM NewestReconciled == Spec => []ReconcilesNewest
<1>1. TypeInv /\ Retained => ReconcilesNewest
  <2> SUFFICES ASSUME TypeInv, Retained, pc \in {"reconcile", "final"},
                      NEW o \in sent, o.serial > serial - RetainCycles
               PROVE  o.serial \in ToSet(retained)
    BY DEF ReconcilesNewest
  <2> DEFINE n == Len(retained)  i == o.serial - serial + n
  <2>1. /\ RetainCycles \in Nat /\ serial \in Nat /\ n \in Nat /\ DOMAIN retained = 1..n
        /\ o.serial \in 1..serial
    BY LimitIsNumber, LenProperties DEF TypeInv, TypeOK
  <2>2. Top = serial
    BY DEF Top
  <2>3. i \in 1..n
    <3>1. o.serial > serial - n
      <4>1. o.serial <= serial - n => n = RetainCycles
        BY <2>2 DEF Retained, Ended
      <4> HIDE DEF n
      <4> QED
        BY <2>1, <4>1
    <3> QED
      BY <2>1, <3>1
  <2>4. retained[i] = o.serial
    <3>1. retained[i] = Top - n + i
      BY <2>3 DEF Retained
    <3> QED
      BY <2>1, <2>2, <3>1
  <2> QED
    BY <2>1, <2>3, <2>4 DEF ToSet
<1> QED
  BY <1>1, TypeInit, TypeNext, RetainedInit, RetainedNext, PTL DEF Spec

=============================================================================
