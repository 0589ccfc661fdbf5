-------------------------- MODULE BenchRunnerProofs --------------------------
(* That the result of a run is the run, that its cleanups leave nothing      *)
(* behind in silence, and that its reconciliation means what it says: for    *)
(* every number of samples and every setting, not just those of the runs.    *)
EXTENDS BenchRunner, SequenceTheorems, FiniteSetTheorems, WellFoundedInduction, TLAPS

-----------------------------------------------------------------------------
(* Sorting the channel                                                      *)

\* A set of naturals has a least element: the intervals that end in one of them
\* are well founded by inclusion.
LEMMA LeastNumber ==
  ASSUME NEW S \in SUBSET Nat, S # {}
  PROVE  \E m \in S : \A k \in S : m <= k
<1> DEFINE R == StrictSubsetOrdering(Nat)
           T == {0..n : n \in S}
<1>1. IsWellFoundedOn(R, FiniteSubsetsOf(Nat)) BY FS_StrictSubsetOrderingWellFounded
<1>2. T \subseteq FiniteSubsetsOf(Nat)
  <2>1. ASSUME NEW n \in S PROVE 0..n \in FiniteSubsetsOf(Nat)
    BY FS_Interval DEF FiniteSubsetsOf
  <2> QED BY <2>1
<1>3. T # {} OBVIOUS
<1> HIDE DEF R
<1>4. PICK t \in T : \A y \in T : ~(<<y, t>> \in R) BY <1>1, <1>2, <1>3, WFMin
<1>5. PICK m \in S : t = 0..m BY <1>4
<1>6. ASSUME NEW k \in S PROVE m <= k
  <2>1. ~(<<0..k, 0..m>> \in R) BY <1>4, <1>5
  <2>2. k \in Nat /\ m \in Nat OBVIOUS
  <2>3. 0..k \in SUBSET Nat /\ 0..m \in SUBSET Nat BY <2>2
  <2>4. ~(0..k \subseteq 0..m /\ 0..k # 0..m)
    BY <2>1, <2>3 DEF R, StrictSubsetOrdering
  <2>5. CASE k < m
    <3>1. 0..k \subseteq 0..m BY <2>5, <2>2
    <3>2. m \in 0..m /\ m \notin 0..k BY <2>5, <2>2
    <3> QED BY <2>4, <3>1, <3>2
  <2> QED BY <2>2, <2>5
<1> QED BY <1>5, <1>6

\* Naturals in ascending order, none twice, that are the first n, are 1 to n.
LEMMA AscendingIsIdentity ==
  ASSUME NEW n \in Nat, NEW m \in Nat, NEW t, t \in [1..m -> 1..n],
         IsInjective(t), Range(t) = 1..n, \A j, k \in 1..m : j < k => t[j] <= t[k]
  PROVE  m = n /\ t = [k \in 1..n |-> k]
<1> DEFINE Odd == {k \in 1..m : t[k] # k}
<1>1. Odd = {}
  <2> SUFFICES ASSUME Odd # {} PROVE FALSE
    OBVIOUS
  <2>1. PICK k \in Odd : \A j \in Odd : k <= j
    <3>1. Odd \in SUBSET Nat OBVIOUS
    <3> HIDE DEF Odd
    <3> QED BY <3>1, LeastNumber
  <2>2. k \in 1..m /\ t[k] \in 1..n /\ t[k] # k /\ \A j \in 1..(k - 1) : t[j] = j
    BY <2>1
  <2>3. t[k] > k
    <3> SUFFICES ASSUME t[k] < k PROVE FALSE
      BY <2>2
    <3>1. t[k] \in 1..(k - 1) BY <2>2
    <3>2. t[t[k]] = t[k] BY <2>2, <3>1
    <3> QED BY <2>2, <3>1, <3>2 DEF IsInjective
  <2>4. PICK j \in 1..m : t[j] = k
    <3>1. k \in Range(t) BY <2>2, <2>3
    <3>2. DOMAIN t = 1..m OBVIOUS
    <3> QED BY <3>1, <3>2 DEF Range
  <2>5. j # k BY <2>2, <2>4
  <2>6. CASE j < k BY <2>2, <2>4, <2>6
  <2>7. CASE j > k
    <3>1. t[k] <= t[j] BY <2>2, <2>7
    <3> QED BY <2>2, <2>3, <2>4, <3>1
  <2> QED BY <2>2, <2>5, <2>6, <2>7
<1>2. \A k \in 1..m : t[k] = k BY <1>1
<1>3. m = n
  <2>1. m <= n
    <3>1. m = 0 \/ m \in 1..m OBVIOUS
    <3>2. m \in 1..m => t[m] = m /\ t[m] \in 1..n BY <1>2
    <3> QED BY <3>1, <3>2
  <2>2. n <= m
    <3>1. n = 0 \/ n \in 1..n OBVIOUS
    <3>2. n \in 1..n => n \in 1..m BY <1>2 DEF Range
    <3> QED BY <3>1, <3>2
  <2> QED BY <2>1, <2>2
<1> QED BY <1>2, <1>3

\* Sorting a list of the numbers 1 to n, none twice, gives them in order.
LEMMA SortedIsIdentity ==
  ASSUME NEW n \in Nat, NEW S, NEW s \in Seq(S), IsInjective(s), Range(s) = 1..n
  PROVE  Sorted(s) = [k \in 1..n |-> k]
<1> DEFINE m == Len(s)
           Reorderings == {[k \in DOMAIN s |-> s[p[k]]] : p \in Bijection(DOMAIN s, DOMAIN s)}
           Ascends(t) == \A j, k \in DOMAIN s : j < k => t[j] <= t[k]
<1>1. m \in Nat /\ DOMAIN s = 1..m /\ s \in [1..m -> 1..n]
  <2>1. m \in Nat /\ DOMAIN s = 1..m BY LenProperties
  <2> QED BY <2>1 DEF Range
<1> HIDE DEF m
<1>2. ASSUME NEW t \in Reorderings
      PROVE  t \in [1..m -> 1..n] /\ IsInjective(t) /\ Range(t) = 1..n
  <2>1. PICK p \in Bijection(1..m, 1..m) : t = [k \in 1..m |-> s[p[k]]]
    BY <1>1
  <2>2. /\ p \in [1..m -> 1..m] /\ \A a, b \in 1..m : p[a] = p[b] => a = b
        /\ \A b \in 1..m : \E a \in 1..m : p[a] = b
    BY <2>1 DEF Bijection, Injection, Surjection, IsInjective
  <2>3. t \in [1..m -> 1..n] BY <1>1, <2>1, <2>2
  <2>4. IsInjective(t)
    <3>1. \A a, b \in 1..m : s[a] = s[b] => a = b BY <1>1 DEF IsInjective
    <3>2. \A a \in 1..m : p[a] \in 1..m /\ t[a] = s[p[a]] BY <2>1, <2>2
    <3>3. ASSUME NEW a \in 1..m, NEW b \in 1..m, t[a] = t[b] PROVE a = b
      <4>1. s[p[a]] = s[p[b]] BY <3>2, <3>3, Zenon
      <4>2. p[a] = p[b] BY <3>1, <3>2, <4>1, Zenon
      <4> QED BY <2>2, <4>2, Zenon
    <3> QED BY <2>3, <3>3 DEF IsInjective
  <2>5. Range(t) = Range(s)
    <3>1. ASSUME NEW x \in Range(s) PROVE x \in Range(t)
      <4>1. PICK b \in 1..m : s[b] = x BY <1>1 DEF Range
      <4>2. PICK a \in 1..m : p[a] = b BY <2>2
      <4>3. t[a] = x BY <2>1, <4>1, <4>2
      <4> QED BY <2>3, <4>3 DEF Range
    <3>2. ASSUME NEW x \in Range(t) PROVE x \in Range(s)
      BY <1>1, <2>1, <2>2 DEF Range
    <3> QED BY <3>1, <3>2
  <2> QED BY <2>3, <2>4, <2>5
<1>3. \E t \in Reorderings : Ascends(t)
  <2> DEFINE at(x) == CHOOSE k \in 1..m : s[k] = x
             p == [x \in 1..n |-> at(x)]
  <2>1. \A x \in 1..n : at(x) \in 1..m /\ s[at(x)] = x BY <1>1 DEF Range
  <2>2. \A k \in 1..m : s[k] \in 1..n /\ at(s[k]) = k
    <3>1. \A k \in 1..m : s[k] \in 1..n BY <1>1
    <3> HIDE DEF at
    <3> QED BY <1>1, <2>1, <3>1 DEF IsInjective
  <2>3. m = n
    <3> HIDE DEF at
    <3>1. p \in Bijection(1..n, 1..m)
      <4>1. p \in [1..n -> 1..m] BY <2>1
      <4>2. \A x, y \in 1..n : p[x] = p[y] => x = y BY <2>1
      <4>3. \A k \in 1..m : \E x \in 1..n : p[x] = k BY <2>2
      <4> QED BY <4>1, <4>2, <4>3 DEF Bijection, Injection, Surjection, IsInjective
    <3>2. IsFiniteSet(1..n) /\ Cardinality(1..n) = n /\ Cardinality(1..m) = m
      BY <1>1, FS_Interval
    <3> QED BY <3>1, <3>2, FS_Bijection DEF ExistsBijection
  <2>4. p \in Bijection(DOMAIN s, DOMAIN s)
    <3> HIDE DEF at
    <3>1. p \in [1..m -> 1..m] BY <2>1, <2>3
    <3>2. \A x, y \in 1..m : p[x] = p[y] => x = y BY <2>1, <2>3
    <3>3. \A k \in 1..m : \E x \in 1..m : p[x] = k BY <2>2, <2>3
    <3> QED BY <1>1, <3>1, <3>2, <3>3 DEF Bijection, Injection, Surjection, IsInjective
  <2>5. \A k \in DOMAIN s : s[p[k]] = k BY <1>1, <2>1, <2>3
  <2> HIDE DEF p, at
  <2>6. Ascends([k \in DOMAIN s |-> s[p[k]]]) BY <1>1, <2>5
  <2> QED BY <2>4, <2>6
<1>4. Sorted(s) \in Reorderings /\ Ascends(Sorted(s))
  BY <1>3 DEF Sorted
<1> QED BY <1>1, <1>2, <1>4, AscendingIsIdentity

-----------------------------------------------------------------------------
(* The result of a run                                                      *)

\* What has been collected when every goroutine has returned, cut or not.
LEMMA KeptWhole ==
  ASSUME TypeOK, WholeInv, Started \subseteq Done
  PROVE  /\ Kept(results) \in Seq(Samples)
         /\ Kept(results) = [k \in 1..Len(Kept(results)) |-> k]
         /\ IF cfg.stop /\ (\E i \in Done : ~ok[i])
            THEN /\ Kept(results) # <<>>
                 /\ {i \in Range(Kept(results)) : ~ok[i]} = {Len(Kept(results))}
            ELSE Len(Kept(results)) = next - 1
<1> DEFINE n == next - 1
           sorted == [k \in 1..n |-> k]
           failed == {k \in 1..n : ~ok[k]}
<1>1. n \in 0..Total /\ Total \in Nat BY RunnerAssumption DEF TypeOK
<1>2. Done = 1..n /\ Range(results) = 1..n /\ IsInjective(results) /\ results \in Seq(Samples)
  <2>1. Done \subseteq Started BY DEF Done, Started
  <2>2. Done = 1..n /\ Range(results) = 1..n /\ IsInjective(results) BY <2>1 DEF WholeInv
  <2>3. results \in Seq(Samples) BY DEF TypeOK
  <2> QED BY <2>2, <2>3
<1>3. Sorted(results) = sorted BY <1>1, <1>2, SortedIsIdentity
<1>4. sorted \in Seq(Samples) /\ Len(sorted) = n /\ DOMAIN sorted = 1..n
  BY <1>1, IsASeq DEF Samples
<1>5. (\E i \in Done : ~ok[i]) <=> failed # {} BY <1>2
<1> HIDE DEF n
<1>6. {k \in DOMAIN sorted : ~ok[sorted[k]]} = failed BY <1>4
<1>7. Kept(results) = IF cfg.stop /\ failed # {} THEN SubSeq(sorted, 1, Min(failed)) ELSE sorted
  BY <1>3, <1>6 DEF Kept
<1>8. CASE cfg.stop /\ failed # {}
  <2>1. Min(failed) \in failed /\ \A k \in failed : Min(failed) <= k
    <3>1. failed \in SUBSET Nat BY <1>1
    <3> HIDE DEF failed
    <3>2. \E k \in failed : \A j \in failed : k <= j BY <1>8, <3>1, LeastNumber
    <3> QED BY <3>2 DEF Min
  <2> DEFINE m == Min(failed)
             kept == SubSeq(sorted, 1, m)
  <2>2. m \in 1..n /\ ~ok[m] /\ \A k \in 1..n : ~ok[k] => m <= k BY <2>1
  <2> HIDE DEF m
  <2>3. kept = [k \in 1..m |-> k]
    <3>1. kept = [k \in 1..m |-> sorted[k]]
      BY <1>1, <2>2 DEF SubSeq
    <3> QED BY <1>1, <2>2, <3>1
  <2>4. kept \in Seq(Samples) /\ Len(kept) = m BY <1>1, <2>2, <2>3, IsASeq DEF Samples
  <2>5. Range(kept) = 1..m BY <2>3 DEF Range
  <2>6. {i \in Range(kept) : ~ok[i]} = {m} BY <1>1, <2>2, <2>5
  <2>7. kept # <<>> BY <2>2, <2>4
  <2>8. Kept(results) = kept BY <1>7, <1>8 DEF m
  <2> QED BY <1>5, <1>8, <2>3, <2>4, <2>6, <2>7, <2>8
<1>9. CASE ~(cfg.stop /\ failed # {})
  BY <1>4, <1>5, <1>7, <1>9 DEF n
<1> QED BY <1>8, <1>9

\* A finished goroutine's sample joins the others.
LEMMA ReturnType ==
  ASSUME TypeOK, NEW i \in Samples, NEW good \in BOOLEAN, Return(i, good)
  PROVE  /\ job' \in [Samples -> Active \union {"idle", "queued", "done"}]
         /\ ok' \in [Samples -> BOOLEAN] /\ results' \in Seq(Samples)
<1>1. results' \in Seq(Samples) BY AppendProperties DEF Return, TypeOK
<1> QED BY <1>1 DEF Return, TypeOK

\* Types at the start of a run.
LEMMA TypeInit == Init => TypeOK
<1> SUFFICES ASSUME Init PROVE TypeOK
  OBVIOUS
<1>1. Total \in Nat \ {0} BY RunnerAssumption
<1>2. pos \in Int /\ stale \in BOOLEAN BY RunnerAssumption DEF Init
<1>3. ok \in [Samples -> BOOLEAN] BY DEF Init
<1>4. atEnd \in [open : SUBSET Samples, pos : Int] BY DEF Init, None
<1>5. /\ next \in 1..(Total + 1) /\ {seen, baseline} \subseteq Int /\ missed \subseteq Samples
  <2>1. next = 1 /\ seen = -1 /\ baseline = -1 /\ missed = {} BY DEF Init, None
  <2> QED BY <1>1, <2>1
<1>7. results \in Seq(Samples) /\ samples \in Seq(Samples) BY DEF Init
<1>8. cancelled \in BOOLEAN /\ left \in BOOLEAN BY DEF Init
<1>6. /\ job \in [Samples -> Active \union {"idle", "queued", "done"}]
      /\ order \in [Samples -> {"none", "flight", "open", "filled", "gone"}]
      /\ tries \in [Samples -> 0..Retries] /\ plan \in [Samples -> Int]
  BY DEF Init, Retries
<1> QED BY <1>2, <1>3, <1>4, <1>5, <1>6, <1>7, <1>8 DEF Init, TypeOK

\* What Run does keeps the types.
LEMMA TypeMain == TypeOK /\ WholeInv /\ Main => TypeOK'
<1> SUFFICES ASSUME TypeOK, WholeInv, Main PROVE TypeOK'
  OBVIOUS
<1> USE DEF run, sampling, account, history
<1>1. CASE NoCleanup BY <1>1 DEF NoCleanup, TypeOK
<1>2. CASE StartPosition BY <1>2 DEF StartPosition, TypeOK
<1>3. CASE StartOrders BY <1>3 DEF StartOrders, AfterStartup, TypeOK
<1>4. CASE StartCancel BY <1>4 DEF StartCancel, AfterStartup, TypeOK, None
<1>5. CASE StartRepair BY <1>5 DEF StartRepair, AfterStartup, TypeOK, None
<1>6. CASE StartFails BY <1>6 DEF StartFails, AfterStartup, TypeOK, None
<1>7. CASE ClosedNext
  <2>1. next' \in 1..(Total + 1)
    <3>1. next' = next + 1 /\ next <= Total /\ next \in 1..(Total + 1)
      BY <1>7 DEF ClosedNext, TypeOK
    <3> QED BY <3>1, RunnerAssumption
  <2>2. job' \in [Samples -> Active \union {"idle", "queued", "done"}]
    <3>1. job' = [job EXCEPT ![next] = "preparing"] BY <1>7 DEF ClosedNext
    <3>2. job \in [Samples -> Active \union {"idle", "queued", "done"}] BY DEF TypeOK
    <3> QED BY <3>1, <3>2 DEF Active
  <2> QED BY <1>7, <2>1, <2>2 DEF ClosedNext, TypeOK
<1>8. CASE ClosedEnd BY <1>8 DEF ClosedEnd, TypeOK
<1>9. CASE Tick
  <2>1. next' \in 1..(Total + 1)
    <3>1. next' = next + 1 /\ next <= Total /\ next \in 1..(Total + 1)
      BY <1>9 DEF Tick, TypeOK
    <3> QED BY <3>1, RunnerAssumption
  <2>2. job' \in [Samples -> Active \union {"idle", "queued", "done"}]
    <3>1. job' = [job EXCEPT ![next] = "queued"] BY <1>9 DEF Tick
    <3>2. job \in [Samples -> Active \union {"idle", "queued", "done"}] BY DEF TypeOK
    <3> QED BY <3>1, <3>2 DEF Active
  <2> QED BY <1>9, <2>1, <2>2 DEF Tick, TypeOK
<1>10. CASE EndSchedule BY <1>10 DEF EndSchedule, TypeOK
<1>11. CASE Collect BY <1>11, KeptWhole DEF Collect, TypeOK
<1>12. CASE AfterOrders BY <1>12 DEF AfterOrders, TypeOK
<1>13. CASE AfterPosition BY <1>13 DEF AfterPosition, TypeOK
<1>14. CASE AfterFails BY <1>14 DEF AfterFails, TypeOK
<1>15. CASE AfterNothing BY <1>15 DEF AfterNothing, TypeOK
<1> QED
  BY <1>1, <1>2, <1>3, <1>4, <1>5, <1>6, <1>7, <1>8, <1>9, <1>10, <1>11, <1>12,
     <1>13, <1>14, <1>15 DEF Main

\* A step of a sample that changes no more than where it is, its cleanup and its order.
LEMMA TypeMove ==
  ASSUME TypeOK, UNCHANGED <<run, samples, stale, atEnd>>,
         job' \in [Samples -> Active \union {"idle", "queued", "done"}],
         ok' \in [Samples -> BOOLEAN], results' \in Seq(Samples),
         tries' \in [Samples -> 0..Retries], plan' \in [Samples -> Int],
         order' \in [Samples -> {"none", "flight", "open", "filled", "gone"}],
         pos' \in Int, missed' \subseteq Samples
  PROVE  TypeOK'
BY DEF TypeOK, run

\* A sample keeps the types.
LEMMA TypeRunOnce ==
  ASSUME TypeOK, NEW i \in Samples, RunOnce(i)
  PROVE  TypeOK'
<1>0. /\ job \in [Samples -> Active \union {"idle", "queued", "done"}]
      /\ ok \in [Samples -> BOOLEAN] /\ results \in Seq(Samples)
      /\ tries \in [Samples -> 0..Retries] /\ plan \in [Samples -> Int]
      /\ order \in [Samples -> {"none", "flight", "open", "filled", "gone"}]
      /\ pos \in Int /\ baseline \in Int /\ missed \subseteq Samples
  BY DEF TypeOK
<1>a. \A x \in Active : [job EXCEPT ![i] = x] \in [Samples -> Active \union {"idle", "queued", "done"}]
  BY <1>0
<1>b. ok[i] \in BOOLEAN /\ (ok[i] /\ ~Strict) \in BOOLEAN BY <1>0
<1>1. CASE Acquire(i)
  BY <1>0, <1>a, <1>1, TypeMove DEF Acquire, account, history, Active
<1>2. CASE PrepareFails(i)
  <2>1. Return(i, FALSE) BY <1>2 DEF PrepareFails
  <2> QED BY <1>0, <1>2, <2>1, ReturnType, TypeMove DEF PrepareFails, account, history
<1>3. CASE Send(i)
  <2>1. order' \in [Samples -> {"none", "flight", "open", "filled", "gone"}]
    BY <1>0, <1>3 DEF Send
  <2> QED BY <1>0, <1>a, <1>3, <2>1, TypeMove DEF Send, history, Active
<1>4. ASSUME NEW good \in BOOLEAN, Answered(i, good) PROVE TypeOK'
  <2>1. CASE cfg.mode = "off"
    <3>1. Return(i, good) BY <1>4, <2>1 DEF Answered
    <3> QED BY <1>0, <1>4, <3>1, ReturnType, TypeMove DEF Answered, account, history
  <2>2. CASE cfg.mode # "off"
    <3>1. ok' = [ok EXCEPT ![i] = good] /\ job' = [job EXCEPT ![i] = "looking"] /\ results' = results
      BY <1>4, <2>2 DEF Answered
    <3>2. ok' \in [Samples -> BOOLEAN] BY <1>0, <3>1
    <3>3. job' \in [Samples -> Active \union {"idle", "queued", "done"}] BY <1>a, <3>1 DEF Active
    <3> QED BY <1>0, <1>4, <3>1, <3>2, <3>3, TypeMove DEF Answered, account, history
  <2> QED BY <2>1, <2>2
<1>5. CASE LookForOrder(i)
  <2>1. plan' \in [Samples -> Int] /\ missed' \subseteq Samples BY <1>0, <1>5 DEF LookForOrder
  <2>2. job' \in [Samples -> Active \union {"idle", "queued", "done"}]
    BY <1>a, <1>5 DEF LookForOrder, Active
  <2> QED BY <1>0, <1>5, <2>1, <2>2, TypeMove DEF LookForOrder, account
<1>6. CASE Weigh(i)
  <2>1. CASE Gained = 0
    <3>1. Return(i, ok[i]) /\ plan' = plan BY <1>6, <2>1 DEF Weigh
    <3> QED BY <1>0, <1>b, <1>6, <3>1, ReturnType, TypeMove DEF Weigh, account, history
  <2>2. CASE Gained # 0
    <3>1. Gained \in Int BY <1>0 DEF Gained
    <3>2. plan' \in [Samples -> Int] BY <1>0, <1>6, <2>2, <3>1 DEF Weigh
    <3>3. job' \in [Samples -> Active \union {"idle", "queued", "done"}]
          /\ UNCHANGED <<ok, results>>
      BY <1>a, <1>6, <2>2 DEF Weigh, Active
    <3> QED BY <1>0, <1>6, <3>2, <3>3, TypeMove DEF Weigh, account, history
  <2> QED BY <2>1, <2>2
<1>7. CASE CleanupProgramFails(i)
  <2>1. Return(i, ok[i] /\ ~Strict) BY <1>7 DEF CleanupProgramFails, CleanupFailed
  <2> QED BY <1>0, <1>b, <1>7, <2>1, ReturnType, TypeMove DEF CleanupProgramFails, account, history
<1>8. CASE Close(i)
  <2>1. order' \in [Samples -> {"none", "flight", "open", "filled", "gone"}] /\ pos' \in Int
    <3>1. CASE plan[i] = 0
      <4>1. order' = [order EXCEPT ![i] = "gone"] /\ pos' = pos BY <1>8, <3>1 DEF Close
      <4> QED BY <1>0, <4>1
    <3>2. CASE plan[i] # 0
      <4>1. order' = order /\ pos' = Reduced(plan[i]) BY <1>8, <3>2 DEF Close
      <4>2. plan[i] \in Int BY <1>0
      <4> QED BY <1>0, <4>1, <4>2 DEF Reduced
    <3> QED BY <3>1, <3>2
  <2>2. \E good \in BOOLEAN : Return(i, good)
    BY <1>b, <1>8 DEF Close, CleanupFailed
  <2>3. UNCHANGED <<run, tries, plan, samples, stale, history>> BY <1>8 DEF Close
  <2> QED BY <1>0, <2>1, <2>2, <2>3, ReturnType, TypeMove DEF history
<1>9. CASE CloseFails(i)
  <2>1. Return(i, ok[i] /\ ~Strict) BY <1>9 DEF CloseFails, CleanupFailed
  <2> QED BY <1>0, <1>b, <1>9, <2>1, ReturnType, TypeMove DEF CloseFails, account, history
<1>10. CASE Retry(i)
  <2>1. tries' \in [Samples -> 0..Retries]
    <3>1. tries' = [tries EXCEPT ![i] = tries[i] + 1] /\ tries[i] < Retries BY <1>10 DEF Retry
    <3>2. tries[i] \in 0..Retries BY <1>0
    <3>3. tries[i] + 1 \in 0..Retries BY <3>1, <3>2 DEF Retries
    <3> QED BY <1>0, <3>1, <3>3
  <2> QED BY <1>0, <1>a, <1>10, <2>1, TypeMove DEF Retry, account, history, Active
<1> QED
  BY <1>1, <1>2, <1>3, <1>4, <1>5, <1>6, <1>7, <1>8, <1>9, <1>10 DEF RunOnce

\* Every step keeps the types.
LEMMA TypeNext == TypeOK /\ WholeInv /\ [Next]_vars => TypeOK'
<1> SUFFICES ASSUME TypeOK, WholeInv, [Next]_vars PROVE TypeOK'
  OBVIOUS
<1>1. CASE Cancel BY <1>1 DEF Cancel, TypeOK, sampling, account, history
<1>2. CASE Venue
  <2>1. /\ order' \in [Samples -> {"none", "flight", "open", "filled", "gone"}]
        /\ pos' \in Int /\ stale' \in BOOLEAN /\ UNCHANGED <<run, sampling, history>>
    <3>0. /\ order \in [Samples -> {"none", "flight", "open", "filled", "gone"}]
          /\ pos \in Int /\ stale \in BOOLEAN /\ pos + 1 \in Int
      BY DEF TypeOK
    <3>1. CASE FillStale BY <3>0, <3>1 DEF FillStale
    <3>2. ASSUME NEW i \in Samples, Land(i) \/ Vanish(i) \/ Fill(i)
          PROVE  /\ \E x \in {"open", "filled", "gone"} : order' = [order EXCEPT ![i] = x]
                 /\ pos' \in {pos, pos + 1} /\ stale' = stale
                 /\ UNCHANGED <<run, sampling, history>>
      BY <3>2 DEF Land, Vanish, Fill
    <3> QED BY <1>2, <3>0, <3>1, <3>2 DEF Venue
  <2> QED BY <2>1 DEF TypeOK, run, sampling, history
<1>3. CASE UNCHANGED vars BY <1>3 DEF vars, run, sampling, account, history, TypeOK
<1> QED BY <1>1, <1>2, <1>3, TypeMain, TypeRunOnce DEF Next

\* Those under way are finitely many.
LEMMA BusyFinite == TypeOK => IsFiniteSet(Busy) /\ Cardinality(Busy) \in Nat
<1> SUFFICES ASSUME TypeOK PROVE IsFiniteSet(Busy) /\ Cardinality(Busy) \in Nat
  OBVIOUS
<1>1. Total \in Int BY RunnerAssumption
<1>2. IsFiniteSet(Samples) BY <1>1, FS_Interval DEF Samples
<1>3. Busy \in SUBSET Samples BY DEF Busy
<1> QED BY <1>2, <1>3, FS_Subset, FS_CardinalityType

\* The run has not begun, and nobody is under way.
LEMMA WholeInit == Init => WholeInv
<1> SUFFICES ASSUME Init PROVE WholeInv
  OBVIOUS
<1>1. Busy = {} /\ Started = {} /\ Done = {} /\ next = 1 /\ results = <<>> /\ pc = "start"
  BY DEF Init, Busy, Started, Done, Active
<1>2. Cardinality(Busy) <= Allowed
  <2>1. cfg.inFlight \in Nat \ {0} BY RunnerAssumption DEF Init
  <2> QED BY <1>1, <2>1, FS_EmptySet DEF Allowed
<1>3. Range(results) = {} /\ IsInjective(results) BY <1>1 DEF Range, IsInjective
<1>4. results = [k \in 1..Len(results) |-> k] BY <1>1
<1>5. \A i \in Samples : job[i] = "idle" /\ ~(i < next - 1) BY <1>1 DEF Init, Samples
<1> QED BY <1>1, <1>2, <1>3, <1>4, <1>5 DEF WholeInv, WholeAndInOrder

\* A step that neither starts nor finishes a sample, nor collects them.
LEMMA WholeFrame ==
  ASSUME WholeInv, UNCHANGED <<cfg, next, job, ok, results, samples>>,
         pc' \notin {"loop", "wait"} => pc \notin {"loop", "wait"},
         pc' \in {"afterOrders", "afterPosition"} => pc \in {"afterOrders", "afterPosition"},
         pc' = "wait" => pc = "wait" \/ cfg.open
  PROVE  WholeInv'
<1>1. Busy' = Busy /\ Started' = Started /\ Done' = Done /\ Listed' = Listed /\ Allowed' = Allowed
  BY DEF Busy, Started, Done, Listed, Allowed
<1> QED BY <1>1 DEF WholeInv, WholeAndInOrder

\* A sample goes on: as many are under way as before, or one more by the semaphore.
LEMMA WholeMove ==
  ASSUME TypeOK, WholeInv, NEW i \in Samples, NEW x \in Active,
         job[i] \in Active \union {"queued"}, job' = [job EXCEPT ![i] = x],
         job[i] = "queued" => Cardinality(Busy) < Allowed,
         \A k \in Samples \ {i} : ok'[k] = ok[k],
         UNCHANGED <<cfg, pc, next, results, samples>>
  PROVE  WholeInv'
<1>1. i \in Started /\ i \notin Done /\ pc \in {"loop", "wait"}
  BY DEF Started, Done, Active, WholeInv
<1>2. Started' = Started /\ Done' = Done
  BY DEF Started, Done, Active, TypeOK
<1>3. Cardinality(Busy') <= Allowed
  <2>1. IsFiniteSet(Busy) /\ Cardinality(Busy) \in Nat BY BusyFinite
  <2>2. Busy' = Busy \cup {i} BY DEF Busy, TypeOK
  <2>3. CASE job[i] = "queued"
    <3>0. /\ Cardinality(Busy \cup {i}) \in Nat
          /\ Cardinality(Busy \cup {i}) <= Cardinality(Busy) + 1
      <4> HIDE DEF Busy
      <4>1. /\ IsFiniteSet(Busy \cup {i})
            /\ Cardinality(Busy \cup {i}) = IF i \in Busy THEN Cardinality(Busy) ELSE Cardinality(Busy) + 1
        BY <2>1, FS_AddElement
      <4> QED BY <2>1, <4>1
    <3>1. Cardinality(Busy') <= Cardinality(Busy) + 1 BY <2>2, <3>0, Zenon
    <3>2. Allowed \in Nat BY RunnerAssumption DEF Allowed, TypeOK
    <3>3. Cardinality(Busy) < Allowed BY <2>3
    <3>4. Cardinality(Busy') \in Nat BY <2>2, <3>0, Zenon
    <3> QED BY <2>1, <3>1, <3>2, <3>3, <3>4
  <2>4. CASE job[i] # "queued"
    <3>1. i \in Busy BY <2>4 DEF Busy
    <3>2. Busy' = Busy BY <2>2, <3>1
    <3> QED BY <3>2 DEF WholeInv, WholeAndInOrder
  <2> QED BY <2>3, <2>4
<1>4. Allowed' = Allowed BY DEF Allowed
<1>5. WholeAndInOrder' BY <1>1, <1>3, <1>4 DEF WholeAndInOrder
<1>6. ~cfg.open => \A k \in Samples : job'[k] # "queued" /\ (k < next - 1 => job'[k] = "done")
  BY <1>1 DEF WholeInv, Done, Active, TypeOK
<1>7. \A k \in Done : ok'[k] = ok[k] BY <1>1 DEF Done
<1> QED BY <1>1, <1>2, <1>5, <1>6, <1>7 DEF WholeInv

\* A sample returns: it joins the channel, and in the closed loop it is the last.
LEMMA WholeReturn ==
  ASSUME TypeOK, WholeInv, NEW i \in Samples, NEW good \in BOOLEAN,
         job[i] \in Active, Return(i, good), UNCHANGED <<cfg, pc, next, samples>>
  PROVE  WholeInv'
<1>1. i \in Started /\ i \notin Done /\ pc \in {"loop", "wait"}
  BY DEF Started, Done, Active, WholeInv
<1>2. Started' = Started /\ Done' = Done \cup {i} /\ Busy' \subseteq Busy
  BY DEF Return, Started, Done, Busy, Active, TypeOK
<1>3. WholeAndInOrder'
  <2>1. IsFiniteSet(Busy) BY BusyFinite
  <2>2. Cardinality(Busy') \in Nat /\ Cardinality(Busy') <= Cardinality(Busy) /\ Cardinality(Busy) \in Nat
    BY <1>2, <2>1, FS_Subset, FS_CardinalityType
  <2>3. Allowed' = Allowed /\ Allowed \in Nat BY RunnerAssumption DEF Allowed, TypeOK
  <2> QED BY <1>1, <2>2, <2>3 DEF WholeInv, WholeAndInOrder
<1> DEFINE n == Len(results)
<1>4. /\ n \in Nat /\ results \in [1..n -> Samples]
      /\ results' \in [1..(n + 1) -> Samples] /\ Len(results') = n + 1
      /\ \A k \in 1..n : results'[k] = results[k]
      /\ results'[n + 1] = i
  <2>1. results \in Seq(Samples) /\ results' = Append(results, i) BY DEF Return, TypeOK
  <2>2. n \in Nat /\ results \in [1..n -> Samples] BY <2>1, LenProperties
  <2>3. /\ results' \in Seq(Samples) /\ Len(results') = n + 1
        /\ \A k \in 1..n : results'[k] = results[k]
        /\ results'[n + 1] = i
    BY <2>1, AppendProperties
  <2>4. results' \in [1..(n + 1) -> Samples]
    <3>1. results' \in [1..Len(results') -> Samples] BY <2>3, LenProperties
    <3> QED BY <2>3, <3>1
  <2> QED BY <2>2, <2>3, <2>4
<1> HIDE DEF n
<1>5. Range(results') = Done \cup {i}
  <2>1. Range(results) = {results[k] : k \in 1..n} BY <1>4 DEF Range
  <2>2. Range(results') = {results'[k] : k \in 1..(n + 1)} BY <1>4 DEF Range
  <2>3. \A k \in 1..(n + 1) : k \in 1..n \/ k = n + 1 BY <1>4
  <2>4. 1..n \subseteq 1..(n + 1) /\ n + 1 \in 1..(n + 1) BY <1>4
  <2>5. {results'[k] : k \in 1..(n + 1)} = {results[k] : k \in 1..n} \cup {i}
    BY <1>4, <2>3, <2>4
  <2> QED BY <2>1, <2>2, <2>5 DEF WholeInv
<1>6. IsInjective(results')
  <2>1. \A j, k \in 1..n : results[j] = results[k] => j = k BY <1>4 DEF WholeInv, IsInjective
  <2>2. \A k \in 1..n : results[k] # i
    <3>1. \A k \in 1..n : results[k] \in Done BY <1>4 DEF WholeInv, Range
    <3> QED BY <1>1, <3>1
  <2>3. \A j, k \in 1..(n + 1) : results'[j] = results'[k] => j = k
    <3>1. \A k \in 1..(n + 1) : k \in 1..n \/ k = n + 1 BY <1>4
    <3> QED BY <1>4, <2>1, <2>2, <3>1
  <2> QED BY <1>4, <2>3 DEF IsInjective
<1>7. ASSUME ~cfg.open
      PROVE  /\ results' = [k \in 1..(n + 1) |-> k]
             /\ \A k \in Samples : job'[k] # "queued" /\ (k < next - 1 => job'[k] = "done")
             /\ cfg.stop => \A k \in Done' : ok'[k] \/ k = next - 1
  <2>1. /\ results = [k \in 1..n |-> k]
        /\ \A k \in Samples : job[k] # "queued" /\ (k < next - 1 => job[k] = "done")
        /\ cfg.stop => \A k \in Done : ok[k] \/ k = next - 1
    BY <1>7 DEF WholeInv, n
  <2>2. \A k \in Samples : job'[k] # "queued" /\ (k < next - 1 => job'[k] = "done")
    BY <2>1 DEF Return, TypeOK
  <2>3. i = next - 1
    <3>1. i \in 1..(next - 1) /\ next \in Nat BY <1>1 DEF WholeInv, TypeOK
    <3>2. ~(i < next - 1) BY <1>1, <2>1 DEF Done
    <3> QED BY <3>1, <3>2
  <2>4. i = n + 1
    <3>1. Done = 1..n
      <4>1. Range(results) = 1..n BY <2>1 DEF Range
      <4> QED BY <4>1 DEF WholeInv
    <3>2. i \in Nat \ {0} BY DEF Samples
    <3>3. i > n BY <1>1, <1>4, <3>1, <3>2
    <3>4. i <= n + 1
      <4> SUFFICES ASSUME i > n + 1 PROVE FALSE
        BY <1>4, <3>2
      <4>1. n + 1 \in Samples /\ n + 1 < next - 1 BY <1>4, <2>3, RunnerAssumption DEF Samples
      <4>2. n + 1 \in Done BY <2>1, <4>1 DEF Done
      <4> QED BY <1>4, <3>1, <4>2
    <3> QED BY <1>4, <3>2, <3>3, <3>4
  <2>5. results' = [k \in 1..(n + 1) |-> k]
    <3>1. \A k \in 1..(n + 1) : k \in 1..n \/ k = n + 1 BY <1>4
    <3>2. \A k \in 1..(n + 1) : results'[k] = k BY <1>4, <2>1, <2>4, <3>1
    <3> QED BY <1>4, <3>2
  <2>6. \A k \in Done : ok'[k] = ok[k] BY <1>1 DEF Return, Done
  <2> QED BY <1>2, <2>1, <2>2, <2>3, <2>5, <2>6
<1> QED BY <1>1, <1>2, <1>3, <1>4, <1>5, <1>6, <1>7 DEF WholeInv

\* A sample that starts is the next one.
LEMMA WholeStart ==
  ASSUME TypeOK, WholeInv, pc = "loop", next <= Total,
         NEW x \in Active \union {"queued"}, job' = [job EXCEPT ![next] = x], next' = next + 1,
         x # "queued" => ~cfg.open /\ Started \subseteq Done /\ (cfg.stop => \A i \in Done : ok[i]),
         x = "queued" => cfg.open,
         UNCHANGED <<cfg, pc, ok, results, samples>>
  PROVE  WholeInv'
<1>1. next \in Samples /\ next \in Nat \ {0} /\ next \notin Started
  <2>1. next \in Nat \ {0} BY RunnerAssumption DEF TypeOK
  <2> QED BY <2>1, RunnerAssumption DEF Samples, WholeInv
<1>2. Started' = Started \cup {next} /\ Done' = Done
  BY <1>1 DEF Started, Done, Active, TypeOK
<1>3. Started' = 1..(next' - 1) BY <1>1, <1>2 DEF WholeInv
<1>4. WholeAndInOrder'
  <2>1. CASE x = "queued"
    <3>1. Busy' = Busy BY <1>1, <2>1 DEF Busy, Active, Started, TypeOK
    <3>2. Allowed' = Allowed BY DEF Allowed
    <3> QED BY <3>1, <3>2 DEF WholeInv, WholeAndInOrder
  <2>2. CASE x # "queued"
    <3>1. Busy \subseteq Started \ Done BY DEF Busy, Started, Done, Active
    <3>2. Busy = {} BY <2>2, <3>1
    <3>3. Busy' = Busy \cup {next} BY <1>1, <2>2 DEF Busy, TypeOK
    <3>4. Cardinality(Busy') = 1 BY <3>2, <3>3, FS_Singleton
    <3>5. Allowed' = 1 BY <2>2 DEF Allowed
    <3> QED BY <3>4, <3>5 DEF WholeAndInOrder
  <2> QED BY <2>1, <2>2
<1>5. ASSUME ~cfg.open
      PROVE  /\ \A k \in Samples : job'[k] # "queued" /\ (k < next' - 1 => job'[k] = "done")
             /\ cfg.stop => \A k \in Done : ok[k]
  <2>1. x # "queued" /\ Started \subseteq Done /\ (cfg.stop => \A k \in Done : ok[k]) BY <1>5
  <2>2. \A k \in Samples : k < next => job[k] = "done" /\ job'[k] = job[k]
    BY <1>1, <2>1 DEF WholeInv, Done, TypeOK, Samples
  <2>3. \A k \in Samples : job[k] # "queued" BY <1>5 DEF WholeInv
  <2>4. \A k \in Samples : job'[k] # "queued" BY <2>1, <2>3 DEF TypeOK
  <2>5. next' - 1 = next BY <1>1
  <2> QED BY <2>1, <2>2, <2>4, <2>5
<1> QED BY <1>2, <1>3, <1>4, <1>5 DEF WholeInv

\* The samples are collected when all of them have returned.
LEMMA WholeCollect ==
  ASSUME TypeOK, WholeInv, Started \subseteq Done, pc' = "afterOrders",
         samples' = IF cfg.open THEN Kept(results) ELSE results,
         ~cfg.open => next > Total \/ (cfg.stop /\ \E i \in Done : ~ok[i]),
         UNCHANGED <<cfg, next, job, ok, results>>
  PROVE  WholeInv'
<1>1. Done = Started /\ Done' = Done /\ Started' = Started /\ Busy' = Busy /\ Allowed' = Allowed
      /\ Listed' = Range(samples')
  BY DEF Done, Started, Busy, Allowed, Listed
<1>2. CASE cfg.open
  BY <1>1, <1>2, KeptWhole DEF WholeInv, WholeAndInOrder
<1>3. CASE ~cfg.open
  <2> DEFINE n == next - 1
  <2>1. n \in Nat /\ Done = 1..n BY <1>1 DEF WholeInv, TypeOK
  <2>2. results = [k \in 1..Len(results) |-> k] /\ Len(results) \in Nat
    BY <1>3, LenProperties DEF WholeInv, TypeOK
  <2>3. Len(results) = n
    <3>1. Range(results) = 1..Len(results) BY <2>2 DEF Range
    <3>2. 1..Len(results) = 1..n BY <2>1, <3>1 DEF WholeInv
    <3> DEFINE m == Len(results)
    <3>3. 1..m = 1..n /\ m \in Nat /\ n \in Nat BY <2>1, <2>2, <3>2
    <3> HIDE DEF n, m
    <3>4. m = n
      <4>1. m \in 1..m \/ m = 0 BY <3>3
      <4>2. n \in 1..n \/ n = 0 BY <3>3
      <4> QED BY <3>3, <4>1, <4>2
    <3> QED BY <3>4 DEF m
  <2>4. Listed' = 1..n BY <1>1, <1>3, <2>2, <2>3 DEF Range
  <2>5. ASSUME cfg.stop, \E i \in Done : ~ok[i]
        PROVE  samples' # <<>> /\ {i \in Listed' : ~ok[i]} = {Len(samples')}
    <3>1. \A i \in Done : ok[i] \/ i = n BY <1>3, <2>5 DEF WholeInv
    <3>2. n \in Done /\ ~ok[n] BY <2>5, <3>1
    <3>3. {i \in Listed' : ~ok[i]} = {n} BY <2>1, <2>4, <3>1, <3>2
    <3>4. samples' = results /\ Len(samples') = n BY <1>3, <2>3
    <3>5. n # 0 BY <2>1, <3>2
    <3> QED BY <3>3, <3>4, <3>5
  <2>6. samples' = results /\ Len(samples') = next - 1 BY <1>3, <2>3
  <2> QED BY <1>1, <1>3, <2>2, <2>5, <2>6 DEF WholeInv, WholeAndInOrder
<1> QED BY <1>2, <1>3

\* Every step of Run, of a sample and of the venue.
LEMMA WholeNext == TypeOK /\ WholeInv /\ [Next]_vars => WholeInv'
<1> SUFFICES ASSUME TypeOK, WholeInv, [Next]_vars PROVE WholeInv'
  OBVIOUS
<1> USE DEF run, sampling
<1>1. CASE NoCleanup BY <1>1, WholeFrame DEF NoCleanup
<1>2. CASE StartPosition BY <1>2, WholeFrame DEF StartPosition
<1>3. CASE StartOrders
  <2>1. pc = "startOrders" /\ pc' \in {"startCancel", "startRepair", "loop", "done"}
    BY <1>3 DEF StartOrders, AfterStartup
  <2> QED BY <1>3, <2>1, WholeFrame DEF StartOrders
<1>4. CASE StartCancel \/ StartRepair \/ StartFails
  <2>1. /\ pc \in {"start", "startOrders", "startCancel", "startRepair"} /\ pc' \in {"loop", "done"}
        /\ UNCHANGED <<cfg, next, sampling>>
    BY <1>4 DEF StartCancel, StartRepair, StartFails, AfterStartup
  <2> QED BY <2>1, WholeFrame
<1>5. CASE ClosedNext
  <2>1. "preparing" \in Active \union {"queued"} BY DEF Active
  <2> QED BY <1>5, <2>1, WholeStart DEF ClosedNext
<1>6. CASE ClosedEnd BY <1>6, WholeCollect DEF ClosedEnd
<1>7. CASE Tick BY <1>7, WholeStart DEF Tick
<1>8. CASE EndSchedule BY <1>8, WholeFrame DEF EndSchedule
<1>9. CASE Collect
  <2>1. cfg.open BY <1>9 DEF Collect, WholeInv
  <2> QED BY <1>9, <2>1, WholeCollect DEF Collect
<1>10. CASE AfterOrders BY <1>10, WholeFrame DEF AfterOrders
<1>11. CASE AfterPosition BY <1>11, WholeFrame DEF AfterPosition
<1>12. CASE AfterFails \/ AfterNothing BY <1>12, WholeFrame DEF AfterFails, AfterNothing
<1>13. CASE Cancel BY <1>13, WholeFrame DEF Cancel
<1>14. CASE Venue \/ UNCHANGED vars
  <2>1. UNCHANGED <<run, sampling>>
    BY <1>14 DEF Venue, FillStale, Land, Vanish, Fill, vars
  <2> QED BY <2>1, WholeFrame
<1>15. ASSUME NEW i \in Samples, RunOnce(i) PROVE WholeInv'
  <2>1. CASE Acquire(i)
    <3>1. "preparing" \in Active BY DEF Active
    <3>2. cfg.open BY <2>1 DEF Acquire, WholeInv
    <3> QED BY <2>1, <3>1, <3>2, WholeMove DEF Acquire, Allowed
  <2>2. ASSUME NEW good \in BOOLEAN, job[i] \in Active, Return(i, good),
               UNCHANGED <<cfg, pc, next, samples>>
        PROVE  WholeInv'
    BY <2>2, WholeReturn
  <2>3. ASSUME NEW x \in Active, job[i] \in Active, job' = [job EXCEPT ![i] = x],
               \A k \in Samples \ {i} : ok'[k] = ok[k],
               UNCHANGED <<cfg, pc, next, results, samples>>
        PROVE  WholeInv'
    <3>1. job[i] # "queued" BY <2>3 DEF Active
    <3> QED BY <2>3, <3>1, WholeMove
  <2>4. ok \in [Samples -> BOOLEAN] /\ ok[i] \in BOOLEAN BY DEF TypeOK
  <2> DEFINE bad == ok[i] /\ ~Strict
  <2>5. bad \in BOOLEAN BY <2>4
  <2>6. {"preparing", "sent", "looking", "weighing", "closing"} = Active BY DEF Active
  <2>7. CASE PrepareFails(i) BY <2>2, <2>6, <2>7 DEF PrepareFails
  <2>8. CASE Send(i) BY <2>3, <2>6, <2>8 DEF Send
  <2>9. ASSUME NEW good \in BOOLEAN, Answered(i, good) PROVE WholeInv'
    <3>1. CASE cfg.mode = "off" BY <2>2, <2>6, <2>9, <3>1 DEF Answered
    <3>2. CASE cfg.mode # "off"
      <4>1. /\ job[i] = "sent" /\ ok' = [ok EXCEPT ![i] = good] /\ job' = [job EXCEPT ![i] = "looking"]
            /\ UNCHANGED <<cfg, pc, next, results, samples>>
        BY <2>9, <3>2 DEF Answered
      <4>2. \A k \in Samples \ {i} : ok'[k] = ok[k] BY <2>4, <4>1
      <4> QED BY <2>3, <2>6, <4>1, <4>2
    <3> QED BY <3>1, <3>2
  <2>10. CASE LookForOrder(i)
    <3>1. PICK x \in {"closing", "weighing"} : job' = [job EXCEPT ![i] = x]
      BY <2>10 DEF LookForOrder
    <3> QED BY <2>3, <2>6, <2>10, <3>1 DEF LookForOrder
  <2>11. CASE Weigh(i)
    <3>1. CASE Gained = 0 BY <2>2, <2>4, <2>6, <2>11, <3>1 DEF Weigh
    <3>2. CASE Gained # 0 BY <2>3, <2>6, <2>11, <3>2 DEF Weigh
    <3> QED BY <3>1, <3>2
  <2>12. CASE CleanupProgramFails(i)
    BY <2>2, <2>5, <2>6, <2>12 DEF CleanupProgramFails, CleanupFailed
  <2>13. CASE Close(i)
    <3>1. \E good \in BOOLEAN : Return(i, good)
      BY <2>4, <2>5, <2>13 DEF Close, CleanupFailed
    <3> QED BY <2>2, <2>6, <2>13, <3>1 DEF Close
  <2>14. CASE CloseFails(i) BY <2>2, <2>5, <2>6, <2>14 DEF CloseFails, CleanupFailed
  <2>15. CASE Retry(i) BY <2>3, <2>6, <2>15 DEF Retry
  <2> QED
    BY <1>15, <2>1, <2>7, <2>8, <2>9, <2>10, <2>11, <2>12, <2>13, <2>14, <2>15 DEF RunOnce
<1> QED
  BY <1>1, <1>2, <1>3, <1>4, <1>5, <1>6, <1>7, <1>8, <1>9, <1>10, <1>11, <1>12, <1>13,
     <1>14, <1>15 DEF Next, Main

\* The result of a run is the run, in order, and never more is under way than
\* allowed: for every number of samples, rate and semaphore.
THEOREM ResultIsTheRun == Spec => []WholeAndInOrder
<1>1. Init => TypeOK /\ WholeInv BY TypeInit, WholeInit
<1>2. TypeOK /\ WholeInv /\ [Next]_vars => (TypeOK /\ WholeInv)' BY TypeNext, WholeNext
<1>3. TypeOK /\ WholeInv => WholeAndInOrder BY DEF WholeInv
<1> QED BY <1>1, <1>2, <1>3, PTL DEF Spec

-----------------------------------------------------------------------------
(* The cleanups                                                             *)

\* Nothing has been found, and no order exists.
LEMMA CleanInit == Init => StartInv /\ CleanInv
<1> SUFFICES ASSUME Init PROVE StartInv /\ CleanInv
  OBVIOUS
<1>1. Started = {} /\ pos \in Nat BY RunnerAssumption DEF Init, Started
<1>2. StartInv BY <1>1 DEF Init, StartInv
<1>3. \A i \in Samples : job[i] = "idle" /\ order[i] = "none" BY DEF Init
<1>4. CleanInv BY <1>1, <1>3 DEF Init, CleanInv, NeverShort, Handled, Held, Active
<1> QED BY <1>2, <1>4

\* A step that leaves what the startup found.
LEMMA StartFrame ==
  ASSUME StartInv, UNCHANGED <<cfg, startup, seen, baseline>>, stale' => stale,
         pc' \in {"start", "startOrders", "startCancel", "startRepair"} => pc' = pc /\ next' = next,
         pc' \in {"loop", "wait", "afterOrders", "afterPosition"} \/ Started' # {} =>
           pc \in {"loop", "wait", "afterOrders", "afterPosition"} \/ Started # {}
  PROVE  StartInv'
BY DEF StartInv, Strict

\* What the startup found stays what the samples start from.
LEMMA StartNext ==
  ASSUME TypeOK, WholeInv, StartInv, NeverShort, [Next]_vars
  PROVE  StartInv'
<1> USE DEF run, sampling, account
<1>0. next = 1 => Started = {} BY DEF WholeInv
<1>1. CASE NoCleanup \/ StartPosition \/ StartOrders \/ StartCancel \/ StartRepair \/ StartFails
  <2>0. /\ pc \in {"start", "startOrders", "startCancel", "startRepair"}
        /\ next = 1 /\ startup = "none" /\ baseline = None
        /\ next' = next /\ cfg' = cfg /\ Started' = {}
    <3>1. /\ pc \in {"start", "startOrders", "startCancel", "startRepair"}
          /\ UNCHANGED <<cfg, next, sampling>>
      BY <1>1 DEF NoCleanup, StartPosition, StartOrders, StartCancel, StartRepair, StartFails
    <3>2. Started' = Started BY <3>1 DEF Started
    <3> QED BY <1>0, <3>1, <3>2 DEF StartInv
  <2>1. CASE NoCleanup BY <2>0, <2>1 DEF NoCleanup, StartInv, Strict
  <2>2. CASE StartPosition
    <3>1. pos \in Nat BY DEF NeverShort, TypeOK
    <3> QED BY <2>0, <2>2, <3>1 DEF StartPosition, StartInv
  <2>3. CASE StartOrders
    <3>1. CASE stale \/ (seen # 0 /\ cfg.guard /\ cfg.heal /\ pos # 0)
      <4>1. pc' \in {"startCancel", "startRepair"} /\ UNCHANGED <<startup, baseline, seen>>
        BY <2>3, <3>1 DEF StartOrders
      <4> QED BY <2>0, <2>3, <4>1 DEF StartOrders, StartInv
    <3>2. CASE ~stale /\ seen # 0 /\ cfg.guard /\ ~(cfg.heal /\ pos # 0)
      <4>1. AfterStartup("failed", seen) /\ UNCHANGED <<seen, stale>>
        BY <2>3, <3>2 DEF StartOrders
      <4> QED BY <2>0, <3>2, <4>1 DEF AfterStartup, StartInv, Strict
    <3>3. CASE ~stale /\ ~(seen # 0 /\ cfg.guard)
      <4>1. AfterStartup("ok", seen) /\ UNCHANGED <<seen, stale>>
        BY <2>3, <3>3 DEF StartOrders
      <4> QED BY <2>0, <3>3, <4>1 DEF AfterStartup, StartInv, Strict
    <3> QED BY <3>1, <3>2, <3>3
  <2>4. CASE StartCancel
    <3>1. PICK outcome \in {"failed", "restart", "ok"} :
            AfterStartup(outcome, None) /\ (outcome = "ok" => (cfg.guard => seen = 0))
      BY <2>4 DEF StartCancel
    <3>2. UNCHANGED seen BY <2>4 DEF StartCancel
    <3> QED BY <2>0, <3>1, <3>2 DEF AfterStartup, StartInv, Strict
  <2>5. CASE StartRepair
    <3>1. PICK outcome \in {"failed", "restart"} : AfterStartup(outcome, None)
      BY <2>5 DEF StartRepair
    <3> QED BY <2>0, <3>1 DEF AfterStartup, StartInv, Strict
  <2>6. CASE StartFails BY <2>0, <2>6 DEF StartFails, AfterStartup, StartInv, Strict
  <2> QED BY <1>1, <2>1, <2>2, <2>3, <2>4, <2>5, <2>6
<1>2. CASE ClosedNext \/ Tick
  <2>1. pc = "loop" /\ pc' = pc /\ UNCHANGED <<cfg, startup, seen, baseline, stale>>
    BY <1>2 DEF ClosedNext, Tick
  <2> QED BY <2>1, StartFrame
<1>3. CASE ClosedEnd \/ EndSchedule \/ Collect \/ Cancel
  <2>1. pc \in {"loop", "wait"} /\ pc' \in {"loop", "wait", "afterOrders"}
        /\ UNCHANGED <<cfg, startup, seen, baseline, stale>>
    BY <1>3 DEF ClosedEnd, EndSchedule, Collect, Cancel
  <2> QED BY <2>1, StartFrame DEF StartInv
<1>4. CASE AfterOrders \/ AfterPosition \/ AfterFails \/ AfterNothing
  <2>1. pc \in {"afterOrders", "afterPosition"} /\ pc' \in {"afterPosition", "done"}
        /\ UNCHANGED <<cfg, startup, seen, baseline, stale>>
    BY <1>4 DEF AfterOrders, AfterPosition, AfterFails, AfterNothing
  <2> QED BY <2>1, StartFrame
<1>5. CASE Venue \/ UNCHANGED vars
  <2>1. UNCHANGED <<run, sampling>> /\ (stale' => stale)
    BY <1>5 DEF Venue, FillStale, Land, Vanish, Fill, vars
  <2>2. Started' = Started BY <2>1 DEF Started
  <2> QED BY <2>1, <2>2, StartFrame
<1>6. ASSUME NEW i \in Samples, RunOnce(i) PROVE StartInv'
  <2>1. UNCHANGED <<run, stale>> /\ job[i] # "idle"
    BY <1>6 DEF RunOnce, Acquire, PrepareFails, Send, Answered, LookForOrder, Weigh,
                CleanupProgramFails, Close, CloseFails, Retry
  <2>2. Started # {} BY <2>1 DEF Started
  <2> QED BY <2>1, <2>2, StartFrame
<1> QED BY <1>1, <1>2, <1>3, <1>4, <1>5, <1>6 DEF Next, Main

\* A step of one sample says nothing of the others.
LEMMA OthersHandled ==
  ASSUME CleanInv, NEW i \in Samples, Handled(i)', UNCHANGED cfg,
         \A k \in Samples \ {i} :
           /\ job'[k] = job[k] /\ order'[k] = order[k] /\ plan'[k] = plan[k] /\ ok'[k] = ok[k]
           /\ k \in missed' <=> k \in missed
  PROVE  \A k \in Samples : Handled(k)'
<1>1. ASSUME NEW k \in Samples \ {i} PROVE Handled(k)'
  <2>1. Handled(k) BY DEF CleanInv
  <2> QED BY <2>1 DEF Handled, Strict
<1> QED BY <1>1

\* A step in which no order fills: whoever held the position still does, or it is
\* sold.
LEMMA CleanStep ==
  ASSUME TypeOK, CleanInv, NEW i \in Samples, Handled(i)', UNCHANGED <<cfg, baseline>>,
         \A k \in Samples \ {i} :
           /\ job'[k] = job[k] /\ order'[k] = order[k] /\ plan'[k] = plan[k] /\ ok'[k] = ok[k]
           /\ k \in missed' <=> k \in missed,
         pos' \in 0..pos,
         order'[i] = "filled" => order[i] = "filled",
         Strict /\ cfg.neutralize /\ baseline # None /\ Holds(i) => pos' = 0 \/ Holds(i)'
  PROVE  CleanInv'
<1>0. pos \in Nat /\ pos' \in Nat /\ pos' <= pos /\ plan \in [Samples -> Int]
  BY DEF TypeOK, CleanInv, NeverShort
<1>1. Held'
  <2> SUFFICES ASSUME Strict, cfg.neutralize, baseline # None, NEW k \in Samples, order'[k] = "filled"
               PROVE  pos' = 0 \/ \E j \in Samples : Holds(j)'
    BY DEF Held, Strict
  <2>1. order[k] = "filled" BY Zenon
  <2>2. pos = 0 \/ \E j \in Samples : Holds(j) BY <2>1 DEF CleanInv, Held
  <2>3. CASE pos = 0 BY <1>0, <2>3
  <2>4. ASSUME NEW j \in Samples \ {i}, Holds(j) PROVE Holds(j)'
    <3>1. plan[j] \in Int BY <1>0
    <3> QED BY <1>0, <2>4, <3>1 DEF Holds
  <2> QED BY <2>2, <2>3, <2>4
<1>2. NeverShort' BY <1>0 DEF NeverShort
<1> QED BY <1>1, <1>2, OthersHandled DEF CleanInv

\* What a strict run that neutralizes would sell is the position.
LEMMA GainedIsPosition ==
  ASSUME TypeOK, StartInv, Strict, cfg.neutralize, baseline # None, Started # {}
  PROVE  Gained = pos
<1>1. cfg.guard BY RunnerAssumption DEF TypeOK
<1>2. baseline = 0 /\ pos \in Int BY <1>1 DEF StartInv, TypeOK
<1> QED BY <1>2 DEF Gained, None

\* No step of a sample leaves a filled order to nobody.
LEMMA CleanRunOnce ==
  ASSUME TypeOK, StartInv, CleanInv, NEW i \in Samples, RunOnce(i)
  PROVE  CleanInv'
<1>0. /\ DOMAIN job = Samples /\ DOMAIN ok = Samples /\ DOMAIN plan = Samples /\ DOMAIN order = Samples
      /\ job \in [Samples -> Active \union {"idle", "queued", "done"}]
      /\ order \in [Samples -> {"none", "flight", "open", "filled", "gone"}]
      /\ plan \in [Samples -> Int] /\ ok \in [Samples -> BOOLEAN] /\ pos \in Nat /\ pos \in 0..pos
      /\ Handled(i)
  <2>1. pos \in Nat /\ pos \in 0..pos BY DEF TypeOK, CleanInv, NeverShort
  <2>2. Handled(i) BY DEF CleanInv
  <2> QED BY <2>1, <2>2 DEF TypeOK
<1> USE DEF run, account, history
<1>1. ASSUME UNCHANGED <<cfg, baseline>>, Handled(i)', pos' \in 0..pos,
             \A k \in Samples \ {i} :
               /\ job'[k] = job[k] /\ order'[k] = order[k] /\ plan'[k] = plan[k] /\ ok'[k] = ok[k]
               /\ k \in missed' <=> k \in missed,
             order'[i] = "filled" => order[i] = "filled",
             Strict /\ cfg.neutralize /\ baseline # None /\ Holds(i) => pos' = 0 \/ Holds(i)'
      PROVE  CleanInv'
  BY <1>1, CleanStep
<1>2. CASE Acquire(i)
  <2>1. Handled(i)' BY <1>0, <1>2 DEF Acquire, Handled, Active, Strict
  <2>2. Holds(i) => Holds(i)' BY <1>0, <1>2 DEF Acquire, Holds, Handled
  <2> QED BY <1>0, <1>1, <1>2, <2>1, <2>2 DEF Acquire
<1>3. CASE PrepareFails(i)
  <2>1. Handled(i)' BY <1>0, <1>3 DEF PrepareFails, Return, Handled, Active, Strict
  <2>2. ~Holds(i) BY <1>0, <1>3 DEF PrepareFails, Holds, Handled
  <2> QED BY <1>0, <1>1, <1>3, <2>1, <2>2 DEF PrepareFails, Return
<1>4. CASE Send(i)
  <2>1. Handled(i)' BY <1>0, <1>4 DEF Send, Handled, Active, Strict
  <2>2. ~Holds(i) BY <1>0, <1>4 DEF Send, Holds, Handled
  <2> QED BY <1>0, <1>1, <1>4, <2>1, <2>2 DEF Send
<1>5. ASSUME NEW good \in BOOLEAN, Answered(i, good) PROVE CleanInv'
  <2>1. CASE cfg.mode = "off"
    <3>1. Return(i, good) BY <1>5, <2>1 DEF Answered
    <3>2. Handled(i)' BY <1>0, <1>5, <2>1, <3>1 DEF Answered, Return, Handled, Active, Strict
    <3>3. ~Strict BY <2>1 DEF Strict
    <3> QED BY <1>0, <1>1, <1>5, <3>1, <3>2, <3>3 DEF Answered, Return
  <2>2. CASE cfg.mode # "off"
    <3>1. job' = [job EXCEPT ![i] = "looking"] /\ ok' = [ok EXCEPT ![i] = good]
      BY <1>5, <2>2 DEF Answered
    <3>2. Handled(i)' BY <1>0, <1>5, <2>2, <3>1 DEF Answered, Handled, Active, Strict
    <3>3. Holds(i) => Holds(i)' BY <1>0, <1>5, <3>1 DEF Answered, Holds
    <3> QED BY <1>0, <1>1, <1>5, <3>1, <3>2, <3>3 DEF Answered
  <2> QED BY <2>1, <2>2
<1>6. CASE LookForOrder(i)
  <2>1. Handled(i)' BY <1>0, <1>6 DEF LookForOrder, Handled, Active, Strict
  <2>2. Holds(i) => Holds(i)' BY <1>0, <1>6 DEF LookForOrder, Holds
  <2> QED BY <1>0, <1>1, <1>6, <2>1, <2>2 DEF LookForOrder
<1>7. CASE Weigh(i)
  <2>0. Started # {} BY <1>7 DEF Weigh, Started
  <2>1. CASE Gained = 0
    <3>1. Return(i, ok[i]) /\ plan' = plan BY <1>7, <2>1 DEF Weigh
    <3>2. Handled(i)' BY <1>0, <1>7, <3>1 DEF Weigh, Return, Handled, Active, Strict
    <3>3. Strict /\ cfg.neutralize /\ baseline # None => pos' = 0
      BY <1>7, <2>0, <2>1, GainedIsPosition DEF Weigh
    <3> QED BY <1>0, <1>1, <1>7, <3>1, <3>2, <3>3 DEF Weigh, Return
  <2>2. CASE Gained # 0
    <3>1. job' = [job EXCEPT ![i] = "closing"] /\ plan' = [plan EXCEPT ![i] = Gained] /\ ok' = ok
      BY <1>7, <2>2 DEF Weigh
    <3>2. Handled(i)' BY <1>0, <1>7, <3>1 DEF Weigh, Handled, Active, Strict
    <3>3. Strict /\ cfg.neutralize /\ baseline # None /\ Holds(i) => Holds(i)'
      <4> SUFFICES ASSUME Strict, cfg.neutralize, baseline # None, Holds(i) PROVE Holds(i)'
        OBVIOUS
      <4>1. plan'[i] = pos /\ pos' = pos /\ job'[i] = "closing" /\ order' = order
        BY <1>0, <1>7, <2>0, <3>1, GainedIsPosition DEF Weigh
      <4> QED BY <1>0, <4>1 DEF Holds
    <3> QED BY <1>0, <1>1, <1>7, <3>1, <3>2, <3>3 DEF Weigh
  <2> QED BY <2>1, <2>2
<1>8. CASE CleanupProgramFails(i) \/ CloseFails(i)
  <2>1. /\ job[i] \in {"looking", "weighing", "closing"} /\ Return(i, ok[i] /\ ~Strict)
        /\ UNCHANGED <<run, tries, plan, samples, account, history>>
    BY <1>8 DEF CleanupProgramFails, CloseFails, CleanupFailed
  <2>2. /\ job' = [job EXCEPT ![i] = "done"] /\ ok' = [ok EXCEPT ![i] = ok[i] /\ ~Strict]
        /\ Strict => ~ok'[i]
    BY <1>0, <2>1 DEF Return
  <2>3. Handled(i)' BY <1>0, <2>1, <2>2 DEF Handled, Active, Strict
  <2>4. Strict /\ Holds(i) => Holds(i)' BY <1>0, <2>1, <2>2 DEF Holds
  <2> QED BY <1>0, <1>1, <2>1, <2>2, <2>3, <2>4
<1>9. CASE Close(i)
  <2>1. PICK good \in BOOLEAN : Return(i, good) /\ (good => ok[i])
    <3>1. CASE Return(i, ok[i]) BY <1>0, <3>1
    <3>2. CASE Return(i, ok[i] /\ ~Strict)
      <4>1. (ok[i] /\ ~Strict) \in BOOLEAN /\ (ok[i] /\ ~Strict => ok[i]) OBVIOUS
      <4> QED BY <3>2, <4>1
    <3> QED BY <1>9, <3>1, <3>2 DEF Close, CleanupFailed
  <2>2. /\ job[i] = "closing" /\ Closable(i)
        /\ UNCHANGED <<run, tries, plan, samples, stale, history>>
    BY <1>9 DEF Close
  <2>3. job' = [job EXCEPT ![i] = "done"] /\ ok' = [ok EXCEPT ![i] = good] BY <2>1 DEF Return
  <2>4. CASE plan[i] = 0
    <3>1. order[i] = "open" /\ order' = [order EXCEPT ![i] = "gone"] /\ pos' = pos
      BY <1>9, <2>2, <2>4 DEF Close, Closable
    <3>2. Handled(i)' BY <1>0, <2>2, <2>3, <3>1 DEF Handled, Active, Strict
    <3>3. ~Holds(i) BY <3>1 DEF Holds
    <3> QED BY <1>0, <1>1, <2>2, <2>3, <3>1, <3>2, <3>3
  <2>5. CASE plan[i] # 0
    <3>1. plan[i] \in Int /\ plan[i] > 0 /\ pos > 0 /\ order' = order /\ pos' = Reduced(plan[i])
      BY <1>0, <1>9, <2>2, <2>5 DEF Close, Closable
    <3>2. pos' \in 0..pos /\ (plan[i] >= pos => pos' = 0) BY <1>0, <3>1 DEF Reduced
    <3>3. Handled(i)' BY <1>0, <2>2, <2>3, <2>5, <3>1 DEF Handled, Active, Strict
    <3>4. Holds(i) => pos' = 0 \/ Holds(i)'
      <4>1. CASE i \in missed BY <2>2, <3>1, <4>1 DEF Holds
      <4>2. CASE i \notin missed BY <2>2, <2>5, <3>2, <4>2 DEF Holds
      <4> QED BY <4>1, <4>2
    <3> QED BY <1>0, <1>1, <2>2, <2>3, <3>1, <3>2, <3>3, <3>4
  <2> QED BY <2>4, <2>5
<1>10. CASE Retry(i)
  <2>1. Handled(i)' BY <1>0, <1>10 DEF Retry, Handled, Active, Strict
  <2>2. Holds(i) => Holds(i)' BY <1>0, <1>10 DEF Retry, Holds
  <2> QED BY <1>0, <1>1, <1>10, <2>1, <2>2 DEF Retry
<1> QED
  BY <1>2, <1>3, <1>4, <1>5, <1>6, <1>7, <1>8, <1>9, <1>10 DEF RunOnce

\* An order fills, and its own cleanup is still to come, has missed it or has
\* failed; an order that fills when it is late moves a position nobody compares.
LEMMA CleanVenue ==
  ASSUME TypeOK, StartInv, CleanInv, Venue
  PROVE  CleanInv'
<1>0. /\ order \in [Samples -> {"none", "flight", "open", "filled", "gone"}] /\ pos \in Nat
      /\ DOMAIN order = Samples
  BY DEF TypeOK, CleanInv, NeverShort
<1> USE DEF run, sampling, history
<1>1. CASE FillStale
  <2>1. baseline = None /\ UNCHANGED <<cfg, job, order, plan, ok, missed, baseline>> /\ pos' = pos + 1
    BY <1>1 DEF FillStale, StartInv
  <2>2. \A k \in Samples : Handled(k)' BY <2>1 DEF CleanInv, Handled, Strict
  <2>3. Held' BY <2>1 DEF Held
  <2>4. NeverShort' BY <1>0, <2>1 DEF NeverShort
  <2> QED BY <2>2, <2>3, <2>4 DEF CleanInv
<1>2. ASSUME NEW i \in Samples, Land(i) \/ Vanish(i) \/ Fill(i) PROVE CleanInv'
  <2>1. /\ order[i] \in {"flight", "open"}
        /\ UNCHANGED <<cfg, job, plan, ok, missed, baseline>>
    BY <1>2 DEF Land, Vanish, Fill
  <2>2. Handled(i) BY DEF CleanInv
  <2>3. CASE pos' = pos /\ \E x \in {"open", "gone"} :
               order' = [order EXCEPT ![i] = x] /\ (x = "open" => order[i] = "flight")
    <3>1. PICK x \in {"open", "gone"} :
            order' = [order EXCEPT ![i] = x] /\ (x = "open" => order[i] = "flight")
      BY <2>3
    <3>2. Handled(i)' BY <1>0, <2>1, <2>2, <3>1 DEF Handled, Active, Strict
    <3>3. ~Holds(i) /\ order'[i] # "filled" /\ pos' \in 0..pos
      BY <1>0, <2>1, <2>3, <3>1 DEF Holds
    <3> QED BY <1>0, <2>1, <3>1, <3>2, <3>3, CleanStep
  <2>4. CASE pos' = pos + 1 /\ order' = [order EXCEPT ![i] = "filled"]
    <3>1. Handled(i)' BY <1>0, <2>1, <2>2, <2>4 DEF Handled, Active, Strict
    <3>2. \A k \in Samples : Handled(k)' BY <1>0, <2>1, <2>4, <3>1, OthersHandled
    <3>3. Strict => Holds(i)'
      <4> SUFFICES ASSUME Strict PROVE Holds(i)'
        OBVIOUS
      <4>1. order'[i] = "filled" BY <1>0, <2>4
      <4>2. i \in missed \/ (job[i] = "done" /\ ~ok[i]) \/ job[i] \in {"sent", "looking"}
            \/ (job[i] = "closing" /\ plan[i] = 0)
        <5>1. job[i] \in {"idle", "queued", "done", "preparing", "sent", "looking", "weighing", "closing"}
          BY DEF TypeOK, Active
        <5> QED BY <2>1, <2>2, <5>1 DEF Handled
      <4> QED BY <2>1, <4>1, <4>2 DEF Holds
    <3>4. Held' BY <2>1, <3>3 DEF Held, Strict
    <3>5. NeverShort' BY <1>0, <2>4 DEF NeverShort
    <3> QED BY <3>2, <3>4, <3>5 DEF CleanInv
  <2> QED BY <1>2, <2>3, <2>4 DEF Land, Vanish, Fill
<1> QED BY <1>1, <1>2 DEF Venue

\* Every step keeps the cleanups' promises.
LEMMA CleanNext ==
  ASSUME TypeOK, WholeInv, StartInv, CleanInv, [Next]_vars
  PROVE  CleanInv'
<1>0. /\ job \in [Samples -> Active \union {"idle", "queued", "done"}] /\ pos \in Nat /\ pos \in 0..pos
      /\ DOMAIN job = Samples
  <2>1. pos \in Nat /\ pos \in 0..pos BY DEF TypeOK, CleanInv, NeverShort
  <2> QED BY <2>1 DEF TypeOK
<1> USE DEF sampling, account, history
<1>1. CASE NoCleanup \/ StartPosition \/ StartOrders \/ StartCancel \/ StartRepair \/ StartFails
  <2>1. /\ pc \in {"start", "startOrders", "startCancel", "startRepair"}
        /\ UNCHANGED <<cfg, job, plan, ok, order, missed>> /\ pos' \in {pos, 0}
    BY <1>1 DEF NoCleanup, StartPosition, StartOrders, StartCancel, StartRepair, StartFails
  <2>2. \A k \in Samples : job[k] = "idle"
    <3>1. Started = {} BY <2>1 DEF WholeInv, StartInv
    <3> QED BY <3>1 DEF Started
  <2>3. \A k \in Samples : Handled(k)' BY <2>1 DEF CleanInv, Handled, Strict
  <2>4. \A k \in Samples : order[k] = "none" BY <2>2 DEF CleanInv, Handled
  <2>5. Held' BY <2>1, <2>4 DEF Held
  <2>6. NeverShort' BY <1>0, <2>1 DEF NeverShort
  <2> QED BY <2>3, <2>5, <2>6 DEF CleanInv
<1>2. CASE ClosedNext \/ Tick
  <2>1. /\ \E x \in {"preparing", "queued"} : job' = [job EXCEPT ![next] = x]
        /\ UNCHANGED <<cfg, baseline, plan, ok, order, pos, missed>> /\ next <= Total
    BY <1>2 DEF ClosedNext, Tick
  <2>2. PICK i \in Samples : i = next /\ job[i] = "idle"
    <3>1. next \in Nat \ {0} BY RunnerAssumption DEF TypeOK
    <3>2. next \in Samples BY <2>1, <3>1, RunnerAssumption DEF Samples
    <3>3. next \notin Started BY <3>1 DEF WholeInv
    <3> QED BY <3>2, <3>3 DEF Started
  <2>3. Handled(i) BY DEF CleanInv
  <2>4. Handled(i)' BY <1>0, <2>1, <2>2, <2>3 DEF Handled, Active, Strict
  <2>5. ~Holds(i) BY <2>2, <2>3 DEF Holds, Handled
  <2> QED BY <1>0, <2>1, <2>2, <2>4, <2>5, CleanStep
<1>3. CASE \/ ClosedEnd \/ EndSchedule \/ Collect \/ Cancel \/ UNCHANGED vars
           \/ AfterOrders \/ AfterPosition \/ AfterFails \/ AfterNothing
  <2>1. UNCHANGED <<cfg, baseline, job, plan, ok, order, pos, missed>>
    BY <1>3 DEF ClosedEnd, EndSchedule, Collect, Cancel, AfterOrders, AfterPosition, AfterFails,
                AfterNothing, vars, run
  <2>2. \A k \in Samples : Handled(k)' BY <2>1 DEF CleanInv, Handled, Strict
  <2>3. Held' BY <2>1 DEF CleanInv, Held, Holds, Strict
  <2>4. NeverShort' BY <2>1 DEF CleanInv, NeverShort
  <2> QED BY <2>2, <2>3, <2>4 DEF CleanInv
<1> QED BY <1>1, <1>2, <1>3, CleanVenue, CleanRunOnce DEF Next, Main

\* Where every sample is OK and none looked too early, nobody is left to hold what
\* has filled.
LEMMA CleanMeans ==
  ASSUME TypeOK, StartInv, CleanInv
  PROVE  CleanedUp
<1>1. StrictStartsClear BY DEF StartInv, StrictStartsClear
<1>2. StrictNeverSilent
  <2> SUFFICES ASSUME Strict, Started # {}, Started \subseteq Done, missed = {}, \A i \in Done : ok[i]
               PROVE  /\ \A i \in Samples : order[i] # "open"
                      /\ cfg.neutralize /\ baseline # None /\ (\E i \in Samples : order[i] = "filled") =>
                           pos = baseline
    BY DEF StrictNeverSilent
  <2>1. \A i \in Samples : job[i] = "idle" \/ (job[i] = "done" /\ ok[i]) BY DEF Started, Done
  <2>2. \A i \in Samples : order[i] # "open" BY <2>1 DEF CleanInv, Handled
  <2>3. ASSUME cfg.neutralize, baseline # None, \E i \in Samples : order[i] = "filled"
        PROVE  pos = baseline
    <3>1. \A i \in Samples : order[i] = "filled" => ~Holds(i) BY <2>1 DEF Holds, CleanInv, Handled
    <3>2. \A i \in Samples : ~Holds(i) BY <3>1 DEF Holds
    <3>3. pos = 0 BY <2>3, <3>2 DEF CleanInv, Held
    <3>4. cfg.guard BY <2>3, RunnerAssumption DEF TypeOK
    <3>5. baseline = 0 BY <2>3, <3>4 DEF StartInv
    <3> QED BY <3>3, <3>5
  <2> QED BY <2>2, <2>3
<1> QED BY <1>1, <1>2 DEF CleanedUp, CleanInv

\* A strict run starts clear, and whatever its cleanups leave behind one of them
\* says, however they overlap; none of them sells what the account does not hold.
THEOREM NeverLeftInSilence == Spec => []CleanedUp
<1> DEFINE IInv == TypeOK /\ WholeInv /\ StartInv /\ CleanInv
<1>1. Init => IInv BY TypeInit, WholeInit, CleanInit
<1>2. IInv /\ [Next]_vars => IInv'
  <2> SUFFICES ASSUME IInv, [Next]_vars PROVE IInv'
    OBVIOUS
  <2>1. TypeOK' /\ WholeInv' BY TypeNext, WholeNext
  <2>2. StartInv' BY StartNext DEF CleanInv
  <2>3. CleanInv' BY CleanNext
  <2> QED BY <2>1, <2>2, <2>3
<1>3. IInv => CleanedUp BY CleanMeans
<1> QED BY <1>1, <1>2, <1>3, PTL DEF Spec

-----------------------------------------------------------------------------
(* The reconciliation                                                       *)

\* Nothing has been reconciled yet.
LEMMA ReconInit == Init => ReconInv
BY DEF Init, ReconInv, PositionReconciledIfKnown

\* The orders AfterRun looks for are all there are, unless the result was cut.
LEMMA ListedIsStarted ==
  ASSUME TypeOK, WholeInv, CleanInv, pc = "afterOrders", ~(cfg.open /\ cfg.stop)
  PROVE  \A i \in Samples : order[i] = "open" => i \in Listed
<1>1. samples = [k \in 1..(next - 1) |-> k] BY DEF WholeInv, WholeAndInOrder
<1>2. Listed = Started BY <1>1 DEF Listed, Range, WholeInv
<1>3. ASSUME NEW i \in Samples, order[i] = "open" PROVE i \in Started
  BY <1>3 DEF CleanInv, Handled, Started
<1> QED BY <1>2, <1>3

\* What it says it says of what it saw, after all samples and against the start.
LEMMA ReconNext ==
  ASSUME TypeOK, WholeInv, StartInv, CleanInv, ReconInv, [Next]_vars
  PROVE  ReconInv'
<1> USE DEF run, sampling, account, history
<1>1. CASE AfterOrders
  <2>1. /\ recon' = "none" /\ pc' = "afterPosition" /\ cfg' = cfg
        /\ left' = (\E i \in Listed : order[i] = "open")
        /\ atEnd'.open = {i \in Samples : order[i] = "open"}
    BY <1>1 DEF AfterOrders, ReconInv, TypeOK
  <2>2. ~left' /\ ~(cfg.open /\ cfg.stop) => atEnd'.open = {}
    BY <1>1, <2>1, ListedIsStarted DEF AfterOrders
  <2> QED BY <2>1, <2>2 DEF ReconInv, PositionReconciledIfKnown
<1>2. CASE AfterPosition
  <2>1. /\ pc = "afterPosition" /\ pc' = "done" /\ UNCHANGED <<cfg, left, baseline, seen>>
        /\ atEnd'.open = atEnd.open /\ atEnd'.pos = pos
        /\ recon' = "ok" => ~left /\ (baseline = None \/ baseline = pos)
    BY <1>2 DEF AfterPosition, TypeOK
  <2>2. PositionReconciledIfKnown' BY <2>1 DEF StartInv, PositionReconciledIfKnown
  <2> QED BY <2>1, <2>2 DEF ReconInv
<1>3. CASE AfterFails \/ AfterNothing
  <2>1. pc' = "done" /\ recon' # "ok" BY <1>3 DEF AfterFails, AfterNothing, ReconInv
  <2> QED BY <2>1 DEF ReconInv, PositionReconciledIfKnown
<1>4. CASE \/ NoCleanup \/ StartPosition \/ StartOrders \/ StartCancel \/ StartRepair \/ StartFails
           \/ ClosedNext \/ ClosedEnd \/ Tick \/ EndSchedule \/ Collect \/ Cancel
  <2>1. recon = "none" /\ recon' = recon /\ pc' # "afterPosition"
    BY <1>4 DEF NoCleanup, StartPosition, StartOrders, StartCancel, StartRepair, StartFails, AfterStartup,
                ClosedNext, ClosedEnd, Tick, EndSchedule, Collect, Cancel, ReconInv
  <2> QED BY <2>1 DEF ReconInv, PositionReconciledIfKnown
<1>5. CASE Venue \/ UNCHANGED vars \/ \E i \in Samples : RunOnce(i)
  <2>1. UNCHANGED <<run, atEnd>>
    BY <1>5 DEF Venue, FillStale, Land, Vanish, Fill, vars, RunOnce, Acquire, PrepareFails, Send,
                Answered, LookForOrder, Weigh, CleanupProgramFails, Close, CloseFails, Retry
  <2> QED BY <2>1 DEF ReconInv, PositionReconciledIfKnown
<1> QED BY <1>1, <1>2, <1>3, <1>4, <1>5 DEF Next, Main

\* An OK reconciliation means that no order of the run is open, unless its result
\* was cut, and that the position is that of the start, if the startup left one.
THEOREM ReconciledIsMeant == Spec => []Reconciled
<1> DEFINE IInv == TypeOK /\ WholeInv /\ StartInv /\ CleanInv /\ ReconInv
<1>1. Init => IInv BY TypeInit, WholeInit, CleanInit, ReconInit
<1>2. IInv /\ [Next]_vars => IInv'
  <2> SUFFICES ASSUME IInv, [Next]_vars PROVE IInv'
    OBVIOUS
  <2>1. TypeOK' /\ WholeInv' BY TypeNext, WholeNext
  <2>2. StartInv' BY StartNext DEF CleanInv
  <2>3. CleanInv' /\ ReconInv' BY CleanNext, ReconNext
  <2> QED BY <2>1, <2>2, <2>3
<1>3. IInv => Reconciled BY DEF ReconInv, Reconciled, OrdersReconciledUncut
<1> QED BY <1>1, <1>2, <1>3, PTL DEF Spec
=============================================================================
