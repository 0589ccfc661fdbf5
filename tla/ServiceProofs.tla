---------------------------- MODULE ServiceProofs ----------------------------
(***************************************************************************)
(* TLAPS proofs about the services that run beside the benchmarks.         *)
(*                                                                         *)
(* Funding, for any accounts, cooldowns, amounts, caps, clock and number   *)
(* of faults: each crash or failed write of state_path lets at most one    *)
(* early transaction per account through, and none without any (by the     *)
(* inductive invariant Counted); and without any the daily cap is kept     *)
(* (by CapInv).                                                            *)
(*                                                                         *)
(* ExchangeTPS, for any blocks, times, retention, clock and number of      *)
(* failures and restarts: blocks are counted once (CountInv), hours agree  *)
(* with their minutes (HourInv) and never go down (KeptInv).               *)
(*                                                                         *)
(* Continuous, for any delays, budget and number of restarts and lost      *)
(* answers: what may be bought is bounded (PurchaseInv) and failures are   *)
(* backed off (DelayInv).                                                  *)
(***************************************************************************)
EXTENDS Funding, ExchangeTPS, Continuous, FiniteSetTheorems, WellFoundedInduction, TLAPS

-----------------------------------------------------------------------------
(* Funding                                                                  *)

Times == Nat \cup {Never}

\* The time by which the process judges a cooldown, and the attempts it judges
\* by; when it is down, those that the next one will read.
Clock == IF phase \in {"pass", "confirm"} THEN passAt ELSE now
Known == IF phase = "down" THEN disk.attempt ELSE attempt

File(d) == d \in [ok : BOOLEAN, attempt : [Accounts -> Times], events : {d.events}]

\* Types, and what a phase implies: a pass is dated in the past, after all that
\* was planned before; a process that waits has written what it knows.
Shape ==
  /\ phase \in {"down", "idle", "pass", "confirm"}
  /\ now \in Nat /\ faults \in Nat /\ passAt \in Nat /\ passAt <= now
  /\ next \in Nat \ {0}
  /\ attempt \in [Accounts -> Times]
  /\ File(disk)
  /\ ledger \in Seq(Tx)
  /\ \A i \in 1..Len(ledger) : ledger[i].plan <= Clock
  /\ phase = "idle" => attempt = disk.attempt
  /\ phase = "confirm" => /\ next <= Len(AccountList)
                          /\ sent[1].account = Current /\ sent[1].plan = passAt
                          /\ sent[1].done \in Nat /\ ledger # <<>>

\* Transaction i is safe from an early successor: its cooldown is over, it is
\* known, or its account is being funded now - by i itself, or by one that is
\* already counted.
Safe(i) ==
  LET t == ledger[i]
  IN  \/ Clock - t.plan >= Cooldown[t.account]
      \/ Known[t.account] # Never /\ Known[t.account] >= t.plan
      \/ /\ phase = "confirm" /\ sent[1].account = t.account
         /\ sent[1].plan = t.plan \/ TooSoon(i) # {}

\* An early successor, and the loss of what keeps the next one away, cost a
\* fault each.
Counted ==
  \A i \in 1..Len(ledger) :
    Cardinality(TooSoon(i)) + (IF Safe(i) THEN 0 ELSE 1) <= faults

\* An account of the list is an account.
LEMMA CurrentIsAccount ==
  ASSUME next \in Nat \ {0}, next <= Len(AccountList) PROVE Current \in Accounts
BY FundingAssumption DEF Current, Accounts

\* The successors of a transaction are finitely many.
LEMMA TooSoonFinite ==
  ASSUME ledger \in Seq(Tx), NEW i \in 1..Len(ledger)
  PROVE  IsFiniteSet(TooSoon(i)) /\ Cardinality(TooSoon(i)) \in Nat
<1>1. IsFiniteSet((i + 1)..Len(ledger))
  BY FS_Interval
<1>2. TooSoon(i) \subseteq (i + 1)..Len(ledger)
  BY DEF TooSoon
<1> QED
  BY <1>1, <1>2, FS_Subset, FS_CardinalityType

\* Nothing is owed at the start.
LEMMA InitCounted == Init => Shape /\ Counted
<1> SUFFICES ASSUME Init PROVE Shape /\ Counted
  OBVIOUS
<1>1. Blank \in [Accounts -> Times]
  BY DEF Blank, Times
<1>2. File(disk) /\ disk.attempt = Blank
  BY <1>1 DEF Init, File
<1>3. Len(ledger) = 0 /\ ledger \in Seq(Tx)
  BY DEF Init
<1> QED
  BY <1>1, <1>2, <1>3 DEF Init, Shape, Counted, Clock

\* What a crash, an exit or a failed write changes of a transaction's safety
\* is paid for by a fault.
LEMMA Paid ==
  ASSUME Shape, Counted, ledger' = ledger, faults' = faults + 1
  PROVE  Counted'
<1> SUFFICES ASSUME NEW i \in 1..Len(ledger)
             PROVE  Cardinality(TooSoon(i))' + (IF Safe(i)' THEN 0 ELSE 1) <= faults'
  BY DEF Counted
<1>1. TooSoon(i)' = TooSoon(i)
  BY DEF TooSoon
<1>2. Cardinality(TooSoon(i)) \in Nat /\ faults \in Nat
  BY TooSoonFinite DEF Shape
<1>3. Cardinality(TooSoon(i)) <= faults
  BY <1>2 DEF Counted
<1> QED
  BY <1>1, <1>2, <1>3

\* As long as what is safe stays safe, nothing is to pay.
LEMMA Unpaid ==
  ASSUME Shape, Counted, faults' = faults, Len(ledger') = Len(ledger),
         \A i \in 1..Len(ledger) : TooSoon(i)' = TooSoon(i) /\ (Safe(i) => Safe(i)')
  PROVE  Counted'
<1> SUFFICES ASSUME NEW i \in 1..Len(ledger)
             PROVE  Cardinality(TooSoon(i))' + (IF Safe(i)' THEN 0 ELSE 1) <= faults'
  BY DEF Counted
<1>1. Cardinality(TooSoon(i)) \in Nat /\ faults \in Nat
  BY TooSoonFinite DEF Shape
<1>2. Cardinality(TooSoon(i)) + (IF Safe(i) THEN 0 ELSE 1) <= faults
  BY DEF Counted
<1> QED
  BY <1>1, <1>2

\* A failed write may leave a file that does not parse, and the same attempts.
LEMMA FlagOnly ==
  ASSUME NEW d, File(d), NEW ok \in BOOLEAN
  PROVE  File([d EXCEPT !.ok = ok]) /\ [d EXCEPT !.ok = ok].attempt = d.attempt
BY DEF File

\* A transaction in the ledger.
LEMMA TxType ==
  ASSUME ledger \in Seq(Tx), NEW i \in 1..Len(ledger)
  PROVE  ledger[i] \in Tx /\ ledger[i].account \in Accounts /\ ledger[i].plan \in Nat
<1>1. ledger[i] \in Tx
  OBVIOUS
<1> QED
  BY <1>1 DEF Tx

\* What a broadcast adds to the ledger.
LEMMA Lost ==
  ASSUME NEW a \in Accounts, NEW m \in Nat, NEW p \in Nat, NEW d
  PROVE  /\ [[account |-> a, amount |-> m, plan |-> p, done |-> d] EXCEPT !.done = Never]
              = [account |-> a, amount |-> m, plan |-> p, done |-> Never]
         /\ [account |-> a, amount |-> m, plan |-> p, done |-> Never] \in Tx
BY DEF Tx

\* A confirmation dates the last transaction, and changes nothing else.
LEMMA Dated ==
  ASSUME ledger \in Seq(Tx), ledger # <<>>, NEW d \in Nat,
         ledger' = [ledger EXCEPT ![Len(ledger)].done = d]
  PROVE  /\ ledger' \in Seq(Tx) /\ Len(ledger') = Len(ledger)
         /\ \A i \in 1..Len(ledger) : /\ ledger'[i].plan = ledger[i].plan
                                      /\ ledger'[i].account = ledger[i].account
<1> DEFINE n == Len(ledger)  t == [ledger[n] EXCEPT !.done = d]
<1>1. n \in Nat /\ n \in 1..n /\ ledger[n] \in Tx
  OBVIOUS
<1>2. t \in Tx /\ t.plan = ledger[n].plan /\ t.account = ledger[n].account
  BY <1>1 DEF Tx
<1>3. ledger' = [ledger EXCEPT ![n] = t]
  OBVIOUS
<1> HIDE DEF n, t
<1> QED
  BY <1>1, <1>2, <1>3 DEF n

\* Every step keeps the types and what the phase implies.
LEMMA ShapeNext == Shape /\ [Next]_vars => Shape'
<1> SUFFICES ASSUME Shape, [Next]_vars PROVE Shape'
  OBVIOUS
<1>0. Blank \in [Accounts -> Times]
  BY DEF Blank, Times
<1>01. \A i \in 1..Len(ledger) : ledger[i].plan \in Nat
  BY TxType DEF Shape
<1>02. \A ok \in BOOLEAN : /\ File([disk EXCEPT !.ok = ok])
                           /\ [disk EXCEPT !.ok = ok].attempt = disk.attempt
  BY FlagOnly DEF Shape
<1>03. File(disk) => disk.attempt \in [Accounts -> Times]
  BY DEF File
<1>04. Written => File(disk') /\ disk'.attempt = attempt
  BY DEF Written, Shape, File
<1>05. Len(AccountList) \in Nat
  BY FundingAssumption
<1> USE DEF Shape, Clock, Times, memory, pass, PassEnds, Current
<1>1. CASE UNCHANGED vars
  BY <1>1 DEF vars
<1>2. CASE Start
  BY <1>03, <1>2 DEF Start
<1>3. CASE BeginPass
  BY <1>3 DEF BeginPass
<1>4. CASE SkipBalance \/ SkipDecision
  BY <1>4 DEF SkipBalance, SkipDecision, InPass
<1>5. CASE DepositDry
  <2>1. attempt' \in [Accounts -> Times]
    <3>1. Never \in Times /\ attempt' = [attempt EXCEPT ![Current] = Never]
      BY <1>5 DEF DepositDry
    <3> HIDE DEF Times, Current
    <3> QED
      BY <3>1
  <2> QED
    BY <1>5, <2>1 DEF DepositDry, InPass
<1>6. ASSUME NEW amount \in Amounts, Broadcast(amount) PROVE Shape'
  <2> DEFINE lost == [account |-> Current, amount |-> amount, plan |-> passAt, done |-> Never]
  <2>1. Current \in Accounts /\ amount \in Nat /\ InPass
    BY <1>6, CurrentIsAccount, FundingAssumption DEF Broadcast, InPass
  <2>2. /\ ledger' = Append(ledger, lost) /\ lost \in Tx /\ phase' = "confirm"
        /\ sent'[1].account = Current /\ sent'[1].plan = passAt /\ sent'[1].done = now
        /\ UNCHANGED <<dry, next, passAt, attempt, events, disk, now, faults>>
    BY <1>6, <2>1, Lost DEF Broadcast
  <2> HIDE DEF lost
  <2>3. /\ ledger' \in Seq(Tx) /\ Len(ledger') = Len(ledger) + 1 /\ ledger' # <<>>
        /\ \A i \in 1..Len(ledger) : ledger'[i] = ledger[i]
        /\ ledger'[Len(ledger) + 1] = lost
    BY <2>2
  <2>4. \A i \in 1..Len(ledger') : ledger'[i].plan <= passAt
    <3>1. lost.plan = passAt
      BY DEF lost
    <3>2. \A i \in 1..Len(ledger') : i \in 1..Len(ledger) \/ i = Len(ledger) + 1
      BY <2>3
    <3>3. \A i \in 1..Len(ledger) : ledger'[i].plan <= passAt
      BY <2>1, <2>3 DEF InPass
    <3>4. ledger'[Len(ledger) + 1].plan <= passAt
      BY <2>3, <3>1
    <3> QED
      BY <3>2, <3>3, <3>4, Zenon
  <2> QED
    BY <2>1, <2>2, <2>3, <2>4 DEF InPass
<1>7. CASE BroadcastFails
  BY <1>05, <1>7, CurrentIsAccount DEF BroadcastFails, InPass, Recorded
<1>8. CASE Confirmed
  <2>1. PICK d \in {sent[1].done, now} : ledger' = [ledger EXCEPT ![Len(ledger)].done = d]
    BY <1>8 DEF Confirmed
  <2>2. d \in Nat
    BY <1>8 DEF Confirmed
  <2>3. /\ ledger' \in Seq(Tx) /\ Len(ledger') = Len(ledger)
        /\ \A i \in 1..Len(ledger) : ledger'[i].plan = ledger[i].plan
    BY <1>8, <2>1, <2>2, Dated DEF Confirmed
  <2> QED
    BY <1>8, <2>3, CurrentIsAccount DEF Confirmed, Recorded
<1>9. CASE Unconfirmed
  BY <1>9, CurrentIsAccount DEF Unconfirmed, Recorded
<1>10. CASE Save
  BY <1>01, <1>04, <1>10 DEF Save, PassOver
<1>11. CASE SaveFails
  BY <1>0, <1>01, <1>02, <1>11 DEF SaveFails, PassOver, WriteFails, Stops
<1>12. CASE StopIdle
  BY <1>0, <1>12 DEF StopIdle, Stops
<1>13. CASE Crash
  BY <1>0, <1>01, <1>02, <1>13 DEF Crash, Stops
<1>14. CASE Tick
  BY <1>01, <1>14 DEF Tick
<1> QED
  BY <1>1, <1>2, <1>3, <1>4, <1>5, <1>6, <1>7, <1>8, <1>9, <1>10, <1>11, <1>12, <1>13, <1>14
  DEF Next

\* What is safe stays so as time passes and attempts are recorded: only what a
\* fault loses, or a dry run forgets after its cooldown, is forgotten.
LEMMA StaysSafe ==
  ASSUME Shape, Shape', NEW i \in 1..Len(ledger), Safe(i), TooSoon(i)' = TooSoon(i),
         ledger'[i].plan = ledger[i].plan, ledger'[i].account = ledger[i].account,
         Clock <= Clock',
         \/ Known'[ledger[i].account] = Known[ledger[i].account]
         \/ /\ Known'[ledger[i].account] # Never
            /\ ledger[i].plan <= Known'[ledger[i].account]
         \/ Clock - ledger[i].plan >= Cooldown[ledger[i].account],
         phase = "confirm" => phase' = "confirm" /\ sent' = sent
  PROVE  Safe(i)'
<1> DEFINE t == ledger[i]
<1>1. t.account \in Accounts /\ t.plan \in Nat /\ Cooldown[t.account] \in Nat
  BY TxType, FundingAssumption DEF Shape
<1>2. Clock \in Nat /\ Clock' \in Nat
  BY DEF Clock, Shape
<1>3. CASE Clock - t.plan >= Cooldown[t.account]
  BY <1>1, <1>2, <1>3 DEF Safe
<1>4. CASE /\ Known[t.account] # Never /\ Known[t.account] >= t.plan
           /\ ~(Clock - t.plan >= Cooldown[t.account])
  BY <1>4 DEF Safe
<1>5. CASE /\ phase = "confirm" /\ sent[1].account = t.account
           /\ sent[1].plan = t.plan \/ TooSoon(i) # {}
  BY <1>5 DEF Safe
<1> QED
  BY <1>3, <1>4, <1>5 DEF Safe

\* The deposit under way, and every transaction before it for its account, is
\* known once its attempt is recorded.
LEMMA RecordedSafe ==
  ASSUME Shape, Shape', InPass \/ phase = "confirm", Recorded, UNCHANGED passAt,
         NEW i \in 1..Len(ledger), Safe(i), TooSoon(i)' = TooSoon(i),
         ledger'[i].plan = ledger[i].plan, ledger'[i].account = ledger[i].account
  PROVE  Safe(i)'
<1> DEFINE t == ledger[i]
<1>1. t.account \in Accounts /\ t.plan \in Nat /\ passAt \in Nat /\ t.plan <= passAt
  BY TxType DEF Shape, InPass, Clock
<1>2. Known' = [attempt EXCEPT ![Current] = passAt] /\ Known = attempt /\ Clock' = Clock
  BY DEF Recorded, Known, Clock, InPass
<1>3. attempt \in [Accounts -> Times] /\ passAt # Never
  BY <1>1, FundingAssumption DEF Shape
<1>4. CASE t.account = Current
  BY <1>1, <1>2, <1>3, <1>4 DEF Safe
<1>5. CASE t.account # Current
  <2>1. Known'[t.account] = Known[t.account]
    BY <1>1, <1>2, <1>3, <1>5
  <2>2. ~(phase = "confirm" /\ sent[1].account = t.account)
    BY <1>5 DEF Shape
  <2> QED
    BY <1>2, <2>1, <2>2 DEF Safe
<1> QED
  BY <1>4, <1>5

\* Every step pays for the early successors it lets through.
LEMMA CountedNext == Shape /\ Shape' /\ Counted /\ [Next]_vars => Counted'
<1> SUFFICES ASSUME Shape, Shape', Counted, [Next]_vars PROVE Counted'
  OBVIOUS
<1> USE DEF memory, pass, PassEnds
<1>0. \A i \in 1..Len(ledger) : ledger[i].account \in Accounts
  BY TxType DEF Shape
<1>1. now \in Nat /\ passAt \in Nat /\ passAt <= now
  BY DEF Shape
<1>2. ASSUME ledger' = ledger, faults' = faults, Clock <= Clock', phase # "confirm",
             \A i \in 1..Len(ledger) :
               \/ Known'[ledger[i].account] = Known[ledger[i].account]
               \/ Clock - ledger[i].plan >= Cooldown[ledger[i].account]
      PROVE  Counted'
  <2>1. \A i \in 1..Len(ledger) : TooSoon(i)' = TooSoon(i)
    BY <1>2 DEF TooSoon
  <2>2. \A i \in 1..Len(ledger) : Safe(i) => Safe(i)'
    BY <1>2, <2>1, StaysSafe
  <2> QED
    BY <1>2, <2>1, <2>2, Unpaid
<1>3. ASSUME ledger' = ledger, faults' = faults + 1 PROVE Counted'
  BY <1>3, Paid
<1>4. CASE UNCHANGED vars
  <2>1. \A i \in 1..Len(ledger) : TooSoon(i)' = TooSoon(i) /\ Safe(i)' = Safe(i)
    BY <1>4 DEF vars, TooSoon, Safe, Clock, Known
  <2> QED
    BY <1>4, <2>1 DEF vars, Counted
<1>5. CASE Start
  BY <1>1, <1>2, <1>5 DEF Start, Clock, Known
<1>6. CASE BeginPass
  BY <1>1, <1>2, <1>6 DEF BeginPass, Clock, Known
<1>7. CASE SkipBalance \/ SkipDecision
  BY <1>1, <1>2, <1>7 DEF SkipBalance, SkipDecision, InPass, Clock, Known
<1>8. CASE DepositDry
  <2>1. /\ Known' = [attempt EXCEPT ![Current] = Never] /\ Known = attempt
        /\ Clock' = Clock /\ Clock = passAt /\ CooldownOver(Current)
        /\ ledger' = ledger /\ faults' = faults /\ phase # "confirm"
    BY <1>8 DEF DepositDry, InPass, Known, Clock
  <2>2. ASSUME NEW i \in 1..Len(ledger), Safe(i), ledger[i].account = Current
        PROVE  Clock - ledger[i].plan >= Cooldown[ledger[i].account]
    <3>1. attempt[Current] \in Times /\ ledger[i].plan \in Nat /\ Cooldown[Current] \in Nat
      BY <2>2, TxType, FundingAssumption DEF Shape
    <3> QED
      BY <1>1, <2>1, <2>2, <3>1 DEF Safe, CooldownOver, Times
  <2>3. \A i \in 1..Len(ledger) : ledger[i].account # Current =>
          Known'[ledger[i].account] = Known[ledger[i].account]
    BY <1>0, <2>1 DEF Shape
  <2>4. \A i \in 1..Len(ledger) : TooSoon(i)' = TooSoon(i)
    BY <2>1 DEF TooSoon
  <2>5. \A i \in 1..Len(ledger) : Safe(i) => Safe(i)'
    BY <1>1, <2>1, <2>2, <2>3, <2>4, StaysSafe
  <2> QED
    BY <2>1, <2>4, <2>5, Unpaid
<1>9. ASSUME NEW amount \in Amounts, Broadcast(amount) PROVE Counted'
  <2> DEFINE n == Len(ledger)
  <2>1. /\ InPass /\ CooldownOver(Current) /\ Current \in Accounts /\ amount \in Nat
        /\ phase' = "confirm" /\ UNCHANGED <<attempt, passAt, faults>>
    BY <1>9, CurrentIsAccount, FundingAssumption DEF Broadcast, InPass, Shape
  <2>2. /\ ledger' = Append(ledger, [account |-> Current, amount |-> amount, plan |-> passAt, done |-> Never])
        /\ sent'[1].account = Current /\ sent'[1].plan = passAt
    BY <1>9, <1>1, <2>1, Lost DEF Broadcast
  <2>3. /\ n \in Nat /\ Len(ledger') = n + 1
        /\ ledger'[n + 1].account = Current /\ ledger'[n + 1].plan = passAt
        /\ \A i \in 1..n : ledger'[i] = ledger[i]
    BY <2>2 DEF Shape
  <2> HIDE DEF n
  <2>4. Known' = Known /\ Known = attempt /\ Clock' = passAt /\ Clock = passAt /\ phase = "pass"
    BY <2>1 DEF Known, Clock, InPass
  <2> SUFFICES ASSUME NEW i \in 1..(n + 1)
               PROVE  Cardinality(TooSoon(i))' + (IF Safe(i)' THEN 0 ELSE 1) <= faults'
    BY <2>3 DEF Counted
  <2>5. CASE i = n + 1
    <3>1. TooSoon(i)' = {}
      BY <2>3, <2>5 DEF TooSoon
    <3>2. Safe(i)'
      BY <2>1, <2>2, <2>3, <2>5 DEF Safe
    <3> QED
      BY <2>1, <3>1, <3>2, FS_EmptySet DEF Shape
  <2> DEFINE a == ledger[i].account  p == ledger[i].plan
  <2>6. CASE i \in 1..n
    <3>1. /\ a \in Accounts /\ p \in Nat /\ Cooldown[a] \in Nat /\ attempt[a] \in Times
          /\ IsFiniteSet(TooSoon(i)) /\ Cardinality(TooSoon(i)) \in Nat /\ faults \in Nat
      BY <2>6, TxType, TooSoonFinite, FundingAssumption DEF Shape, n
    <3>2. Cardinality(TooSoon(i)) + (IF Safe(i) THEN 0 ELSE 1) <= faults
      BY <2>6 DEF Counted, n
    <3>3. CASE a = Current /\ passAt - p < Cooldown[a]
      <4>1. ~Safe(i)
        BY <1>1, <2>1, <2>4, <3>1, <3>3 DEF Safe, CooldownOver, Times
      <4>2. TooSoon(i)' = TooSoon(i) \cup {n + 1} /\ n + 1 \notin TooSoon(i)
        BY <2>3, <2>6, <3>3 DEF TooSoon, n
      <4>3. Cardinality(TooSoon(i))' = Cardinality(TooSoon(i)) + 1
        BY <3>1, <4>2, FS_AddElement
      <4>4. Safe(i)'
        BY <2>1, <2>2, <2>3, <2>6, <3>3, <4>2 DEF Safe
      <4> QED
        BY <2>1, <3>1, <3>2, <4>1, <4>3, <4>4
    <3>4. CASE ~(a = Current /\ passAt - p < Cooldown[a])
      <4>1. TooSoon(i)' = TooSoon(i)
        BY <2>3, <2>6, <3>4 DEF TooSoon, n
      <4>2. Safe(i) => Safe(i)'
        BY <2>3, <2>4, <2>6 DEF Safe
      <4> QED
        BY <2>1, <3>1, <3>2, <4>1, <4>2
    <3> QED
      BY <3>3, <3>4
  <2> QED
    BY <2>3, <2>5, <2>6
<1>10. CASE BroadcastFails \/ Unconfirmed
  <2>1. /\ ledger' = ledger /\ faults' = faults /\ UNCHANGED passAt
        /\ Recorded /\ (InPass \/ phase = "confirm")
    BY <1>10 DEF BroadcastFails, Unconfirmed
  <2>2. \A i \in 1..Len(ledger) : TooSoon(i)' = TooSoon(i)
    BY <2>1 DEF TooSoon
  <2>3. \A i \in 1..Len(ledger) : Safe(i) => Safe(i)'
    BY <2>1, <2>2, RecordedSafe
  <2> QED
    BY <2>1, <2>2, <2>3, Unpaid
<1>11. CASE Confirmed
  <2>1. PICK d \in {sent[1].done, now} : ledger' = [ledger EXCEPT ![Len(ledger)].done = d]
    BY <1>11 DEF Confirmed
  <2>2. d \in Nat /\ ledger # <<>> /\ ledger \in Seq(Tx) /\ phase = "confirm"
    BY <1>11 DEF Confirmed, Shape
  <2>3. /\ Len(ledger') = Len(ledger)
        /\ \A i \in 1..Len(ledger) : /\ ledger'[i].plan = ledger[i].plan
                                     /\ ledger'[i].account = ledger[i].account
    BY <2>1, <2>2, Dated
  <2>4. faults' = faults /\ UNCHANGED passAt /\ Recorded
    BY <1>11 DEF Confirmed
  <2>5. ASSUME NEW i \in 1..Len(ledger) PROVE TooSoon(i)' = TooSoon(i)
    BY <2>3 DEF TooSoon
  <2>6. \A i \in 1..Len(ledger) : Safe(i) => Safe(i)'
    BY <2>2, <2>3, <2>4, <2>5, RecordedSafe
  <2> QED
    BY <2>3, <2>4, <2>5, <2>6, Unpaid
<1>12. CASE Save
  BY <1>1, <1>2, <1>12 DEF Save, PassOver, Written, Known, Clock
<1>13. CASE SaveFails \/ Crash
  BY <1>3, <1>13 DEF SaveFails, WriteFails, Crash
<1>14. CASE StopIdle
  BY <1>1, <1>2, <1>14 DEF StopIdle, Stops, Known, Clock, Shape
<1>15. CASE Tick
  <2>1. \A i \in 1..Len(ledger) : TooSoon(i)' = TooSoon(i)
    BY <1>15 DEF Tick, TooSoon
  <2>2. Clock <= Clock' /\ Known' = Known /\ ledger' = ledger /\ UNCHANGED <<phase, sent, faults>>
    BY <1>1, <1>15 DEF Tick, Clock, Known
  <2>3. \A i \in 1..Len(ledger) : Safe(i) => Safe(i)'
    BY <2>1, <2>2, StaysSafe
  <2> QED
    BY <2>1, <2>2, <2>3, Unpaid
<1> QED
  BY <1>4, <1>5, <1>6, <1>7, <1>8, <1>9, <1>10, <1>11, <1>12, <1>13, <1>14, <1>15 DEF Next

\* Each crash or failed write lets at most one early transaction per account
\* through.
THEOREM EarlyAreBounded == Spec => []LossBounded
<1>1. Shape /\ Counted => LossBounded
  <2> SUFFICES ASSUME Shape, Counted, NEW i \in 1..Len(ledger)
               PROVE  Cardinality(TooSoon(i)) <= faults
    BY DEF LossBounded
  <2>1. Cardinality(TooSoon(i)) \in Nat /\ faults \in Nat
    BY TooSoonFinite DEF Shape
  <2> QED
    BY <2>1 DEF Counted
<1> QED
  BY <1>1, InitCounted, ShapeNext, CountedNext, PTL DEF Spec

\* Until something fails, nothing is forgotten within its cooldown.
THEOREM Remembered == Spec => []NothingForgotten
<1>1. Shape /\ Counted => NothingForgotten
  <2> SUFFICES ASSUME Shape, Counted, faults = 0, NEW i \in 1..Len(ledger)
               PROVE  \/ now - ledger[i].plan >= Cooldown[ledger[i].account]
                      \/ Known[ledger[i].account] # Never /\ Known[ledger[i].account] >= ledger[i].plan
                      \/ /\ phase = "confirm" /\ sent[1].plan = ledger[i].plan
                         /\ sent[1].account = ledger[i].account
    BY DEF NothingForgotten, Known
  <2>1. IsFiniteSet(TooSoon(i)) /\ Cardinality(TooSoon(i)) \in Nat
    BY TooSoonFinite DEF Shape
  <2>2. Safe(i) /\ Cardinality(TooSoon(i)) = 0
    BY <2>1 DEF Counted
  <2>3. TooSoon(i) = {}
    BY <2>1, <2>2, FS_EmptySet
  <2>4. /\ ledger[i].plan \in Nat /\ Cooldown[ledger[i].account] \in Nat
        /\ now \in Nat /\ Clock \in Nat /\ Clock <= now
    BY TxType, FundingAssumption DEF Shape, Clock
  <2> QED
    BY <2>2, <2>3, <2>4 DEF Safe
<1> QED
  BY <1>1, InitCounted, ShapeNext, CountedNext, PTL DEF Spec

-----------------------------------------------------------------------------
(* Sums                                                                     *)

\* Of finite sets one is the smallest: none of the others is within it.
LEMMA SmallestSet ==
  ASSUME NEW F, F # {}, \A t \in F : IsFiniteSet(t)
  PROVE  \E t \in F : \A r \in F : r \subseteq t => r = t
<1> DEFINE U == UNION F  R == StrictSubsetOrdering(U)
<1>1. IsWellFoundedOn(R, FiniteSubsetsOf(U)) BY FS_StrictSubsetOrderingWellFounded
<1>2. F \subseteq FiniteSubsetsOf(U) BY DEF FiniteSubsetsOf
<1> HIDE DEF R
<1>3. PICK t \in F : \A r \in F : ~(<<r, t>> \in R) BY <1>1, <1>2, WFMin
<1>4. \A r \in F : ~(r \subseteq t /\ r # t)
  <2> HIDE DEF U
  <2>1. F \subseteq SUBSET U BY DEF U
  <2> QED BY <1>3, <2>1 DEF R, StrictSubsetOrdering
<1> QED BY <1>4

\* Of numbers one is the least: the smallest of the intervals that they end.
LEMMA LeastNumber ==
  ASSUME NEW S \in SUBSET Nat, S # {}
  PROVE  \E m \in S : \A k \in S : m <= k
<1> DEFINE F == {0..n : n \in S}
<1>1. \A t \in F : IsFiniteSet(t) BY FS_Interval
<1>2. F # {} OBVIOUS
<1> HIDE DEF F
<1>3. PICK t \in F : \A r \in F : r \subseteq t => r = t BY <1>1, <1>2, SmallestSet
<1> USE DEF F
<1>4. PICK m \in S : t = 0..m OBVIOUS
<1>5. ASSUME NEW k \in S PROVE m <= k
  <2>1. CASE k < m
    <3>1. 0..k \subseteq 0..m /\ m \in 0..m /\ m \notin 0..k BY <2>1
    <3> QED BY <1>3, <1>4, <3>1
  <2> QED BY <2>1
<1> QED BY <1>5

\* What holds of the empty set, and of a set if it holds of all with one element
\* less, holds of every part of a finite set.
LEMMA OneByOne ==
  ASSUME NEW S, IsFiniteSet(S), NEW P, {} \in P,
         \A t \in SUBSET S : t # {} /\ (\A x \in t : t \ {x} \in P) => t \in P
  PROVE  SUBSET S \subseteq P
<1> DEFINE F == (SUBSET S) \ P
<1> SUFFICES ASSUME F # {} PROVE FALSE OBVIOUS
<1>1. \A t \in F : IsFiniteSet(t) BY FS_Subset
<1>2. PICK t \in F : \A r \in F : r \subseteq t => r = t
  <2> HIDE DEF F
  <2> QED BY <1>1, SmallestSet
<1>3. \A x \in t : t \ {x} \in P BY <1>2
<1> QED BY <1>3

\* The recursive function that SumFunctionOnSet is defined by.
Pick(s) == CHOOSE x \in s : TRUE
Adds(g, f, S) ==
  g = [s \in SUBSET S |-> IF s = {} THEN 0 ELSE f[Pick(s)] + g[s \ {Pick(s)}]]

\* A finite set less an element has one element less.
LEMMA OneLess ==
  ASSUME NEW S, IsFiniteSet(S), NEW x \in S
  PROVE  /\ IsFiniteSet(S \ {x}) /\ Cardinality(S) \in Nat /\ Cardinality(S \ {x}) \in Nat
         /\ Cardinality(S) = Cardinality(S \ {x}) + 1
BY FS_RemoveElement, FS_CardinalityType

\* What is chosen from a set is in it.
LEMMA PickedIn == ASSUME NEW s, s # {} PROVE Pick(s) \in s
BY DEF Pick

\* There is such a function: over the subsets of up to n elements for every n,
\* the least n without one being the next after an n with one.
LEMMA AdderExists ==
  ASSUME NEW S, IsFiniteSet(S), NEW f
  PROVE  \E g : Adds(g, f, S)
<1> DEFINE Sub(n) == {s \in SUBSET S : Cardinality(s) <= n}
           Upto(g, n) == g = [s \in Sub(n) |-> IF s = {} THEN 0 ELSE f[Pick(s)] + g[s \ {Pick(s)}]]
           Without == {n \in Nat : ~ \E g : Upto(g, n)}
<1>1. \A s \in SUBSET S : IsFiniteSet(s) /\ Cardinality(s) \in Nat
  BY FS_Subset, FS_CardinalityType
<1>2. Cardinality(S) \in Nat BY FS_CardinalityType
<1>3. \E g : Upto(g, 0)
  <2>1. \A s \in Sub(0) : s = {} BY <1>1, FS_EmptySet
  <2>2. Upto([s \in Sub(0) |-> 0], 0) BY <2>1
  <2> QED BY <2>2
<1>4. ASSUME NEW n \in Nat, \E g : Upto(g, n) PROVE \E g : Upto(g, n + 1)
  <2>1. PICK g : Upto(g, n) BY <1>4
  <2> DEFINE h == [s \in Sub(n + 1) |-> IF s = {} THEN 0 ELSE f[Pick(s)] + g[s \ {Pick(s)}]]
  <2>2. \A s \in Sub(n) : g[s] = IF s = {} THEN 0 ELSE f[Pick(s)] + g[s \ {Pick(s)}]
    BY <2>1
  <2>3. \A s \in Sub(n) : s \in Sub(n + 1) BY <1>1
  <2>4. \A s \in Sub(n) : h[s] = g[s]
    BY <2>2, <2>3
  <2>5. \A s \in Sub(n + 1) : s # {} => s \ {Pick(s)} \in Sub(n)
    BY <1>1, OneLess, PickedIn
  <2> HIDE DEF Sub
  <2>6. \A s \in Sub(n + 1) : h[s] = IF s = {} THEN 0 ELSE f[Pick(s)] + h[s \ {Pick(s)}]
    BY <2>4, <2>5
  <2>7. h = [s \in Sub(n + 1) |-> h[s]]
    OBVIOUS
  <2> HIDE DEF h
  <2>8. Upto(h, n + 1) BY <2>6, <2>7
  <2> QED BY <2>8
<1> HIDE DEF Upto
<1>5. Without = {}
  <2> SUFFICES ASSUME Without # {} PROVE FALSE OBVIOUS
  <2>1. PICK m \in Without : \A k \in Without : m <= k BY LeastNumber
  <2>2. m # 0 BY <1>3
  <2>3. m - 1 \in Nat /\ m - 1 \notin Without BY <2>1, <2>2
  <2>4. \E g : Upto(g, (m - 1) + 1) BY <2>3, <1>4
  <2>5. (m - 1) + 1 = m OBVIOUS
  <2> QED BY <2>4, <2>5
<1>6. PICK g : Upto(g, Cardinality(S)) BY <1>5, <1>2
<1>7. Sub(Cardinality(S)) = SUBSET S
  BY FS_Subset, <1>2, <1>1
<1> QED BY <1>6, <1>7 DEF Upto, Adds

\* Two of them, over different sets, agree where both are defined.
LEMMA AddersAgree ==
  ASSUME NEW S, NEW T, IsFiniteSet(S), IsFiniteSet(T), NEW f, NEW g, NEW h,
         Adds(g, f, S), Adds(h, f, T)
  PROVE  \A s \in SUBSET (S \cap T) : g[s] = h[s]
<1> DEFINE Same == {s \in SUBSET (S \cap T) : g[s] = h[s]}
<1>1. ASSUME NEW s \in SUBSET (S \cap T)
      PROVE  /\ g[s] = IF s = {} THEN 0 ELSE f[Pick(s)] + g[s \ {Pick(s)}]
             /\ h[s] = IF s = {} THEN 0 ELSE f[Pick(s)] + h[s \ {Pick(s)}]
  BY DEF Adds
<1>2. {} \in Same BY <1>1
<1>3. ASSUME NEW s \in SUBSET (S \cap T), s # {}, \A x \in s : s \ {x} \in Same
      PROVE  s \in Same
  BY <1>1, <1>3, PickedIn
<1>4. IsFiniteSet(S \cap T) BY FS_Subset
<1> HIDE DEF Same
<1>5. SUBSET (S \cap T) \subseteq Same BY <1>2, <1>3, <1>4, OneByOne
<1> QED BY <1>5 DEF Same

\* Summing over a set: nothing over nothing, and one value more for the element
\* that is chosen,
LEMMA SumSteps ==
  ASSUME NEW S, IsFiniteSet(S), NEW f
  PROVE  SumFunctionOnSet(f, S) =
           IF S = {} THEN 0 ELSE f[Pick(S)] + SumFunctionOnSet(f, S \ {Pick(S)})
<1> DEFINE adder(T) == CHOOSE g : Adds(g, f, T)
<1>1. ASSUME NEW T PROVE SumFunctionOnSet(f, T) = adder(T)[T]
  BY DEF SumFunctionOnSet, FoldFunctionOnSet, MapThenFoldSet, Adds, Pick
<1>2. Adds(adder(S), f, S) BY AdderExists
<1> HIDE DEF adder
<1>3. adder(S)[S] = IF S = {} THEN 0 ELSE f[Pick(S)] + adder(S)[S \ {Pick(S)}]
  BY <1>2 DEF Adds
<1>4. CASE S = {} BY <1>1, <1>3, <1>4
<1>5. CASE S # {}
  <2> DEFINE R == S \ {Pick(S)}
  <2>1. IsFiniteSet(R) BY <1>5, OneLess, PickedIn
  <2>2. Adds(adder(R), f, R) BY <2>1, AdderExists DEF adder
  <2>3. R \in SUBSET (S \cap R) OBVIOUS
  <2>4. adder(S)[R] = adder(R)[R] BY <1>2, <2>1, <2>2, <2>3, AddersAgree
  <2> QED BY <1>1, <1>3, <1>5, <2>4
<1> QED BY <1>4, <1>5

\* a number,
LEMMA SumType ==
  ASSUME NEW S, IsFiniteSet(S), NEW f, \A x \in S : f[x] \in Nat
  PROVE  SumFunctionOnSet(f, S) \in Nat
<1> DEFINE sum(s) == SumFunctionOnSet(f, s)
           Good == {s \in SUBSET S : sum(s) \in Nat}
<1>1. \A s \in SUBSET S : IsFiniteSet(s) BY FS_Subset
<1>2. sum({}) = 0 BY SumSteps, FS_EmptySet
<1>3. {} \in Good
  <2> HIDE DEF sum
  <2> QED BY <1>2
<1>4. ASSUME NEW s \in SUBSET S, s # {}, \A x \in s : s \ {x} \in Good
      PROVE  s \in Good
  <2>1. Pick(s) \in s /\ sum(s) = f[Pick(s)] + sum(s \ {Pick(s)})
    BY <1>1, <1>4, SumSteps, PickedIn
  <2> HIDE DEF sum
  <2>2. sum(s \ {Pick(s)}) \in Nat /\ f[Pick(s)] \in Nat
    BY <1>4, <2>1
  <2> QED BY <2>1, <2>2
<1> HIDE DEF Good
<1>5. SUBSET S \subseteq Good BY <1>3, <1>4, OneByOne
<1> QED BY <1>5 DEF Good, sum

\* and therefore one value more for any element.
LEMMA SumLess ==
  ASSUME NEW S, IsFiniteSet(S), NEW f, \A x \in S : f[x] \in Nat
  PROVE  \A e \in S : SumFunctionOnSet(f, S) = f[e] + SumFunctionOnSet(f, S \ {e})
<1> DEFINE sum(s) == SumFunctionOnSet(f, s)
           Good == {s \in SUBSET S : \A x \in s : sum(s) = f[x] + sum(s \ {x})}
<1>1. \A s \in SUBSET S : IsFiniteSet(s) BY FS_Subset
<1>2. \A s \in SUBSET S : sum(s) \in Nat BY <1>1, SumType
<1>3. \A s \in SUBSET S : s # {} => Pick(s) \in s /\ sum(s) = f[Pick(s)] + sum(s \ {Pick(s)})
  BY <1>1, SumSteps, PickedIn
<1> HIDE DEF sum
<1>4. {} \in Good OBVIOUS
<1>5. ASSUME NEW s \in SUBSET S, s # {}, \A x \in s : s \ {x} \in Good
      PROVE  s \in Good
  <2> SUFFICES ASSUME NEW x \in s PROVE sum(s) = f[x] + sum(s \ {x})
    OBVIOUS
  <2> DEFINE p == Pick(s)  u == (s \ {x}) \ {p}
  <2>1. p \in s /\ sum(s) = f[p] + sum(s \ {p}) BY <1>3
  <2>2. CASE p = x BY <2>1, <2>2
  <2>3. CASE p # x
    <3>1. p \in s \ {x} /\ x \in s \ {p} /\ u = (s \ {p}) \ {x} BY <2>1, <2>3
    <3>2. sum(s \ {x}) = f[p] + sum(u) BY <1>5, <3>1
    <3>3. sum(s \ {p}) = f[x] + sum(u) BY <1>5, <2>1, <3>1
    <3>4. sum(u) \in Nat /\ f[p] \in Nat /\ f[x] \in Nat BY <1>2, <2>1
    <3> QED BY <2>1, <3>2, <3>3, <3>4
  <2> QED BY <2>2, <2>3
<1> HIDE DEF Good
<1>6. SUBSET S \subseteq Good BY <1>4, <1>5, OneByOne
<1>7. S \in Good BY <1>6
<1> QED BY <1>7 DEF Good, sum

\* Only the values of its elements matter.
LEMMA SumSame ==
  ASSUME NEW S, IsFiniteSet(S), NEW f, NEW g, \A x \in S : f[x] = g[x]
  PROVE  SumFunctionOnSet(f, S) = SumFunctionOnSet(g, S)
<1> DEFINE sum(s) == SumFunctionOnSet(f, s)  other(s) == SumFunctionOnSet(g, s)
           Good == {s \in SUBSET S : sum(s) = other(s)}
<1>1. \A s \in SUBSET S : IsFiniteSet(s) BY FS_Subset
<1>2. sum({}) = 0 /\ other({}) = 0 BY SumSteps, FS_EmptySet
<1>3. ASSUME NEW s \in SUBSET S, s # {}
      PROVE  /\ Pick(s) \in s
             /\ sum(s) = f[Pick(s)] + sum(s \ {Pick(s)})
             /\ other(s) = g[Pick(s)] + other(s \ {Pick(s)})
  BY <1>1, <1>3, SumSteps, PickedIn
<1> HIDE DEF sum, other
<1>4. {} \in Good BY <1>2
<1>5. ASSUME NEW s \in SUBSET S, s # {}, \A x \in s : s \ {x} \in Good
      PROVE  s \in Good
  BY <1>3, <1>5
<1> HIDE DEF Good
<1>6. SUBSET S \subseteq Good BY <1>4, <1>5, OneByOne
<1>7. S \in Good BY <1>6
<1> QED BY <1>7 DEF Good, sum, other

\* The sum over a set is at most that over another into which its elements map
\* one by one, each to one of the same value.
LEMMA SumInto ==
  ASSUME NEW J, IsFiniteSet(J), NEW E, IsFiniteSet(E), NEW v, NEW f, NEW to \in [J -> E],
         \A e \in E : f[e] \in Nat, \A j \in J : v[j] = f[to[j]],
         \A i, j \in J : to[i] = to[j] => i = j
  PROVE  SumFunctionOnSet(v, J) <= SumFunctionOnSet(f, E)
<1> DEFINE sum(s) == SumFunctionOnSet(v, s)  total(d) == SumFunctionOnSet(f, d)
           Image(s) == {to[j] : j \in s}
           Good == {s \in SUBSET J : \A d \in SUBSET E : Image(s) \subseteq d => sum(s) <= total(d)}
<1>1. \A s \in SUBSET J : IsFiniteSet(s) BY FS_Subset
<1>2. \A d \in SUBSET E : IsFiniteSet(d) BY FS_Subset
<1>3. \A d \in SUBSET E : total(d) \in Nat BY <1>2, SumType
<1>4. \A j \in J : v[j] \in Nat /\ to[j] \in E OBVIOUS
<1>5. \A s \in SUBSET J : sum(s) \in Nat BY <1>1, <1>4, SumType
<1>6. \A s \in SUBSET J : \A j \in s : sum(s) = v[j] + sum(s \ {j})
  BY <1>1, <1>4, SumLess
<1>7. \A d \in SUBSET E : \A e \in d : total(d) = f[e] + total(d \ {e})
  BY <1>2, SumLess
<1>8. sum({}) = 0 BY SumSteps, FS_EmptySet
<1> HIDE DEF sum, total
<1>9. {} \in Good BY <1>3, <1>8
<1>10. ASSUME NEW s \in SUBSET J, s # {}, \A j \in s : s \ {j} \in Good
       PROVE  s \in Good
  <2> SUFFICES ASSUME NEW d \in SUBSET E, Image(s) \subseteq d PROVE sum(s) <= total(d)
    OBVIOUS
  <2>1. PICK j \in s : TRUE BY <1>10
  <2> DEFINE r == s \ {j}  c == d \ {to[j]}
  <2>2. to[j] \in d /\ Image(r) \subseteq c /\ c \in SUBSET E BY <2>1
  <2>3. sum(r) <= total(c) BY <1>10, <2>1, <2>2
  <2>4. total(d) = f[to[j]] + total(c) BY <1>7, <2>2
  <2>5. sum(s) = v[j] + sum(r) BY <1>6, <2>1
  <2>6. v[j] = f[to[j]] /\ v[j] \in Nat /\ sum(r) \in Nat /\ total(c) \in Nat
    BY <1>3, <1>4, <1>5, <2>1, <2>2
  <2> QED BY <2>3, <2>4, <2>5, <2>6
<1> HIDE DEF Good
<1>11. SUBSET J \subseteq Good BY <1>9, <1>10, OneByOne
<1>12. J \in Good /\ Image(J) \subseteq E BY <1>11
<1> QED BY <1>12 DEF Good, sum, total

-----------------------------------------------------------------------------
(* The cap                                                                  *)

\* Of a ledger up to i, what was confirmed at t or later.
Since(book, i, t) == {j \in 1..i : book[j].done # Never /\ book[j].done >= t}

\* The day that ends with a confirmation has been within the cap, by the
\* transactions up to it.
Bounded(book) ==
  \A i \in 1..Len(book) : book[i].done # Never =>
    Spent(book, Since(book, i, book[i].done - Day)) <= DailyCap

\* Events among which are all that a pass at t, or a later one, has to count.
Covers(es, book, t) ==
  /\ IsFiniteSet(es) /\ es \subseteq Deposit
  /\ \A i \in 1..Len(book) : book[i].done # Never /\ book[i].done >= t - Day => book[i] \in es

\* Confirmations are dated in order, and none later than the deposit that is
\* being made.
InOrder ==
  /\ \A i, j \in 1..Len(ledger) :
       i < j /\ ledger[i].done # Never /\ ledger[j].done # Never => ledger[i].done <= ledger[j].done
  /\ \A i \in 1..Len(ledger) : ledger[i].done # Never =>
       /\ ledger[i].done <= now
       /\ phase = "confirm" => ledger[i].done <= sent[1].done

\* What is being made is the ledger's last, not confirmed, dated within the pass,
\* and leaves room for what has been confirmed since the day before the pass.
UnderWay ==
  phase = "confirm" =>
    /\ sent[1] \in Deposit /\ passAt <= sent[1].done /\ sent[1].done <= now
    /\ ledger[Len(ledger)] = [sent[1] EXCEPT !.done = Never]
    /\ Spent(ledger, Since(ledger, Len(ledger), passAt - Day)) + sent[1].amount <= DailyCap

\* Until something fails, all of that; and memory, and the disk when it is read
\* next, hold the events by which the next deposit is judged.
CapInv ==
  faults = 0 =>
    /\ Bounded(ledger) /\ InOrder /\ UnderWay
    /\ phase # "down" => Covers(events, ledger, Clock)
    /\ phase \in {"down", "idle"} => Covers(disk.events, ledger, Clock)

\* A part of a sum is not more than the sum.
LEMMA SumOfPart ==
  ASSUME NEW K, IsFiniteSet(K), NEW f \in [K -> Nat], NEW J \in SUBSET K,
         NEW v \in [J -> Nat], \A j \in J : v[j] = f[j]
  PROVE  SumFunction(v) <= SumFunction(f)
<1> DEFINE to == [j \in J |-> j]
<1>1. IsFiniteSet(J) BY FS_Subset
<1>2. to \in [J -> K] /\ \A i, j \in J : to[i] = to[j] => i = j OBVIOUS
<1>3. \A j \in J : v[j] = f[to[j]] OBVIOUS
<1>4. DOMAIN v = J /\ DOMAIN f = K OBVIOUS
<1> HIDE DEF to
<1>5. SumFunctionOnSet(v, J) <= SumFunctionOnSet(f, K) BY <1>1, <1>2, <1>3, SumInto
<1> QED BY <1>4, <1>5 DEF SumFunction

\* What is spent by some transactions of a ledger: an amount, not more than is
\* spent by more of them,
LEMMA SpentPart ==
  ASSUME NEW book \in Seq(Tx), NEW K \in SUBSET (1..Len(book)), NEW J \in SUBSET K
  PROVE  Spent(book, J) \in Nat /\ Spent(book, J) <= Spent(book, K)
<1> DEFINE v == [j \in J |-> book[j].amount]  f == [j \in K |-> book[j].amount]
<1>1. \A j \in 1..Len(book) : book[j].amount \in Nat
  <2>1. \A j \in 1..Len(book) : book[j] \in Tx OBVIOUS
  <2> QED BY <2>1 DEF Tx
<1>2. IsFiniteSet(K) /\ IsFiniteSet(J)
  <2>1. IsFiniteSet(1..Len(book)) BY FS_Interval
  <2> QED BY <2>1, FS_Subset
<1>3. v \in [J -> Nat] /\ f \in [K -> Nat] /\ \A j \in J : v[j] = f[j] BY <1>1
<1>4. Spent(book, J) = SumFunction(v) /\ Spent(book, K) = SumFunction(f) BY DEF Spent
<1> HIDE DEF v, f
<1>5. SumFunction(v) <= SumFunction(f) BY <1>2, <1>3, SumOfPart
<1>6. SumFunction(v) \in Nat
  <2>1. DOMAIN v = J /\ \A j \in J : v[j] \in Nat BY <1>3
  <2> QED BY <1>2, <2>1, SumType DEF SumFunction
<1> QED BY <1>4, <1>5, <1>6

\* one of them and the others,
LEMMA SpentOne ==
  ASSUME NEW book \in Seq(Tx), NEW J \in SUBSET (1..Len(book)), NEW e \in J
  PROVE  Spent(book, J) = book[e].amount + Spent(book, J \ {e})
<1> DEFINE v == [j \in J |-> book[j].amount]  u == [j \in J \ {e} |-> book[j].amount]
<1>1. \A j \in 1..Len(book) : book[j].amount \in Nat
  <2>1. \A j \in 1..Len(book) : book[j] \in Tx OBVIOUS
  <2> QED BY <2>1 DEF Tx
<1>2. IsFiniteSet(J)
  <2>1. IsFiniteSet(1..Len(book)) BY FS_Interval
  <2> QED BY <2>1, FS_Subset
<1>3. \A j \in J : v[j] = book[j].amount /\ v[j] \in Nat BY <1>1
<1>4. Spent(book, J) = SumFunctionOnSet(v, J) BY DEF Spent, SumFunction
<1>5. Spent(book, J \ {e}) = SumFunctionOnSet(u, J \ {e}) BY DEF Spent, SumFunction
<1>6. \A j \in J \ {e} : u[j] = v[j] OBVIOUS
<1> HIDE DEF u, v
<1>7. SumFunctionOnSet(v, J) = v[e] + SumFunctionOnSet(v, J \ {e}) BY <1>2, <1>3, SumLess
<1>8. SumFunctionOnSet(u, J \ {e}) = SumFunctionOnSet(v, J \ {e})
  BY <1>2, <1>3, <1>6, SumSame, FS_Subset
<1> QED BY <1>3, <1>4, <1>5, <1>7, <1>8

\* the same by another ledger with the same amounts,
LEMMA SpentSame ==
  ASSUME NEW book, NEW other, NEW J, \A j \in J : book[j].amount = other[j].amount
  PROVE  Spent(book, J) = Spent(other, J)
<1>1. [j \in J |-> book[j].amount] = [j \in J |-> other[j].amount] OBVIOUS
<1> QED BY <1>1 DEF Spent

\* and not more than the events count to, if they are all among the events.
LEMMA SpentCounted ==
  ASSUME NEW book \in Seq(Tx), NEW J \in SUBSET (1..Len(book)),
         NEW es \in SUBSET Deposit, IsFiniteSet(es), \A j \in J : book[j] \in es,
         \A i, j \in J : book[i] = book[j] => i = j
  PROVE  Spent(book, J) <= SumFunction([e \in es |-> e.amount])
<1> DEFINE v == [j \in J |-> book[j].amount]  f == [e \in es |-> e.amount]
           to == [j \in J |-> book[j]]
<1>1. IsFiniteSet(J)
  <2>1. IsFiniteSet(1..Len(book)) BY FS_Interval
  <2> QED BY <2>1, FS_Subset
<1>2. to \in [J -> es] /\ \A i, j \in J : to[i] = to[j] => i = j OBVIOUS
<1>3. \A j \in J : v[j] = f[to[j]] OBVIOUS
<1>4. \A e \in es : f[e] \in Nat BY DEF Deposit
<1>5. Spent(book, J) = SumFunctionOnSet(v, J) BY DEF Spent, SumFunction
<1>6. SumFunction(f) = SumFunctionOnSet(f, es) BY DEF SumFunction
<1> HIDE DEF v, f, to
<1>7. SumFunctionOnSet(v, J) <= SumFunctionOnSet(f, es) BY <1>1, <1>2, <1>3, <1>4, SumInto
<1> QED BY <1>5, <1>6, <1>7 DEF f

\* What does not change of a ledger when a transaction is added to it.
LEMMA BookAppended ==
  ASSUME NEW book \in Seq(Tx), NEW tx \in Tx, tx.done = Never, NEW b2, b2 = Append(book, tx)
  PROVE  /\ b2 \in Seq(Tx) /\ Len(b2) = Len(book) + 1 /\ b2[Len(b2)] = tx
         /\ \A i \in 1..Len(book) : b2[i] = book[i]
         /\ \A t : Since(b2, Len(b2), t) = Since(book, Len(book), t)
<1>1. /\ b2 \in Seq(Tx) /\ Len(b2) = Len(book) + 1 /\ b2[Len(b2)] = tx
      /\ \A i \in 1..Len(book) : b2[i] = book[i]
  OBVIOUS
<1>2. ASSUME NEW t PROVE Since(b2, Len(b2), t) = Since(book, Len(book), t)
  <2>1. \A j \in 1..Len(b2) : j \in 1..Len(book) \/ (j = Len(b2) /\ b2[j].done = Never)
    BY <1>1
  <2>2. \A j \in 1..Len(book) : j \in 1..Len(b2) BY <1>1
  <2> QED BY <1>1, <2>1, <2>2 DEF Since
<1> QED BY <1>1, <1>2

LEMMA AppendBounded ==
  ASSUME NEW book \in Seq(Tx), Bounded(book), NEW tx \in Tx, tx.done = Never,
         NEW b2, b2 = Append(book, tx)
  PROVE  Bounded(b2)
<1>0. b2 \in Seq(Tx) BY BookAppended
<1>1. /\ Len(b2) = Len(book) + 1 /\ b2[Len(b2)] = tx
      /\ \A i \in 1..Len(book) : b2[i] = book[i]
  BY BookAppended
<1> SUFFICES ASSUME NEW i \in 1..Len(b2), b2[i].done # Never
             PROVE  Spent(b2, Since(b2, i, b2[i].done - Day)) <= DailyCap
  BY DEF Bounded
<1>2. i \in 1..Len(book) BY <1>1
<1> DEFINE J == Since(book, i, book[i].done - Day)
<1>3. Since(b2, i, b2[i].done - Day) = J
  <2>1. \A j \in 1..i : j \in 1..Len(book) /\ b2[j] = book[j] BY <1>1, <1>2
  <2> QED BY <1>2, <2>1 DEF Since
<1>4. \A j \in J : b2[j].amount = book[j].amount BY <1>1, <1>2 DEF Since
<1>5. Spent(b2, J) = Spent(book, J) BY <1>4, SpentSame
<1>6. Spent(book, J) <= DailyCap BY <1>1, <1>2 DEF Bounded
<1> QED BY <1>3, <1>5, <1>6

\* A confirmation that comes when its transaction leaves room in the day before
\* it, and after all others, keeps every day within the cap.
LEMMA DateBounded ==
  ASSUME NEW book \in Seq(Tx), Bounded(book), book # <<>>, book[Len(book)].done = Never,
         NEW d \in Nat, NEW t \in Nat, t <= d,
         Spent(book, Since(book, Len(book), t - Day)) + book[Len(book)].amount <= DailyCap
  PROVE  Bounded([book EXCEPT ![Len(book)].done = d])
<1> DEFINE n == Len(book)  b2 == [book EXCEPT ![n].done = d]
<1>1. n \in Nat /\ n \in 1..n /\ book[n] \in Tx OBVIOUS
<1>2. /\ b2 \in Seq(Tx) /\ Len(b2) = n
      /\ b2[n] = [book[n] EXCEPT !.done = d]
      /\ \A i \in 1..(n - 1) : b2[i] = book[i]
  <2>1. [book[n] EXCEPT !.done = d] \in Tx BY <1>1 DEF Tx
  <2> QED BY <1>1, <2>1
<1>3. b2[n].done = d /\ b2[n].amount = book[n].amount BY <1>1, <1>2 DEF Tx
<1> HIDE DEF b2, n
<1>4. \A j \in 1..n : b2[j].amount = book[j].amount
  <2>1. \A j \in 1..n : j = n \/ j \in 1..(n - 1) BY <1>1
  <2> QED BY <1>2, <1>3, <2>1
<1> SUFFICES ASSUME NEW i \in 1..n, b2[i].done # Never
             PROVE  Spent(b2, Since(b2, i, b2[i].done - Day)) <= DailyCap
  BY <1>2 DEF Bounded, b2, n
<1>5. CASE i # n
  <2> DEFINE J == Since(book, i, book[i].done - Day)
  <2>1. i \in 1..(n - 1) /\ i \in 1..Len(book) BY <1>1, <1>5 DEF n
  <2>2. \A j \in 1..i : j \in 1..(n - 1) BY <2>1, <1>1
  <2>3. Since(b2, i, b2[i].done - Day) = J BY <1>2, <2>1, <2>2 DEF Since
  <2>4. \A j \in J : b2[j].amount = book[j].amount BY <1>2, <2>2 DEF Since
  <2>5. Spent(b2, J) = Spent(book, J) BY <2>4, SpentSame
  <2>6. Spent(book, J) <= DailyCap BY <1>2, <2>1 DEF Bounded
  <2> QED BY <2>3, <2>5, <2>6
<1>6. CASE i = n
  <2> DEFINE J == Since(b2, n, d - Day)  K == Since(book, n, t - Day)
  <2>1. Day \in Nat /\ DailyCap \in Nat BY FundingAssumption
  <2>2. d # Never BY FundingAssumption
  <2>3. J \in SUBSET (1..n) /\ K \in SUBSET (1..n) BY DEF Since
  <2>4. n \in J BY <1>1, <1>3, <2>1, <2>2 DEF Since
  <2>5. J \ {n} \in SUBSET K
    <3> SUFFICES ASSUME NEW j \in J \ {n} PROVE j \in K OBVIOUS
    <3>1. j \in 1..(n - 1) /\ j \in 1..n BY <1>1, <2>3
    <3>2. b2[j] = book[j] BY <1>2, <3>1
    <3>3. book[j].done # Never /\ book[j].done >= d - Day BY <3>2 DEF Since
    <3>4. book[j] \in Tx BY <3>1 DEF n
    <3>5. book[j].done \in Nat BY <3>3, <3>4 DEF Tx
    <3>6. book[j].done >= t - Day BY <2>1, <3>3, <3>5
    <3> QED BY <3>1, <3>3, <3>6 DEF Since
  <2>9. Spent(book, K) + book[n].amount <= DailyCap BY DEF n
  <2> HIDE DEF J, K
  <2>6. Spent(b2, J) = b2[n].amount + Spent(b2, J \ {n})
    <3>1. J \in SUBSET (1..Len(b2)) BY <1>2, <2>3
    <3>2. \A e \in J : Spent(b2, J) = b2[e].amount + Spent(b2, J \ {e})
      BY <1>2, <3>1, SpentOne
    <3> QED BY <2>4, <3>2
  <2>7. Spent(b2, J \ {n}) = Spent(book, J \ {n})
    <3>1. \A j \in J \ {n} : b2[j].amount = book[j].amount BY <1>4, <2>3
    <3> QED BY <3>1, SpentSame
  <2>8. /\ Spent(book, J \ {n}) \in Nat /\ Spent(book, J \ {n}) <= Spent(book, K)
        /\ Spent(book, K) \in Nat
    BY <2>3, <2>5, SpentPart DEF n
  <2>10. book[n].amount \in Nat BY <1>1 DEF Tx, n
  <2>11. Spent(b2, J) <= DailyCap
    <3> DEFINE a == book[n].amount  x == Spent(book, J \ {n})  y == Spent(book, K)
    <3>1. Spent(b2, J) = a + x BY <1>3, <2>6, <2>7
    <3>2. a \in Nat /\ x \in Nat /\ y \in Nat /\ x <= y /\ y + a <= DailyCap
      BY <2>8, <2>9, <2>10
    <3> HIDE DEF a, x, y
    <3> QED BY <2>1, <3>1, <3>2
  <2> QED BY <1>3, <1>6, <2>11 DEF J
<1> QED BY <1>5, <1>6

\* What covers a pass covers a later one, also when it is cut to the last day.
LEMMA CoversLater ==
  ASSUME NEW es, NEW book \in Seq(Tx), NEW t \in Nat, NEW u \in Nat, t <= u,
         Covers(es, book, t), NEW r \in Nat, r <= u
  PROVE  Covers(es, book, u) /\ Covers(Recent(es, r), book, u)
<1>1. Day \in Nat BY FundingAssumption
<1>2. ASSUME NEW i \in 1..Len(book), book[i].done # Never, book[i].done >= u - Day
      PROVE  book[i] \in es /\ book[i].done >= r - Day
  <2>1. book[i] \in Tx OBVIOUS
  <2>2. book[i].done \in Nat BY <1>2, <2>1 DEF Tx
  <2> QED BY <1>1, <1>2, <2>2 DEF Covers
<1>3. Recent(es, r) \in SUBSET es BY DEF Recent
<1>4. IsFiniteSet(es) /\ IsFiniteSet(Recent(es, r)) BY <1>3, FS_Subset DEF Covers
<1>5. es \subseteq Deposit BY DEF Covers
<1>6. Recent(es, r) \subseteq Deposit BY <1>3, <1>5
<1>7. \A i \in 1..Len(book) : book[i].done # Never /\ book[i].done >= u - Day =>
        book[i] \in Recent(es, r)
  BY <1>2 DEF Recent
<1> QED BY <1>2, <1>4, <1>5, <1>6, <1>7 DEF Covers

\* No two entries of the ledger are the same: those of one account are planned
\* a cooldown apart, as long as nothing has failed.
LEMMA AllDistinct ==
  ASSUME Shape, Counted, faults = 0
  PROVE  \A i, j \in 1..Len(ledger) : ledger[i] = ledger[j] => i = j
<1>1. ASSUME NEW i \in 1..Len(ledger), NEW j \in 1..Len(ledger), i < j PROVE ledger[i] # ledger[j]
  <2>1. IsFiniteSet(TooSoon(i)) /\ Cardinality(TooSoon(i)) \in Nat
    BY TooSoonFinite DEF Shape
  <2>2. Cardinality(TooSoon(i)) = 0 BY <2>1 DEF Counted
  <2>3. j \notin TooSoon(i) BY <2>1, <2>2, FS_EmptySet
  <2>4. ledger[i].account \in Accounts /\ ledger[i].plan \in Nat BY TxType DEF Shape
  <2>5. Cooldown[ledger[i].account] \in Nat \ {0} BY <2>4, FundingAssumption
  <2>6. Len(ledger) \in Nat BY DEF Shape
  <2>7. j \in (i + 1)..Len(ledger) BY <1>1, <2>6
  <2> SUFFICES ASSUME ledger[i] = ledger[j] PROVE FALSE OBVIOUS
  <2>8. ~(ledger[j].plan - ledger[i].plan < Cooldown[ledger[i].account])
    BY <2>3, <2>7 DEF TooSoon
  <2> QED BY <2>4, <2>5, <2>8
<1> QED BY <1>1

LEMMA CapInit == Init => CapInv
<1> SUFFICES ASSUME Init PROVE CapInv OBVIOUS
<1>1. Len(ledger) = 0 BY DEF Init
<1>2. IsFiniteSet({}) BY FS_EmptySet
<1>3. Covers(disk.events, ledger, Clock) BY <1>1, <1>2 DEF Covers, Init
<1>4. Bounded(ledger) BY <1>1 DEF Bounded
<1>5. InOrder BY <1>1 DEF InOrder
<1>6. UnderWay BY DEF UnderWay, Init
<1> QED BY <1>3, <1>4, <1>5, <1>6 DEF CapInv, Init

\* A step that leaves the ledger alone and brings no new deposit leaves the cap to
\* what is remembered.
LEMMA CapFrame ==
  ASSUME Shape, Shape', CapInv, faults = 0, faults' = 0, ledger' = ledger, now <= now',
         phase' = "confirm" => phase = "confirm" /\ UNCHANGED <<sent, passAt>>,
         phase' # "down" => Covers(events', ledger, Clock'),
         phase' \in {"down", "idle"} => Covers(disk'.events, ledger, Clock')
  PROVE  CapInv'
<1>1. Bounded(ledger') BY DEF CapInv
<1>2. now \in Nat /\ now' \in Nat BY DEF Shape
<1>3. \A i \in 1..Len(ledger) : ledger[i].done # Never => ledger[i].done \in Nat
  <2>1. \A i \in 1..Len(ledger) : ledger[i] \in Tx BY DEF Shape
  <2> QED BY <2>1 DEF Tx
<1>4. InOrder' BY <1>2, <1>3 DEF CapInv, InOrder
<1>5. UnderWay'
  <2> SUFFICES ASSUME phase' = "confirm"
               PROVE  /\ sent'[1] \in Deposit /\ passAt' <= sent'[1].done /\ sent'[1].done <= now'
                      /\ ledger'[Len(ledger')] = [sent'[1] EXCEPT !.done = Never]
                      /\ Spent(ledger', Since(ledger', Len(ledger'), passAt' - Day)) + sent'[1].amount <= DailyCap
    BY DEF UnderWay
  <2>1. UnderWay /\ phase = "confirm" /\ sent' = sent /\ passAt' = passAt BY DEF CapInv
  <2>2. sent[1].done \in Nat BY <2>1 DEF Shape
  <2> QED BY <1>2, <2>1, <2>2 DEF UnderWay
<1> QED BY <1>1, <1>4, <1>5 DEF CapInv

\* What the events add up to is a number.
LEMMA DailySpentType ==
  ASSUME NEW es, IsFiniteSet(es), es \subseteq Deposit, NEW t
  PROVE  DailySpent(es, t) \in Nat
<1> DEFINE R == Recent(es, t)  f == [e \in R |-> e.amount]
<1>1. R \in SUBSET es BY DEF Recent
<1>2. IsFiniteSet(R) BY <1>1, FS_Subset
<1>3. \A e \in R : f[e] \in Nat BY <1>1 DEF Deposit
<1>4. DOMAIN f = R OBVIOUS
<1>5. DailySpent(es, t) = SumFunctionOnSet(f, R) BY <1>4 DEF DailySpent, SumFunction
<1> HIDE DEF f, R
<1> QED BY <1>2, <1>3, <1>5, SumType

\* A deposit is made only if it fits in the day before the pass, with all the
\* confirmed ones of that day: the events hold them.
LEMMA CapBroadcast ==
  ASSUME Shape, Shape', Counted, CapInv, faults = 0, NEW amount \in Amounts, Broadcast(amount)
  PROVE  CapInv'
<1> DEFINE n == Len(ledger)
           tx == [account |-> Current, amount |-> amount, plan |-> passAt, done |-> now]
           lost == [account |-> Current, amount |-> amount, plan |-> passAt, done |-> Never]
           J == Since(ledger, n, passAt - Day)
           es == Recent(events, passAt)
<1>1. /\ phase = "pass" /\ phase' = "confirm" /\ Current \in Accounts /\ amount \in Nat
      /\ UnderCap(amount) /\ UNCHANGED <<passAt, events, disk, now, faults>>
      /\ now \in Nat /\ passAt \in Nat /\ passAt <= now /\ Day \in Nat /\ DailyCap \in Nat
  BY CurrentIsAccount, FundingAssumption DEF Broadcast, InPass, Shape, memory
<1>2. /\ ledger' = Append(ledger, lost) /\ sent'[1] = tx
      /\ lost \in Tx /\ tx \in Deposit /\ lost = [tx EXCEPT !.done = Never]
  BY <1>1, Lost DEF Broadcast, Deposit
<1>3. tx.done = now /\ tx.amount = amount /\ lost.done = Never OBVIOUS
<1>4. Clock = passAt /\ Clock' = passAt BY <1>1 DEF Clock
<1>5. Bounded(ledger) /\ InOrder /\ Covers(events, ledger, passAt) /\ ledger \in Seq(Tx)
  BY <1>1, <1>4 DEF CapInv, Shape
<1> HIDE DEF tx, lost
<1>6. /\ ledger' \in Seq(Tx) /\ Len(ledger') = n + 1 /\ ledger'[n + 1] = lost
      /\ \A i \in 1..n : ledger'[i] = ledger[i]
      /\ Since(ledger', n + 1, passAt - Day) = J
  <2>1. ledger \in Seq(Tx) /\ lost \in Tx /\ lost.done = Never /\ ledger' = Append(ledger, lost)
    BY <1>2, <1>3, <1>5
  <2>2. /\ ledger' \in Seq(Tx) /\ Len(ledger') = n + 1 /\ ledger'[Len(ledger')] = lost
        /\ \A i \in 1..n : ledger'[i] = ledger[i]
    BY <2>1, BookAppended
  <2>3. \A t : Since(ledger', Len(ledger'), t) = Since(ledger, n, t)
    BY <2>1, BookAppended
  <2> QED BY <2>2, <2>3
<1>7. n \in Nat /\ \A i \in 1..(n + 1) : i \in 1..n \/ i = n + 1 BY <1>5
<1>8. Bounded(ledger')
  <2>1. ledger \in Seq(Tx) /\ lost \in Tx /\ lost.done = Never /\ ledger' = Append(ledger, lost)
    BY <1>2, <1>3, <1>5
  <2> QED BY <1>5, <2>1, AppendBounded
<1>9. Covers(events', ledger', passAt)
  <2> SUFFICES ASSUME NEW i \in 1..(n + 1), ledger'[i].done # Never, ledger'[i].done >= passAt - Day
               PROVE  ledger'[i] \in events
    BY <1>1, <1>5, <1>6 DEF Covers
  <2>1. i \in 1..n BY <1>3, <1>6, <1>7
  <2> QED BY <1>5, <1>6, <2>1 DEF Covers
<1>10. InOrder'
  <2>1. \A i \in 1..(n + 1) : ledger'[i].done # Never => i \in 1..n /\ ledger'[i] = ledger[i]
    BY <1>3, <1>6, <1>7
  <2>2. sent'[1].done = now BY <1>2, <1>3
  <2>3. \A i \in 1..n : ledger[i].done # Never => ledger[i].done <= now BY <1>5 DEF InOrder
  <2>4. \A i, j \in 1..n : i < j /\ ledger[i].done # Never /\ ledger[j].done # Never
                             => ledger[i].done <= ledger[j].done
    BY <1>5 DEF InOrder
  <2> QED BY <1>1, <1>6, <2>1, <2>2, <2>3, <2>4 DEF InOrder
<1>11. Spent(ledger', J) + amount <= DailyCap
  <2>1. J \in SUBSET (1..n) BY DEF Since
  <2>2. \A j \in J : ledger'[j].amount = ledger[j].amount BY <1>6, <2>1
  <2>3. Spent(ledger', J) = Spent(ledger, J) BY <2>2, SpentSame
  <2>4. \A j \in J : ledger[j] \in es BY <1>5, <2>1 DEF Since, Covers, Recent
  <2>5. es \in SUBSET Deposit /\ IsFiniteSet(es)
    <3>1. es \in SUBSET events BY DEF Recent
    <3> QED BY <1>5, <3>1, FS_Subset DEF Covers
  <2>6. \A i, j \in J : ledger[i] = ledger[j] => i = j BY <2>1, AllDistinct
  <2>7. DailySpent(events, passAt) \in Nat BY <1>5, DailySpentType DEF Covers
  <2>8. Spent(ledger, J) \in Nat BY <1>5, <2>1, SpentPart
  <2> HIDE DEF J
  <2>9. Spent(ledger, J) <= DailySpent(events, passAt)
    <3> HIDE DEF es
    <3>1. Spent(ledger, J) <= SumFunction([e \in es |-> e.amount])
      BY <1>5, <2>1, <2>4, <2>5, <2>6, SpentCounted
    <3> QED BY <3>1 DEF DailySpent, es
  <2>10. DailySpent(events, passAt) + amount <= DailyCap BY <1>1 DEF UnderCap
  <2> QED BY <1>1, <2>3, <2>7, <2>8, <2>9, <2>10
<1>12. UnderWay'
  <2>1. sent'[1] = tx /\ tx \in Deposit /\ tx.done = now /\ tx.amount = amount BY <1>2, <1>3
  <2>2. ledger'[Len(ledger')] = [sent'[1] EXCEPT !.done = Never] BY <1>2, <1>6
  <2>3. Spent(ledger', Since(ledger', Len(ledger'), passAt' - Day)) = Spent(ledger', J)
    BY <1>1, <1>6
  <2> HIDE DEF J
  <2> QED BY <1>1, <1>11, <2>1, <2>2, <2>3 DEF UnderWay
<1> QED BY <1>1, <1>4, <1>8, <1>9, <1>10, <1>12 DEF CapInv

\* A confirmation comes after all others, and is recorded in the ledger and in
\* the events alike.
LEMMA CapConfirmed ==
  ASSUME Shape, Shape', CapInv, faults = 0, Confirmed
  PROVE  CapInv'
<1> DEFINE n == Len(ledger)  tx == sent[1]
<1>1. PICK d \in {tx.done, now} :
        /\ events' = Recent(events, passAt) \cup {[tx EXCEPT !.done = d]}
        /\ ledger' = [ledger EXCEPT ![n].done = d]
  BY DEF Confirmed
<1>2. /\ phase = "confirm" /\ phase' = "pass" /\ UNCHANGED <<passAt, disk, now, faults>>
      /\ Clock = passAt /\ Clock' = passAt
  BY DEF Confirmed, Recorded, Clock
<1>3. /\ Bounded(ledger) /\ InOrder /\ UnderWay /\ Covers(events, ledger, passAt)
      /\ ledger \in Seq(Tx) /\ ledger # <<>> /\ n \in Nat /\ n \in 1..n
  BY <1>2 DEF CapInv, Shape
<1>4. /\ tx \in Deposit /\ passAt <= tx.done /\ tx.done <= now
      /\ ledger[n] = [tx EXCEPT !.done = Never]
      /\ Spent(ledger, Since(ledger, n, passAt - Day)) + tx.amount <= DailyCap
  BY <1>2, <1>3 DEF UnderWay
<1>5. /\ tx.done \in Nat /\ now \in Nat /\ passAt \in Nat /\ Day \in Nat /\ Never \notin Nat
      /\ d \in Nat /\ passAt <= d /\ tx.done <= d /\ d <= now
  <2>1. tx.done \in Nat BY <1>4 DEF Deposit
  <2>2. now \in Nat /\ passAt \in Nat BY DEF Shape
  <2>3. d = tx.done \/ d = now BY <1>1
  <2> HIDE DEF tx
  <2>4. d \in Nat /\ passAt <= d /\ tx.done <= d /\ d <= now BY <1>4, <2>1, <2>2, <2>3
  <2> QED BY <2>1, <2>2, <2>4, FundingAssumption
<1>6. ledger[n].done = Never /\ ledger[n].amount = tx.amount /\ ledger[n] \in Tx
  BY <1>3, <1>4 DEF Deposit
<1>7. ledger'[n] = [tx EXCEPT !.done = d] /\ [tx EXCEPT !.done = d] \in Deposit
  <2>1. ledger'[n] = [ledger[n] EXCEPT !.done = d] BY <1>1, <1>3
  <2> QED BY <1>4, <1>5, <2>1 DEF Deposit
<1>8. Len(ledger') = n /\ \A i \in 1..n : i # n => ledger'[i] = ledger[i]
  BY <1>1, <1>3
<1>9. ledger'[n].done = d BY <1>4, <1>7 DEF Deposit
<1>10. Bounded(ledger')
  BY <1>1, <1>3, <1>4, <1>5, <1>6, DateBounded
<1> HIDE DEF n, tx
<1>11. InOrder'
  <2>1. \A i \in 1..n : ledger[i].done # Never => ledger[i].done <= tx.done /\ ledger[i].done \in Nat
    <3>1. \A i \in 1..n : ledger[i] \in Tx BY <1>3 DEF n
    <3>2. \A i \in 1..n : ledger[i].done # Never => ledger[i].done <= tx.done
      BY <1>2, <1>3 DEF InOrder, n, tx
    <3> QED BY <3>1, <3>2 DEF Tx
  <2>2. ASSUME NEW i \in 1..n, NEW j \in 1..n, i < j, ledger'[i].done # Never, ledger'[j].done # Never
        PROVE  ledger'[i].done <= ledger'[j].done
    <3>1. i # n /\ ledger'[i] = ledger[i] /\ ledger[i].done <= tx.done /\ ledger[i].done \in Nat
      BY <1>3, <1>8, <2>1, <2>2
    <3>2. CASE j = n BY <1>5, <1>9, <3>1, <3>2
    <3>3. CASE j # n
      <4>1. ledger'[j] = ledger[j] BY <1>8, <3>3
      <4> QED BY <1>3, <2>2, <3>1, <4>1 DEF InOrder, n
    <3> QED BY <3>2, <3>3
  <2>3. ASSUME NEW i \in 1..n, ledger'[i].done # Never PROVE ledger'[i].done <= now
    <3>1. CASE i = n BY <1>5, <1>9, <3>1
    <3>2. CASE i # n
      <4>1. ledger'[i] = ledger[i] BY <1>8, <3>2
      <4> QED BY <1>5, <2>1, <2>3, <4>1
    <3> QED BY <3>1, <3>2
  <2> QED BY <1>2, <1>8, <2>2, <2>3 DEF InOrder
<1>12. Covers(events', ledger', passAt)
  <2> DEFINE R == Recent(events, passAt)
  <2>1. Covers(R, ledger, passAt) BY <1>3, <1>5, CoversLater
  <2>2. IsFiniteSet(R) /\ R \subseteq Deposit BY <2>1 DEF Covers
  <2>3. events' = R \cup {[tx EXCEPT !.done = d]} BY <1>1 DEF tx
  <2>4. IsFiniteSet(events') BY <2>2, <2>3, FS_AddElement
  <2>5. events' \subseteq Deposit BY <1>7, <2>2, <2>3
  <2>6. ASSUME NEW i \in 1..n, ledger'[i].done # Never, ledger'[i].done >= passAt - Day
        PROVE  ledger'[i] \in events'
    <3>1. CASE i = n BY <1>7, <2>3, <3>1
    <3>2. CASE i # n
      <4>1. ledger'[i] = ledger[i] BY <1>8, <3>2
      <4>2. ledger[i] \in R BY <2>1, <2>6, <4>1 DEF Covers, n
      <4> QED BY <2>3, <4>1, <4>2
    <3> QED BY <3>1, <3>2
  <2> QED BY <1>8, <2>4, <2>5, <2>6 DEF Covers
<1> QED BY <1>2, <1>10, <1>11, <1>12 DEF CapInv, UnderWay

\* The rest only remembers.
LEMMA CapNext ==
  ASSUME Shape, Shape', Counted, CapInv, [Next]_vars
  PROVE  CapInv'
<1> SUFFICES ASSUME faults' = 0 PROVE CapInv'
  BY DEF CapInv
<1>0. /\ now \in Nat /\ passAt \in Nat /\ passAt <= now /\ Clock \in Nat /\ ledger \in Seq(Tx)
      /\ faults \in Nat /\ now' \in Nat /\ Clock' \in Nat
  BY DEF Shape, Clock
<1>1. ASSUME NEW es, Covers(es, ledger, Clock), NEW r \in Nat, r <= Clock', Clock <= Clock'
      PROVE  Covers(es, ledger, Clock') /\ Covers(Recent(es, r), ledger, Clock')
  BY <1>0, <1>1, CoversLater
<1>2. faults = 0 =>
        /\ phase # "down" => Covers(events, ledger, Clock)
        /\ phase \in {"down", "idle"} => Covers(disk.events, ledger, Clock)
  BY DEF CapInv
<1> USE DEF memory, pass, PassEnds
<1>3. CASE UNCHANGED vars
  <2>1. UNCHANGED <<phase, next, passAt, sent, events, disk, now, faults, ledger>> BY <1>3 DEF vars
  <2>2. Clock' = Clock BY <2>1 DEF Clock
  <2> QED BY <1>0, <1>2, <2>1, <2>2, CapFrame
<1>4. CASE Start
  <2>1. /\ phase = "down" /\ phase' = "idle" /\ events' = Recent(disk.events, now)
        /\ UNCHANGED <<disk, now, faults, ledger>> /\ Clock = now /\ Clock' = now
    BY <1>4 DEF Start, Clock
  <2>2. Covers(disk.events, ledger, Clock') /\ Covers(events', ledger, Clock')
    BY <1>0, <1>1, <1>2, <2>1
  <2> QED BY <1>0, <2>1, <2>2, CapFrame
<1>5. CASE BeginPass
  <2>1. /\ phase = "idle" /\ phase' = "pass"
        /\ UNCHANGED <<events, disk, now, faults, ledger>> /\ Clock = now /\ Clock' = now
    BY <1>5 DEF BeginPass, Clock
  <2> QED BY <1>0, <1>2, <2>1, CapFrame
<1>6. CASE SkipBalance \/ SkipDecision
  <2>1. /\ phase = "pass" /\ phase' = "pass"
        /\ UNCHANGED <<events, disk, now, faults, ledger, passAt>> /\ Clock' = Clock
    BY <1>6 DEF SkipBalance, SkipDecision, InPass, Clock
  <2> QED BY <1>0, <1>2, <2>1, CapFrame
<1>7. CASE DepositDry
  <2>1. /\ phase = "pass" /\ phase' = "pass" /\ events' = Recent(events, passAt)
        /\ UNCHANGED <<disk, now, faults, ledger, passAt>> /\ Clock' = Clock /\ Clock = passAt
    BY <1>7 DEF DepositDry, InPass, Clock
  <2>2. Covers(events', ledger, Clock') BY <1>0, <1>1, <1>2, <2>1
  <2> QED BY <1>0, <2>1, <2>2, CapFrame
<1>8. CASE \E amount \in Amounts : Broadcast(amount)
  <2>1. faults = 0 BY <1>8 DEF Broadcast
  <2> QED BY <1>8, <2>1, CapBroadcast
<1>9. CASE Confirmed
  <2>1. faults = 0 BY <1>9 DEF Confirmed
  <2> QED BY <1>9, <2>1, CapConfirmed
<1>10. CASE BroadcastFails \/ Unconfirmed
  <2>1. /\ phase \in {"pass", "confirm"} /\ phase' = "pass"
        /\ UNCHANGED <<events, disk, now, faults, ledger, passAt>> /\ Clock' = Clock
    BY <1>10 DEF BroadcastFails, Unconfirmed, Recorded, InPass, Clock
  <2> QED BY <1>0, <1>2, <2>1, CapFrame
<1>11. CASE Save
  <2>1. /\ phase = "pass" /\ phase' = "idle" /\ disk'.events = events
        /\ UNCHANGED <<events, now, faults, ledger>> /\ Clock = passAt /\ Clock' = now
    BY <1>11 DEF Save, PassOver, Written, Clock
  <2>2. Covers(events, ledger, Clock') BY <1>0, <1>1, <1>2, <2>1
  <2> QED BY <1>0, <2>1, <2>2, CapFrame
<1>12. CASE SaveFails \/ Crash
  <2>1. faults' = faults + 1 BY <1>12 DEF SaveFails, WriteFails, Crash
  <2> QED BY <1>0, <2>1
<1>13. CASE StopIdle
  <2>1. /\ phase = "idle" /\ phase' = "down"
        /\ UNCHANGED <<disk, now, faults, ledger>> /\ Clock = now /\ Clock' = now
    BY <1>13 DEF StopIdle, Stops, Clock
  <2> QED BY <1>0, <1>2, <2>1, CapFrame
<1>14. CASE Tick
  <2>1. /\ UNCHANGED <<phase, passAt, sent, events, disk, faults, ledger>>
        /\ now <= now' /\ Clock <= Clock'
    BY <1>0, <1>14 DEF Tick, Clock
  <2>2. /\ phase # "down" => Covers(events, ledger, Clock')
        /\ phase \in {"down", "idle"} => Covers(disk.events, ledger, Clock')
    BY <1>0, <1>1, <1>2, <2>1
  <2> QED BY <1>0, <2>1, <2>2, CapFrame
<1> QED BY <1>3, <1>4, <1>5, <1>6, <1>7, <1>8, <1>9, <1>10, <1>11, <1>12, <1>13, <1>14 DEF Next

\* Until something fails, the confirmed deposits of the day that ends with any one
\* of them stay within the cap.
THEOREM CapKept == Spec => []CapRespected
<1>1. Shape /\ CapInv => CapRespected
  <2> SUFFICES ASSUME Shape, CapInv, faults = 0, NEW i \in 1..Len(ledger), ledger[i].done # Never
               PROVE  Spent(ledger, ConfirmedIn(ledger[i].done - Day, ledger[i].done)) <= DailyCap
    BY DEF CapRespected
  <2> DEFINE d == ledger[i].done  n == Len(ledger)  K == ConfirmedIn(d - Day, d)
             Back == {n - k : k \in K}
  <2>1. n \in Nat /\ Day \in Nat /\ ledger \in Seq(Tx) BY FundingAssumption DEF Shape
  <2>2. \A j \in 1..n : ledger[j].done # Never => ledger[j].done \in Nat
    <3>1. \A j \in 1..n : ledger[j] \in Tx BY <2>1
    <3> QED BY <3>1 DEF Tx
  <2>3. d \in Nat /\ i \in K /\ K \in SUBSET (1..n)
    BY <2>1, <2>2 DEF ConfirmedIn
  \* The last of them: none of them is later.
  <2>4. PICK m \in K : \A k \in K : k <= m
    <3>1. Back \in SUBSET Nat /\ Back # {} BY <2>1, <2>3
    <3> HIDE DEF Back
    <3>2. PICK b \in Back : \A c \in Back : b <= c BY <3>1, LeastNumber
    <3> USE DEF Back
    <3> HIDE DEF K
    <3>3. PICK m \in K : b = n - m BY <3>2
    <3>4. \A k \in K : n - m <= n - k BY <3>2, <3>3
    <3> QED BY <2>1, <2>3, <3>3, <3>4
  <2>5. m \in 1..n /\ i <= m /\ ledger[m].done # Never /\ ledger[m].done <= d
    BY <2>2, <2>3, <2>4 DEF ConfirmedIn
  <2>6. ledger[m].done = d
    <3>1. d <= ledger[m].done
      <4>1. CASE i = m BY <2>2, <2>5, <4>1
      <4>2. CASE i # m
        <5>1. i < m BY <2>5, <4>2
        <5> QED BY <2>5, <5>1 DEF CapInv, InOrder
      <4> QED BY <4>1, <4>2
    <3> QED BY <2>2, <2>5, <3>1
  <2> DEFINE W == Since(ledger, m, d - Day)
  <2>7. K \in SUBSET W
    <3> SUFFICES ASSUME NEW k \in K PROVE k \in W OBVIOUS
    <3>1. k <= m /\ k \in 1..n BY <2>3, <2>4
    <3>2. ledger[k].done # Never /\ ledger[k].done >= d - Day
      BY <2>1, <2>2, <2>3, <3>1 DEF ConfirmedIn
    <3> QED BY <2>5, <3>1, <3>2 DEF Since
  <2>8. W \in SUBSET (1..n) BY <2>1, <2>5 DEF Since
  <2>9. Spent(ledger, W) <= DailyCap BY <2>5, <2>6 DEF CapInv, Bounded
  <2> HIDE DEF K, W
  <2>10. Spent(ledger, K) \in Nat /\ Spent(ledger, K) <= Spent(ledger, W)
    BY <2>1, <2>7, <2>8, SpentPart
  <2>11. Spent(ledger, W) \in Nat /\ DailyCap \in Nat
    BY <2>1, <2>8, SpentPart, FundingAssumption
  <2>12. Spent(ledger, K) <= DailyCap BY <2>9, <2>10, <2>11
  <2> QED BY <2>12 DEF K
<1>2. Init => Shape /\ Counted /\ CapInv BY InitCounted, CapInit
<1>3. Shape /\ Counted /\ CapInv /\ [Next]_vars => Shape' /\ Counted' /\ CapInv'
  BY ShapeNext, CountedNext, CapNext
<1> QED BY <1>1, <1>2, <1>3, PTL DEF Spec

-----------------------------------------------------------------------------
(* Minutes and hours                                                        *)

\* A time's minute: which it has reached, and the next not; later times, later
\* minutes.
LEMMA MinuteFacts ==
  ASSUME NEW t \in Nat
  PROVE  /\ MinuteOf(t) \in Nat
         /\ \A b \in Nat : (b + 1) * Minute <= t => b < MinuteOf(t)
         /\ \A b, n \in Nat : b * Minute + n * Minute < t => b + n <= MinuteOf(t)
         /\ \A u \in Nat : t <= u => MinuteOf(t) <= MinuteOf(u)
<1> USE TPSAssumption DEF MinuteOf
<1>1. MinuteOf(t) \in Nat OBVIOUS
<1>2. \A b \in Nat : (b + 1) * Minute <= t => b < MinuteOf(t) OBVIOUS
<1>3. \A u \in Nat : t <= u => MinuteOf(t) <= MinuteOf(u) OBVIOUS
<1>4. ASSUME NEW b \in Nat, NEW n \in Nat, b * Minute + n * Minute < t
      PROVE  b + n <= MinuteOf(t)
  <2>1. (b + n) * Minute = b * Minute + n * Minute OBVIOUS
  <2>2. (b + n) * Minute <= t BY <1>4, <2>1
  <2> QED BY <2>2
<1> QED BY <1>1, <1>2, <1>3, <1>4

\* A minute's hour: later minutes, later hours, and a whole hour later the next.
LEMMA HourFacts ==
  ASSUME NEW b \in Nat
  PROVE  /\ HourOf(b) \in Nat
         /\ \A c \in Nat : b <= c => HourOf(b) <= HourOf(c)
         /\ HourOf(b + PerHour) = HourOf(b) + 1
<1> USE TPSAssumption DEF HourOf
<1>1. Offset \in Nat OBVIOUS
<1>2. HourOf(b) \in Nat BY <1>1
<1>3. \A c \in Nat : b <= c => HourOf(b) <= HourOf(c) BY <1>1
<1>4. HourOf(b + PerHour) = HourOf(b) + 1
  <2> DEFINE x == b + Offset
  <2>1. x \in Nat /\ (b + PerHour) + Offset = x + PerHour BY <1>1
  <2> HIDE DEF x
  <2>2. (x + PerHour) \div PerHour = (x \div PerHour) + 1 BY <2>1
  <2> QED BY <2>1, <2>2 DEF x
<1> QED BY <1>2, <1>3, <1>4

LEMMA TimesAreMinutes ==
  /\ \A b \in Minutes : b \in Nat
  /\ \A h \in Hours : h \in Nat
  /\ IsFiniteSet(Minutes) /\ IsFiniteSet(Hours)
  /\ \A t \in 0..MaxClock : MinuteOf(t) \in Minutes
  /\ \A b \in Minutes : HourOf(b) \in Hours
<1>1. MaxClock \in Nat /\ MinuteOf(MaxClock) \in Nat BY MinuteFacts, TPSAssumption
<1>2. HourOf(MinuteOf(MaxClock)) \in Nat BY <1>1, HourFacts
<1>3. \A t \in 0..MaxClock : MinuteOf(t) \in Nat /\ MinuteOf(t) <= MinuteOf(MaxClock) BY <1>1, MinuteFacts
<1>4. \A b \in Minutes : HourOf(b) \in Nat /\ HourOf(b) <= HourOf(MinuteOf(MaxClock))
  BY <1>1, HourFacts DEF Minutes
<1>5. IsFiniteSet(Minutes) /\ IsFiniteSet(Hours)
  <2>1. MinuteOf(MaxClock) \in Int /\ HourOf(MinuteOf(MaxClock)) \in Int BY <1>1, <1>2
  <2> QED BY <2>1, FS_Interval DEF Minutes, Hours
<1> QED BY <1>1, <1>2, <1>3, <1>4, <1>5 DEF Minutes, Hours

-----------------------------------------------------------------------------
(* What the collector's variables are                                       *)

CollectorTypes ==
  /\ proc \in {"down", "run", "stopping", "leaving"} /\ sess \in {"down", "opened", "read"}
  /\ ignored \in Minutes \cup {-1} /\ clock \in 0..MaxClock
  /\ seen \in SUBSET Blocks /\ wrote \in SUBSET Minutes
  /\ sampler \in [Blocks -> {"none", "queued", "stored"}]
  /\ pending \in [Minutes -> Nat] /\ batch \in [Flushers -> [Minutes -> Nat]]
  /\ span \in [Flushers -> SUBSET Minutes]
  /\ minute \in [Minutes -> Nat] /\ splitMinute \in [Minutes -> Nat] /\ hour \in [Hours -> Nat]

\* Who runs when: the last flush only when the process leaves, a session only
\* before.  Blocks are accepted in sessions, of the past, and sampled, drained
\* and written after they are accepted and, but for samples, their minute's end.
CollectorOK ==
  /\ CollectorTypes
  /\ proc = "down" => seen = {} /\ Idle("ticker")
  /\ proc # "leaving" => Idle("final")
  /\ sess # "down" => ignored # -1 /\ proc \in {"run", "stopping"}
  /\ sess = "read" => dropAt \in cut /\ dropAt \in Minutes
  /\ ignored <= MinuteOf(clock)
  /\ seen # {} => ignored # -1
  /\ \A h \in Blocks : sampler[h] # "none" => h \in seen
  /\ \A h \in seen : BlockTime[h] <= clock
  /\ \A f \in Flushers, b \in Minutes :
       batch[f][b] > 0 \/ b \in span[f] => Finished(b) /\ In(seen, b) # {}
  /\ \A b \in Minutes : pending[b] > 0 => In(seen, b) # {}

\* The minute of a block.
LEMMA BlockMinute ==
  ASSUME NEW h \in Blocks
  PROVE  /\ BlockTime[h] \in Nat /\ BlockTime[h] <= MaxClock /\ NumTxs[h] \in Nat
         /\ MinuteOf(BlockTime[h]) \in Minutes /\ MinuteOf(BlockTime[h]) \in Nat
<1>1. BlockTime[h] \in 0..MaxClock /\ NumTxs[h] \in Nat /\ MaxClock \in Nat BY TPSAssumption
<1>2. MinuteOf(BlockTime[h]) \in Minutes BY <1>1, TimesAreMinutes
<1>3. \A b \in Minutes : b \in Nat BY TimesAreMinutes
<1> QED BY <1>1, <1>2, <1>3

\* A refresh leaves each hour a sum of minutes or as it was.
LEMMA SumOfMinutes ==
  ASSUME NEW rows \in [Minutes -> Nat], NEW bs \in SUBSET Minutes
  PROVE  SumOf(rows, bs) \in Nat
BY TimesAreMinutes, FS_Subset, SumType DEF SumOf

LEMMA RollupsType ==
  ASSUME NEW rows \in [Minutes -> Nat], NEW hours \in [Hours -> Nat], NEW bs
  PROVE  Rollups(rows, hours, bs) \in [Hours -> Nat]
<1>1. \A h : MinutesOf(h) \in SUBSET Minutes BY DEF MinutesOf
<1> QED BY <1>1, SumOfMinutes DEF Rollups

LEMMA CollectorInitOK == CollectorInit => CollectorOK
<1> SUFFICES ASSUME CollectorInit PROVE CollectorOK OBVIOUS
<1>1. 0 \in 0..MaxClock /\ MinuteOf(0) \in Nat BY MinuteFacts, TPSAssumption
<1>2. CollectorTypes
  BY <1>1 DEF CollectorInit, CollectorTypes, NoCounts
<1>3. Idle("ticker") /\ Idle("final") BY DEF CollectorInit, Idle, NoCounts, Flushers
<1>4. \A f \in Flushers, b \in Minutes : batch[f][b] = 0 /\ span[f] = {}
  BY DEF CollectorInit, NoCounts
<1>5. sess = "down" /\ seen = {} /\ ignored = -1 /\ (\A h \in Blocks : sampler[h] = "none")
      /\ \A b \in Minutes : pending[b] = 0
  BY DEF CollectorInit, NoCounts
<1>6. ignored <= MinuteOf(clock) BY <1>1 DEF CollectorInit
<1> QED
  BY <1>2, <1>3, <1>4, <1>5, <1>6 DEF CollectorOK

LEMMA ForgottenOK ==
  ASSUME Forgotten
  PROVE  /\ sess' = "down" /\ ignored' = -1 /\ seen' = {} /\ wrote' = {}
         /\ sampler' \in [Blocks -> {"none", "queued", "stored"}]
         /\ \A h \in Blocks : sampler'[h] = "none"
         /\ pending' \in [Minutes -> Nat] /\ \A b \in Minutes : pending'[b] = 0
         /\ batch' \in [Flushers -> [Minutes -> Nat]]
         /\ span' \in [Flushers -> SUBSET Minutes]
         /\ \A f \in Flushers : span'[f] = {} /\ batch'[f] = NoCounts
         /\ \A f \in Flushers, b \in Minutes : batch'[f][b] = 0
         /\ \A f \in Flushers : Idle(f)'
BY DEF Forgotten, NoCounts, Idle

LEMMA CollectorNextTypes ==
  CollectorOK /\ [CollectorNext]_collectorVars => CollectorTypes'
<1> SUFFICES ASSUME CollectorOK, [CollectorNext]_collectorVars PROVE CollectorTypes'
  OBVIOUS
<1> USE DEF CollectorOK, CollectorTypes, sessionVars, accepted, flush, tables, bounds
<1>a. \A b \in Minutes : b \in Nat BY TimesAreMinutes
<1>b. clock \in Nat /\ MinuteOf(clock) \in Minutes BY TimesAreMinutes, TPSAssumption
<1>1. CASE StartCollector
  <2>1. minute' \in [Minutes -> Nat] /\ splitMinute' \in [Minutes -> Nat] BY <1>1 DEF StartCollector, Kept
  <2> QED BY <1>1, <2>1, ForgottenOK DEF StartCollector
<1>2. CASE Terminate BY <1>2 DEF Terminate
<1>3. CASE Exit BY <1>3, ForgottenOK DEF Exit
<1>4. CASE Die BY <1>4, ForgottenOK DEF Die
<1>5. CASE ClockTick BY <1>5, TPSAssumption DEF ClockTick
<1>6. CASE Open
  <2>1. Max({ignored, MinuteOf(clock)}) \in {ignored, MinuteOf(clock)}
    BY <1>a, <1>b DEF Max
  <2> QED BY <1>6, <1>b, <2>1 DEF Open
<1>7. CASE Defer BY <1>7 DEF Defer
<1>8. CASE Disconnect BY <1>8 DEF Disconnect
<1>9. CASE DrainTick
  <2>1. Drained \in [Minutes -> Nat] /\ Left \in [Minutes -> Nat] BY DEF Drained, Left
  <2> QED BY <1>9, <2>1 DEF DrainTick
<1>10. CASE DrainFinal
  <2>1. Drained \in [Minutes -> Nat] /\ Left \in [Minutes -> Nat] BY DEF Drained, Left
  <2> QED BY <1>10, <2>1 DEF DrainFinal
<1>11. ASSUME NEW h \in Blocks, Receive(h) PROVE CollectorTypes'
  <2>1. pending' \in [Minutes -> Nat] BY <1>11, BlockMinute DEF Receive
  <2> QED BY <1>11, <2>1 DEF Receive
<1>12. ASSUME NEW h \in Blocks, StoreSample(h) PROVE CollectorTypes'
  BY <1>12, BlockMinute DEF StoreSample
<1>13. ASSUME NEW h \in Blocks, RollUpSample(h) PROVE CollectorTypes'
  BY <1>13, RollupsType DEF RollUpSample, Refresh
<1>14. ASSUME NEW h \in Blocks, SampleFails(h) PROVE CollectorTypes'
  BY <1>14 DEF SampleFails
<1>15. ASSUME NEW f \in Flushers, RollUp(f) PROVE CollectorTypes'
  BY <1>15, RollupsType DEF RollUp, Refresh
<1>16. ASSUME NEW f \in Flushers, FlushFails(f) PROVE CollectorTypes'
  <2>1. NoCounts \in [Minutes -> Nat] BY DEF NoCounts
  <2> QED BY <1>16, <2>1 DEF FlushFails
<1>17. ASSUME NEW f \in Flushers, NEW b \in Minutes, WriteMinute(f, b) PROVE CollectorTypes'
  BY <1>17 DEF WriteMinute
<1>18. CASE UNCHANGED collectorVars BY <1>18 DEF collectorVars
<1> QED
  BY <1>1, <1>2, <1>3, <1>4, <1>5, <1>6, <1>7, <1>8, <1>9, <1>10, <1>11, <1>12, <1>13, <1>14, <1>15,
     <1>16, <1>17, <1>18 DEF CollectorNext

\* The blocks of a minute, when one more is accepted.
LEMMA OneMore ==
  ASSUME NEW h \in Blocks, seen' = seen \cup {h}, NEW b
  PROVE  In(seen, b)' = IF b = MinuteOf(BlockTime[h]) THEN In(seen, b) \cup {h} ELSE In(seen, b)
BY DEF In

LEMMA CollectorNextOK ==
  CollectorOK /\ [CollectorNext]_collectorVars => CollectorOK'
<1> SUFFICES ASSUME CollectorOK, [CollectorNext]_collectorVars PROVE CollectorOK'
  OBVIOUS
<1>0. CollectorTypes /\ CollectorTypes' BY CollectorNextTypes DEF CollectorOK
<1>a. (\A b \in Minutes : b \in Nat) /\ clock \in Nat /\ MinuteOf(clock) \in Nat /\ MinuteOf(clock) \in Minutes
  <2>1. clock \in 0..MaxClock /\ MaxClock \in Nat BY <1>0, TPSAssumption DEF CollectorTypes
  <2>2. MinuteOf(clock) \in Minutes /\ \A b \in Minutes : b \in Nat BY <2>1, TimesAreMinutes
  <2> QED BY <2>1, <2>2
<1> USE DEF sessionVars, accepted, flush, tables, bounds
<1>1. CASE UNCHANGED <<clock, sess, ignored, cut, dropAt, seen, batch, span, pending>>
           /\ (\A h \in Blocks : sampler'[h] # "none" => sampler[h] # "none") /\ proc' = proc
  BY <1>0, <1>1 DEF CollectorOK, Idle, Finished, In
<1>2. CASE Forgotten /\ clock' = clock
  BY <1>0, <1>2, <1>a, ForgottenOK DEF CollectorOK, Flushers
<1>3. CASE Terminate
  BY <1>0, <1>3 DEF CollectorOK, Terminate, Idle, Finished, In
<1>4. CASE ClockTick
  <2>1. clock' \in Nat /\ clock <= clock' BY <1>4, <1>a DEF ClockTick
  <2>2. MinuteOf(clock) <= MinuteOf(clock') /\ MinuteOf(clock') \in Nat BY <1>a, <2>1, MinuteFacts
  <2>3. \A b \in Minutes : Finished(b) => Finished(b)'
    <3>1. \A b \in Minutes : (b + 1) * Minute + Grace \in Nat BY <1>a, TPSAssumption
    <3> QED BY <1>a, <2>1, <3>1 DEF Finished
  <2>4. ignored' <= MinuteOf(clock)' BY <1>0, <1>4, <1>a, <2>2 DEF CollectorOK, CollectorTypes, ClockTick
  <2>5. \A h \in seen' : BlockTime[h] <= clock'
    BY <1>0, <1>4, <1>a, <2>1, BlockMinute DEF CollectorOK, CollectorTypes, ClockTick
  <2> QED BY <1>0, <1>4, <2>3, <2>4, <2>5 DEF CollectorOK, ClockTick, Idle, In
<1>5. CASE Open
  <2>1. ignored' \in {ignored, MinuteOf(clock)} /\ ignored' >= ignored /\ ignored' >= MinuteOf(clock)
    <3>1. ignored \in Int /\ MinuteOf(clock) \in Int BY <1>0, <1>a DEF CollectorTypes
    <3>2. \A x, y \in Int : Max({x, y}) = IF x >= y THEN x ELSE y BY DEF Max
    <3> QED BY <1>5, <3>1, <3>2 DEF Open
  <2>2. ignored' # -1 /\ ignored' <= MinuteOf(clock) BY <1>0, <1>a, <2>1 DEF CollectorOK, CollectorTypes
  <2> QED BY <1>0, <1>5, <2>2 DEF CollectorOK, Open, Idle, Finished, In
<1>6. CASE Defer
  BY <1>0, <1>6, <1>a DEF CollectorOK, Defer, Idle, Finished, In
<1>7. CASE Disconnect
  <2>1. \A b \in Minutes : pending'[b] > 0 => pending[b] > 0
    BY <1>0, <1>7 DEF Disconnect, CollectorTypes
  <2> QED BY <1>0, <1>7, <2>1 DEF CollectorOK, Disconnect, Idle, Finished, In
<1>8. CASE DrainTick
  <2>1. \A b \in Minutes : /\ pending'[b] > 0 => pending[b] > 0
                           /\ batch'["ticker"][b] > 0 => Finished(b) /\ pending[b] > 0
    BY <1>0, <1>8, <1>a DEF DrainTick, CollectorTypes, Left, Drained, Flushers
  <2>2. \A b : batch'["final"] = batch["final"] BY <1>0, <1>8 DEF DrainTick, CollectorTypes, Flushers
  <2> QED BY <1>0, <1>8, <2>1, <2>2 DEF CollectorOK, DrainTick, Idle, Finished, In, Flushers
<1>9. CASE DrainFinal
  <2>1. \A b \in Minutes : /\ pending'[b] > 0 => pending[b] > 0
                           /\ batch'["final"][b] > 0 => Finished(b) /\ pending[b] > 0
    BY <1>0, <1>9, <1>a DEF DrainFinal, CollectorTypes, Left, Drained, Flushers
  <2>2. batch'["ticker"] = batch["ticker"] BY <1>0, <1>9 DEF DrainFinal, CollectorTypes, Flushers
  <2> QED BY <1>0, <1>9, <2>1, <2>2 DEF CollectorOK, DrainFinal, Idle, Finished, In, Flushers
<1>10. ASSUME NEW h \in Blocks, Receive(h) PROVE CollectorOK'
  <2>1. \A b : In(seen, b) # {} => In(seen, b)' # {} BY <1>10, OneMore DEF Receive
  <2>2. In(seen, MinuteOf(BlockTime[h]))' # {} BY <1>10, OneMore DEF Receive
  <2>3. \A b \in Minutes : b # MinuteOf(BlockTime[h]) => pending'[b] = pending[b]
    BY <1>0, <1>10 DEF Receive, CollectorTypes
  <2>4. \A g \in Blocks : g # h => sampler'[g] = sampler[g] BY <1>0, <1>10 DEF Receive, CollectorTypes
  <2>5. \A b \in Minutes : Finished(b)' = Finished(b) BY <1>10 DEF Receive, Finished
  <2> QED BY <1>0, <1>10, <2>1, <2>2, <2>3, <2>4, <2>5 DEF CollectorOK, Receive, Idle
<1>11. ASSUME NEW f \in Flushers, RollUp(f) \/ FlushFails(f) \/ \E b \in Minutes : WriteMinute(f, b)
       PROVE  CollectorOK'
  <2>1. UNCHANGED <<proc, sess, ignored, cut, dropAt, seen, sampler, pending, clock>>
    BY <1>11 DEF RollUp, FlushFails, WriteMinute
  <2>2. \A g \in Flushers, b \in Minutes :
          batch'[g][b] > 0 \/ b \in span'[g] => batch[g][b] > 0 \/ b \in span[g]
    <3>1. CASE RollUp(f) BY <1>0, <3>1 DEF RollUp, CollectorTypes
    <3>2. CASE FlushFails(f) BY <1>0, <3>2 DEF FlushFails, CollectorTypes, NoCounts
    <3>3. ASSUME NEW c \in Minutes, WriteMinute(f, c)
          PROVE  \A g \in Flushers, b \in Minutes :
                   batch'[g][b] > 0 \/ b \in span'[g] => batch[g][b] > 0 \/ b \in span[g]
      BY <1>0, <3>3 DEF WriteMinute, CollectorTypes
    <3> QED BY <1>11, <3>1, <3>2, <3>3
  <2>3. \A g \in Flushers : Idle(g) => Idle(g)'
    <3>1. CASE RollUp(f) BY <1>0, <3>1 DEF RollUp, CollectorTypes, Idle
    <3>2. CASE FlushFails(f) BY <1>0, <3>2 DEF FlushFails, CollectorTypes, Idle
    <3>3. ASSUME NEW c \in Minutes, WriteMinute(f, c) PROVE \A g \in Flushers : Idle(g) => Idle(g)'
      <4>1. ~Idle(f) BY <3>3 DEF WriteMinute, Idle, NoCounts
      <4>2. \A g \in Flushers : g # f => batch'[g] = batch[g] /\ span'[g] = span[g]
        BY <1>0, <3>3 DEF WriteMinute, CollectorTypes
      <4> QED BY <4>1, <4>2 DEF Idle
    <3> QED BY <1>11, <3>1, <3>2, <3>3
  <2> QED BY <1>0, <2>1, <2>2, <2>3 DEF CollectorOK, Finished, In, Flushers
<1> QED
  <2>1. ASSUME NEW h \in Blocks, StoreSample(h) \/ RollUpSample(h) \/ SampleFails(h)
        PROVE  /\ UNCHANGED <<clock, sess, ignored, cut, dropAt, seen, batch, span, pending>> /\ proc' = proc
               /\ \A g \in Blocks : sampler'[g] # "none" => sampler[g] # "none"
    BY <1>0, <2>1 DEF StoreSample, RollUpSample, SampleFails, CollectorTypes
  <2>2. CASE UNCHANGED collectorVars BY <1>1, <2>2 DEF collectorVars
  <2>3. StartCollector \/ Exit \/ Die => Forgotten /\ clock' = clock BY DEF StartCollector, Exit, Die
  <2> QED BY <1>1, <1>2, <1>3, <1>4, <1>5, <1>6, <1>7, <1>8, <1>9, <1>10, <1>11, <2>1, <2>2, <2>3 DEF CollectorNext

-----------------------------------------------------------------------------
(* Counts                                                                   *)

\* What has been counted of a minute and not yet written, and which of its
\* blocks wait for the sampler.
InMemory(b) == pending[b] + batch["ticker"][b] + batch["final"][b]
Sampled(b) == {h \in In(seen, b) : sampler[h] = "queued"}

\* A row is written when its minute is over, and a sample of the past.  A minute
\* of which this process has accepted nothing is not in memory, and if it has
\* been written, by another process, no session accepts it.  Of the others,
\* memory and row together are not more than the accepted blocks account for.
CountedRight(b) ==
  /\ minute[b] > 0 => Finished(b)
  /\ splitMinute[b] > 0 => b <= MinuteOf(clock)
  /\ minute[b] <= TxsOf(In(Blocks, b)) /\ splitMinute[b] <= Cardinality(In(Blocks, b))
  /\ In(seen, b) = {} =>
       /\ InMemory(b) = 0
       /\ (minute[b] > 0 \/ splitMinute[b] > 0) /\ ignored # -1 => b <= ignored
  /\ In(seen, b) # {} =>
       /\ InMemory(b) + minute[b] <= TxsOf(In(seen, b))
       /\ splitMinute[b] + Cardinality(Sampled(b)) <= Cardinality(In(seen, b))

CountInv == \A b \in Minutes : CountedRight(b)

\* The sum over a part of a set, and over a set with one element more.
LEMMA SumPart ==
  ASSUME NEW K, IsFiniteSet(K), NEW f, \A x \in K : f[x] \in Nat, NEW J \in SUBSET K
  PROVE  SumFunctionOnSet(f, J) <= SumFunctionOnSet(f, K)
<1> DEFINE to == [j \in J |-> j]
<1>1. IsFiniteSet(J) BY FS_Subset
<1>2. to \in [J -> K] /\ (\A i, j \in J : to[i] = to[j] => i = j) /\ \A j \in J : f[j] = f[to[j]] OBVIOUS
<1> HIDE DEF to
<1> QED BY <1>1, <1>2, SumInto

LEMMA SumMore ==
  ASSUME NEW S, IsFiniteSet(S), NEW f, \A x \in S : f[x] \in Nat, NEW e, e \notin S, f[e] \in Nat
  PROVE  SumFunctionOnSet(f, S \cup {e}) = f[e] + SumFunctionOnSet(f, S)
<1>1. IsFiniteSet(S \cup {e}) /\ (S \cup {e}) \ {e} = S BY FS_AddElement
<1> QED BY <1>1, SumLess

\* What some blocks of a minute, accepted ones or all, account for.
LEMMA BlocksOf ==
  ASSUME NEW hs \in SUBSET Blocks, NEW b
  PROVE  /\ IsFiniteSet(In(hs, b)) /\ TxsOf(In(hs, b)) \in Nat /\ Cardinality(In(hs, b)) \in Nat
         /\ TxsOf(In(hs, b)) <= TxsOf(In(Blocks, b))
         /\ Cardinality(In(hs, b)) <= Cardinality(In(Blocks, b))
<1>1. In(hs, b) \in SUBSET Blocks /\ In(Blocks, b) \in SUBSET Blocks /\ In(hs, b) \in SUBSET In(Blocks, b)
  BY DEF In
<1>2. IsFiniteSet(In(hs, b)) /\ IsFiniteSet(In(Blocks, b)) BY <1>1, FS_Subset, TPSAssumption
<1>3. \A h \in In(Blocks, b) : NumTxs[h] \in Nat BY <1>1, TPSAssumption
<1>4. \A h \in In(hs, b) : NumTxs[h] \in Nat BY <1>1, TPSAssumption
<1>5. TxsOf(In(hs, b)) \in Nat BY <1>2, <1>4, SumType DEF TxsOf
<1>6. TxsOf(In(hs, b)) <= TxsOf(In(Blocks, b)) BY <1>1, <1>2, <1>3, SumPart DEF TxsOf
<1> QED BY <1>1, <1>2, <1>5, <1>6, FS_Subset, FS_CardinalityType

\* One block more of its minute.
LEMMA BlockMore ==
  ASSUME NEW hs \in SUBSET Blocks, NEW b, NEW h \in Blocks \ In(hs, b)
  PROVE  /\ TxsOf(In(hs, b) \cup {h}) = TxsOf(In(hs, b)) + NumTxs[h]
         /\ Cardinality(In(hs, b) \cup {h}) = Cardinality(In(hs, b)) + 1
<1>1. IsFiniteSet(In(hs, b)) BY BlocksOf
<1>2. (\A x \in In(hs, b) : NumTxs[x] \in Nat) /\ NumTxs[h] \in Nat BY TPSAssumption DEF In
<1>3. TxsOf(In(hs, b)) \in Nat BY BlocksOf
<1>4. TxsOf(In(hs, b) \cup {h}) = NumTxs[h] + TxsOf(In(hs, b)) BY <1>1, <1>2, SumMore DEF TxsOf
<1>5. Cardinality(In(hs, b) \cup {h}) = Cardinality(In(hs, b)) + 1 BY <1>1, FS_AddElement
<1> QED BY <1>2, <1>3, <1>4, <1>5

\* The numbers that CountedRight is about.
LEMMA CountTypes ==
  ASSUME CollectorTypes, NEW b \in Minutes
  PROVE  /\ b \in Nat /\ minute[b] \in Nat /\ splitMinute[b] \in Nat
         /\ pending[b] \in Nat /\ batch["ticker"][b] \in Nat /\ batch["final"][b] \in Nat /\ InMemory(b) \in Nat
         /\ IsFiniteSet(Sampled(b)) /\ Cardinality(Sampled(b)) \in Nat
         /\ TxsOf(In(seen, b)) \in Nat /\ Cardinality(In(seen, b)) \in Nat
         /\ TxsOf(In(Blocks, b)) \in Nat /\ Cardinality(In(Blocks, b)) \in Nat
         /\ clock \in Nat /\ MinuteOf(clock) \in Nat /\ ignored \in Int
<1>1. seen \in SUBSET Blocks BY DEF CollectorTypes
<1>2. Sampled(b) \in SUBSET In(seen, b) BY DEF Sampled
<1>3. IsFiniteSet(Sampled(b)) BY <1>1, <1>2, BlocksOf, FS_Subset
<1>4. /\ minute[b] \in Nat /\ splitMinute[b] \in Nat /\ pending[b] \in Nat
      /\ batch["ticker"][b] \in Nat /\ batch["final"][b] \in Nat
  BY DEF CollectorTypes, Flushers
<1>5. InMemory(b) \in Nat BY <1>4 DEF InMemory
<1>6. b \in Nat /\ ignored \in Int BY TimesAreMinutes DEF CollectorTypes
<1>7. clock \in 0..MaxClock /\ MaxClock \in Nat BY TPSAssumption DEF CollectorTypes
<1>8. clock \in Nat BY <1>7
<1>9. MinuteOf(clock) \in Nat BY <1>8, MinuteFacts
<1> QED BY <1>1, <1>3, <1>4, <1>5, <1>6, <1>8, <1>9, BlocksOf, FS_CardinalityType

LEMMA CountInitially == CollectorInit => CountInv
<1> SUFFICES ASSUME CollectorInit, NEW b \in Minutes PROVE CountedRight(b) BY DEF CountInv
<1>1. CollectorTypes BY CollectorInitOK DEF CollectorOK
<1>2. minute[b] = 0 /\ splitMinute[b] = 0 /\ In(seen, b) = {} BY DEF CollectorInit, NoCounts, In
<1>3. InMemory(b) = 0 BY DEF CollectorInit, NoCounts, InMemory, Flushers
<1> QED BY <1>1, <1>2, <1>3, CountTypes DEF CountedRight

\* What a step may do to a minute without counting anything in it.
LEMMA CountFrame ==
  ASSUME CollectorTypes, CollectorTypes', NEW b \in Minutes, CountedRight(b),
         UNCHANGED <<seen, minute, splitMinute>>, clock <= clock',
         ignored' # ignored => ignored' >= ignored /\ ignored' >= MinuteOf(clock),
         InMemory(b)' <= InMemory(b), Sampled(b)' \subseteq Sampled(b)
  PROVE  CountedRight(b)'
<1>1. In(seen, b)' = In(seen, b) /\ In(Blocks, b)' = In(Blocks, b) BY DEF In
<1>2. TxsOf(In(seen, b))' = TxsOf(In(seen, b)) /\ TxsOf(In(Blocks, b))' = TxsOf(In(Blocks, b))
  BY <1>1 DEF TxsOf
<1>3. /\ b \in Nat /\ minute[b] \in Nat /\ splitMinute[b] \in Nat /\ InMemory(b) \in Nat
      /\ IsFiniteSet(Sampled(b)) /\ Cardinality(Sampled(b)) \in Nat
      /\ TxsOf(In(seen, b)) \in Nat /\ Cardinality(In(seen, b)) \in Nat
      /\ clock \in Nat /\ MinuteOf(clock) \in Nat /\ ignored \in Int
  BY CountTypes
<1>4. /\ clock' \in Nat /\ ignored' \in Int /\ InMemory(b)' \in Nat /\ Cardinality(Sampled(b))' \in Nat
  <2>1. (InMemory(b) \in Nat)' /\ (Cardinality(Sampled(b)) \in Nat)' BY CountTypes, PTL
  <2>2. clock' \in 0..MaxClock /\ MaxClock \in Nat BY TPSAssumption DEF CollectorTypes
  <2>3. ignored' \in Int BY TimesAreMinutes DEF CollectorTypes
  <2> QED BY <2>1, <2>2, <2>3
<1>5. Cardinality(Sampled(b))' <= Cardinality(Sampled(b)) BY <1>3, FS_Subset
<1>6. MinuteOf(clock) <= MinuteOf(clock)' /\ MinuteOf(clock)' \in Nat BY <1>3, <1>4, MinuteFacts
<1>7. Finished(b) => Finished(b)' /\ b < MinuteOf(clock)
  <2>1. (b + 1) * Minute \in Nat /\ Grace \in Nat BY <1>3, TPSAssumption
  <2>2. Finished(b) => (b + 1) * Minute <= clock /\ Finished(b)' BY <1>3, <1>4, <2>1 DEF Finished
  <2> QED BY <1>3, <2>2, MinuteFacts
<1>8. CASE In(seen, b) = {}
  BY <1>1, <1>2, <1>3, <1>4, <1>6, <1>7, <1>8 DEF CountedRight
<1>9. CASE In(seen, b) # {}
  BY <1>1, <1>2, <1>3, <1>4, <1>5, <1>6, <1>7, <1>9 DEF CountedRight
<1> QED BY <1>8, <1>9

\* What the end of a process, or its start, does to a minute.
LEMMA CountForgotten ==
  ASSUME CollectorTypes, CollectorTypes', NEW b \in Minutes, CountedRight(b), Forgotten, clock' = clock,
         minute'[b] <= minute[b], splitMinute'[b] <= splitMinute[b]
  PROVE  CountedRight(b)'
<1>1. /\ minute[b] \in Nat /\ splitMinute[b] \in Nat
      /\ TxsOf(In(Blocks, b)) \in Nat /\ Cardinality(In(Blocks, b)) \in Nat
  BY CountTypes
<1>2. minute'[b] \in Nat /\ splitMinute'[b] \in Nat BY DEF CollectorTypes
<1>3. TxsOf(In(Blocks, b))' = TxsOf(In(Blocks, b)) /\ Cardinality(In(Blocks, b))' = Cardinality(In(Blocks, b))
  BY DEF TxsOf, In
<1>4. In(seen, b)' = {} /\ ignored' = -1 BY ForgottenOK DEF In
<1>5. InMemory(b)' = 0 BY ForgottenOK DEF InMemory, Flushers
<1>6. Finished(b)' = Finished(b) BY DEF Finished
<1> QED BY <1>1, <1>2, <1>3, <1>4, <1>5, <1>6 DEF CountedRight

\* A block is received.
LEMMA CountReceive ==
  ASSUME CollectorOK, CollectorTypes', CountInv, NEW h \in Blocks, Receive(h), NEW b \in Minutes
  PROVE  CountedRight(b)'
<1> USE DEF sessionVars, accepted, flush, tables, bounds
<1>1. CollectorTypes /\ CountedRight(b) BY DEF CollectorOK, CountInv
<1>2. In(seen, b)' = IF b = MinuteOf(BlockTime[h]) THEN In(seen, b) \cup {h} ELSE In(seen, b)
  BY OneMore DEF Receive
<1>3. UNCHANGED <<minute, splitMinute, clock, ignored, batch>> BY DEF Receive
<1>4. TxsOf(In(Blocks, b))' = TxsOf(In(Blocks, b)) /\ Cardinality(In(Blocks, b))' = Cardinality(In(Blocks, b))
  BY DEF TxsOf, In
<1>5. CASE b # MinuteOf(BlockTime[h])
  <2>1. InMemory(b)' = InMemory(b) BY <1>1, <1>3, <1>5 DEF Receive, CollectorTypes, InMemory
  <2>2. \A g \in In(seen, b) : sampler'[g] = sampler[g]
    BY <1>1, <1>5 DEF Receive, CollectorTypes, In
  <2>3. Sampled(b)' = Sampled(b) BY <1>2, <1>5, <2>2 DEF Sampled
  <2>4. In(seen, b)' = In(seen, b) BY <1>2, <1>5
  <2> QED BY <1>1, <1>3, <1>4, <2>1, <2>3, <2>4 DEF CountedRight, TxsOf, Finished
<1>6. CASE b = MinuteOf(BlockTime[h])
  <2>1. /\ h \notin In(seen, b) /\ In(seen, b)' = In(seen, b) \cup {h} /\ In(seen, b)' # {}
    BY <1>2, <1>6 DEF Receive, In
  <2>2. /\ b \in Nat /\ minute[b] \in Nat /\ splitMinute[b] \in Nat /\ pending[b] \in Nat
        /\ batch["ticker"][b] \in Nat /\ batch["final"][b] \in Nat
        /\ IsFiniteSet(Sampled(b)) /\ Cardinality(Sampled(b)) \in Nat
        /\ TxsOf(In(seen, b)) \in Nat /\ Cardinality(In(seen, b)) \in Nat /\ ignored \in Int
        /\ NumTxs[h] \in Nat
    BY <1>1, CountTypes, BlockMinute
  <2>3. ignored # -1 /\ ~(b <= ignored)
    BY <1>1, <1>6 DEF Receive, Ignored, CollectorOK
  <2>4. /\ InMemory(b) + minute[b] <= TxsOf(In(seen, b))
        /\ splitMinute[b] + Cardinality(Sampled(b)) <= Cardinality(In(seen, b))
    <3>1. CASE In(seen, b) = {}
      <4>1. Sampled(b) = {} BY <3>1 DEF Sampled
      <4>2. Cardinality(Sampled(b)) = 0 BY <4>1, FS_EmptySet
      <4>3. minute[b] = 0 /\ splitMinute[b] = 0 /\ InMemory(b) = 0 BY <1>1, <2>2, <2>3, <3>1 DEF CountedRight
      <4> QED BY <2>2, <4>2, <4>3
    <3> QED BY <1>1, <3>1 DEF CountedRight
  <2>5. InMemory(b)' = InMemory(b) + NumTxs[h]
    BY <1>1, <1>3, <1>6, <2>2 DEF Receive, CollectorTypes, InMemory
  <2>6. /\ TxsOf(In(seen, b))' = TxsOf(In(seen, b)) + NumTxs[h]
        /\ Cardinality(In(seen, b))' = Cardinality(In(seen, b)) + 1
    <3>1. seen \in SUBSET Blocks /\ h \in Blocks \ In(seen, b) BY <1>1, <2>1 DEF CollectorTypes
    <3> QED BY <2>1, <3>1, BlockMore DEF TxsOf
  <2>7. Cardinality(Sampled(b))' <= Cardinality(Sampled(b)) + 1 /\ Cardinality(Sampled(b))' \in Nat
    <3>1. Sampled(b)' \subseteq Sampled(b) \cup {h}
      <4>1. \A g \in Blocks : g # h => sampler'[g] = sampler[g] BY <1>1 DEF Receive, CollectorTypes
      <4>2. In(seen, b) \subseteq Blocks BY <1>1 DEF CollectorTypes, In
      <4>3. \A g \in Sampled(b)' : g \in In(seen, b)' /\ sampler'[g] = "queued" BY DEF Sampled
      <4>4. \A g \in Sampled(b)' : g # h => g \in In(seen, b) /\ sampler[g] = "queued" BY <2>1, <4>1, <4>2, <4>3
      <4> QED BY <4>4 DEF Sampled
    <3>2. IsFiniteSet(Sampled(b) \cup {h}) /\ h \notin Sampled(b)
      BY <2>1, <2>2, FS_AddElement DEF Sampled
    <3>3. Cardinality(Sampled(b) \cup {h}) = Cardinality(Sampled(b)) + 1 BY <2>2, <3>2, FS_AddElement
    <3>4. IsFiniteSet(Sampled(b)') /\ Cardinality(Sampled(b)') <= Cardinality(Sampled(b) \cup {h})
      BY <3>1, <3>2, FS_Subset
    <3> QED BY <3>3, <3>4, FS_CardinalityType
  <2>8. InMemory(b) \in Nat BY <2>2 DEF InMemory
  <2> QED
    BY <1>1, <1>3, <1>4, <2>1, <2>2, <2>4, <2>5, <2>6, <2>7, <2>8 DEF CountedRight, Finished
<1> QED BY <1>5, <1>6

\* A minute is written,
LEMMA CountWrite ==
  ASSUME CollectorOK, CollectorTypes', CountInv, NEW f \in Flushers, NEW c \in Minutes, WriteMinute(f, c),
         NEW b \in Minutes
  PROVE  CountedRight(b)'
<1> USE DEF sessionVars, accepted, bounds
<1>1. CollectorTypes /\ CountedRight(b) BY DEF CollectorOK, CountInv
<1>2. UNCHANGED <<seen, sampler, splitMinute, clock, ignored, pending>> BY DEF WriteMinute
<1>3. /\ In(seen, b)' = In(seen, b) /\ Sampled(b)' = Sampled(b) /\ TxsOf(In(seen, b))' = TxsOf(In(seen, b))
      /\ TxsOf(In(Blocks, b))' = TxsOf(In(Blocks, b)) /\ Cardinality(In(Blocks, b))' = Cardinality(In(Blocks, b))
      /\ Finished(b)' = Finished(b)
  BY <1>2 DEF TxsOf, In, Sampled, Finished
<1>4. CASE b # c
  <2>1. minute'[b] = minute[b] /\ batch'["ticker"][b] = batch["ticker"][b] /\ batch'["final"][b] = batch["final"][b]
    BY <1>1, <1>4 DEF WriteMinute, CollectorTypes, Flushers
  <2>2. InMemory(b)' = InMemory(b) BY <1>2, <2>1 DEF InMemory
  <2> QED BY <1>1, <1>2, <1>3, <2>1, <2>2 DEF CountedRight
<1>5. CASE b = c
  <2>1. /\ minute[b] \in Nat /\ splitMinute[b] \in Nat /\ pending[b] \in Nat
        /\ batch["ticker"][b] \in Nat /\ batch["final"][b] \in Nat /\ batch[f][b] \in Nat
        /\ TxsOf(In(seen, b)) \in Nat /\ TxsOf(In(Blocks, b)) \in Nat
    BY <1>1, CountTypes DEF Flushers
  <2>2. Finished(b) /\ In(seen, b) # {} BY <1>5 DEF WriteMinute, CollectorOK
  <2>3. InMemory(b)' + minute'[b] = InMemory(b) + minute[b] /\ minute'[b] \in Nat
        /\ InMemory(b) \in Nat /\ InMemory(b)' \in Nat
    <3>1. minute'[b] = minute[b] + batch[f][b] BY <1>1, <1>5 DEF WriteMinute, CollectorTypes
    <3>2. CASE f = "ticker"
      <4>1. batch'["ticker"][b] = 0 /\ batch'["final"][b] = batch["final"][b]
        BY <1>1, <1>5, <3>2 DEF WriteMinute, CollectorTypes, Flushers
      <4> QED BY <1>2, <2>1, <3>1, <3>2, <4>1 DEF InMemory
    <3>3. CASE f = "final"
      <4>1. batch'["final"][b] = 0 /\ batch'["ticker"][b] = batch["ticker"][b]
        BY <1>1, <1>5, <3>3 DEF WriteMinute, CollectorTypes, Flushers
      <4> QED BY <1>2, <2>1, <3>1, <3>3, <4>1 DEF InMemory
    <3> QED BY <3>2, <3>3 DEF Flushers
  <2>4. TxsOf(In(seen, b)) <= TxsOf(In(Blocks, b)) BY <1>1, BlocksOf DEF CollectorTypes
  <2> QED BY <1>1, <1>2, <1>3, <2>1, <2>2, <2>3, <2>4 DEF CountedRight
<1> QED BY <1>4, <1>5

\* and a sample stored.
LEMMA CountSample ==
  ASSUME CollectorOK, CollectorTypes', CountInv, NEW h \in Blocks, StoreSample(h), NEW b \in Minutes
  PROVE  CountedRight(b)'
<1> USE DEF sessionVars, accepted, flush, bounds
<1>1. CollectorTypes /\ CountedRight(b) BY DEF CollectorOK, CountInv
<1>2. UNCHANGED <<seen, minute, clock, ignored, pending, batch>> BY DEF StoreSample
<1>3. /\ In(seen, b)' = In(seen, b) /\ TxsOf(In(seen, b))' = TxsOf(In(seen, b))
      /\ TxsOf(In(Blocks, b))' = TxsOf(In(Blocks, b)) /\ Cardinality(In(Blocks, b))' = Cardinality(In(Blocks, b))
      /\ Finished(b)' = Finished(b) /\ InMemory(b)' = InMemory(b)
  BY <1>2 DEF TxsOf, In, Finished, InMemory
<1>4. CASE b # MinuteOf(BlockTime[h])
  <2>1. splitMinute'[b] = splitMinute[b] BY <1>1, <1>4 DEF StoreSample, CollectorTypes
  <2>2. \A g \in In(seen, b) : sampler'[g] = sampler[g] BY <1>1, <1>4 DEF StoreSample, CollectorTypes, In
  <2>3. Sampled(b)' = Sampled(b) BY <1>3, <2>2 DEF Sampled
  <2> QED BY <1>1, <1>2, <1>3, <2>1, <2>3 DEF CountedRight
<1>5. CASE b = MinuteOf(BlockTime[h])
  <2>1. /\ splitMinute[b] \in Nat /\ IsFiniteSet(Sampled(b)) /\ Cardinality(In(seen, b)) \in Nat
        /\ Cardinality(In(Blocks, b)) \in Nat /\ MinuteOf(clock) \in Nat /\ b \in Nat /\ clock \in Nat
    BY <1>1, CountTypes
  <2>2. sampler[h] = "queued" /\ h \in seen /\ h \in In(seen, b) /\ BlockTime[h] <= clock
    BY <1>5 DEF StoreSample, CollectorOK, In
  <2>3. splitMinute'[b] = splitMinute[b] + 1 BY <1>1, <1>5 DEF StoreSample, CollectorTypes
  <2>4. Sampled(b)' = Sampled(b) \ {h} /\ h \in Sampled(b)
    BY <1>1, <1>3, <2>2 DEF Sampled, StoreSample, CollectorTypes, In
  <2>5. Cardinality(Sampled(b)) = Cardinality(Sampled(b))' + 1 /\ Cardinality(Sampled(b))' \in Nat
    BY <2>1, <2>4, OneLess
  <2>6. b <= MinuteOf(clock) BY <1>5, <2>1, <2>2, BlockMinute, MinuteFacts
  <2>7. Cardinality(In(seen, b)) <= Cardinality(In(Blocks, b)) BY <1>1, BlocksOf DEF CollectorTypes
  <2>8. In(seen, b) # {} BY <2>2
  <2> QED BY <1>1, <1>2, <1>3, <2>1, <2>3, <2>5, <2>6, <2>7, <2>8 DEF CountedRight
<1> QED BY <1>4, <1>5

LEMMA CountNext ==
  CollectorOK /\ CollectorOK' /\ CountInv /\ [CollectorNext]_collectorVars => CountInv'
<1> SUFFICES ASSUME CollectorOK, CollectorOK', CountInv, [CollectorNext]_collectorVars, NEW b \in Minutes
             PROVE  CountedRight(b)'
  BY DEF CountInv
<1>0. CollectorTypes /\ CollectorTypes' /\ CountedRight(b) BY DEF CollectorOK, CountInv
<1>n. /\ b \in Nat /\ minute[b] \in Nat /\ splitMinute[b] \in Nat /\ pending[b] \in Nat
      /\ batch["ticker"][b] \in Nat /\ batch["final"][b] \in Nat /\ InMemory(b) \in Nat
      /\ clock \in Nat /\ MinuteOf(clock) \in Nat /\ ignored \in Int
  BY <1>0, CountTypes
<1> USE DEF sessionVars, accepted, flush, tables, bounds
<1>1. CASE UNCHANGED <<seen, minute, splitMinute, clock, ignored, pending, batch>>
           /\ \A h \in Blocks : sampler'[h] = "queued" => sampler[h] = "queued"
  <2>1. InMemory(b)' = InMemory(b) /\ In(seen, b)' = In(seen, b) /\ In(seen, b) \subseteq Blocks
    BY <1>0, <1>1 DEF InMemory, In, CollectorTypes
  <2>2. Sampled(b)' \subseteq Sampled(b) BY <1>1, <2>1 DEF Sampled
  <2> QED BY <1>0, <1>1, <1>n, <2>1, <2>2, CountFrame
<1>2. CASE StartCollector
  <2>1. /\ minute'[b] = minute[b] \/ minute'[b] = 0
        /\ splitMinute'[b] = splitMinute[b] \/ splitMinute'[b] = 0
    BY <1>2 DEF StartCollector, Kept
  <2>2. minute'[b] <= minute[b] /\ splitMinute'[b] <= splitMinute[b] BY <1>n, <2>1
  <2> QED BY <1>0, <1>2, <2>2, CountForgotten DEF StartCollector
<1>3. CASE Exit \/ Die
  <2>1. Forgotten /\ UNCHANGED <<clock, minute, splitMinute>> BY <1>3 DEF Exit, Die
  <2>2. minute'[b] <= minute[b] /\ splitMinute'[b] <= splitMinute[b] BY <1>n, <2>1
  <2> QED BY <1>0, <2>1, <2>2, CountForgotten
<1>4. CASE ClockTick
  <2>1. InMemory(b)' = InMemory(b) /\ Sampled(b)' = Sampled(b) BY <1>4 DEF InMemory, Sampled, In, ClockTick
  <2> QED BY <1>0, <1>4, <1>n, <2>1, CountFrame DEF ClockTick
<1>5. CASE Open
  <2>1. InMemory(b)' = InMemory(b) /\ Sampled(b)' = Sampled(b) BY <1>5 DEF InMemory, Sampled, In, Open
  <2>2. ignored' >= ignored /\ ignored' >= MinuteOf(clock)
    <3>1. \A x, y \in Int : Max({x, y}) = IF x >= y THEN x ELSE y BY DEF Max
    <3> QED BY <1>5, <1>n, <3>1 DEF Open
  <2>3. UNCHANGED <<seen, minute, splitMinute, clock>> BY <1>5 DEF Open
  <2>4. clock <= clock' /\ InMemory(b)' <= InMemory(b) /\ Sampled(b)' \subseteq Sampled(b)
    BY <1>n, <2>1, <2>3
  <2> QED BY <1>0, <2>2, <2>3, <2>4, CountFrame
<1>6. CASE Disconnect
  <2>1. Sampled(b)' = Sampled(b) /\ pending'[b] \in {0, pending[b]} /\ batch' = batch
    BY <1>0, <1>6 DEF Sampled, In, Disconnect, CollectorTypes
  <2>2. InMemory(b)' <= InMemory(b) BY <1>n, <2>1 DEF InMemory
  <2> QED BY <1>0, <1>6, <1>n, <2>1, <2>2, CountFrame DEF Disconnect
<1>7. CASE DrainTick
  <2>1. /\ batch["ticker"][b] = 0 /\ batch'["final"] = batch["final"]
        /\ pending'[b] = (IF Finished(b) THEN 0 ELSE pending[b])
        /\ batch'["ticker"][b] = (IF Finished(b) THEN pending[b] ELSE 0)
    BY <1>0, <1>7 DEF DrainTick, Idle, NoCounts, Left, Drained, CollectorTypes, Flushers
  <2>2. InMemory(b)' = InMemory(b) /\ Sampled(b)' = Sampled(b)
    BY <1>n, <1>7, <2>1 DEF InMemory, DrainTick, Sampled, In
  <2> QED BY <1>0, <1>7, <1>n, <2>2, CountFrame DEF DrainTick
<1>8. CASE DrainFinal
  <2>1. /\ batch["final"][b] = 0 /\ batch'["ticker"] = batch["ticker"]
        /\ pending'[b] = (IF Finished(b) THEN 0 ELSE pending[b])
        /\ batch'["final"][b] = (IF Finished(b) THEN pending[b] ELSE 0)
    BY <1>0, <1>8 DEF DrainFinal, Idle, NoCounts, Left, Drained, CollectorOK, CollectorTypes, Flushers
  <2>2. InMemory(b)' = InMemory(b) /\ Sampled(b)' = Sampled(b)
    BY <1>n, <1>8, <2>1 DEF InMemory, DrainFinal, Sampled, In
  <2> QED BY <1>0, <1>8, <1>n, <2>2, CountFrame DEF DrainFinal
<1>9. ASSUME NEW h \in Blocks, Receive(h) PROVE CountedRight(b)'
  BY <1>0, <1>9, CountReceive
<1>10. ASSUME NEW h \in Blocks, StoreSample(h) PROVE CountedRight(b)'
  BY <1>0, <1>10, CountSample
<1>11. ASSUME NEW f \in Flushers, FlushFails(f) PROVE CountedRight(b)'
  <2>1. /\ batch'["ticker"][b] \in {0, batch["ticker"][b]} /\ batch'["final"][b] \in {0, batch["final"][b]}
        /\ pending' = pending
    BY <1>0, <1>11 DEF FlushFails, NoCounts, CollectorTypes, Flushers
  <2>2. InMemory(b)' <= InMemory(b) BY <1>n, <2>1 DEF InMemory
  <2>3. Sampled(b)' = Sampled(b) BY <1>11 DEF Sampled, In, FlushFails
  <2> QED BY <1>0, <1>11, <1>n, <2>2, <2>3, CountFrame DEF FlushFails
<1>12. ASSUME NEW f \in Flushers, NEW c \in Minutes, WriteMinute(f, c) PROVE CountedRight(b)'
  BY <1>0, <1>12, CountWrite
<1> QED
  <2>1. ASSUME NEW h \in Blocks, RollUpSample(h) \/ SampleFails(h)
        PROVE  UNCHANGED <<seen, minute, splitMinute, clock, ignored, pending, batch>>
               /\ \A g \in Blocks : sampler'[g] = "queued" => sampler[g] = "queued"
    BY <1>0, <2>1 DEF RollUpSample, SampleFails, CollectorTypes
  <2>2. CASE UNCHANGED collectorVars BY <1>1, <2>2 DEF collectorVars
  <2>3. CASE Terminate \/ Defer BY <1>1, <2>3 DEF Terminate, Defer
  <2>4. ASSUME NEW f \in Flushers, RollUp(f) PROVE CountedRight(b)' BY <1>1, <2>4 DEF RollUp
  <2> QED BY <1>1, <1>2, <1>3, <1>4, <1>5, <1>6, <1>7, <1>8, <1>9, <1>10, <1>11, <1>12, <2>1, <2>2, <2>3, <2>4
          DEF CollectorNext

\* What a step may do to a minute without losing anything of it.
LEMMA ConservedFrame ==
  ASSUME NEW b \in Minutes, Conserved, proc = "run", ~failed, b \notin cut, In(seen, b)' # {}, seen' = seen,
         pending'[b] + batch'["ticker"][b] + minute'[b] = pending[b] + batch["ticker"][b] + minute[b]
  PROVE  TxsOf(In(seen, b))' = pending'[b] + batch'["ticker"][b] + minute'[b]
<1>1. In(seen, b)' = In(seen, b) BY DEF In
<1> QED BY <1>1 DEF Conserved, TxsOf

LEMMA ConservedNext ==
  CollectorOK /\ CollectorOK' /\ CountInv /\ Conserved /\ [CollectorNext]_collectorVars => Conserved'
<1> SUFFICES ASSUME CollectorOK, CollectorOK', CountInv, Conserved, [CollectorNext]_collectorVars,
                    proc' = "run", ~failed', NEW b \in Minutes, b \notin cut', In(seen, b)' # {}
             PROVE  TxsOf(In(seen, b))' = pending'[b] + batch'["ticker"][b] + minute'[b]
  BY DEF Conserved
<1>0. CollectorTypes /\ CollectorTypes' /\ CountedRight(b) BY DEF CollectorOK, CountInv
<1>n. /\ minute[b] \in Nat /\ pending[b] \in Nat /\ batch["ticker"][b] \in Nat /\ batch["final"][b] \in Nat
      /\ b \in Nat /\ splitMinute[b] \in Nat /\ ignored \in Int /\ TxsOf(In(seen, b)) \in Nat
  BY <1>0, CountTypes
<1> DEFINE Goal == TxsOf(In(seen, b))' = pending'[b] + batch'["ticker"][b] + minute'[b]
<1> USE DEF sessionVars, accepted, flush, tables, bounds
<1>1. CASE UNCHANGED <<proc, failed, seen, pending, batch, minute>> /\ cut \subseteq cut'
  BY <1>1, ConservedFrame
<1>2. CASE StartCollector
  <2>1. seen' = {} BY <1>2, ForgottenOK DEF StartCollector
  <2> QED BY <2>1 DEF In
<1>3. CASE Disconnect
  <2>1. dropAt \in cut /\ pending'[b] = pending[b] BY <1>0, <1>3 DEF Disconnect, CollectorOK, CollectorTypes
  <2> QED BY <1>3, <2>1, ConservedFrame DEF Disconnect
<1>4. CASE DrainTick
  <2>1. /\ batch["ticker"][b] = 0
        /\ pending'[b] = (IF Finished(b) THEN 0 ELSE pending[b])
        /\ batch'["ticker"][b] = (IF Finished(b) THEN pending[b] ELSE 0)
    BY <1>0, <1>4 DEF DrainTick, Idle, NoCounts, Left, Drained, CollectorTypes, Flushers
  <2>2. pending'[b] + batch'["ticker"][b] + minute'[b] = pending[b] + batch["ticker"][b] + minute[b]
    BY <1>n, <1>4, <2>1 DEF DrainTick
  <2> QED BY <1>4, <2>2, ConservedFrame DEF DrainTick
<1>5. ASSUME NEW h \in Blocks, Receive(h) PROVE Goal
  <2>1. UNCHANGED <<proc, failed, batch, minute, cut>> /\ proc = "run" /\ ~failed /\ b \notin cut
    BY <1>5 DEF Receive
  <2>2. In(seen, b)' = IF b = MinuteOf(BlockTime[h]) THEN In(seen, b) \cup {h} ELSE In(seen, b)
    BY <1>5, OneMore DEF Receive
  <2>3. CASE b # MinuteOf(BlockTime[h])
    <3>1. pending'[b] = pending[b] /\ In(seen, b)' = In(seen, b)
      BY <1>0, <1>5, <2>2, <2>3 DEF Receive, CollectorTypes
    <3> QED BY <2>1, <3>1 DEF Conserved, TxsOf
  <2>4. CASE b = MinuteOf(BlockTime[h])
    <3>1. pending'[b] = pending[b] + NumTxs[h] /\ NumTxs[h] \in Nat
      BY <1>0, <1>5, <2>4, BlockMinute DEF Receive, CollectorTypes
    <3>2. seen \in SUBSET Blocks /\ h \in Blocks \ In(seen, b) BY <1>0, <1>5 DEF CollectorTypes, Receive, In
    <3>3. TxsOf(In(seen, b))' = TxsOf(In(seen, b)) + NumTxs[h] BY <2>2, <2>4, <3>2, BlockMore DEF TxsOf
    <3>4. TxsOf(In(seen, b)) = pending[b] + batch["ticker"][b] + minute[b]
      <4>1. CASE In(seen, b) # {} BY <2>1, <4>1 DEF Conserved
      <4>2. CASE In(seen, b) = {}
        <5>1. TxsOf({}) = 0 BY SumSteps, FS_EmptySet DEF TxsOf
        <5>2. ignored # -1 /\ ~(b <= ignored) BY <1>5, <2>4 DEF Receive, Ignored, CollectorOK
        <5>3. InMemory(b) = 0 /\ minute[b] = 0 BY <1>0, <1>n, <4>2, <5>2 DEF CountedRight
        <5> QED BY <1>n, <4>2, <5>1, <5>3 DEF InMemory
      <4> QED BY <4>1, <4>2
    <3> QED BY <1>n, <2>1, <3>1, <3>3, <3>4
  <2> QED BY <2>3, <2>4
<1>6. ASSUME NEW f \in Flushers, NEW c \in Minutes, WriteMinute(f, c) PROVE Goal
  <2>1. UNCHANGED <<proc, failed, seen, pending, cut>> BY <1>6 DEF WriteMinute
  <2>2. f = "ticker" BY <1>6, <2>1 DEF WriteMinute, CollectorOK, Idle, NoCounts, Flushers
  <2>3. minute'[b] + batch'["ticker"][b] = minute[b] + batch["ticker"][b]
        /\ minute'[b] \in Nat /\ batch'["ticker"][b] \in Nat
    BY <1>0, <1>6, <1>n, <2>2 DEF WriteMinute, CollectorTypes, Flushers
  <2>4. pending'[b] + batch'["ticker"][b] + minute'[b] = pending[b] + batch["ticker"][b] + minute[b]
    BY <1>n, <2>1, <2>3
  <2> QED BY <2>1, <2>4, ConservedFrame
<1> QED
  <2>1. CASE Terminate \/ Exit \/ Die \/ DrainFinal BY <2>1 DEF Terminate, Exit, Die, DrainFinal
  <2>2. CASE ClockTick \/ Open \/ Defer BY <1>1, <2>2 DEF ClockTick, Open, Defer
  <2>3. ASSUME NEW h \in Blocks, StoreSample(h) \/ RollUpSample(h) \/ SampleFails(h) PROVE Goal
    BY <1>1, <2>3 DEF StoreSample, RollUpSample, SampleFails
  <2>4. ASSUME NEW f \in Flushers, RollUp(f) PROVE Goal BY <1>1, <2>4 DEF RollUp
  <2>5. ASSUME NEW f \in Flushers, FlushFails(f) PROVE Goal BY <2>5 DEF FlushFails
  <2>6. CASE UNCHANGED collectorVars BY <1>1, <2>6 DEF collectorVars
  <2> QED BY <1>2, <1>3, <1>4, <1>5, <1>6, <2>1, <2>2, <2>3, <2>4, <2>5, <2>6 DEF CollectorNext

\* Every block that is accepted counts once in its minute: over all runs of the
\* process no minute's rows have more than its blocks account for, and within a
\* run that has not failed none of an accepted block is missing (hyperliquid.go,
\* aggregator.go, store.go).
THEOREM CountedOnceAlways == CollectorSpec => []CountedOnce
<1>1. CollectorInit => CollectorOK /\ CountInv /\ Conserved
  BY CollectorInitOK, CountInitially DEF CollectorInit, Conserved
<1>2. CollectorOK /\ CountInv /\ Conserved /\ [CollectorNext]_collectorVars
        => (CollectorOK /\ CountInv /\ Conserved)'
  BY CollectorNextOK, CountNext, ConservedNext
<1>3. CountInv => NeverOvercounted BY DEF CountInv, CountedRight, NeverOvercounted
<1> QED BY <1>1, <1>2, <1>3, PTL DEF CollectorSpec, CountedOnce

-----------------------------------------------------------------------------
(* Hours                                                                    *)

\* The first and the last of some minutes.
LEMMA FirstAndLast ==
  ASSUME NEW bs \in SUBSET Minutes, bs # {}
  PROVE  /\ Min(bs) \in bs /\ Max(bs) \in bs
         /\ \A b \in bs : Min(bs) <= b /\ b <= Max(bs)
<1> DEFINE N == MinuteOf(MaxClock)
<1>1. N \in Nat /\ \A b \in bs : b \in Nat /\ b <= N
  BY MinuteFacts, TimesAreMinutes, TPSAssumption DEF Minutes
<1> HIDE DEF N
<1>2. \E m \in bs : \A k \in bs : m <= k BY <1>1, LeastNumber
<1>3. \E m \in bs : \A k \in bs : k <= m
  <2> DEFINE S == {N - b : b \in bs}
  <2>1. \A x \in S : x \in Nat BY <1>1
  <2>2. S # {} OBVIOUS
  <2> HIDE DEF S
  <2>3. PICK x \in S : \A k \in S : x <= k BY <2>1, <2>2, LeastNumber
  <2>4. PICK m \in bs : x = N - m BY DEF S
  <2>5. \A k \in bs : N - k \in S BY DEF S
  <2>6. \A k \in bs : k <= m BY <1>1, <2>3, <2>4, <2>5
  <2> QED BY <2>6
<1> QED BY <1>2, <1>3 DEF Min, Max

\* Values that are at most others add up to at most what those do.
LEMMA SumAtMost ==
  ASSUME NEW S, IsFiniteSet(S), NEW f, NEW g,
         \A x \in S : f[x] \in Nat /\ g[x] \in Nat /\ f[x] <= g[x]
  PROVE  SumFunctionOnSet(f, S) <= SumFunctionOnSet(g, S)
<1> DEFINE sum(s) == SumFunctionOnSet(f, s)  other(s) == SumFunctionOnSet(g, s)
           Good == {s \in SUBSET S : sum(s) <= other(s)}
<1>1. \A s \in SUBSET S : IsFiniteSet(s) BY FS_Subset
<1>2. sum({}) = 0 /\ other({}) = 0 BY SumSteps, FS_EmptySet
<1>3. \A s \in SUBSET S : sum(s) \in Nat /\ other(s) \in Nat BY <1>1, SumType
<1>4. ASSUME NEW s \in SUBSET S, s # {}
      PROVE  /\ Pick(s) \in s
             /\ sum(s) = f[Pick(s)] + sum(s \ {Pick(s)})
             /\ other(s) = g[Pick(s)] + other(s \ {Pick(s)})
  BY <1>1, <1>4, SumSteps, PickedIn
<1> HIDE DEF sum, other
<1>5. {} \in Good BY <1>2
<1>6. ASSUME NEW s \in SUBSET S, s # {}, \A x \in s : s \ {x} \in Good
      PROVE  s \in Good
  <2> DEFINE p == Pick(s)  r == s \ {p}
  <2>1. p \in S /\ r \in SUBSET S /\ sum(r) <= other(r) BY <1>4, <1>6
  <2>2. sum(s) = f[p] + sum(r) /\ other(s) = g[p] + other(r) BY <1>4, <1>6
  <2>3. sum(r) \in Nat /\ other(r) \in Nat /\ f[p] \in Nat /\ g[p] \in Nat /\ f[p] <= g[p] BY <1>3, <2>1
  <2> HIDE DEF p, r
  <2>4. sum(s) <= other(s) BY <2>1, <2>2, <2>3
  <2> QED BY <2>4
<1> HIDE DEF Good
<1>7. SUBSET S \subseteq Good BY <1>5, <1>6, OneByOne
<1>8. S \in Good BY <1>7
<1> QED BY <1>8 DEF Good, sum, other

\* An hour's minutes, and what they add up to in two states of the table.
LEMMA HourSums ==
  ASSUME NEW rows \in [Minutes -> Nat], NEW new \in [Minutes -> Nat], NEW h
  PROVE  /\ SumOf(rows, MinutesOf(h)) \in Nat /\ SumOf(new, MinutesOf(h)) \in Nat
         /\ (\A b \in MinutesOf(h) : rows[b] <= new[b])
              => SumOf(rows, MinutesOf(h)) <= SumOf(new, MinutesOf(h))
         /\ (\A b \in MinutesOf(h) : rows[b] = new[b])
              => SumOf(rows, MinutesOf(h)) = SumOf(new, MinutesOf(h))
<1>1. MinutesOf(h) \in SUBSET Minutes BY DEF MinutesOf
<1>2. IsFiniteSet(MinutesOf(h)) BY <1>1, TimesAreMinutes, FS_Subset
<1>3. \A b \in MinutesOf(h) : rows[b] \in Nat /\ new[b] \in Nat BY <1>1
<1>4. SumOf(rows, MinutesOf(h)) \in Nat /\ SumOf(new, MinutesOf(h)) \in Nat BY <1>1, SumOfMinutes
<1>5. (\A b \in MinutesOf(h) : rows[b] <= new[b]) => SumOf(rows, MinutesOf(h)) <= SumOf(new, MinutesOf(h))
  BY <1>2, <1>3, SumAtMost DEF SumOf
<1>6. (\A b \in MinutesOf(h) : rows[b] = new[b]) => SumOf(rows, MinutesOf(h)) = SumOf(new, MinutesOf(h))
  BY <1>2, SumSame DEF SumOf
<1> QED BY <1>4, <1>5, <1>6

\* A refresh sums the hours that some minutes span, those minutes' hours among
\* them, and leaves the others.
LEMMA RefreshedHours ==
  ASSUME NEW bs \in SUBSET Minutes, bs # {}, Refresh(bs)
  PROVE  /\ \A h \in Hours : hour'[h] = IF h \in SpannedHours(bs) THEN SumOf(minute, MinutesOf(h)) ELSE hour[h]
         /\ \A b \in bs : HourOf(b) \in SpannedHours(bs)
         /\ \A h \in SpannedHours(bs) : h \in Int /\ \E b \in bs : HourOf(b) <= h
<1>1. \A h \in Hours : hour'[h] = IF h \in SpannedHours(bs) THEN SumOf(minute, MinutesOf(h)) ELSE hour[h]
  BY DEF Refresh, Rollups
<1>2. /\ Min(bs) \in bs /\ Max(bs) \in bs
      /\ \A b \in bs : Min(bs) <= b /\ b <= Max(bs) /\ b \in Nat
  BY FirstAndLast, TimesAreMinutes
<1>3. \A b \in bs : HourOf(b) \in Nat /\ HourOf(Min(bs)) <= HourOf(b) /\ HourOf(b) <= HourOf(Max(bs))
  BY <1>2, HourFacts
<1>4. \A b \in bs : HourOf(b) \in SpannedHours(bs) BY <1>2, <1>3 DEF SpannedHours
<1>5. \A h \in SpannedHours(bs) : h \in Int /\ HourOf(Min(bs)) <= h BY <1>2, <1>3 DEF SpannedHours
<1> QED BY <1>1, <1>2, <1>4, <1>5

Agrees(h) == hour[h] = SumOf(minute, MinutesOf(h))

\* The hour of a minute that this process has written agrees with the minutes,
\* or waits for the refresh that the ticker's flush ends with.
HourInv ==
  proc = "run" /\ ~failed =>
    \A b \in wrote : Agrees(HourOf(b)) \/ \E c \in span["ticker"] : HourOf(c) = HourOf(b)

LEMMA HourNext ==
  CollectorOK /\ CollectorOK' /\ HourInv /\ [CollectorNext]_collectorVars => HourInv'
<1> SUFFICES ASSUME CollectorOK, CollectorOK', HourInv, [CollectorNext]_collectorVars,
                    proc' = "run", ~failed', NEW b \in wrote'
             PROVE  Agrees(HourOf(b))' \/ \E c \in span'["ticker"] : HourOf(c) = HourOf(b)
  BY DEF HourInv
<1>0. CollectorTypes /\ CollectorTypes' BY DEF CollectorOK
<1>b. b \in Minutes /\ HourOf(b) \in Hours BY <1>0, TimesAreMinutes DEF CollectorTypes
<1> DEFINE Goal == Agrees(HourOf(b))' \/ \E c \in span'["ticker"] : HourOf(c) = HourOf(b)
<1> USE DEF sessionVars, accepted, flush, tables, bounds
<1>1. CASE UNCHANGED <<proc, failed, minute, hour, span, wrote>> BY <1>1 DEF HourInv, Agrees
<1>2. CASE StartCollector BY <1>2, ForgottenOK DEF StartCollector
<1>3. ASSUME NEW f \in Flushers, NEW c \in Minutes, WriteMinute(f, c) PROVE Goal
  <2>1. proc = "run" /\ ~failed /\ hour' = hour BY <1>3 DEF WriteMinute
  <2>2. f = "ticker" BY <1>3, <2>1 DEF WriteMinute, CollectorOK, Idle, NoCounts, Flushers
  <2>3. span'["ticker"] = span["ticker"] \cup {c} BY <1>0, <1>3, <2>2 DEF WriteMinute, CollectorTypes
  <2>4. CASE HourOf(c) = HourOf(b) BY <2>3, <2>4
  <2>5. CASE HourOf(c) # HourOf(b)
    <3>1. b \in wrote BY <1>3, <2>5 DEF WriteMinute
    <3>2. \A a \in MinutesOf(HourOf(b)) : minute'[a] = minute[a]
      BY <1>0, <1>3, <2>5 DEF WriteMinute, CollectorTypes, MinutesOf
    <3>3. minute \in [Minutes -> Nat] /\ minute' \in [Minutes -> Nat] BY <1>0 DEF CollectorTypes
    <3>4. SumOf(minute, MinutesOf(HourOf(b))) = SumOf(minute', MinutesOf(HourOf(b)))
      BY <3>2, <3>3, HourSums
    <3>5. Agrees(HourOf(b)) => Agrees(HourOf(b))' BY <2>1, <3>4 DEF Agrees
    <3> QED BY <2>1, <2>3, <3>1, <3>5 DEF HourInv
  <2> QED BY <2>4, <2>5
<1>4. ASSUME NEW f \in Flushers, RollUp(f) PROVE Goal
  <2>1. proc = "run" /\ ~failed /\ UNCHANGED <<minute, wrote>> BY <1>4 DEF RollUp
  <2>2. f = "ticker" BY <1>4, <2>1 DEF RollUp, CollectorOK, Idle, Flushers
  <2>3. span["ticker"] \in SUBSET Minutes /\ span["ticker"] # {} /\ Refresh(span["ticker"])
    BY <1>0, <1>4, <2>2 DEF RollUp, CollectorTypes
  <2>4. HourOf(b) \in SpannedHours(span["ticker"]) => Agrees(HourOf(b))'
    BY <1>b, <2>1, <2>3, RefreshedHours DEF Agrees
  <2>5. Agrees(HourOf(b)) => Agrees(HourOf(b))'
    BY <1>b, <2>1, <2>3, RefreshedHours DEF Agrees
  <2> QED BY <2>1, <2>3, <2>4, <2>5, RefreshedHours DEF HourInv
<1>5. ASSUME NEW h \in Blocks, RollUpSample(h) PROVE Goal
  <2>1. UNCHANGED <<proc, failed, minute, wrote, span>> BY <1>5 DEF RollUpSample
  <2>2. Refresh({MinuteOf(BlockTime[h])}) /\ {MinuteOf(BlockTime[h])} \in SUBSET Minutes
    BY <1>5, BlockMinute DEF RollUpSample
  <2>3. Agrees(HourOf(b)) => Agrees(HourOf(b))'
    BY <1>b, <2>1, <2>2, RefreshedHours DEF Agrees
  <2> QED BY <2>1, <2>3 DEF HourInv
<1> QED
  <2>1. CASE Terminate \/ Exit \/ Die \/ DrainFinal BY <2>1 DEF Terminate, Exit, Die, DrainFinal
  <2>2. CASE ClockTick \/ Open \/ Defer \/ Disconnect \/ DrainTick
    BY <1>1, <2>2 DEF ClockTick, Open, Defer, Disconnect, DrainTick
  <2>3. ASSUME NEW h \in Blocks, Receive(h) \/ StoreSample(h) \/ SampleFails(h) PROVE Goal
    BY <1>1, <2>3 DEF StoreSample, Receive, SampleFails
  <2>4. ASSUME NEW f \in Flushers, FlushFails(f) PROVE Goal BY <2>4 DEF FlushFails
  <2>5. CASE UNCHANGED collectorVars BY <1>1, <2>5 DEF collectorVars
  <2> QED BY <1>2, <1>3, <1>4, <1>5, <2>1, <2>2, <2>3, <2>4, <2>5 DEF CollectorNext

\* Between flushes, and until the database fails, the hours of the minutes that
\* this process has written are the sums of their minutes (aggregator.go:68-79,
\* store.go:325-360).
THEOREM HoursAgreeAlways == CollectorSpec => []HoursAgree
<1>1. CollectorInit => CollectorOK /\ HourInv BY CollectorInitOK DEF CollectorInit, HourInv
<1>2. CollectorOK /\ HourInv /\ [CollectorNext]_collectorVars => (CollectorOK /\ HourInv)'
  BY CollectorNextOK, HourNext
<1>3. HourInv => HoursAgree BY DEF HourInv, HoursAgree, Idle, Agrees
<1> QED BY <1>1, <1>2, <1>3, PTL DEF CollectorSpec

\* No refresh comes for this hour any more.
Over(h) ==
  /\ h < HourOf(MinuteOf(clock))
  /\ ignored # -1 => h < HourOf(ignored)
  /\ \A b \in Minutes : In(seen, b) # {} => h < HourOf(b)

\* An hour is not more than its minutes, unless it is over: minutes are deleted
\* an hour and more after they end.
KeptInv ==
  Retention >= PerHour * Minute =>
    \A h \in Hours : hour[h] <= SumOf(minute, MinutesOf(h)) \/ Over(h)

\* The clock's minute and the ignored minutes only go on.
LEMMA OverNext ==
  ASSUME CollectorOK, CollectorOK', [CollectorNext]_collectorVars, NEW h \in Hours, Over(h)
  PROVE  Over(h)'
<1>0. CollectorTypes /\ CollectorTypes' BY DEF CollectorOK
<1>n. /\ clock \in Nat /\ clock' \in Nat /\ h \in Nat /\ MaxClock \in Nat /\ \A b \in Minutes : b \in Nat
  BY <1>0, TimesAreMinutes, TPSAssumption DEF CollectorTypes
<1>m. MinuteOf(clock) \in Nat /\ MinuteOf(clock') \in Nat BY <1>n, MinuteFacts
<1>h. HourOf(MinuteOf(clock)) \in Nat /\ HourOf(MinuteOf(clock')) \in Nat BY <1>m, HourFacts
<1> USE DEF sessionVars, accepted, flush, tables, bounds
<1>1. CASE UNCHANGED <<clock, ignored, seen>> BY <1>1 DEF Over, In
<1>2. CASE Forgotten /\ clock' = clock BY <1>2, ForgottenOK DEF Over, In
<1>3. CASE ClockTick
  <2>1. clock <= clock' /\ UNCHANGED <<ignored, seen>> BY <1>3, <1>n DEF ClockTick
  <2>2. HourOf(MinuteOf(clock)) <= HourOf(MinuteOf(clock')) BY <1>n, <1>m, <2>1, MinuteFacts, HourFacts
  <2>3. h < HourOf(MinuteOf(clock')) BY <1>n, <1>h, <2>2 DEF Over
  <2> QED BY <2>1, <2>3 DEF Over, In
<1>4. CASE Open
  <2>1. Max({ignored, MinuteOf(clock)}) \in {ignored, MinuteOf(clock)}
    <3>1. ignored \in Int BY <1>0, <1>n DEF CollectorTypes
    <3>2. \A x, y \in Int : Max({x, y}) = IF x >= y THEN x ELSE y BY DEF Max
    <3> QED BY <1>m, <3>1, <3>2
  <2>2. ignored' \in {ignored, MinuteOf(clock)} /\ UNCHANGED <<clock, seen>> BY <1>4, <2>1 DEF Open
  <2> QED BY <2>2 DEF Over, In
<1>5. ASSUME NEW g \in Blocks, Receive(g) PROVE Over(h)'
  <2>1. UNCHANGED <<clock, ignored>> /\ ignored # -1 /\ ~(MinuteOf(BlockTime[g]) <= ignored)
    BY <1>5 DEF Receive, Ignored, CollectorOK
  <2>2. ignored \in Nat /\ MinuteOf(BlockTime[g]) \in Nat BY <1>0, <1>n, <2>1, BlockMinute DEF CollectorTypes
  <2>3. HourOf(ignored) <= HourOf(MinuteOf(BlockTime[g])) /\ HourOf(ignored) \in Nat
        /\ HourOf(MinuteOf(BlockTime[g])) \in Nat
    BY <2>1, <2>2, HourFacts
  <2>4. h < HourOf(MinuteOf(BlockTime[g])) BY <1>n, <2>1, <2>3 DEF Over
  <2>5. \A b \in Minutes : In(seen, b)' # {} => In(seen, b) # {} \/ b = MinuteOf(BlockTime[g])
    BY <1>5, OneMore DEF Receive
  <2> QED BY <2>1, <2>4, <2>5 DEF Over
<1> QED
  <2>1. StartCollector \/ Exit \/ Die => Forgotten /\ clock' = clock BY DEF StartCollector, Exit, Die
  <2>2. CASE Terminate \/ Defer \/ Disconnect \/ DrainTick \/ DrainFinal
    BY <1>1, <2>2 DEF Terminate, Defer, Disconnect, DrainTick, DrainFinal
  <2>3. ASSUME NEW g \in Blocks, StoreSample(g) \/ RollUpSample(g) \/ SampleFails(g) PROVE Over(h)'
    BY <1>1, <2>3 DEF StoreSample, RollUpSample, SampleFails
  <2>4. ASSUME NEW f \in Flushers, RollUp(f) \/ FlushFails(f) \/ \E b \in Minutes : WriteMinute(f, b)
        PROVE  Over(h)'
    BY <1>1, <2>4 DEF RollUp, FlushFails, WriteMinute
  <2>5. CASE UNCHANGED collectorVars BY <1>1, <2>5 DEF collectorVars
  <2> QED BY <1>2, <1>3, <1>4, <1>5, <2>1, <2>2, <2>3, <2>4, <2>5 DEF CollectorNext

\* What has been refreshed is the sum of its minutes, and was not more before:
\* it is the hour of a block of this process, or a later one.
LEMMA RefreshKeeps ==
  ASSUME CollectorTypes, KeptInv, Retention >= PerHour * Minute,
         NEW bs \in SUBSET Minutes, bs # {}, Refresh(bs), minute' = minute,
         \A b \in bs : In(seen, b) # {},
         NEW h \in Hours
  PROVE  /\ hour'[h] >= hour[h]
         /\ hour'[h] = hour[h] \/ hour'[h] = SumOf(minute, MinutesOf(h))
<1>1. hour[h] \in Nat BY DEF CollectorTypes
<1>2. SumOf(minute, MinutesOf(h)) \in Nat BY HourSums DEF CollectorTypes
<1>3. hour'[h] = IF h \in SpannedHours(bs) THEN SumOf(minute, MinutesOf(h)) ELSE hour[h]
  BY RefreshedHours
<1>4. CASE h \notin SpannedHours(bs) BY <1>1, <1>3, <1>4
<1>5. CASE h \in SpannedHours(bs)
  <2>1. PICK b \in bs : HourOf(b) <= h BY <1>5, RefreshedHours
  <2>2. h \in Int /\ HourOf(b) \in Nat BY <1>5, RefreshedHours, TimesAreMinutes, HourFacts
  <2>3. ~Over(h) BY <2>1, <2>2 DEF Over
  <2> QED BY <1>1, <1>2, <1>3, <1>5, <2>3 DEF KeptInv
<1> QED BY <1>4, <1>5

\* Steps that refresh, and those that do not touch the hours.
LEMMA HourSteps ==
  ASSUME CollectorOK, [CollectorNext]_collectorVars
  PROVE  \/ hour' = hour
         \/ minute' = minute /\ \E bs \in SUBSET Minutes : bs # {} /\ Refresh(bs) /\ \A b \in bs : In(seen, b) # {}
<1>0. CollectorTypes BY DEF CollectorOK
<1> USE DEF sessionVars, accepted, flush, tables, bounds
<1>1. ASSUME NEW f \in Flushers, RollUp(f)
      PROVE  minute' = minute /\ \E bs \in SUBSET Minutes : bs # {} /\ Refresh(bs) /\ \A b \in bs : In(seen, b) # {}
  <2>1. span[f] \in SUBSET Minutes /\ span[f] # {} /\ Refresh(span[f]) /\ minute' = minute
    BY <1>0, <1>1 DEF RollUp, CollectorTypes
  <2>2. \A b \in span[f] : In(seen, b) # {} BY <2>1 DEF CollectorOK
  <2> QED BY <2>1, <2>2
<1>2. ASSUME NEW g \in Blocks, RollUpSample(g)
      PROVE  minute' = minute /\ \E bs \in SUBSET Minutes : bs # {} /\ Refresh(bs) /\ \A b \in bs : In(seen, b) # {}
  <2> DEFINE m == MinuteOf(BlockTime[g])
  <2>1. {m} \in SUBSET Minutes /\ Refresh({m}) /\ minute' = minute BY <1>2, BlockMinute DEF RollUpSample
  <2>2. g \in In(seen, m) BY <1>2 DEF RollUpSample, CollectorOK, In
  <2>3. \A b \in {m} : In(seen, b) # {} BY <2>2
  <2> HIDE DEF m
  <2> QED BY <2>1, <2>3
<1> QED
  <2>1. CASE StartCollector \/ Terminate \/ Exit \/ Die \/ ClockTick \/ Open \/ Defer \/ Disconnect
             \/ DrainTick \/ DrainFinal
    BY <2>1 DEF StartCollector, Terminate, Exit, Die, ClockTick, Open, Defer, Disconnect, DrainTick, DrainFinal
  <2>2. ASSUME NEW g \in Blocks, Receive(g) \/ StoreSample(g) \/ SampleFails(g) PROVE hour' = hour
    BY <2>2 DEF Receive, StoreSample, SampleFails
  <2>3. ASSUME NEW f \in Flushers, FlushFails(f) \/ \E b \in Minutes : WriteMinute(f, b) PROVE hour' = hour
    BY <2>3 DEF FlushFails, WriteMinute
  <2>4. CASE UNCHANGED collectorVars BY <2>4 DEF collectorVars
  <2> QED BY <1>1, <1>2, <2>1, <2>2, <2>3, <2>4 DEF CollectorNext

\* Minutes are written and, at a start, deleted: then only of an hour that is over.
LEMMA MinuteSteps ==
  ASSUME CollectorOK, CollectorOK', [CollectorNext]_collectorVars, Retention >= PerHour * Minute, NEW h \in Hours
  PROVE  (\A b \in MinutesOf(h) : minute[b] <= minute'[b]) \/ Over(h)'
<1>0. CollectorTypes /\ CollectorTypes' BY DEF CollectorOK
<1>n. /\ clock \in Nat /\ h \in Nat /\ MaxClock \in Nat
      /\ \A b \in Minutes : b \in Nat /\ minute[b] \in Nat
  BY <1>0, TimesAreMinutes, TPSAssumption DEF CollectorTypes
<1>m. MinutesOf(h) \subseteq Minutes BY DEF MinutesOf
<1> USE DEF sessionVars, accepted, flush, tables, bounds
<1>1. CASE minute' = minute BY <1>1, <1>n, <1>m
<1>2. CASE StartCollector
  <2>1. CASE \A b \in MinutesOf(h) : minute'[b] = minute[b] BY <1>n, <1>m, <2>1
  <2>2. ASSUME NEW b \in MinutesOf(h), minute'[b] # minute[b] PROVE Over(h)'
    <3>1. b \in Nat /\ HourOf(b) = h BY <1>n, <1>m DEF MinutesOf
    <3>2. b * Minute < clock - Retention BY <1>2, <1>m, <2>2 DEF StartCollector, Kept
    <3>3. b * Minute + PerHour * Minute < clock
      <4>1. b * Minute \in Nat /\ PerHour * Minute \in Nat /\ Retention \in Nat BY <3>1, TPSAssumption
      <4> QED BY <1>n, <3>2, <4>1
    <3>4. PerHour \in Nat BY TPSAssumption
    <3>5. b + PerHour <= MinuteOf(clock) /\ MinuteOf(clock) \in Nat BY <1>n, <3>1, <3>3, <3>4, MinuteFacts
    <3>6. b + PerHour \in Nat /\ HourOf(b + PerHour) = h + 1 BY <3>1, <3>4, HourFacts
    <3>7. HourOf(b + PerHour) <= HourOf(MinuteOf(clock)) /\ HourOf(MinuteOf(clock)) \in Nat
      BY <3>5, <3>6, HourFacts
    <3>8. h < HourOf(MinuteOf(clock)) BY <1>n, <3>6, <3>7
    <3>9. clock' = clock /\ seen' = {} /\ ignored' = -1 BY <1>2, ForgottenOK DEF StartCollector
    <3> QED BY <3>8, <3>9 DEF Over, In
  <2> QED BY <2>1, <2>2
<1>3. ASSUME NEW f \in Flushers, NEW c \in Minutes, WriteMinute(f, c)
      PROVE  \A b \in MinutesOf(h) : minute[b] <= minute'[b]
  <2>1. batch[f][c] \in Nat BY <1>0 DEF CollectorTypes
  <2>2. \A b \in Minutes : minute'[b] = IF b = c THEN minute[b] + batch[f][c] ELSE minute[b]
    BY <1>0, <1>3 DEF WriteMinute, CollectorTypes
  <2> QED BY <1>m, <1>n, <2>1, <2>2
<1> QED
  <2>1. CASE Terminate \/ Exit \/ Die \/ ClockTick \/ Open \/ Defer \/ Disconnect \/ DrainTick \/ DrainFinal
    BY <1>1, <2>1 DEF Terminate, Exit, Die, ClockTick, Open, Defer, Disconnect, DrainTick, DrainFinal
  <2>2. ASSUME NEW g \in Blocks, Receive(g) \/ StoreSample(g) \/ RollUpSample(g) \/ SampleFails(g)
        PROVE  minute' = minute
    BY <2>2 DEF Receive, StoreSample, RollUpSample, SampleFails
  <2>3. ASSUME NEW f \in Flushers, RollUp(f) \/ FlushFails(f) PROVE minute' = minute
    BY <2>3 DEF RollUp, FlushFails
  <2>4. CASE UNCHANGED collectorVars BY <1>1, <2>4 DEF collectorVars
  <2> QED BY <1>1, <1>2, <1>3, <2>1, <2>2, <2>3, <2>4 DEF CollectorNext

LEMMA KeptNext ==
  CollectorOK /\ CollectorOK' /\ KeptInv /\ [CollectorNext]_collectorVars => KeptInv'
<1> SUFFICES ASSUME CollectorOK, CollectorOK', KeptInv, [CollectorNext]_collectorVars,
                    Retention >= PerHour * Minute, NEW h \in Hours
             PROVE  hour'[h] <= SumOf(minute', MinutesOf(h)) \/ Over(h)'
  BY DEF KeptInv
<1>0. CollectorTypes /\ CollectorTypes' BY DEF CollectorOK
<1>1. minute \in [Minutes -> Nat] /\ minute' \in [Minutes -> Nat] /\ hour[h] \in Nat BY <1>0 DEF CollectorTypes
<1>2. SumOf(minute, MinutesOf(h)) \in Nat /\ SumOf(minute', MinutesOf(h)) \in Nat BY <1>1, HourSums
<1>3. SumOf(minute, MinutesOf(h)) <= SumOf(minute', MinutesOf(h)) \/ Over(h)'
  BY <1>1, MinuteSteps, HourSums
<1>4. hour[h] <= SumOf(minute, MinutesOf(h)) \/ Over(h)' BY OverNext DEF KeptInv
<1>5. CASE hour' = hour BY <1>1, <1>2, <1>3, <1>4, <1>5
<1>6. CASE hour' # hour
  <2>1. hour'[h] = hour[h] \/ hour'[h] = SumOf(minute, MinutesOf(h))
    BY <1>0, <1>6, HourSteps, RefreshKeeps
  <2> QED BY <1>1, <1>2, <1>3, <1>4, <2>1
<1> QED BY <1>5, <1>6

\* An hour never goes down, however minutes are deleted and hours recomputed, if
\* minutes are kept for at least an hour (app/exchange_tps.go:44).
THEOREM HoursKeptAlways == CollectorSpec => HoursKept
<1>1. CollectorInit => CollectorOK /\ KeptInv
  <2>1. ASSUME CollectorInit, NEW h \in Hours PROVE hour[h] <= SumOf(minute, MinutesOf(h))
    <3>1. CollectorTypes BY <2>1, CollectorInitOK DEF CollectorOK
    <3>2. SumOf(minute, MinutesOf(h)) \in Nat BY <3>1, HourSums DEF CollectorTypes
    <3> QED BY <2>1, <3>2 DEF CollectorInit
  <2> QED BY <2>1, CollectorInitOK DEF KeptInv
<1>2. CollectorOK /\ KeptInv /\ [CollectorNext]_collectorVars => (CollectorOK /\ KeptInv)'
  BY CollectorNextOK, KeptNext
<1>3. CollectorOK /\ KeptInv /\ [CollectorNext]_collectorVars
        => [Retention >= PerHour * Minute => \A h \in Hours : hour'[h] >= hour[h]]_collectorVars
  <2> SUFFICES ASSUME CollectorOK, KeptInv, [CollectorNext]_collectorVars,
                      Retention >= PerHour * Minute, NEW h \in Hours
               PROVE  hour'[h] >= hour[h]
    OBVIOUS
  <2>1. CollectorTypes /\ hour[h] \in Nat BY DEF CollectorOK, CollectorTypes
  <2>2. CASE hour' = hour BY <2>1, <2>2
  <2>3. CASE hour' # hour BY <2>1, <2>3, HourSteps, RefreshKeeps
  <2> QED BY <2>2, <2>3
<1> QED BY <1>1, <1>2, <1>3, PTL DEF CollectorSpec, HoursKept

-----------------------------------------------------------------------------
(* The supervisor                                                           *)

\* The next delay, and the one that a row of n failures asks for.
DelayAfter(n) == Min({BaseDelay * 2 ^ (n - 1), MaxDelay})

SupervisorTypes ==
  /\ left \in Nat /\ wait \in Nat /\ failures \in 0..MaxFailures /\ streak \in 0..MaxFailures + 1
  /\ weight \in Nat /\ reserved \in Nat /\ blocked \in Nat /\ remaining \in Nat
  /\ starts \in Nat /\ bought \in Nat /\ unanswered \in Nat
  /\ since \in 0..Hour /\ rest \in 0..MaxDelay

\* A reserve under way fits in what this process may still buy; what the venue
\* has sold is what this process knows of, at most the whole weight of each
\* process before it, and one reserve for each answer that was lost.  A reserve
\* that was not answered blocks the next for what is left of the hour.
PurchaseInv ==
  /\ reserved <= MaxReserveWeight
  /\ pc = "reserve" => reserved + weight <= MaxReserveWeight /\ blocked = 0
  /\ bought <= MaxReserveWeight * ((starts - 1) + unanswered) + reserved
  /\ refilled \/ since + blocked >= Hour

\* The delay counts the failures in a row, and has passed or is being slept.
DelayInv ==
  /\ failures = (IF streak <= MaxFailures THEN streak ELSE MaxFailures)
  /\ streak > 0 =>
       \/ rest >= DelayAfter(streak)
       \/ pc = "sleep" /\ rest + wait >= DelayAfter(streak)

SupervisorInv == SupervisorTypes /\ starts # 0 /\ PurchaseInv /\ DelayInv

LEMMA SmallerOf ==
  \A x, y \in Int : /\ Min({x, y}) = IF x <= y THEN x ELSE y
                    /\ Max({x, y}) = IF x >= y THEN x ELSE y
BY DEF Min, Max

\* A power of two is a number: that of the subsets of a set.
LEMMA Delays ==
  ASSUME NEW n \in Nat
  PROVE  Min({BaseDelay * 2 ^ n, MaxDelay}) \in 0..MaxDelay
<1>1. IsFiniteSet(1..n) /\ Cardinality(1..n) = n BY FS_Interval
<1>2. Cardinality(SUBSET (1..n)) = 2 ^ n /\ IsFiniteSet(SUBSET (1..n)) BY <1>1, FS_SUBSET
<1>3. 2 ^ n \in Nat BY <1>2, FS_CardinalityType
<1>4. BaseDelay \in Nat /\ MaxDelay \in Nat BY ContinuousAssumption
<1>5. BaseDelay * 2 ^ n \in Nat BY <1>3, <1>4
<1> QED BY <1>4, <1>5, SmallerOf

LEMMA Operator ==
  /\ MaxDelay \in Nat /\ Hour \in Nat /\ Span \in Nat /\ MaxReserveWeight \in Nat /\ MaxFailures \in Nat
  /\ Capacity \in Nat /\ MinRemaining \in Nat /\ ReserveTarget \in Nat
BY ContinuousAssumption

LEMMA SupervisorInitOK == SupervisorInit => SupervisorInv
<1> SUFFICES ASSUME SupervisorInit PROVE SupervisorInv OBVIOUS
<1> USE Operator DEF SupervisorInit, Fresh
<1>1. SupervisorTypes BY DEF SupervisorTypes
<1>2. PurchaseInv BY DEF PurchaseInv
<1>3. DelayInv BY DEF DelayInv
<1> QED BY <1>1, <1>2, <1>3 DEF SupervisorInv

\* A chunk that failed: the delay that is slept is the one its row asks for.
LEMMA FailedOK ==
  ASSUME SupervisorInv, NEW new \in BOOLEAN, Failed(new)
  PROVE  /\ wait' = DelayAfter(streak') /\ wait' \in 0..MaxDelay /\ rest' = 0 /\ pc' = "sleep"
         /\ failures' = (IF streak' <= MaxFailures THEN streak' ELSE MaxFailures)
         /\ failures' \in 0..MaxFailures /\ streak' \in 1..MaxFailures + 1
         /\ UNCHANGED <<left, weight, reserved, blocked, starts, bought, unanswered, since, refilled>>
<1> USE DEF SupervisorInv, SupervisorTypes, DelayInv
<1>1. MaxFailures \in Nat /\ failures \in Nat /\ streak \in Nat BY ContinuousAssumption
<1>2. /\ failures' = (IF failures + 1 <= MaxFailures THEN failures + 1 ELSE MaxFailures)
      /\ streak' = (IF streak + 1 <= MaxFailures + 1 THEN streak + 1 ELSE MaxFailures + 1)
  BY <1>1, SmallerOf DEF Failed
<1>3. streak' - 1 = failures /\ streak' \in 1..MaxFailures + 1 BY <1>1, <1>2
<1>4. failures' = (IF streak' <= MaxFailures THEN streak' ELSE MaxFailures) BY <1>1, <1>2
<1>5. wait' = DelayAfter(streak') BY <1>3 DEF Failed, NextDelay, DelayAfter
<1>6. wait' \in 0..MaxDelay BY <1>1, Delays DEF Failed, NextDelay
<1> QED BY <1>1, <1>2, <1>3, <1>4, <1>5, <1>6 DEF Failed, preflight

\* What a step may do without failing a chunk, buying anything or ending a sleep.
LEMMA SupervisorFrame ==
  ASSUME SupervisorInv, wait' \in Nat, left' \in Nat, weight' \in Nat, remaining' \in Nat,
         UNCHANGED <<failures, streak, reserved, blocked, starts, bought, unanswered, since, rest>>,
         refilled => refilled',
         pc' = "reserve" => reserved + weight' <= MaxReserveWeight /\ blocked = 0,
         pc = "sleep" => rest >= DelayAfter(streak) \/ (pc' = "sleep" /\ wait' = wait)
  PROVE  SupervisorInv'
<1> USE DEF SupervisorInv
<1>1. SupervisorTypes' BY DEF SupervisorTypes
<1>2. PurchaseInv' BY DEF SupervisorTypes, PurchaseInv
<1>3. DelayInv'
  <2>1. DelayAfter(streak)' = DelayAfter(streak) BY DEF DelayAfter
  <2> QED BY <2>1 DEF DelayInv
<1> QED BY <1>1, <1>2, <1>3

LEMMA SupervisorNextOK == SupervisorInv /\ [SupervisorNext]_supervisorVars => SupervisorInv'
<1> SUFFICES ASSUME SupervisorInv, [SupervisorNext]_supervisorVars PROVE SupervisorInv' OBVIOUS
<1>0. SupervisorTypes /\ PurchaseInv /\ DelayInv /\ starts # 0 BY DEF SupervisorInv
<1>w. left \in Nat /\ wait \in Nat /\ weight \in Nat /\ remaining \in Nat
  BY <1>0 DEF SupervisorTypes
<1>h. DelayAfter(streak)' = DelayAfter(streak') BY DEF DelayAfter
<1> USE DEF loop, preflight, history
<1>1. CASE Begin BY <1>1, <1>w, Operator, SupervisorFrame DEF Begin
<1>2. CASE StatusFails \/ StatusAfter
  <2>1. /\ pc \in {"status", "statusAfter"} /\ pc' \in {"run", "sleep"} /\ wait' \in Nat
        /\ UNCHANGED <<left, failures, preflight, remaining, starts, history>>
    BY <1>2, <1>w DEF StatusFails, StatusAfter, Refused, Goes
  <2> QED BY <1>w, <2>1, SupervisorFrame
<1>3. CASE StatusEnough
  <2>1. /\ SupervisorTypes' BY <1>0, <1>3 DEF StatusEnough, Goes, SupervisorTypes
  <2>2. PurchaseInv' BY <1>0, <1>3 DEF StatusEnough, Goes, PurchaseInv
  <2>3. DelayInv' BY <1>0, <1>3, <1>h DEF StatusEnough, Goes, DelayInv
  <2> QED BY <1>0, <1>3, <2>1, <2>2, <2>3 DEF SupervisorInv, StatusEnough
<1>4. CASE StatusSlow BY <1>4, <1>w, SupervisorFrame DEF StatusSlow, Goes
<1>5. CASE StatusLow
  <2>1. /\ pc = "status" /\ UNCHANGED <<left, failures, reserved, blocked, remaining, starts, history>>
    BY <1>5 DEF StatusLow, Refused, Goes
  <2>2. CASE MayReserve
    <3>1. Target \in Nat /\ MinRemaining <= Target /\ MinRemaining \in Nat
      <4>1. ReserveTarget \in Int /\ MinRemaining \in Int BY Operator
      <4>2. Target = IF ReserveTarget >= MinRemaining THEN ReserveTarget ELSE MinRemaining
        BY <4>1, SmallerOf DEF Target
      <4> QED BY <4>2, Operator
    <3>2. weight' \in Nat /\ weight' = Target - remaining BY <1>5, <1>w, <2>2, <3>1 DEF StatusLow, Enough
    <3>3. reserved + weight' <= MaxReserveWeight /\ blocked = 0 /\ pc' = "reserve" /\ wait' = wait
      BY <1>5, <2>2, <3>2 DEF StatusLow, MayReserve, Goes
    <3> QED BY <1>w, <2>1, <3>2, <3>3, SupervisorFrame
  <2>3. CASE ~MayReserve
    <3>1. weight' = weight /\ pc' = "sleep" /\ wait' = left BY <1>5, <2>3 DEF StatusLow, Refused
    <3> QED BY <1>w, <2>1, <3>1, SupervisorFrame
  <2> QED BY <2>2, <2>3
<1>6. CASE Reserve
  <2>1. SupervisorTypes' BY <1>0, <1>6 DEF Reserve, Goes, SupervisorTypes
  <2>2. PurchaseInv'
    <3>1. MaxReserveWeight * ((starts - 1) + unanswered) \in Int BY <1>0, Operator DEF SupervisorTypes
    <3> QED BY <1>0, <1>6, <3>1 DEF Reserve, Goes, PurchaseInv, SupervisorTypes
  <2>3. DelayInv' BY <1>0, <1>6, <1>h DEF Reserve, Goes, DelayInv
  <2> QED BY <1>0, <1>6, <2>1, <2>2, <2>3 DEF SupervisorInv, Reserve
<1>7. CASE ReserveFails
  <2>1. SupervisorTypes' BY <1>0, <1>7, Operator DEF ReserveFails, Refused, SupervisorTypes
  <2>2. PurchaseInv'
    <3>1. starts - 1 + unanswered \in Int /\ MaxReserveWeight \in Nat /\ unanswered' = unanswered + 1
      BY <1>0, <1>7, Operator DEF SupervisorTypes, ReserveFails
    <3>2. MaxReserveWeight * ((starts - 1) + unanswered')
            = MaxReserveWeight * ((starts - 1) + unanswered) + MaxReserveWeight
      <4>1. \A x \in Int : MaxReserveWeight * (x + 1) = MaxReserveWeight * x + MaxReserveWeight BY <3>1
      <4>2. (starts - 1) + unanswered' = ((starts - 1) + unanswered) + 1
        BY <1>0, <3>1 DEF SupervisorTypes
      <4> QED BY <3>1, <4>1, <4>2
    <3>3. bought' \in {bought, bought + weight} /\ weight <= MaxReserveWeight
      BY <1>0, <1>7, Operator DEF ReserveFails, PurchaseInv, SupervisorTypes
    <3>4. bought' <= MaxReserveWeight * ((starts - 1) + unanswered') + reserved
      <4>1. MaxReserveWeight * ((starts - 1) + unanswered) \in Int BY <3>1
      <4> QED BY <1>0, <3>1, <3>2, <3>3, <4>1 DEF PurchaseInv, SupervisorTypes
    <3> QED BY <1>0, <1>7, <3>4, Operator DEF ReserveFails, Refused, PurchaseInv
  <2>3. DelayInv' BY <1>0, <1>7, <1>h DEF ReserveFails, Refused, DelayInv
  <2> QED BY <1>0, <1>7, <2>1, <2>2, <2>3 DEF SupervisorInv, ReserveFails
<1>8. ASSUME NEW new \in BOOLEAN, Failed(new), remaining' \in Nat PROVE SupervisorInv'
  <2>1. /\ wait' = DelayAfter(streak') /\ wait' \in 0..MaxDelay /\ rest' = 0 /\ pc' = "sleep"
        /\ failures' = (IF streak' <= MaxFailures THEN streak' ELSE MaxFailures)
        /\ failures' \in 0..MaxFailures /\ streak' \in 1..MaxFailures + 1
        /\ UNCHANGED <<left, weight, reserved, blocked, starts, bought, unanswered, since, refilled>>
    BY <1>8, FailedOK
  <2>2. SupervisorTypes' BY <1>0, <1>8, <2>1, Operator DEF SupervisorTypes
  <2>3. PurchaseInv' BY <1>0, <2>1 DEF PurchaseInv
  <2>4. DelayInv' BY <1>h, <2>1, Operator DEF DelayInv
  <2> QED BY <1>0, <2>1, <2>2, <2>3, <2>4 DEF SupervisorInv
<1>9. CASE Run
  <2>1. remaining' \in Nat BY <1>9, <1>w DEF Run, Consumed
  <2> QED BY <1>9, <1>w, <2>1, SupervisorFrame DEF Run
<1>10. CASE RunFails
  <2>1. remaining' \in Nat BY <1>10, <1>w DEF RunFails, Consumed
  <2> QED BY <1>10, <1>8, <2>1 DEF RunFails
<1>11. CASE Store BY <1>11, <1>w, SupervisorFrame DEF Store, Goes
<1>12. CASE StoreFails \/ StrictFails BY <1>12, <1>8, <1>w DEF StoreFails, StrictFails
<1>13. CASE Complete
  <2>1. SupervisorTypes' BY <1>0, <1>13, Operator DEF Complete, SupervisorTypes
  <2>2. PurchaseInv' BY <1>0, <1>13 DEF Complete, PurchaseInv
  <2>3. DelayInv' BY <1>13, Operator DEF Complete, DelayInv
  <2> QED BY <1>0, <1>13, <2>1, <2>2, <2>3 DEF SupervisorInv, Complete
<1>14. CASE WakeUp
  <2>1. /\ pc = "sleep" /\ wait = 0 /\ pc' = "chunk"
        /\ UNCHANGED <<left, wait, failures, preflight, remaining, starts, history>>
    BY <1>14 DEF WakeUp, Goes
  <2>2. SupervisorTypes' BY <1>0, <2>1 DEF SupervisorTypes
  <2>3. PurchaseInv' BY <1>0, <2>1 DEF PurchaseInv
  <2>4. DelayInv'
    <3>1. rest + wait = rest BY <1>0, <2>1, Operator DEF SupervisorTypes
    <3> QED BY <1>0, <1>h, <2>1, <3>1 DEF DelayInv
  <2> QED BY <1>0, <2>1, <2>2, <2>3, <2>4 DEF SupervisorInv
<1>15. CASE TimersTick
  <2>1. /\ since' = (IF since + 1 <= Hour THEN since + 1 ELSE Hour)
        /\ rest' = (IF rest + 1 <= MaxDelay THEN rest + 1 ELSE MaxDelay)
    BY <1>0, <1>15, Operator, SmallerOf DEF TimersTick, SupervisorTypes
  <2>2. SupervisorTypes' BY <1>0, <1>15, <2>1, Operator DEF TimersTick, SupervisorTypes, Down
  <2>3. PurchaseInv' BY <1>0, <1>15, <2>1, Operator DEF TimersTick, PurchaseInv, SupervisorTypes, Down
  <2>4. DelayInv'
    <3>1. UNCHANGED <<failures, streak, pc>> /\ wait' = Down(wait) BY <1>15 DEF TimersTick
    <3>2. streak > 0 => DelayAfter(streak) \in 0..MaxDelay
      <4>1. streak > 0 => streak - 1 \in Nat BY <1>0, Operator DEF SupervisorTypes
      <4> QED BY <4>1, Delays DEF DelayAfter
    <3>3. rest \in 0..MaxDelay /\ wait \in Nat BY <1>0 DEF SupervisorTypes
    <3> QED BY <1>0, <1>h, <2>1, <3>1, <3>2, <3>3, Operator DEF DelayInv, Down
  <2> QED BY <1>0, <1>15, <2>2, <2>3, <2>4 DEF SupervisorInv, TimersTick
<1>16. CASE Regain
  <2>1. remaining' \in Nat BY <1>16, <1>w DEF Regain
  <2>2. pc = "reserve" => reserved + weight <= MaxReserveWeight /\ blocked = 0 BY <1>0 DEF PurchaseInv
  <2> QED BY <1>16, <1>w, <2>1, <2>2, SupervisorFrame DEF Regain
<1>17. CASE Restart
  <2>1. SupervisorTypes' BY <1>0, <1>17, Operator DEF Restart, SupervisorTypes
  <2>2. PurchaseInv'
    <3>1. starts - 1 + unanswered \in Int /\ MaxReserveWeight \in Nat /\ starts' = starts + 1
      BY <1>0, <1>17, Operator DEF SupervisorTypes, Restart
    <3>2. MaxReserveWeight * ((starts' - 1) + unanswered)
            = MaxReserveWeight * ((starts - 1) + unanswered) + MaxReserveWeight
      <4>1. \A x \in Int : MaxReserveWeight * (x + 1) = MaxReserveWeight * x + MaxReserveWeight BY <3>1
      <4>2. (starts' - 1) + unanswered = ((starts - 1) + unanswered) + 1
        BY <1>0, <3>1 DEF SupervisorTypes
      <4> QED BY <3>1, <4>1, <4>2
    <3>3. MaxReserveWeight * ((starts - 1) + unanswered) \in Int BY <3>1
    <3>4. bought' <= MaxReserveWeight * ((starts' - 1) + unanswered') + 0
      BY <1>0, <1>17, <3>1, <3>2, <3>3 DEF Restart, PurchaseInv, SupervisorTypes
    <3> QED BY <1>17, <3>4, Operator DEF Restart, PurchaseInv
  <2>3. DelayInv' BY <1>17, Operator DEF Restart, DelayInv
  <2> QED BY <1>0, <1>17, <2>1, <2>2, <2>3 DEF SupervisorInv, SupervisorTypes, Restart
<1>18. CASE UNCHANGED supervisorVars BY <1>18, <1>0, <1>h DEF supervisorVars, SupervisorInv, SupervisorTypes, PurchaseInv, DelayInv
<1> QED
  BY <1>1, <1>2, <1>3, <1>4, <1>5, <1>6, <1>7, <1>8, <1>9, <1>10, <1>11, <1>12, <1>13, <1>14, <1>15, <1>16,
     <1>17, <1>18 DEF SupervisorNext, Step

\* However commands time out and processes die, the weight that is bought stays
\* within max_reserve_weight for each process and each answer that was lost, and
\* a reserve that may have been carried out is not repeated within the hour,
\* unless the venue has shown enough capacity in between (rate_limit.go).
THEOREM PurchasesStayBounded == SupervisorSpec => PurchasesBounded
<1>1. SupervisorInv => BudgetBounded
  <2> SUFFICES ASSUME SupervisorInv PROVE bought <= MaxReserveWeight * (starts + unanswered)
    BY DEF BudgetBounded
  <2> DEFINE n == (starts - 1) + unanswered
  <2>1. n \in Int /\ n + 1 = starts + unanswered /\ MaxReserveWeight \in Nat
    BY Operator DEF SupervisorInv, SupervisorTypes
  <2>2. bought <= MaxReserveWeight * n + reserved /\ reserved <= MaxReserveWeight /\ bought \in Nat /\ reserved \in Nat
    BY DEF SupervisorInv, SupervisorTypes, PurchaseInv
  <2> HIDE DEF n
  <2>3. MaxReserveWeight * (n + 1) = MaxReserveWeight * n + MaxReserveWeight BY <2>1
  <2>4. MaxReserveWeight * n \in Int BY <2>1
  <2> QED BY <2>1, <2>2, <2>3, <2>4
<1>2. SupervisorInv /\ [SupervisorNext]_supervisorVars
        => [pc = "status" /\ pc' = "reserve" => since = Hour \/ refilled]_supervisorVars
  <2> SUFFICES ASSUME SupervisorInv, [SupervisorNext]_supervisorVars, pc = "status", pc' = "reserve"
               PROVE  since = Hour \/ refilled
    OBVIOUS
  <2>1. StatusLow
    BY DEF SupervisorNext, Step, Begin, StatusFails, StatusEnough, StatusSlow, Reserve, StatusAfter, Run, RunFails,
           Store, StoreFails, StrictFails, Complete, WakeUp, ReserveFails, TimersTick, Regain, Restart, Refused,
           Goes, Failed, supervisorVars, loop
  <2>2. blocked = 0 BY <2>1 DEF StatusLow, MayReserve, Refused
  <2> QED BY <2>2, Operator DEF SupervisorInv, PurchaseInv, SupervisorTypes
<1> QED BY <1>1, <1>2, SupervisorInitOK, SupervisorNextOK, PTL
        DEF SupervisorSpec, PurchasesBounded, ReserveOnceAnHour

\* After n chunks that failed in a row the next begins only after the n-th delay,
\* whichever step of them failed and whatever chunks were skipped among them
\* (continuous.go).
THEOREM FailuresBackOff == SupervisorSpec => BackedOff
<1>1. SupervisorInv /\ SupervisorInv' /\ [SupervisorNext]_supervisorVars
        => [pc' = "chunk" /\ streak' > 0
              => rest' >= Min({BaseDelay * 2 ^ (streak' - 1), MaxDelay})]_supervisorVars
  <2> SUFFICES ASSUME SupervisorInv', pc' = "chunk", streak' > 0
               PROVE  rest' >= Min({BaseDelay * 2 ^ (streak' - 1), MaxDelay})
    OBVIOUS
  <2> QED BY DEF SupervisorInv, DelayInv, DelayAfter
<1> QED BY <1>1, SupervisorInitOK, SupervisorNextOK, PTL DEF SupervisorSpec, BackedOff
=============================================================================
