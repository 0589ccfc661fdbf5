------------------------------- MODULE Funding -------------------------------
(***************************************************************************)
(* The funding monitor: internal/funding/{runner,state,plan,evm}.go driven *)
(* by runFundingMonitor (internal/app/funding.go).  One goroutine passes   *)
(* over the accounts, tops up those whose balance is low, and writes       *)
(* state_path once, after the pass.  A deposit is a transaction that is    *)
(* broadcast first and confirmed later, so the process can stop between    *)
(* the two, or between the confirmation and the write.                     *)
(*                                                                         *)
(* Balances are the environment's: every pass may find any account above   *)
(* its threshold, unreadable, or short by any amount (a bridge may credit  *)
(* a deposit late).  Amounts are whole units.                              *)
(***************************************************************************)
EXTENDS Integers, Sequences, FiniteSets, Functions

CONSTANTS
  AccountList,  \* cfg.Accounts, in order
  Cooldown,     \* [accounts -> positive]: AccountCooldown
  Modes,        \* the sets of accounts a process may run in dry-run mode
  Amounts,      \* amounts a plan may ask for
  DailyCap,     \* wallet.daily_cap_usdc, positive (Validate)
  Day,          \* 24 hours, in clock ticks
  Never,        \* the zero time
  MaxTime,      \* bound on the clock
  MaxFaults     \* bound on crashes and failed writes of state_path

Accounts == {AccountList[i] : i \in 1..Len(AccountList)}

ASSUME FundingAssumption ==
  /\ AccountList \in Seq(Accounts)
  /\ \A i, j \in 1..Len(AccountList) : AccountList[i] = AccountList[j] => i = j
  /\ Cooldown \in [Accounts -> Nat \ {0}]
  /\ Modes \subseteq SUBSET Accounts
  /\ Amounts \subseteq Nat \ {0} /\ DailyCap \in Nat \ {0} /\ Day \in Nat \ {0}
  /\ Never \notin Nat /\ MaxTime \in Nat /\ MaxFaults \in Nat

VARIABLES
  phase,     \* "down", "idle", "pass" or "confirm"
  dry,       \* the accounts this process only pretends to fund
  next,      \* index of the account the pass comes to next
  passAt,    \* now of RunOnce, read once per pass
  sent,      \* the deposit that is being confirmed, if any
  attempt,   \* State.Accounts[a].LastAttemptAt, in memory
  events,    \* State.Events, in memory; no two are equal, as an account's are dated
             \* by passes at least a cooldown apart
  disk,      \* what state_path holds
  now, faults,
  ledger     \* history: every transaction broadcast, in order

memory == <<attempt, events>>
pass == <<next, passAt, sent>>
vars == <<phase, dry, pass, memory, disk, now, faults, ledger>>

\* plan is DepositPlan.Now, done is DepositResult.CompletedAt.
Deposit == [account : Accounts, amount : Nat, plan : Nat, done : Nat]
Tx == [account : Accounts, amount : Nat, plan : Nat, done : Nat \cup {Never}]

Blank == [a \in Accounts |-> Never]

Init ==
  /\ phase = "down" /\ dry = {} /\ next = 1 /\ passAt = 0 /\ sent = <<>>
  /\ attempt = Blank /\ events = {}
  /\ disk = [ok |-> TRUE, attempt |-> Blank, events |-> {}]
  /\ now = 0 /\ faults = 0 /\ ledger = <<>>

\* Mutant of Recent: an event exactly a day old no longer counts.
RecentStrictly(es, t) == {e \in es : e.done > t - Day}

\* recentEvents
Recent(es, t) == {e \in es : e.done >= t - Day}
DailySpent(es, t) == SumFunction([e \in Recent(es, t) |-> e.amount])

\* LoadState: a state file that does not parse stops the monitor.  --dry-run
\* is the operator's choice at every start.
Start ==
  /\ phase = "down" /\ disk.ok
  /\ dry' \in Modes
  /\ attempt' = disk.attempt
  /\ events' = Recent(disk.events, now)
  /\ phase' = "idle"
  /\ UNCHANGED <<next, passAt, sent, disk, now, faults, ledger>>

BeginPass ==
  /\ phase = "idle"
  /\ phase' = "pass" /\ next' = 1 /\ passAt' = now
  /\ UNCHANGED <<dry, sent, memory, disk, now, faults, ledger>>

Current == AccountList[next]
InPass == phase = "pass" /\ next <= Len(AccountList)

\* The balance cannot be read, is above the threshold, or is short by less
\* than the smallest deposit.  A skipped account keeps its LastAttemptAt.
SkipBalance ==
  /\ InPass
  /\ next' = next + 1
  /\ UNCHANGED <<phase, dry, passAt, sent, memory, disk, now, faults, ledger>>

CooldownOver(a) == attempt[a] # Never => passAt - attempt[a] >= Cooldown[a]
UnderCap(amount) == DailySpent(events, passAt) + amount <= DailyCap

\* The account is short, but within its cooldown or over the daily cap.
SkipDecision ==
  /\ InPass
  /\ \/ ~CooldownOver(Current)
     \/ Current \notin dry /\ \E amount \in Amounts : ~UnderCap(amount)
  /\ next' = next + 1
  /\ UNCHANGED <<phase, dry, passAt, sent, memory, disk, now, faults, ledger>>

\* Mutant of DepositDry: a dry run is planned within the cooldown too.
DepositDryAlways ==
  /\ InPass /\ Current \in dry
  /\ attempt' = [attempt EXCEPT ![Current] = Never]
  /\ events' = Recent(events, passAt)
  /\ next' = next + 1
  /\ UNCHANGED <<phase, dry, passAt, sent, disk, now, faults, ledger>>

\* RecordResult of a dry run: a fresh record, without an attempt time.  Its
\* event is one DailySpent does not count, so it is left out.
DepositDry ==
  /\ InPass /\ Current \in dry /\ CooldownOver(Current)
  /\ attempt' = [attempt EXCEPT ![Current] = Never]
  /\ events' = Recent(events, passAt)
  /\ next' = next + 1
  /\ UNCHANGED <<phase, dry, passAt, sent, disk, now, faults, ledger>>

\* Deposit: the result's CompletedAt is read on entry; then the transaction
\* is broadcast, and Deposit waits for it to be mined.
Broadcast(amount) ==
  /\ InPass /\ Current \notin dry
  /\ CooldownOver(Current) /\ UnderCap(amount)
  /\ LET tx == [account |-> Current, amount |-> amount, plan |-> passAt, done |-> now]
     IN  /\ sent' = <<tx>>
         /\ ledger' = Append(ledger, [tx EXCEPT !.done = Never])
  /\ phase' = "confirm"
  /\ UNCHANGED <<dry, next, passAt, memory, disk, now, faults>>

\* RecordResult: the attempt is dated by the pass, whatever its outcome.
Recorded ==
  /\ attempt' = [attempt EXCEPT ![Current] = passAt]
  /\ next' = next + 1
  /\ phase' = "pass"
  /\ sent' = <<>>

\* Deposit fails before anything is broadcast.
BroadcastFails ==
  /\ InPass /\ Current \notin dry
  /\ CooldownOver(Current)
  /\ \E amount \in Amounts : UnderCap(amount)
  /\ Recorded
  /\ UNCHANGED <<dry, passAt, events, disk, now, faults, ledger>>

\* Mined: the event is appended to those of the last day.  A deposit command
\* may report a completion time of its own.
Confirmed ==
  /\ phase = "confirm"
  /\ \E done \in {sent[1].done, now} :
       /\ events' = Recent(events, passAt) \cup {[sent[1] EXCEPT !.done = done]}
       /\ ledger' = [ledger EXCEPT ![Len(ledger)].done = done]
  /\ Recorded
  /\ UNCHANGED <<dry, passAt, disk, now, faults>>

\* Mutant of Unconfirmed: a failed deposit is not recorded.
UnconfirmedUnrecorded ==
  /\ phase = "confirm"
  /\ next' = next + 1 /\ phase' = "pass" /\ sent' = <<>>
  /\ UNCHANGED <<dry, passAt, memory, disk, now, faults, ledger>>

\* Reverted, or the wait failed: an error, and no event.
Unconfirmed ==
  /\ phase = "confirm"
  /\ Recorded
  /\ UNCHANGED <<dry, passAt, events, disk, now, faults, ledger>>

PassOver == phase = "pass" /\ next > Len(AccountList)

Written == disk' = [ok |-> TRUE, attempt |-> attempt, events |-> events]

\* WriteFile truncates the file before it writes it.
WriteFails ==
  /\ faults < MaxFaults /\ faults' = faults + 1
  /\ \E ok \in BOOLEAN : disk' = [disk EXCEPT !.ok = ok]

\* RunOnce's variables end with it, and all of memory with the process.
PassEnds == next' = 1 /\ passAt' = 0 /\ sent' = <<>>
Stops ==
  /\ phase' = "down" /\ dry' = {}
  /\ attempt' = Blank /\ events' = {}
  /\ PassEnds

Save ==
  /\ PassOver
  /\ Written
  /\ PassEnds
  /\ phase' = "idle"
  /\ UNCHANGED <<dry, memory, now, faults, ledger>>

\* SaveState fails: the monitor exits.
SaveFails ==
  /\ PassOver
  /\ WriteFails
  /\ Stops
  /\ UNCHANGED <<now, ledger>>

\* --once, or a signal in the interval wait: there is nothing to write.
StopIdle ==
  /\ phase = "idle"
  /\ Stops
  /\ UNCHANGED <<disk, now, faults, ledger>>

\* A crash may come in the middle of a write.
Crash ==
  /\ phase # "down" /\ faults < MaxFaults
  /\ Stops
  /\ faults' = faults + 1
  /\ \E ok \in BOOLEAN : (PassOver \/ ok = disk.ok) /\ disk' = [disk EXCEPT !.ok = ok]
  /\ UNCHANGED <<now, ledger>>

Tick ==
  /\ now < MaxTime
  /\ now' = now + 1
  /\ UNCHANGED <<phase, dry, next, passAt, sent, memory, disk, faults, ledger>>

Next ==
  \/ Start \/ BeginPass \/ SkipBalance \/ SkipDecision \/ DepositDry
  \/ \E amount \in Amounts : Broadcast(amount)
  \/ BroadcastFails \/ Confirmed \/ Unconfirmed
  \/ Save \/ SaveFails \/ StopIdle \/ Crash \/ Tick

Spec == Init /\ [][Next]_vars

-----------------------------------------------------------------------------
(* Properties                                                              *)

\* Transactions of one account, planned within a cooldown after transaction i.
TooSoon(i) ==
  {j \in (i + 1)..Len(ledger) :
     /\ ledger[j].account = ledger[i].account
     /\ ledger[j].plan - ledger[i].plan < Cooldown[ledger[i].account]}

\* "Deposit decisions are recorded in state_path and respect per-account
\* cooldowns" (docs/funding.md:22-23): two transactions for one account are
\* planned at least its cooldown apart, across passes and restarts.
CooldownRespected == \A i \in 1..Len(ledger) : TooSoon(i) = {}

\* What the code does keep of that: the state is written once per pass, so each
\* crash or failed write can let at most one early transaction per account
\* through, and without any there is none (app/funding.go:87-97, plan.go:33).
LossBounded == \A i \in 1..Len(ledger) : Cardinality(TooSoon(i)) <= faults

\* Until something fails, however late confirmations arrive and wherever the
\* 24 hours slide, the confirmed deposits of the day that ends with any one of
\* them stay within the cap, also over restarts and dry runs (runner.go:57,
\* state.go:56, 98, 160-170).
Spent(book, txs) == SumFunction([j \in txs |-> book[j].amount])
ConfirmedIn(from, to) ==
  {i \in 1..Len(ledger) : ledger[i].done # Never /\ ledger[i].done \in from..to}
CapRespected ==
  faults = 0 =>
    \A i \in 1..Len(ledger) : ledger[i].done # Never =>
      Spent(ledger, ConfirmedIn(ledger[i].done - Day, ledger[i].done)) <= DailyCap

\* Until something fails, no transaction is forgotten within its cooldown: it
\* is not older than its account's recorded attempt, or is being confirmed; and
\* a process that is down has left the record on disk, so neither a restart nor
\* a dry run in between lets an early one through (state.go:77-107,
\* plan.go:33).
NothingForgotten ==
  faults = 0 =>
    \A i \in 1..Len(ledger) :
      LET t == ledger[i]
          known == IF phase = "down" THEN disk.attempt ELSE attempt
      IN  \/ now - t.plan >= Cooldown[t.account]
          \/ known[t.account] # Never /\ known[t.account] >= t.plan
          \/ phase = "confirm" /\ sent[1].plan = t.plan /\ sent[1].account = t.account
=============================================================================
