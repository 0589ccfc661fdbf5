# perps-latency-benchmark: verification project

perps-latency-benchmark measures how fast perpetual-futures venues acknowledge
orders. It sends real orders, so the program is also responsible for closing
what it opened, for never measuring on an account that is not clean, and for
topping up the accounts without spending more than it was told to. What it measured
is published by a dashboard, a TypeScript site that proxies the benchmark's API. This
directory models the parts of both where what is right depends on the order in which
goroutines, messages, answers, clicks, crashes and timeouts happen, and the computations of the
dashboard that decide what a reader is told; it checks the models with TLC and
proves theorems about the feed, the builder, the runner and its coordinated cycles, the order sockets, the supervisor, the
funding monitor, the collector of exchange TPS, the dashboard's worker and page, and its panels with TLAPS.

## 1. The system

The benchmark is Go under `internal/`, with python payload builders under
`internal/venues` and two scripts; the dashboard is TypeScript under `frontend/src`.

| component | state it keeps | operations | talks to | what is hard |
|---|---|---|---|---|
| `accountfeed.Feed` | current websocket, registered waiters, replay buffer, auth expiry, `connectMu` | `Ensure`, `Wait`, `dispatch`, `fail`, `invalidateStaleLocked` | `confirmws.Client`; every confirmation of the account | reconnects, races of answers, timeouts and lost connections |
| `confirmws.Client` | socket, ping goroutine | dial, `Read`, `Close` | the venue | `Close` during a read |
| `bench` runner | schedule, semaphore, samples, run metadata | startup, sequential and open loop, reconciliation | venue, cleanup | overlapping requests and cleanups, cancellation, late orders |
| coordinated cycle and loop | retained samples, per-venue preparation, barriers | one cycle: check, prepare, release, close out, store, reconcile | venues, cleanup, store | two barriers, partial failure, kill and restart |
| `cleanup.CommandAdapter` | prepared attempts | `BeforeRun`, `AfterSample`, `AfterRun` | builder, venue | lost answers, retries |
| `payload.PersistentCommandBuilder` | one child process and its pipes | `Build`, `Close` | python builder | timeouts with a shared process |
| funding monitor | last attempts and deposit events, in memory and in `state_path` | pass over the accounts, deposit, save | chain, balance commands | crash between broadcast and save |
| run-continuous supervisor | session, backoff, chunk number | run, write, retain, check, retry | runner, store | order of failures |
| run lock, rate-limit preflight | a flock; reserved budget and backoff | acquire; preflight | other processes; the venue | |
| exchangetps | pending minutes, seen heights, ignored minutes; minute and hour tables | collectors, `Flush`, rollups, sampler, retention | block streams, SQLite | reconnects, replays, lost or doubled counts |
| booktop, dynamic pricing | book levels, history; cached price | whole books and updates, `SnapshotAt`; `waitForFreshBook`, `current` | market-data streams | trimming, staleness, lost updates |
| netlatency | connections, `c.mu`, heartbeat loops | `EnsureConnected`, `Do`, `Close` | venues | late and missing answers, reconnects |
| netbaseline | last probe | probe | venues | |
| store, serve, dashboard read model | SQLite | reads and writes | | none of its own |
| dashboard worker (`frontend/src/api/*.server.ts`, `routes/api/bench`) | response cache shared by all browsers, sealed session cookies, environment | route, check of the session, cache, fetch with fallbacks, filter, keep; login, logout | benchmark API, browsers | requests side by side, stale or foreign entries, a deployment between two steps |
| dashboard page (`dashboard-page.tsx`, `csv-export-button.tsx`, `filters.tsx`, `api/bench.ts`) | session query, windows, query cache, venue filter, export dialogs | select, click, log in, poll, export | the worker, other tabs through the cookie | late and crossing answers |
| dashboard panels (latency table and charts, exchange TPS, taker cost) | sort, modes, outliers, tooltip | receive, select, point | the page's queries | ties, thresholds, thinning, stale tooltips, forms of older APIs |
| accounts, config, secrets, service topology, venues' formats | none | parse, validate, sign | | none |

What makes each of the modelled ones correct is stated by the properties below;
`PROJECT.json` lists the hazards of the code at their lines, also some that no
property covers; section 5 names the others.

## 2. Modules

**AccountFeed** (`internal/accountfeed/feed.go`, `confirmation.go`). One action per
critical section of `f.mu`; everything the code does after it unlocks (closing a
socket, sending to a waiter's channel, starting the reader) is an action of its
own, so that all interleavings are there. `connectMu` is the variable of that name.
`pc[w]` follows one confirmation: `Ensure` at preparation, the submission, `Ensure`
again, `Wait`. `rd[c]` follows the read loop of one connection. `DropCounts` is
`trimRecentLocked`. Messages are model values; `MsgIds`, `Need` and `Rejects` say
which orders an event settles, what a confirmation looks for (all of the ids for
a cancel, any for an order) and for whom an event is a rejection. A client's socket
is open or closed.

**Confirmations**: what a confirmation promises to the benchmark, independent of
connections: each is answered once, and confirmed or rejected only by events
observed at or after its own submission. AccountFeed implements it
(`ImplementsConfirmations`).

**Coordinated** (`internal/app/coordinated.go`, `internal/bench/coordinated.go`,
`coordinated_timing.go`; of `internal/cleanup` and `internal/bench/runner.go` what a cycle sees of them; and the cleanup program
of hyperliquid, `venues/hyperliquid/cancel_payload.py`). `pc` is the main goroutine, `g[v]` the goroutine of a
venue in the current phase. A venue has `resting` orders, a position `held` (the fills it consists of) and `flight`, the requests
that may still land: late, or never. Orders land and fill at any time, also between the two reads of one check (`CheckPosition`, and the step
after it). The check before a run, `BeforeRun`, is that of `before_run`: it looks for the orders that its run has planned (`LookedFor`), or
for all with `cleanup_all_open_orders`; it refuses a position where the configuration asks for it (`Guarded`, not `Allowing`), and sells it
(`Healing`). A process's run id is random, because `--run-id` is not given: it plans none of another process's orders, and of its own only those of
`PlannedIterations`. Every request of a cleanup may succeed, fail having done
some of it, or report a failure having done all of it. `Kill` may come anywhere ("down"), a strict check may end the process ("failed"), and it may
start again with other arguments. `cleanup.scope` is `after_sample`. Boundaries, leads and
spin waits only delay steps and are left out; prices and costs too, and what the other venues' cleanup programs do differently.

**Funding** (`internal/app/funding.go`, `internal/funding`). Memory (`attempt`,
`events`) and `disk` are separate; `ledger` is a history variable, the transactions
that were broadcast. A pass reads the time once (`passAt`), as `RunOnce` does; a
deposit is dated on entry; a mined one may be dated by the command that made it.
A write of `state_path` may fail, and a crash during it may leave a file that does not parse
(`disk.ok`). There is one money-moving transaction per deposit (`approve` moves
nothing). The program gives its commands no context that is ever cancelled (`cmd/perps-bench/main.go:11` calls `Execute()`, and only
`exchange_tps.go:57` installs a signal handler), so the path of `runFundingMonitor` that saves the state of a cancelled pass
(`funding.go:89`) is never taken and is not modelled. `StopIdle` is the end between two passes, by `--once` or by a signal, which ends
the process wherever it is (`Crash` is the same within a pass). Deposit commands that
report a status other than success are outside the model.

**CommandBuilder** (`PersistentCommandBuilder` in `internal/payload/command.go`).
`mu` is `b.mu`, `cur` is `b.cmd`, `b.stdin` and `b.stdout`, which the code sets and clears together;
`in` and `out` are the pipes of each program. The reader goroutine of
`readLineLocked` loads `b.stdout` when it first runs, without the lock, which is
`ReaderRuns`. The program answers in order, may hang (it has no fairness) and may exit.
A request fits the pipe, so `stdin.Write` does not block.

**BenchRunner** (`internal/bench/runner.go`, `benchmark_lifecycle.go`, of `internal/cleanup` the retries and results, and
the cleanup program of hyperliquid, `venues/hyperliquid/cancel_payload.py`, whose phases the other venues' programs share).
`pc` is Run and the goroutine that keeps the schedule; `job[i]` follows sample `i` through `runOnce`, its cleanup
and the retries of that. `results` is the channel, `samples` the list that Run returns. The account is `pos` and
the fate of each `order[i]`: in flight, open, filled or gone; a cleanup sees what has landed when it looks, and acts later.
`seen` is the position `before_run` read, `baseline` the one that later phases find, which may be none. `cfg`
chooses the loop, `--max-in-flight`, `--stop-on-error` and the cleanup's options; `Found` is what the account holds before the run.

**Continuous** (`internal/app/continuous.go`, `rate_limit.go`). One process and its restarts: `pc` is the phase of a
chunk, `wait` what is left of a sleep, `failures` the streak that the backoff is computed from. The venue's rate limit is `remaining` and
`limit`; a reserve command may be carried out although its answer is lost (`unanswered`). What a run does is
BenchRunner's; here it succeeds or fails.

**OrderSocket** (`internal/netlatency/websocket.go`). `mu` is `c.mu`, `pc[d]` one caller, which first makes the connection
ready and later sends; `loop[c]` the heartbeat goroutine of each connection and `beating` the one that
`heartbeatCancel` would stop. `owed` and `inbox` are the venue's side. `cfg` is the client's configuration, and whether its
callers' contexts have a deadline; the program's have none.

**ExchangeTPS** (`internal/exchangetps`, the hyperliquid collector). The main goroutine is
`proc` and `sess`; `batch` and `span` are the local variables of the two `Flush` calls
that may overlap, the ticker's and the last one; `sampler[h]` follows one block
through `runActionSampler`. `seen`, `slots` and `pending` are lost with the process,
the four tables are not. `Receive` is one block through `handleBlocks`: the ignored minutes and the
seen heights are used by the main goroutine only, so that its critical sections can be
one step. `Open` and `Defer` are two, because the clock is read in each. `cut`,
`wrote` and `failed` are history. A database transaction is atomic; shares are abstracted to the number of sampled
blocks. Pruning of seen heights, 10000 back, is left out.

**BenchProxy** (`frontend/src/api/bench.server.ts`, `bench-window.server.ts`,
`advanced-auth.server.ts`, and the routes under `routes/api/bench`). `pc[r]` follows one
request through its waits: the cache lookup ("match"), the API ("fetch"), the cache write
("put"). What precedes the first wait (window, limits, `requireAdvancedAuth`) is one step,
`Send`. `conf[r]` is the environment of the worker the request runs in: `Deploy` replaces
the environment while older requests go on, and the cache outlives it. `Paths(a)` are the API paths that a
route tries in turn; the first is also the cache key. An answer is the set of the
venues it has rows of. A session cookie is the secret that sealed it, with the typed password as history.
The cache may lose an entry, fail on reading (500: it is outside the `try`) and
on writing (502: it is inside).

**VenueSelection**, **Dashboard** (`dashboard-page.tsx`, `filters.tsx`,
`csv-export-button.tsx`, `api/bench.ts`). `session` is the session query with what its request
carried; `posts` the logins and logouts under way; `data` and `fetch` the query cache, keyed by
window; `job` an export under way, with what its closure captured. `Invalidate` is
`invalidateQueries` of the query library as the code uses it: it replaces a refetch, but waits for a
first fetch. `CookieChanges` is another tab, or the cookie's end. The page's effects that reset the windows
are part of the answer that causes them. The three exports that are not modelled have the same dialog.

**LatencyMetric** says what one stored row becomes in each of the three forms that the API serves
(`internal/store/dashboard_sample.go`; external to the dashboard) and what
`lib/latency-metric.ts` and `lib/sample-time.ts` read of each. **LatencyChart** is
`latency-timeseries-chart.tsx`: series, outliers, the rolling trend with its two moving
indices, marks and tooltip. **LatencyTable** is `latency-table.tsx` and `getStats`,
**TPSChart** `exchange-tps-panel.tsx`, **TakerCost** `taker-cost-panel.tsx` and
`lib/taker-cost.ts`, **Stats** the sorting, filtering and order statistics they share, written with sets and counting
(`Arranged`), so that they can be reasoned about. Their numbers are integers: dates are
ticks, values drawn are in quarters, so that interpolated quartiles are exact. The state of a panel is its
answer, its controls and its tooltip. The panels have none in common, so **Panels** looks
at one at a time; the others are `Off`.

**AccountFeedProofs**, **CommandBuilderProofs**, **CoordinatedProofs**, **ServiceProofs** (about Funding, ExchangeTPS and
Continuous, the programs that run beside the benchmarks), **BenchRunnerProofs**, **OrderSocketProofs**, **BenchProxyProofs** and **DashboardProofs** (which is also about
LatencyMetric and the panels) hold the theorems; the **MC** modules
give the constants of the small instances.

## 3. Runs

| run | instance | shows |
|---|---|---|
| feed_races | 2 confirmations (a cancel of two orders and an order, the second rejected by one event), 2 connections, 2 events read, clock 0..2, tokens that expire, replay buffer of 1 | `AnsweredOnce`, `NothingLeftBehind`, `SocketsInHand`, `ImplementsConfirmations` |
| funding | 2 accounts with cooldowns 1 and 2, one may be dry, cap 2, day 1, clock 0..2, 1 fault | `LossBounded`, `CapRespected`, `NothingForgotten` |
| coordinated_cycles | two strict venues, or one beside a venue without cleanup, for 1 cycle, or one for ever; one repairs positions and looks for planned orders, the other allows positions and looks at all orders; 2 starts, 3 cycles | `MeasuredClean`, `SharedBoundary`, `StoredBeforeNext`, `ReconcilesNewest`, `CycleEnds` |
| runner | 2 samples, both loops, 1 or 2 in flight, seven profiles, clean and unclean accounts, 1 retry | `WholeAndInOrder`, `CleanedUp`, `Reconciled`, `RunReturns` |
| runner_cut | the open loop with `--stop-on-error`, a clean account | `OrdersReconciled` is violated |
| continuous | 1 restart, with and without reserving, delays up to their limit | `PurchasesBounded`, `BacksOffAndGoesOn` |
| socket | 2 callers, 2 connections, every setting, with and without deadlines | `AnswersOwn`, `SocketKept`, `NobodyHeldUp` |
| builder_lines | 2 Builds, 2 programs, 1 Close | `AnswersOwn`, `NothingLeftRunning`, `BuildReturns` |
| tps_buckets | 2 blocks (of 2 and 1 transactions) in the 2 minutes of an hour, 2 starts, 1 fault, clock 0..4, retention | `CountedOnce`, `HoursAgree`, `HoursKept` |
| proxy | 2 requests of one browser, 1 venue, 3 queries (a public window by default, a restricted one, the export), 2 environments that differ in secret and hidden venue, 2 passwords, lifetime 1, clock 0..2 | `AnswersOwn`, `EmptyNotKept`, `HiddenSoon` |
| dashboard | 2 windows, 3 venues (one hidden), 5 samples, 5 acts | `BeliefSettles`, `ShownAsSelected`, `ExportTrue`, `ClicksFlipOne` |
| panels | some thirty answers for four panels, every control, five or six pointers | `Ranked`, `TrendTrue`, `ThinnedTrue`, `CostsTrue`, `TooltipsCurrent`, `SameInEveryForm` |

Properties that say several things are conjunctions of named parts: `CleanedUp` is `StrictStartsClear`, `StrictNeverSilent`
and `NeverShort`; `PurchasesBounded` is `BudgetBounded` and `ReserveOnceAnHour`; `BacksOffAndGoesOn` is `BackedOff` and
`LoopsOn`; `SocketsInHand` is `CurrentIsRead` and `NoSocketLeak`; `SocketKept` is `OneHeartbeat` and `NoSocketLeft`; `NobodyHeldUp` is `CallsReturn` and `LoopsEnd`; `CountedOnce` is
`NeverOvercounted` and `Conserved`. The modules' `TypeOK` is not among the runs' properties; where it is a part of a
proof, section 4 names it.

**Bounds.** Two confirmations are enough for one to invalidate, replace or starve the
connection of the other; two connections for a replaced reader to fail late. The
replay buffer of one event makes trimming happen in every run. The second clock value
separates an event before a submission from one after it. Two starts of the
coordinated process are one that leaves orders and fills behind, and one that finds them, or measures without it; three cycles
overflow the retention buffer of two. The run plans one iteration of each process's three
(`PlannedIterations`), so that there are orders of each kind: planned, beyond the plan, and another process's. Two Builds are
one that times out and one that comes after it; two programs are the
one killed and its successor. Two samples are the least that overlap, finish in the other order, or clean up at the same
position; with one in flight the second waits for the semaphore. Two callers of a websocket are one that times out and one
that comes next; the second connection is the one on which a late answer must not appear. In ExchangeTPS a tick is a minute, an hour has two,
and the second of grace before a flush is less than a tick (`Grace = 0`). The clock begins in
the last minute of an hour (`Offset = 1`), so that both blocks are of the next one and
a restart may delete the first minute of an hour that is still being counted. The sampler
holds one block (`Queue = 1`), so that the full queue happens. `MaxTime`, `MaxClock`, `MaxReads`, `MaxFaults`, `MaxMishaps`, `MaxRuns`, `MaxIndex`,
`MaxCycles`, `MaxCloses`, `MaxActs`, `MaxConns`, `MaxFailures`, `MaxStarts`, `MaxUnanswered` and the finite `Clients` and `Programs` bound counters and supplies the code does
not bound. In BenchProxy two requests are the one that fills the cache and the one that finds it
(or that overtakes it); the third tick separates an entry that expires from one that is
written late by a worker of the older environment. Five acts of a tab are, for example, a login, a longer window,
the dialog, the export and a change of the filter. The panels' answers have
series just below and just above the eight points from which outliers are looked for, quartiles that
coincide, lines longer than the plot's points, ties, rounds that are dirty, uncovered or free, samples that
came late or failed. Deadlock is checked in continuous, proxy and
dashboard, where something can always happen; the others stop when their work is done or the supplies are used up.

**Symmetry** is used in safety runs only: for the connections of the feed, and for the two requests of the proxy.

**Fairness.** Coordinated, BenchRunner, Continuous: builders, HTTP requests, confirmations and rate-limit commands have
timeouts, so goroutines go on. A request over a websocket has none, because the contexts have no deadline: `CycleEnds`, `RunReturns`
and `BacksOffAndGoesOn` are about runs whose sends return, and OrderSocket shows what one that does not return holds up. OrderSocket:
goroutines go on, tickers tick, and a waiter gets `c.mu` in the end; nothing is assumed of the venue. CommandBuilder: weak fairness of the steps of a Build and of its
reader, strong fairness of taking `b.mu` (`sync.Mutex` hands over to a waiter that
starves), and time passes; none for the program. The other modules state no
liveness: a venue's event, a block or an answer to the dashboard may never come.

### What the violated run shows

* `OrdersReconciled`: `README.md` says venues reconcile that no submitted order remains open. With a
  rate and `--stop-on-error` the samples after the first failure are sent and then cut from the list that
  reconciliation goes by. `Reconciled` is what holds, for runs that are not cut and know their position.

### Statements that do not hold, and what does

These definitions are in their modules, in no run; TLC refutes each when it is added to the INVARIANTS of the run named.

* `CooldownRespected` (funding): `docs/funding.md` says deposit decisions are recorded in
  `state_path` and respect cooldowns. The state is written once per pass; a crash
  between a broadcast and that write forgets it. `LossBounded` is what holds: one early
  deposit per account and fault.
* `StaysAlive` (builder_lines): `CONTEXT.md` says the collector stays alive across run failures. A
  Build whose context has ended may clear `b.stdout` before its reader goroutine has
  loaded it; the goroutine then reads from nil and the process panics. `BuildReturns` is what holds.
* `PositionReconciled` (runner): the sentence of `OrdersReconciled` says also that the position did not change. A startup that
  cancelled stale orders leaves no position where the later phases look for it: fills are not neutralised, and the comparison
  is skipped. The same holds of run-coordinated, at whose checks it may happen before every cycle.
* `StaleFound` (coordinated_cycles): `README.md:294-296` says that stale orders of the same `run_id` are looked for, and the check reports "no stale hyperliquid
  benchmark orders". run-coordinated repeats the check before every cycle, but the check derives the ids it looks for from
  the venue's own configuration (`planned_orders`: 10 iterations by default), and the cycles go on
  beyond those: without `cleanup_all_open_orders` an order of a later cycle that lands late is not found. `MeasuredClean` is what holds: of the
  orders the check does look for none is left, and a guarded venue held no position when the cycle began.

Observed while modelling, without a definition of their own: `--stop-on-error` is described as "Stop after the first failed
sample", and the open loop sends all of them; block counts are called exact for the observed stream (`CONTEXT.md`), and blocks of a
minute in which a session began are ignored while its first part is counted (`Conserved` excepts them); a websocket send waits
without a deadline, with the client's mutex held, for an answer that may not come (`CallsReturn` is about contexts with one); when chunk 0 of run-continuous is refused or fails, no later chunk has its warmups
(`app/continuous.go:96`); a cycle that the rate-limit preflight skips counts
as one of `--cycles` ("Number of measured cycles to run after warmups",
`app/coordinated.go:72`, 120-148); the README's "Subtract network floor" toggle (README.md:310-311) is
in the filter's type and in the table's arguments, but nothing sets it; the export of a window without samples
says "Export failed", because the API's list is null; a cache write that fails turns a good answer into a 502;
an order that fills between a startup check's two reads counts as cancelled, and its fill as part of no position;
without `cleanup_all_open_orders` nothing looks for the order of a killed process any more, because the next has a
run id of its own, and only its fill is noticed, by a guard; a login that ends before the first session answer is not noticed until the next refetch; and of two
requests that miss together, the one that fetched first may write last.

## 4. Proofs

All theorems hold for every value of the constants that the named assumptions
(`FeedAssumption`, `BuilderAssumption`, `CoordinatedAssumption`, `FundingAssumption`, `ProxyAssumption`,
`SelectionAssumption`, `DashboardAssumption`, `ChartAssumption`, `TableAssumption`, `TPSChartAssumption`, `CostAssumption`, `RunnerAssumption`, `SocketAssumption`, `TPSAssumption`,
`ContinuousAssumption`) allow: any number of confirmations, connections, events, Builds, programs, cycles, kills, accounts,
faults, blocks, browsers, requests, windows and venues, any clock, delays, budgets and buffer sizes. The assumptions
say that the constants have their types, that the sets of names are disjoint, that a run of the collector sees finitely many blocks
(`TPSAssumption`) and that the supervisor counts failures until its delay is the longest (`ContinuousAssumption`). Of the panels' answers
they say that the rows have their fields, that the API summarises each venue and mode once (`TableAssumption`;
`app/dashboard_read_model.go:82`) and counts each venue's bucket once, by minutes or by hours (`TPSChartAssumption`), that a
plot has at least four points, that a round is closed on the side opposite to that on which it was opened (`CostAssumption`), and that the
samples of an answer are no further apart than a trend with the longest interval can span, 900 weeks, where the longest window
the page can ask for is 365 days (`ChartAssumption`; `latency-timeseries-chart.tsx:1173`, `api/bench.ts:227`).

* `AccountFeedProofs!TypeCorrect`: `Spec => []TypeOK`.
* `AccountFeedProofs!SocketsOwned`: `SocketsInHand`, which is `CurrentIsRead` (the current connection has a reader) and `NoSocketLeak`. Neither is inductive: to know
  that a fresh connection has no reader yet one must know who holds `connectMu`, what
  it holds at each of its steps, and that what it installed may already have been
  invalidated. That is `SocketInv`.
* `AccountFeedProofs!NothingIsMissed`: `NothingLeftBehind`. `ReplayInv` adds that a confirmation that has not reached Wait has
  crossed off none of its ids. What Wait finds in the buffer is a union over a prefix of it; that the last fresh
  event of the buffer decides is `LastFresh`.
* `AccountFeedProofs!FeedImplementsConfirmations`: the feed implements `Confirmations`, step by step. `EvidenceInv` says that the
  replay buffer comes from the log of what was observed, and that whatever is crossed off, or waits in a channel, is
  justified by events observed since the submission of that confirmation.
* `AccountFeedProofs!AnsweredAtMostOnce`: `AnsweredOnce`. `AnswerInv` adds that
  only blocked confirmations are registered, that one that has not reached Wait is owed
  nothing, and that a goroutine holds detached waiters only between detaching them and
  its last send.
* `CommandBuilderProofs!TypeCorrect`, which also carries `HoldsLock`: a Build is between its lock
  and its return exactly when it holds `b.mu`.
* `CommandBuilderProofs!LinesNotSwapped`, `ProgramsCleared`: `AnswersOwn` and
  `NothingLeftRunning`. `BuilderInv` is their conjunction with four facts: only the
  current program is live; where each reader is; the Build at its select is the only
  one the current program owes a line; a program nobody waits for owes nothing. A stale
  reader may still take the line of a newer Build: the invariant says that this
  Build's channel then stays empty, so that it times out.

* `CoordinatedProofs!TypeCorrect`: `TypeOK`, with what is known of a process: one that has ended keeps nothing,
  and a cycle begins only below the limit, with a serial number of its own.
* `CoordinatedProofs!CleanAccountsMeasured`: `MeasuredClean`. `CleanInv` adds that an order is in flight or rests and
  never both, and that what rested when the cycle began is no longer in flight (`Apart`), that the order about to be sent is
  new (`Fresh`), that what a check in progress has read includes the position of before the cycle (`Reading`: fills only add to it until
  that venue's check is over), and that what the check has established of a strict venue stays true until the order is out (`Checked`).
  That a check which is OK has established it is `CheckPasses`: it is proved of every way in which `before_run` can end.
* `CoordinatedProofs!BoundaryShared`: `SharedBoundary`, from `Barriers`, which says where each goroutine may be in
  each phase.
* `CoordinatedProofs!EarlierStored`: `StoredBeforeNext`, from `Stored`, which also says that a stored failure is of the last cycle, and
  that a process in which there is one goes nowhere but to its end.
* `CoordinatedProofs!NewestReconciled`: `ReconcilesNewest`. `Retained` says that what is retained is an unbroken
  run of serial numbers that ends with the last cycle, and shorter than the limit only if it is everything.
* `ServiceProofs!CapKept`: `CapRespected`. `CapInv` says that the confirmed deposits of the day before each
  confirmation have been within the cap *by the transactions up to it*, that confirmations are dated in order, that the
  events in memory (and on disk, when the disk is what is read next) are all that a pass may still have to count, and
  that a deposit under way leaves room for them. The cap itself is about sums over sets: the module first proves
  what a sum is (`SumSteps`), that it does not depend on the order in which it is taken (`SumLess`), and that it is at most
  that of a set into which its elements map one by one (`SumInto`, which takes the ledger's transactions to the events).
  No two of them are equal, because a cooldown keeps an account's plans apart (`AllDistinct`).
* `ServiceProofs!EarlyAreBounded`, `Remembered`: `LossBounded` and `NothingForgotten`, from one invariant: `Counted`
  charges a fault for every early successor of a transaction and one more while nothing keeps the next one away
  (`Safe`). A crash therefore pays for the record it loses, and the successor it lets through restores the record.
* `ServiceProofs!CountedOnceAlways`: `CountedOnce`. `CountInv` says that what is pending, in the batch of either `Flush` and in the table is
  together at most what the accepted blocks of the minute account for, and likewise for samples; and that a minute that another process
  has written, whose blocks may be delivered again to this one, which has forgotten them, is one that it ignores
  (`CollectorOK` relates the ignored minutes, the seen heights and the clock). `Conserved` is then inductive.
* `ServiceProofs!HoursAgreeAlways`: `HoursAgree`. `HourInv` says that the hour of a minute written is the sum of its minutes or is still
  to be recomputed by the flush under way, whichever sampler recomputes it in between.
* `ServiceProofs!HoursKeptAlways`: `HoursKept`. `KeptInv`: an hour is at most the sum of its minutes unless it is `Over`: no
  block of it can be pending or come again, so that nobody recomputes it when its minutes have been deleted.
* `ServiceProofs!PurchasesStayBounded`: `PurchasesBounded`. `PurchaseInv` bounds what the venue has sold by the budget times the
  starts and lost answers there have been, and says that an hour that is not over blocks the next reserve unless a status has shown
  that it is not needed.
* `ServiceProofs!FailuresBackOff`: `BackedOff`, the part of `BacksOffAndGoesOn` that is about safety. `DelayInv`: the delay of
  the streak has passed or is being slept.

* `BenchRunnerProofs!ResultIsTheRun`: `WholeAndInOrder`. `WholeInv` says that the samples started are the first ones, that the
  channel holds those that are done, once each, and that the closed loop has one under way at most. That sorting such a
  list gives 1, 2, ..., n, cut at its first failure, is proved of every list (`SortedIsIdentity`, by the least place where it would not).
* `BenchRunnerProofs!NeverLeftInSilence`: `CleanedUp`. `StartInv` is what the startup has established in each of its phases, `CleanInv`
  what each step of a sample's cleanup knows of its order (`Handled`), and that once an order has filled, either
  the position is 0 or some sample answers for it (`Held`): its cleanup has yet to look, sells all there is, or has failed.
* `BenchRunnerProofs!ReconciledIsMeant`: `Reconciled`, from `ReconInv`: what is listed of an uncut run is all that was sent.
* `OrderSocketProofs!AnswersNotSwapped`: `AnswersOwn`. `LockInv` says who holds `c.mu` and what it holds; `LineInv` that on the
  connection at most one answer is under way, that which the holder of the lock waits for, and none when nobody waits.
* `OrderSocketProofs!SocketAndLoop`: `SocketKept`. `ConnInv` says that a heartbeat loop begins with its connection and is stopped with
  it, and that `heartbeatCancel` is that of the connection in use.

* `BenchProxyProofs!AnswersAreOwn`: `AnswersOwn`. Its invariant `IInv` adds what the cache must be
  for that: whatever is kept under a query's first path is an answer to one of the query's own paths (`CacheOwn`, which
  rests on a first path determining its fallbacks, `PathsOfPrimary`), a request past `Send` was let through, and
  every cookie was set for a password of some environment (`EqualTexts`: of texts,
  `constantTimeEqual` is equality).
* `BenchProxyProofs!NothingEmptyKept`: `EmptyNotKept`. `KInv` adds that an answer about to be put is one to be kept.
* `BenchProxyProofs!HiddenFades`: `HiddenSoon`. `HInv` adds that the clock does not go back, that the venues of an
  entry were shown by some worker when it was put or later, and that what a request is about to put its own
  worker does not hide.
* `DashboardProofs!TabBelievesCookie`: `BeliefSettles`. `Believes` adds that, as long as nothing was
  missed, the session request under way carries the cookie of now.
* `DashboardProofs!ChartsFollowSelection`: `ShownAsSelected`. `SInv` adds that each entry of the query
  cache, and each request under way, is of its own window, and that a job whose dialog has gone does not
  act on another.
* `DashboardProofs!FileAsAsked`: `ExportTrue`. `FInv` says that a saved file is made of one job, its name, its rows
  and what was asked, and that a scenario is single or batch.
* `DashboardProofs!ClicksFlip`: `ClicksFlipOne`. It holds in every state in which the filter is one; the proof is about
  finite sets: a part as large as the whole is the whole (`PartIsWhole`).
* `DashboardProofs!ChartsAgree`: `SameInEveryForm`, from
  `FormsAlwaysAgree`, which is about every stored row, whatever its numbers.

* `DashboardProofs!TableAlwaysRanked`: `Ranked`. That `Arranged` gives every place once, in the order asked for, is proved of any
  order (`Arranging`), and from it what `Kept` and `SortedBy` return (`Keeping`, `Sorting`) and who wins a card (`WinnerIsLeast`).
* `DashboardProofs!TooltipsAlwaysCurrent`: `TooltipsCurrent`. The tooltips of the latency and cost charts are inductive as they
  stand; that of the TPS chart rests on the two binary searches, which find the nearest point of a line
  because its dates rise (`LineIs`, `SearchFinds`, `PointFound`: a search that stopped elsewhere would have a least place at which its bounds are wrong).
* `DashboardProofs!ThinningTrue`: `ThinnedTrue`. Each bucket keeps its least and its greatest point (`ExtremesKept`), there are few
  enough of them (`BucketsFew`), and the average of a line lies between its extremes (`SumsCompare`, `AverageBetween`).
* `DashboardProofs!CostsAlwaysTrue`: `CostsTrue`. `StableIs`: the first complete minute is one of those in which every venue has a clean
  round. `LegsAre`: the cost gap is the sum of the legs' slippages because a round closes on the other side. How many values lie on either side of a
  percentile or beyond a quartile is counted over the places of the ascending order (`FewPlaces`): `NearestRank` is the p95's,
  `QuarterIsEnough` says that the places between the first and the last quarter are within the whiskers, so that hiding outliers leaves half (`HalfLeft`).
* `DashboardProofs!TrendsAlwaysTrue`: `TrendTrue`. `Trailing` is the invariant of the visits: both indices begin where the window does
  (`Begins`, `AdvanceIs`), so the slice between them is what a filter by date leaves (`BetweenKept`, `WindowIs`); that the recursion is
  defined and keeps it is a least counterexample each (`TrendRuns`, `VisitKeeps`). `GridIs` gives the times, their number, and that every point is within
  half a window of one of them; hiding outliers leaves three quarters of a line (`ThreeQuartersLeft`) because what is hidden lies in its last quarter.

Each is proved as Init => Inv, Inv /\ [Next] => Inv' with one step per action,
and a last temporal step. The properties proved are those that the runs check, but for `TypeOK`.

Two of the proofs corrected the model. Of `StrictNeverSilent` the prover left a case in which a stale order fills between
the two queries of a startup: the position is then not that of the start although no order of the run has filled. The
clause about the position now asks for an order that has, and a profile that reaches the case is among those of the run. And the
answers of OrderSocket's venue may not have the names of its other values, which `SocketAssumption` now says.

Only model-checked: the liveness properties, among them `LoopsOn` (fairness and ENABLED are out of the prover's reach).
Induction is available only where it can be put as a least counterexample (`LeastNumber`) or as
a smallest set (`SmallestSet`, `OneByOne`): the library's induction theorems take an operator, which the provers cannot
instantiate.
No module declares a RECURSIVE operator.

## 5. Not modelled

* **Run lock** (`app/run_lock.go`): one `flock` per account, taken at the start without waiting and held to the end. The exclusion is the
  kernel's; Continuous and Coordinated are processes that hold it. A coordinated run holds one per venue and gives up what it has if one is taken.
* Of **run-continuous**: run ids, warmups, and the account feeds of a session that is replaced, which nothing closes (`app/continuous.go:111`).
* Of **`bench.Runner`**: batches, confirmations started before the order, and what is computed of the measured times.
* Of **`internal/cleanup`**: which transport a request takes and the fallback between them (`route.go`), and the confirmation of a cancel; a
  cleanup is answered or not. Of hyperliquid's program: signing, prices, other symbols; in BenchRunner also
  `cleanup_all_open_orders` and the orders of other runs.
* **`internal/confirmws`**: dialling and set-up are one goroutine's; after that the feed and its reader share the client, which AccountFeed
  has as a socket that is open or closed. `Close` clears `c.conn` without a lock while the reader and the pinger use it
  (`confirmws.go:79`): a read of the cleared field would panic and end the
  process. The properties of AccountFeed are about processes that survive it.
* Of **AccountFeed**: liveness. That `Ensure` gives `connectMu` back rests on the dial, and lighter's reads the venue's hello without a
  deadline (`lighter/confirmation.go:160`).
* Of **netlatency**: the HTTP client, which is a call of `net/http` with a timeout, and tracing.
* **booktop and dynamic pricing**: most of it parses the venues' formats, and only what a poll sees of a book
  decides a price; the trimming of a book (`booktop.go:586`) and the age of a level are computations within one
  message. The HTTP price cache (`app/dynamic_post_only.go:391`) holds its mutex over the fetch and dates the entry before it.
* **`service_watchdog.py`**: one pass per invocation, without state.
* Of **funding**: a crash during the write of `state_path` leaves a file that does not parse (modelled, `disk.ok`; the code
  promises nothing about it); a deposit that fails after its broadcast does not count against the cap
  (`funding/runner.go:63`); `WaitMined` has no timeout (`funding/evm.go:234`).
* Of **CommandBuilder**: a request larger than the pipe, to a program that does not read, blocks under `b.mu` (`payload/command.go:105`).
* Of **exchangetps**: the aster and lighter collectors, the read model (an hour is complete before its
  last minute is flushed, `read_model.go:195`).
* Of the **dashboard**: layout, axes, colours, texts, formatting and theme; the three exports with the same dialog; the
  queries of health and summaries, which have one key each.

Left out for good: the SQLite store (statements on one connection; a write is atomic), serve and
the read models (stateless reads), config, accounts, secrets and
venue formats (pure functions of text), netbaseline (one value under a mutex).
