----------------------------- MODULE ExchangeTPS -----------------------------
(***************************************************************************)
(* collect-exchange-tps for hyperliquid: internal/exchangetps, the         *)
(* collector, its Aggregator and the sqlite tables.  The main goroutine    *)
(* reads blocks from one websocket session after another and counts them   *)
(* in minutes in memory; a ticker's goroutine moves finished minutes to    *)
(* the database and recomputes their hours; workers sample some blocks'    *)
(* details and recompute hours too.  On SIGTERM the main goroutine flushes *)
(* once more, beside whatever the others still do.                         *)
(*                                                                         *)
(* The venue delivers a block at or after its time, any number of times,   *)
(* in any session: a reconnect may replay.  A database transaction happens *)
(* or fails as a whole.                                                    *)
(***************************************************************************)
EXTENDS Integers, FiniteSetsExt, Functions

CONSTANTS
  Blocks,     \* heights
  BlockTime,  \* [Blocks -> times]
  NumTxs,     \* [Blocks -> Nat]
  Slot,       \* [Blocks -> slots]: one block per slot is sampled
  Minute,     \* ticks in a minute
  PerHour,    \* minutes in an hour
  Offset,     \* minutes of the hour that were over when the clock began
  Grace,      \* a minute is flushed this long after its end
  Queue,      \* blocks that the sampler's queue and workers hold
  Retention,  \* --minute-retention
  None,
  MaxClock,    \* bound on the clock
  MaxRuns,    \* bound on starts of the process
  MaxMishaps   \* bound on crashes and failed database transactions

MinuteOf(t) == t \div Minute
HourOf(b) == (b + Offset) \div PerHour
Minutes == 0..MinuteOf(MaxClock)
Hours == 0..HourOf(MinuteOf(MaxClock))

ASSUME TPSAssumption ==
  /\ IsFiniteSet(Blocks)
  /\ BlockTime \in [Blocks -> 0..MaxClock] /\ NumTxs \in [Blocks -> Nat]
  /\ Minute \in Nat \ {0} /\ PerHour \in Nat \ {0} /\ Grace \in Nat /\ Retention \in Nat /\ Queue \in Nat
  /\ Offset \in 0..PerHour - 1
  /\ MaxClock \in Nat /\ MaxRuns \in Nat /\ MaxMishaps \in Nat
  /\ None \notin Minutes

VARIABLES
  proc,      \* "down", "run", "stopping", or "leaving": the last flush
  sess,      \* the session: "down", "opened" or "read"
  ignored,   \* ignoreThroughBucket, or -1
  dropAt,    \* the minute the session's deferred DropBucketAt will drop
  seen,      \* heights accepted by this process
  slots,     \* sampledActionSlots
  sampler,   \* each block's sample: "none", "queued", or "stored" in its minute
  pending,   \* Aggregator.pending
  batch,     \* what each Flush has drained and not yet written
  span,      \* the minutes it has written
  minute, hour,            \* tps_1m and tps_1h
  splitMinute, splitHour,  \* sampled blocks in tps_category_split_1m and _1h
  clock, runs, mishaps,
  cut,       \* history: minutes in which a session of this process began
  wrote,     \* history: minutes this process has flushed
  failed     \* history: a database transaction of this process has failed

sessionVars == <<sess, ignored, dropAt, cut>>
accepted == <<seen, slots>>
flush == <<batch, span, wrote>>
tables == <<minute, hour, splitMinute, splitHour>>
bounds == <<clock, runs, mishaps>>
collectorVars == <<proc, sessionVars, accepted, sampler, pending, flush, tables, bounds, failed>>

Flushers == {"ticker", "final"}
NoCounts == [b \in Minutes |-> 0]

Forgotten ==
  /\ sess' = "down" /\ ignored' = -1 /\ dropAt' = None
  /\ seen' = {} /\ slots' = {} /\ sampler' = [h \in Blocks |-> "none"]
  /\ pending' = NoCounts
  /\ batch' = [f \in Flushers |-> NoCounts] /\ span' = [f \in Flushers |-> {}]
  /\ cut' = {} /\ wrote' = {} /\ failed' = FALSE

CollectorInit ==
  /\ proc = "down" /\ sess = "down" /\ ignored = -1 /\ dropAt = None
  /\ seen = {} /\ slots = {} /\ sampler = [h \in Blocks |-> "none"]
  /\ pending = NoCounts
  /\ batch = [f \in Flushers |-> NoCounts] /\ span = [f \in Flushers |-> {}]
  /\ minute = NoCounts /\ hour = [h \in Hours |-> 0]
  /\ splitMinute = NoCounts /\ splitHour = [h \in Hours |-> 0]
  /\ clock = 0 /\ runs = 0 /\ mishaps = 0
  /\ cut = {} /\ wrote = {} /\ failed = FALSE

-----------------------------------------------------------------------------
(* The process                                                             *)

\* ApplyRetention: of the minutes' tables only.
Kept(rows) ==
  [b \in Minutes |-> IF Retention > 0 /\ b * Minute < clock - Retention THEN 0 ELSE rows[b]]

StartCollector ==
  /\ proc = "down" /\ runs < MaxRuns
  /\ proc' = "run" /\ runs' = runs + 1
  /\ minute' = Kept(minute) /\ splitMinute' = Kept(splitMinute)
  /\ Forgotten
  /\ UNCHANGED <<hour, splitHour, clock, mishaps>>

\* SIGTERM
Terminate ==
  /\ proc = "run"
  /\ proc' = "stopping"
  /\ UNCHANGED <<sessionVars, accepted, sampler, pending, flush, tables, bounds, failed>>

\* Run returns ctx.Err(), so that the second ApplyRetention never comes; the
\* ticker's Flush and the samplers end with the process.
Exit ==
  /\ proc = "leaving" /\ batch["final"] = NoCounts /\ span["final"] = {}
  /\ proc' = "down"
  /\ Forgotten
  /\ UNCHANGED <<tables, bounds>>

Die ==
  /\ proc # "down" /\ mishaps < MaxMishaps
  /\ proc' = "down" /\ mishaps' = mishaps + 1
  /\ Forgotten
  /\ UNCHANGED <<tables, clock, runs>>

ClockTick ==
  /\ clock < MaxClock
  /\ clock' = clock + 1
  /\ UNCHANGED <<proc, sessionVars, accepted, sampler, pending, flush, tables, runs, mishaps, failed>>

-----------------------------------------------------------------------------
(* A session                                                               *)

\* Connected and subscribed: ignoreCurrentSessionStartBucket.
Open ==
  /\ proc = "run" /\ sess = "down"
  /\ sess' = "opened" /\ ignored' = Max({ignored, MinuteOf(clock)})
  /\ UNCHANGED <<proc, dropAt, cut, accepted, sampler, pending, flush, tables, bounds, failed>>

\* defer DropBucketAt(time.Now()): its argument is evaluated here.
Defer ==
  /\ proc \in {"run", "stopping"} /\ sess = "opened"
  /\ sess' = "read" /\ dropAt' = MinuteOf(clock)
  /\ cut' = cut \cup {dropAt'}
  /\ UNCHANGED <<proc, ignored, accepted, sampler, pending, flush, tables, bounds, failed>>

\* Mutant of Ignored: a minute is ignored only if the session began in it.
IgnoredFirst(b) == b = dropAt

\* shouldIgnoreBlock
Ignored(b) == b <= ignored

QueueFull == Cardinality({h \in Blocks : sampler[h] # "none"}) >= Queue

\* handleBlocks: acceptHeight, AddBlock, and the sampler's queue, which may be
\* full.  A block seen before, and one ignored with its whole minute, change
\* nothing.
Receive(h) ==
  LET b == MinuteOf(BlockTime[h]) IN
  /\ sess = "read" /\ BlockTime[h] <= clock
  /\ h \notin seen /\ ~Ignored(b)
  /\ seen' = seen \cup {h}
  /\ pending' = [pending EXCEPT ![b] = @ + NumTxs[h]]
  /\ slots' = slots \cup {Slot[h]}
  /\ sampler' = IF Slot[h] \in slots \/ QueueFull THEN sampler
                ELSE [sampler EXCEPT ![h] = "queued"]
  /\ UNCHANGED <<proc, sessionVars, flush, tables, bounds, failed>>

\* The read fails, or the context has ended; DropBucketAt runs.
Disconnect ==
  /\ sess = "read"
  /\ sess' = "down" /\ dropAt' = None
  /\ pending' = [pending EXCEPT ![dropAt] = 0]
  /\ UNCHANGED <<proc, ignored, cut, accepted, sampler, flush, tables, bounds, failed>>

-----------------------------------------------------------------------------
(* Flush                                                                   *)

\* drain, with all = false
Finished(b) == (b + 1) * Minute + Grace <= clock
Drained == [b \in Minutes |-> IF Finished(b) THEN pending[b] ELSE 0]

\* Mutant of Left: drain clears the map.
LeftNothing == NoCounts

Left == [b \in Minutes |-> IF Finished(b) THEN 0 ELSE pending[b]]

Idle(f) == batch[f] = NoCounts /\ span[f] = {}

\* A tick of the ticker; also once the context has ended.
DrainTick ==
  /\ proc # "down" /\ Idle("ticker") /\ Drained # NoCounts
  /\ batch' = [batch EXCEPT !["ticker"] = Drained]
  /\ pending' = Left
  /\ UNCHANGED <<proc, sessionVars, accepted, sampler, span, wrote, tables, bounds, failed>>

\* The session is over: the last flush, with a context of its own.
DrainFinal ==
  /\ proc = "stopping" /\ sess = "down"
  /\ proc' = "leaving"
  /\ batch' = [batch EXCEPT !["final"] = Drained]
  /\ pending' = Left
  /\ UNCHANGED <<sessionVars, accepted, sampler, span, wrote, tables, bounds, failed>>

\* Its context has not ended.
MayWrite(f) == f = "final" \/ proc = "run"

\* RecordLiveDelta1m adds to the minute's row; the batch is in map order.
WriteMinute(f, b) ==
  /\ MayWrite(f) /\ batch[f][b] > 0
  /\ minute' = [minute EXCEPT ![b] = @ + batch[f][b]]
  /\ batch' = [batch EXCEPT ![f][b] = 0]
  /\ span' = [span EXCEPT ![f] = @ \cup {b}]
  /\ wrote' = wrote \cup {b}
  /\ UNCHANGED <<proc, sessionVars, accepted, sampler, pending, hour, splitMinute, splitHour,
                 bounds, failed>>

\* RefreshRollups over [from, to], in one transaction
SpannedHours(bs) == HourOf(Min(bs))..HourOf(Max(bs))
SumOf(rows, bs) == SumFunctionOnSet(rows, bs)
MinutesOf(h) == {b \in Minutes : HourOf(b) = h}
Rollups(rows, hours, bs) ==
  [h \in Hours |-> IF h \in SpannedHours(bs) THEN SumOf(rows, MinutesOf(h)) ELSE hours[h]]

\* Mutant of Refresh: an hour is summed from the batch's minutes only.
RefreshSpan(bs) ==
  /\ hour' = [h \in Hours |-> IF h \in SpannedHours(bs) THEN SumOf(minute, MinutesOf(h) \cap (Min(bs)..Max(bs))) ELSE hour[h]]
  /\ splitHour' = Rollups(splitMinute, splitHour, bs)

Refresh(bs) ==
  /\ hour' = Rollups(minute, hour, bs)
  /\ splitHour' = Rollups(splitMinute, splitHour, bs)

RollUp(f) ==
  /\ MayWrite(f) /\ batch[f] = NoCounts /\ span[f] # {}
  /\ Refresh(span[f])
  /\ span' = [span EXCEPT ![f] = {}]
  /\ UNCHANGED <<proc, sessionVars, accepted, sampler, pending, batch, wrote, minute, splitMinute,
                 bounds, failed>>

\* A transaction of Flush fails: what it has drained is gone.
FlushFails(f) ==
  /\ ~Idle(f)
  /\ IF MayWrite(f) THEN mishaps < MaxMishaps /\ mishaps' = mishaps + 1 ELSE UNCHANGED mishaps
  /\ batch' = [batch EXCEPT ![f] = NoCounts] /\ span' = [span EXCEPT ![f] = {}]
  /\ failed' = TRUE
  /\ UNCHANGED <<proc, sessionVars, accepted, sampler, pending, wrote, tables, clock, runs>>

-----------------------------------------------------------------------------
(* runActionSampler                                                        *)

StoreSample(h) ==
  /\ proc = "run" /\ sampler[h] = "queued"
  /\ splitMinute' = [splitMinute EXCEPT ![MinuteOf(BlockTime[h])] = @ + 1]
  /\ sampler' = [sampler EXCEPT ![h] = "stored"]
  /\ UNCHANGED <<proc, sessionVars, accepted, pending, flush, minute, hour, splitHour, bounds, failed>>

RollUpSample(h) ==
  /\ proc = "run" /\ sampler[h] = "stored"
  /\ Refresh({MinuteOf(BlockTime[h])})
  /\ sampler' = [sampler EXCEPT ![h] = "none"]
  /\ UNCHANGED <<proc, sessionVars, accepted, pending, flush, minute, splitMinute, bounds, failed>>

\* The explorer does not answer, the database fails, or the context has ended.
SampleFails(h) ==
  /\ sampler[h] # "none"
  /\ sampler' = [sampler EXCEPT ![h] = "none"]
  /\ UNCHANGED <<proc, sessionVars, accepted, pending, flush, tables, bounds, failed>>

CollectorNext ==
  \/ StartCollector \/ Terminate \/ Exit \/ Die \/ ClockTick
  \/ Open \/ Defer \/ Disconnect \/ DrainTick \/ DrainFinal
  \/ \E h \in Blocks : Receive(h) \/ StoreSample(h) \/ RollUpSample(h) \/ SampleFails(h)
  \/ \E f \in Flushers : RollUp(f) \/ FlushFails(f) \/ \E b \in Minutes : WriteMinute(f, b)

CollectorSpec == CollectorInit /\ [][CollectorNext]_collectorVars

-----------------------------------------------------------------------------
(* Properties                                                              *)

In(hs, b) == {h \in hs : MinuteOf(BlockTime[h]) = b}
TxsOf(hs) == SumFunctionOnSet(NumTxs, hs)

\* No block is counted twice, whatever is replayed after a reconnect, a crash
\* or a restart, though seen is in memory and rows are added to (hyperliquid.go:
\* 163-202, store.go:281-293); nor is one sampled twice.
NeverOvercounted ==
  \A b \in Minutes :
    /\ minute[b] <= TxsOf(In(Blocks, b))
    /\ splitMinute[b] <= Cardinality(In(Blocks, b))

\* Between the reader, the flush and the drop at a session's end no block is
\* lost: but for the minutes in which a session began, and until the database
\* fails, each accepted block is pending, drained or written (aggregator.go:33,
\* 60-115).
Conserved ==
  proc = "run" /\ ~failed =>
    \A b \in Minutes \ cut : In(seen, b) # {} =>
      TxsOf(In(seen, b)) = pending[b] + batch["ticker"][b] + minute[b]

\* Every block that is accepted counts once in its minute.
CountedOnce == NeverOvercounted /\ Conserved

\* Between flushes, and until the database fails, the hours of the minutes that
\* this process has written are the sums of their minutes, also when one flush
\* spans hours and samplers recompute them beside it (aggregator.go:68-79,
\* store.go:325-360).
HoursAgree ==
  proc = "run" /\ ~failed /\ Idle("ticker") =>
    \A b \in wrote : hour[HourOf(b)] = SumOf(minute, MinutesOf(HourOf(b)))

\* "1h rollups are retained" (app/exchange_tps.go:44): however minutes are
\* deleted and hours recomputed, an hour never goes down, if minutes are kept
\* for at least an hour.
HoursKept ==
  [][Retention >= PerHour * Minute => \A h \in Hours : hour'[h] >= hour[h]]_collectorVars
=============================================================================
