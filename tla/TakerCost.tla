----------------------------- MODULE TakerCost ------------------------------
(***************************************************************************)
(* The taker cost panel: what a round trip cost and should have cost, the  *)
(* rounds it takes as comparable, their summary by venue, and their chart. *)
(* Dates are in seconds; dollars and quantities are integers.              *)
(***************************************************************************)
EXTENDS Stats

CONSTANTS
  Rounds,        \* answers: sequences of [venue, date, taker, clean, entry, exit]; a leg is
                 \* [sell, qty, value, fee, expected, book, top], book "yes", "no" or "?"
  Minute,        \* seconds of a cycle
  RollingPoints  \* ROLLING_MEDIAN_POINTS

CostLeg ==
  [sell : BOOLEAN, qty : Nat, value : Nat, fee : Nat, expected : Nat, book : {"yes", "no", "?"}, top : BOOLEAN]

CostRound == [venue : Nat, date : Nat, taker : BOOLEAN, clean : BOOLEAN, entry : CostLeg, exit : CostLeg]

\* What a round opened it closes on the other side.
ASSUME CostAssumption ==
  /\ Minute \in Nat \ {0} /\ RollingPoints \in Nat \ {0}
  /\ \A a \in Rounds : a \in Seq(CostRound) /\ \A i \in DOMAIN a : a[i].exit.sell = ~a[i].entry.sell

VARIABLES
  rounds,       \* the query's answer
  costMode,     \* "total", "net", "fees"
  costView,     \* "per-round", "cumulative"
  costDisplay,  \* "raw", "trend", "trend-raw"
  costOutliers, \* hideOutliers
  costHover     \* the tooltip: Off or a mark

costVars == <<rounds, costMode, costView, costDisplay, costOutliers, costHover>>

-----------------------------------------------------------------------------
(* A round                                                                 *)

\* usableExpectedPrice: a price that the book did not cover is none.
Usable(leg) == leg.expected > 0 /\ (leg.book = "yes" \/ (leg.book = "?" /\ leg.top))

\* fillSlippageUSD, whose sign fillSlippageBps shares: what the leg cost more
\* than at the expected price.
Slippage(leg) == IF leg.sell THEN leg.expected * leg.qty - leg.value ELSE leg.value - leg.expected * leg.qty

Comparable(round) == Usable(round.entry) /\ Usable(round.exit) /\ round.entry.qty > 0 /\ round.exit.qty > 0

TotalSlippage(round) == Slippage(round.entry) + Slippage(round.exit)

ExpectedLegCost(leg) == (IF leg.sell THEN -leg.expected ELSE leg.expected) * leg.qty

FeesUSD(round) == round.entry.fee + round.exit.fee

\* The store's trade_cost_usd (external): what was paid, less what was got.
TradeCost(round) ==
  (IF round.entry.sell THEN round.exit.value - round.entry.value ELSE round.entry.value - round.exit.value)
  + FeesUSD(round)

NetCost(round) == TradeCost(round) - FeesUSD(round)

\* actualCostGapUSD; a trade cost of 0 is left out of the JSON, and then there is none.
HasGap(round) == Comparable(round) /\ TradeCost(round) # 0
CostGap(round) ==
  TradeCost(round) - (ExpectedLegCost(round.entry) + ExpectedLegCost(round.exit) + FeesUSD(round))

-----------------------------------------------------------------------------
(* The comparable rounds                                                   *)

\* buildTakerCostRecords
Records ==
  LET takers == Kept(rounds, {i \in DOMAIN rounds : rounds[i].taker})
  IN SortedBy(takers, [i \in DOMAIN takers |-> takers[i].date])

VenuesOf(records) == {records[i].venue : i \in DOMAIN records}

Cycle(date) == (date \div Minute) * Minute
CyclesOf(records) == {Cycle(records[i].date) : i \in DOMAIN records}

\* Mutant of CompleteCycles: a dirty round completes a cycle too.
CompleteCyclesDirty(records) ==
  {c \in CyclesOf(records) : \A v \in VenuesOf(records) : \E i \in DOMAIN records :
     records[i].venue = v /\ Cycle(records[i].date) = c}

\* The minutes in which every venue has a clean round.
CompleteCycles(records) ==
  {c \in CyclesOf(records) : \A v \in VenuesOf(records) : \E i \in DOMAIN records :
     records[i].venue = v /\ records[i].clean /\ Cycle(records[i].date) = c}

\* stableCostWindow; without a complete cycle, all that is clean.
StableOf(records) ==
  LET cycles == CompleteCycles(records)
      start == IF cycles = {} THEN 0 ELSE Min(cycles)
  IN Kept(records, {i \in DOMAIN records : records[i].clean /\ records[i].date >= start})

Stable == StableOf(Records)

StableVenues == VenuesOf(Stable)

\* summarizeSlippage and percentile
OnlyOf(records, venue) == Kept(records, {i \in DOMAIN records : records[i].venue = venue})
OfVenue(venue) == OnlyOf(Stable, venue)

\* In basis points of the mean of the legs' values, which is at least a dollar.
MissBps(round) ==
  (20000 * Max({TotalSlippage(round), -TotalSlippage(round)})) \div Max({round.entry.value + round.exit.value, 2})

Misses(venue) ==
  LET all == OfVenue(venue)
      of == Kept(all, {i \in DOMAIN all : Comparable(all[i])})
  IN [i \in DOMAIN of |-> MissBps(of[i])]

\* The nearest rank of 95 of 100.
P95(values) == Ascending(values)[Max({1, (95 * Len(values) + 99) \div 100})]

-----------------------------------------------------------------------------
(* The chart                                                               *)

CostValue(round) ==
  CASE costMode = "fees" -> FeesUSD(round) [] costMode = "net" -> NetCost(round) [] OTHER -> TradeCost(round)

CostLine(venue) ==
  LET of == OfVenue(venue)
      values == [i \in DOMAIN of |-> CostValue(of[i])]
  IN [i \in DOMAIN of |->
        [date |-> of[i].date,
         value |-> IF costView = "cumulative" THEN SumOf(SubSeq(values, 1, i)) ELSE values[i]]]

CostValues(line) == [i \in DOMAIN line |-> line[i].value]

\* Outside one and a half interquartile ranges, on both sides; where the range
\* is empty three times the quartile, of cents at least, stands for it.
CostOutlier(value, values) ==
  LET q1 == Quantile(values, 1)  q3 == Quantile(values, 3)
      padding == IF q3 > q1 THEN 3 * (q3 - q1) ELSE 6 * Max({q3, -q3})
  IN 8 * value < 2 * q1 - padding \/ 8 * value > 2 * q3 + padding

WithoutCostOutliers(line) ==
  IF Len(line) < OutlierMin THEN line
  ELSE LET values == Ascending(CostValues(line)) IN Kept(line, {i \in DOMAIN line : ~CostOutlier(line[i].value, values)})

\* Cumulative lines are drawn as they are.
CostVisible(venue) ==
  IF costOutliers /\ costView = "per-round" THEN WithoutCostOutliers(CostLine(venue)) ELSE CostLine(venue)

\* rollingMedianCostPoints
RollingMedian(line) ==
  [i \in DOMAIN line |->
     [date |-> line[i].date, value |-> Median(CostValues(SubSeq(line, Max({1, i - RollingPoints + 1}), i)))]]

CostMarks(venue) ==
  LET raw == {[venue |-> venue, date |-> p.date, value |-> 4 * p.value] : p \in Range(CostVisible(venue))}
      trend == {[venue |-> venue, date |-> p.date, value |-> p.value] : p \in Range(RollingMedian(CostVisible(venue)))}
  IN CASE costDisplay = "raw" \/ costView = "cumulative" -> raw
       [] costDisplay = "trend" -> trend [] OTHER -> raw \cup trend

AllCostMarks == UNION {CostMarks(v) : v \in StableVenues}

\* paddedCostDomain over costExtent, in hundredths of the values.
CostDomain(values) ==
  LET low == Min(values \cup {0})  high == Max(values \cup {0})
      pad == 16 * Max({high - low, high, -low, 1})
  IN [low |-> 100 * low - pad, high |-> 100 * high + pad]

CostInit ==
  /\ rounds \in Rounds
  /\ costMode = "total" /\ costView = "per-round" /\ costDisplay = "trend-raw" /\ costOutliers = TRUE
  /\ costHover = Off

CostOff ==
  /\ rounds = Off /\ costMode = Off /\ costView = Off /\ costDisplay = Off /\ costOutliers = Off
  /\ costHover = Off

ReceiveRounds ==
  /\ rounds' \in Rounds
  /\ costHover' = Off
  /\ UNCHANGED <<costMode, costView, costDisplay, costOutliers>>

SetCostMode ==
  /\ costMode' \in {"total", "net", "fees"} \ {costMode}
  /\ costHover' = Off
  /\ UNCHANGED <<rounds, costView, costDisplay, costOutliers>>

SetCostView ==
  /\ costView' \in {"per-round", "cumulative"} \ {costView}
  /\ costHover' = Off
  /\ UNCHANGED <<rounds, costMode, costDisplay, costOutliers>>

\* The controls of the rounds are there only for the rounds.
SetCostDisplay ==
  /\ costView = "per-round"
  /\ costDisplay' \in {"raw", "trend", "trend-raw"} \ {costDisplay}
  /\ costHover' = Off
  /\ UNCHANGED <<rounds, costMode, costView, costOutliers>>

ToggleCostOutliers ==
  /\ costView = "per-round"
  /\ costOutliers' = ~costOutliers
  /\ costHover' = Off
  /\ UNCHANGED <<rounds, costMode, costView, costDisplay>>

HoverCost ==
  /\ costHover' \in AllCostMarks
  /\ UNCHANGED <<rounds, costMode, costView, costDisplay, costOutliers>>

LeaveCost ==
  /\ costHover # Off
  /\ costHover' = Off
  /\ UNCHANGED <<rounds, costMode, costView, costDisplay, costOutliers>>

CostNext ==
  \/ ReceiveRounds \/ SetCostMode \/ SetCostView \/ SetCostDisplay \/ ToggleCostOutliers
  \/ HoverCost \/ LeaveCost

-----------------------------------------------------------------------------
\* Only clean rounds are compared, and from the first minute on in which every
\* venue has one, so that no venue is charged for a time that another one
\* missed.  The venues' mean book miss cannot contradict the cost gap: where
\* both are known they are the same amount.  A venue's p95 is the least of its
\* misses that 95 of 100 do not exceed.
RoundsComparable ==
  rounds # Off =>
    LET takers == {r \in Range(rounds) : r.taker}
        clean == {r \in takers : r.clean}
        kept == Range(Stable)
        Full(c) == \A v \in {r.venue : r \in takers} : \E r \in clean : r.venue = v /\ Cycle(r.date) = c
        cycles == {Cycle(r.date) : r \in clean}
    IN /\ kept = {r \in clean : (\E c \in cycles : Full(c)) => \E c \in cycles : Full(c) /\ c <= r.date}
       /\ \A r \in kept : HasGap(r) => CostGap(r) = TotalSlippage(r)
       /\ \A v \in StableVenues :
            LET misses == Misses(v)  p95 == P95(misses) IN
            misses # <<>> =>
              /\ 100 * Cardinality({i \in DOMAIN misses : misses[i] <= p95}) >= 95 * Len(misses)
              /\ 100 * Cardinality({i \in DOMAIN misses : misses[i] < p95}) < 95 * Len(misses)

\* A venue's cumulative line ends at the sum of all its compared rounds,
\* whatever the outlier setting was; hiding outliers leaves at least half of a
\* line; a rolling median stays within the points it is of; and all that is
\* drawn, and 0, is within the domain (buildCostSeries, CostChartFrame).
CostLinesTrue ==
  rounds # Off =>
    /\ \A v \in StableVenues :
         LET all == CostLine(v)  line == CostVisible(v)  trend == RollingMedian(line) IN
         /\ costView = "cumulative" =>
              LET of == OfVenue(v) IN line[Len(line)].value = SumOf([i \in DOMAIN of |-> CostValue(of[i])])
         /\ 2 * Len(line) >= Len(all)
         /\ \A i \in DOMAIN trend :
              \E j, k \in Max({1, i - RollingPoints + 1})..i :
                 4 * line[j].value <= trend[i].value /\ trend[i].value <= 4 * line[k].value
    /\ LET marks == AllCostMarks
           domain == CostDomain({m.value : m \in marks}) IN
       /\ \A m \in marks : 100 * m.value \in domain.low..domain.high
       /\ domain.low <= 0 /\ domain.high >= 0

\* What the panel compares and draws (stableCostWindow, CostChartFrame).
CostsTrue == RoundsComparable /\ CostLinesTrue

\* A tooltip that is open is of a point that is drawn now (CostChartFrame).
CostTooltipCurrent == costHover # Off => costHover \in AllCostMarks
=============================================================================
