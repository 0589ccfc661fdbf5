---------------------------- MODULE LatencyChart ----------------------------
(***************************************************************************)
(* A latency chart: the samples an answer has, in the form of the endpoint *)
(* that gave it; a series for each venue and kind of submission, without   *)
(* its outliers; its rolling median and band; and the tooltip of the point *)
(* nearest to the pointer.  What is drawn is in quarters of a latency.     *)
(***************************************************************************)
EXTENDS Stats, LatencyMetric

CONSTANTS
  Answers,      \* [form, rows], the rows being stored ones, each with a venue
  TrendStep,    \* TREND_STEP_MS
  TrendWindow,  \* TREND_WINDOW_MS
  TrendTarget,  \* TREND_TARGET_POINTS
  Intervals,    \* roundUpToNiceInterval's, ascending
  Radius,       \* TOOLTIP_HIT_RADIUS_PX
  Pointers      \* where the pointer may be, [x, y]

\* The samples of an answer are no further apart than the trend's points can
\* be with the longest interval between them (900 weeks).
ASSUME ChartAssumption ==
  /\ \A a \in Answers :
       /\ a.form \in Forms /\ Len(a.rows) \in Nat /\ DOMAIN a.rows = 1..Len(a.rows)
       /\ \A i \in DOMAIN a.rows : StoredRow(a.rows[i])
       /\ \A i, j \in DOMAIN a.rows :
            PlotDate(LatencyForm(a.rows[i])) - PlotDate(LatencyForm(a.rows[j])) <= TrendTarget * Intervals[Len(Intervals)]
  /\ Off \notin Answers
  /\ TrendStep \in Nat \ {0} /\ TrendTarget \in Nat \ {0} /\ TrendWindow \in Nat
  /\ Intervals \in Seq(Nat \ {0}) /\ Intervals # <<>>
  /\ Radius \in Nat

VARIABLES
  answer,        \* the query's
  displayMode,   \* "raw", "trend", "trend-raw"
  hideOutliers,
  scaleMode,     \* "linear", "log"
  hover          \* the tooltip: Off or [series, point, at], at being its place

chartVars == <<answer, displayMode, hideOutliers, scaleMode, hover>>

-----------------------------------------------------------------------------
(* Series                                                                  *)

Sample(i) == InForm(answer.form, answer.rows[i])

\* A sample that failed, or whose latency is 0, is not drawn.
Drawn(i) == answer.rows[i].ok /\ ConfirmSample(Sample(i), FALSE) > 0

SeriesKey(i) == <<answer.rows[i].venue, BatchSubmission(Sample(i))>>

Keys == {SeriesKey(i) : i \in {j \in DOMAIN answer.rows : Drawn(j)}}

Point(i) == [date |-> PlotDate(Sample(i)), ms |-> ConfirmSample(Sample(i), FALSE)]

SeriesPoints(key) ==
  LET of == Kept([i \in DOMAIN answer.rows |-> Point(i)], {i \in DOMAIN answer.rows : Drawn(i) /\ SeriesKey(i) = key})
  IN SortedBy(of, [n \in DOMAIN of |-> of[n].date])

Values(points) == [i \in DOMAIN points |-> points[i].ms]

\* Beyond one and a half interquartile ranges, or three times the quartile
\* where the range is empty.
UpperOutlier(p, values) ==
  LET q1 == Quantile(values, 1)  q3 == Quantile(values, 3)
  IN IF q3 > q1 THEN 8 * p.ms > 5 * q3 - 3 * q1 ELSE 4 * p.ms > 3 * q3

WithoutUpperOutliers(points) ==
  IF Len(points) < OutlierMin THEN points
  ELSE LET values == Ascending(Values(points)) IN Kept(points, {i \in DOMAIN points : ~UpperOutlier(points[i], values)})

-----------------------------------------------------------------------------
(* The trend                                                               *)

RoundUp(n) ==
  LET able == {i \in DOMAIN Intervals : Intervals[i] >= n}
  IN Intervals[IF able = {} THEN Len(Intervals) ELSE Min(able)]

Span(points) == Max({points[Len(points)].date - points[1].date, TrendStep})
Step(points) == RoundUp(Max({TrendStep, (Span(points) + TrendTarget - 1) \div TrendTarget}))
HalfWindow(points) == Max({TrendWindow, 6 * Step(points)}) \div 2

\* The first index from "from" whose point is not before, or with "past" is
\* after, a time.
Advance(points, from, time, past) ==
  LET stop == {i \in from..Len(points) : points[i].date > time \/ (~past /\ points[i].date = time)}
  IN IF stop = {} THEN Len(points) + 1 ELSE Min(stop)

\* Mutant of Slide: what is just at the end of the window is not yet in it.
SlideExclusive(points, acc, time, half) ==
  [from |-> Advance(points, acc.from, time - half, FALSE),
   to |-> Advance(points, acc.to, time + half, FALSE)]

\* The two indices that move along.
Slide(points, acc, time, half) ==
  [from |-> Advance(points, acc.from, time - half, FALSE),
   to |-> Advance(points, acc.to, time + half, TRUE)]

\* The trend's times, from the step before the first point on.
Times(points) ==
  LET first == (points[1].date \div Step(points)) * Step(points)
  IN [k \in 1..1 + (points[Len(points)].date - first) \div Step(points) |-> first + (k - 1) * Step(points)]

TrendPoint(time, values) ==
  [date |-> time, ms |-> Quantile(values, 2), lower |-> Quantile(values, 1), upper |-> Quantile(values, 3)]

\* rollingTrend
Visit(points, acc, time) ==
  LET at == Slide(points, acc, time, HalfWindow(points))
      values == Ascending(Values(SubSeq(points, at.from, at.to - 1)))
  IN [from |-> at.from, to |-> at.to,
      trend |-> IF values = <<>> THEN acc.trend ELSE Append(acc.trend, TrendPoint(time, values))]

Trend(points) ==
  IF points = <<>> THEN <<>>
  ELSE LET times == Times(points)
           After[k \in 0..Len(times)] ==
             IF k = 0 THEN [from |-> 1, to |-> 1, trend |-> <<>>] ELSE Visit(points, After[k - 1], times[k])
       IN After[Len(times)].trend

-----------------------------------------------------------------------------
(* The chart                                                               *)

VisiblePoints(key) ==
  IF hideOutliers THEN WithoutUpperOutliers(SeriesPoints(key)) ELSE SeriesPoints(key)

\* The points under the pointer: of the line, and the raw ones beside it.
Marks(key) ==
  LET raw == {[series |-> key, date |-> p.date, ms |-> 4 * p.ms] : p \in Range(VisiblePoints(key))}
      trend == {[series |-> key, date |-> p.date, ms |-> p.ms] : p \in Range(Trend(VisiblePoints(key)))}
  IN CASE displayMode = "raw" -> raw [] displayMode = "trend" -> trend [] OTHER -> raw \cup trend

AllMarks == UNION {Marks(key) : key \in Keys}

\* Where a point is, which depends on the scales and on all that is drawn.
Place(mark, marks) ==
  LET top == Max({m.ms : m \in marks})
  IN [x |-> mark.date - Min({m.date : m \in marks}),
      y |-> IF scaleMode = "linear" THEN (8 * mark.ms) \div top
            ELSE Cardinality({k \in 0..10 : 2^k <= mark.ms})]

Distance(a, b) == (a.x - b.x) * (a.x - b.x) + (a.y - b.y) * (a.y - b.y)

\* Of those as near the code takes the one it draws last; here any.
Nearest(pointer, marks) ==
  {m \in marks : /\ Distance(Place(m, marks), pointer) <= Radius * Radius
                 /\ \A n \in marks : Distance(Place(m, marks), pointer) <= Distance(Place(n, marks), pointer)}

ChartInit ==
  /\ answer \in Answers
  /\ displayMode = "trend-raw" /\ hideOutliers = TRUE /\ scaleMode = "linear"
  /\ hover = Off

ChartOff == answer = Off /\ displayMode = Off /\ hideOutliers = Off /\ scaleMode = Off /\ hover = Off

\* Mutant of Redraw: the tooltip stays as it was.
RedrawKeeps == hover' = hover

\* The effect of what is drawn on the tooltip.
Redraw == hover' = Off

ReceiveSamples ==
  /\ answer' \in Answers
  /\ Redraw
  /\ UNCHANGED <<displayMode, hideOutliers, scaleMode>>

SetDisplayMode ==
  /\ displayMode' \in {"raw", "trend", "trend-raw"} \ {displayMode}
  /\ Redraw
  /\ UNCHANGED <<answer, hideOutliers, scaleMode>>

ToggleOutliers ==
  /\ hideOutliers' = ~hideOutliers
  /\ Redraw
  /\ UNCHANGED <<answer, displayMode, scaleMode>>

SetScale ==
  /\ scaleMode' \in {"linear", "log"} \ {scaleMode}
  /\ Redraw
  /\ UNCHANGED <<answer, displayMode, hideOutliers>>

MovePointer(pointer) ==
  /\ LET marks == AllMarks  near == Nearest(pointer, marks) IN
     hover' \in IF near = {} THEN {Off} ELSE {[mark |-> m, at |-> Place(m, marks), pointer |-> pointer] : m \in near}
  /\ UNCHANGED <<answer, displayMode, hideOutliers, scaleMode>>

\* The pointer leaves, or the page scrolls, or loses the focus.
Dismiss ==
  /\ hover # Off
  /\ hover' = Off
  /\ UNCHANGED <<answer, displayMode, hideOutliers, scaleMode>>

ChartNext ==
  \/ ReceiveSamples \/ SetDisplayMode \/ ToggleOutliers \/ SetScale \/ Dismiss
  \/ \E pointer \in Pointers : MovePointer(pointer)

ChartSpec == ChartInit /\ [][ChartNext]_chartVars

-----------------------------------------------------------------------------
(* Properties                                                              *)

\* Every sample drawn is in one series.  Hiding the outliers leaves at least
\* three quarters of a series.  The trend, which the code computes with two
\* moving indices, says at each of its times the quartiles of exactly the
\* visible points within half a window; it misses no visible point, and has
\* no more points than the chart can show (buildSeries, rollingTrend).
TrendTrue ==
  \A key \in IF answer = Off THEN {} ELSE Keys :
    LET all == SeriesPoints(key)  points == VisiblePoints(key)  trend == Trend(points)
        Near(time) == Kept(points, {i \in DOMAIN points : /\ points[i].date >= time - HalfWindow(points)
                                                          /\ points[i].date <= time + HalfWindow(points)})
    IN /\ Len(all) = Cardinality({i \in DOMAIN answer.rows : Drawn(i) /\ SeriesKey(i) = key})
       /\ 4 * Len(points) >= 3 * Len(all)
       /\ Len(trend) <= TrendTarget + 2
       /\ \A n \in DOMAIN trend :
            LET values == Ascending(Values(Near(trend[n].date))) IN
            /\ trend[n] = TrendPoint(trend[n].date, values)
            /\ n > 1 => trend[n - 1].date < trend[n].date
       /\ \A p \in Range(points) : \E n \in DOMAIN trend : p \in Range(Near(trend[n].date))

\* A tooltip that is open is of a point the chart draws now, at the place it
\* is drawn at now, and no point drawn is nearer to the pointer (LatencyFrame's
\* effect and nearestHoverPoint).
HoverCurrent ==
  hover # Off =>
    LET marks == AllMarks IN
    /\ hover.mark \in marks /\ hover.at = Place(hover.mark, marks)
    /\ \A m \in marks : Distance(hover.at, hover.pointer) <= Distance(Place(m, marks), hover.pointer)

\* The chart of an answer would be the same had the proxy fallen back to
\* another endpoint (FormsAgree).
SameInEveryForm == answer # Off => \A i \in DOMAIN answer.rows : FormsAgree(answer.rows[i])
=============================================================================
