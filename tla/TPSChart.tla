------------------------------ MODULE TPSChart ------------------------------
(***************************************************************************)
(* The chart of the exchanges' transactions per second: its lines, thinned *)
(* to the width they are drawn at, the averages above it, and the tooltip  *)
(* of all exchanges at the time nearest to the pointer.                    *)
(***************************************************************************)
EXTENDS Stats

CONSTANTS
  TPSAnswers,
  Widths,      \* of the plot, in points it may have
  Targets      \* times that the pointer is at

\* A row of tps_1m or tps_1h, which have one for each venue and start.
TPSRow == [venue : Nat, start : Nat, seconds : {60, 3600}, tx : Nat, complete : BOOLEAN]

ASSUME TPSChartAssumption ==
  /\ \A a \in TPSAnswers :
       /\ a \in Seq(TPSRow)
       /\ \A i, j \in DOMAIN a : a[i].venue = a[j].venue /\ a[i].start = a[j].start => i = j
  /\ Widths \subseteq Nat \ 0..3
  /\ Targets \subseteq Int

VARIABLES
  buckets,     \* the query's answer, as the venue filter leaves it
  maxPoints,   \* downsampleTPSSeries's, from the width
  tooltip      \* Off or [date, points, target]

tpsVars == <<buckets, maxPoints, tooltip>>

\* The rate, in transactions per hour, which makes it an integer.
Rate(row) == (3600 * row.tx) \div row.seconds

\* completeRows, and buildSeries for one venue.
Complete == Kept(buckets, {i \in DOMAIN buckets : buckets[i].complete})
TPSVenues == {Complete[i].venue : i \in DOMAIN Complete}

RowsOf(venue) == Kept(Complete, {i \in DOMAIN Complete : Complete[i].venue = venue})

Line(venue) ==
  LET rows == RowsOf(venue)
  IN SortedBy([i \in DOMAIN rows |-> [date |-> rows[i].start, tps |-> Rate(rows[i]), venue |-> venue]],
              [i \in DOMAIN rows |-> rows[i].start])

Average(venue) ==
  LET rows == RowsOf(venue)
  IN <<SumOf([i \in DOMAIN rows |-> rows[i].tx]), SumOf([i \in DOMAIN rows |-> rows[i].seconds])>>

-----------------------------------------------------------------------------
(* Thinning                                                                *)

BucketCount == Max({2, maxPoints \div 2})

Bucket(p, line) ==
  Min({BucketCount - 1,
       ((p.date - line[1].date) * BucketCount) \div Max({line[Len(line)].date - line[1].date, 1})})

\* The first of the lowest and the first of the highest of a bucket.
Lowest(line, of) == BestOf(of, [i \in of |-> line[i].tps])
Highest(line, of) == BestOf(of, [i \in of |-> -line[i].tps])

OfBucket(line, b) == {i \in DOMAIN line : Bucket(line[i], line) = b}

\* Mutant of Extremes: only the highest.
ExtremesHigh(line) ==
  {Highest(line, OfBucket(line, b)) : b \in {Bucket(line[i], line) : i \in DOMAIN line}}

Extremes(line) ==
  UNION {{Lowest(line, OfBucket(line, b)), Highest(line, OfBucket(line, b))} :
           b \in {Bucket(line[i], line) : i \in DOMAIN line}}

\* downsampleTPSPoints
Downsampled(line) ==
  IF Len(line) <= maxPoints \/ maxPoints < 4 THEN line
  ELSE Kept(line, {1, Len(line)} \cup Extremes(line))

-----------------------------------------------------------------------------
(* The tooltip                                                             *)

\* uniqueSortedDates
Dates ==
  LET dates == {Complete[i].start : i \in DOMAIN Complete}
  IN Arranged(dates, [d \in dates |-> {e \in dates : e < d}])

\* The index where a search for the first date that is not before the target ends.
SearchFirst(dates, target) ==
  LET n == Len(dates)
      Halve[part \in (1..n) \X (1..n)] ==
        LET low == part[1]  high == part[2]  mid == (low + high) \div 2 IN
        IF low >= high THEN low
        ELSE IF dates[mid] < target THEN Halve[<<mid + 1, high>>] ELSE Halve[<<low, mid>>]
  IN Halve[<<1, n>>]

Gap(a, b) == IF a > b THEN a - b ELSE b - a

\* nearestDateAtX
NearestDate(dates, target) ==
  LET low == SearchFirst(dates, target)
      previous == Max({1, low - 1})
  IN IF Gap(dates[previous], target) <= Gap(dates[low], target) THEN dates[previous] ELSE dates[low]

\* findPointAtTime: the points at that time, of which there is at most one.
PointAt(line, date) ==
  LET Halve[part \in (1..(Len(line) + 1)) \X (0..Len(line))] ==
        LET low == part[1]  high == part[2]  mid == (low + high) \div 2 IN
        IF low > high THEN {}
        ELSE IF line[mid].date = date THEN {line[mid]}
        ELSE IF line[mid].date < date THEN Halve[<<mid + 1, high>>] ELSE Halve[<<low, mid - 1>>]
  IN Halve[<<1, Len(line)>>]

TPSInit == buckets \in TPSAnswers /\ maxPoints \in Widths /\ tooltip = Off
TPSOff == buckets = Off /\ maxPoints = Off /\ tooltip = Off

ReceiveTPS ==
  /\ buckets' \in TPSAnswers
  /\ tooltip' = Off
  /\ UNCHANGED maxPoints

Resize ==
  /\ maxPoints' \in Widths \ {maxPoints}
  /\ tooltip' = Off
  /\ UNCHANGED buckets

\* Of what the lines were before they were thinned.
PointAtTime(target) ==
  /\ Dates # <<>>
  /\ LET date == NearestDate(Dates, target) IN
     tooltip' = [date |-> date, target |-> target,
                 points |-> UNION {PointAt(Line(v), date) : v \in TPSVenues}]
  /\ UNCHANGED <<buckets, maxPoints>>

LeaveTPS ==
  /\ tooltip # Off
  /\ tooltip' = Off
  /\ UNCHANGED <<buckets, maxPoints>>

TPSNext == ReceiveTPS \/ Resize \/ LeaveTPS \/ \E target \in Targets : PointAtTime(target)

-----------------------------------------------------------------------------
\* Thinning a line never loses its ends, its highest or its lowest point, nor
\* adds or reorders any, and leaves at most two points for each of its
\* buckets and its two ends; and an exchange's average, which is computed from
\* all of it, is between the rates that are drawn (downsampleTPSPoints).
ThinnedTrue ==
  \A v \in IF buckets = Off THEN {} ELSE TPSVenues :
    LET line == Line(v)  thin == Downsampled(line)  average == Average(v) IN
    /\ thin[1] = line[1] /\ thin[Len(thin)] = line[Len(line)]
    /\ Range(thin) \subseteq Range(line)
    /\ \A i, j \in DOMAIN thin : i < j => thin[i].date < thin[j].date
    /\ \E p \in Range(thin) : \A q \in Range(line) : q.tps <= p.tps
    /\ \E p \in Range(thin) : \A q \in Range(line) : p.tps <= q.tps
    /\ Len(thin) <= maxPoints + 2
    /\ \E p \in Range(thin) : p.tps * average[2] <= 3600 * average[1]
    /\ \E p \in Range(thin) : p.tps * average[2] >= 3600 * average[1]

\* The tooltip names the date nearest to the pointer of all exchanges, and of
\* each exchange the rate of its complete bucket at that date, if it has one,
\* also one that the thinned line lacks (nearestDateAtX, findPointAtTime).
TPSTooltipCurrent ==
  tooltip # Off =>
    /\ \A i \in DOMAIN Complete : Gap(tooltip.date, tooltip.target) <= Gap(Complete[i].start, tooltip.target)
    /\ tooltip.points = {[date |-> Complete[i].start, tps |-> Rate(Complete[i]), venue |-> Complete[i].venue] :
                           i \in {j \in DOMAIN Complete : Complete[j].start = tooltip.date}}
=============================================================================
