---------------------------- MODULE LatencyTable ----------------------------
(***************************************************************************)
(* The table of the venues' summaries, sorted by a click on a column, and  *)
(* the cards above it that name the best venue for a kind of order.        *)
(***************************************************************************)
EXTENDS Stats

CONSTANT Summaries  \* answers

\* The server makes one row for each name and mode.
SummaryRow == [name : Nat, mode : STRING, taker : BOOLEAN, ok : Nat, p50 : Nat, p95 : Nat, p99 : Nat]

ASSUME TableAssumption ==
  \A a \in Summaries :
    /\ a \in Seq(SummaryRow)
    /\ \A i, j \in DOMAIN a : a[i].name = a[j].name /\ a[i].mode = a[j].mode => i = j

VARIABLES
  summaries,
  sort        \* [key, desc], of the column heads

tableVars == <<summaries, sort>>

Key(row, key) == CASE key = "p50" -> row.p50 [] key = "p95" -> row.p95 [] OTHER -> row.p99

\* hasSuccessfulLatencyData
Measured(row) == row.ok > 0

\* isRankableSummaryRow
Rankable(row) == Measured(row) /\ row.p50 > 0

\* Mutant of Before: ties stay in the order of the answer.
BeforeUnnamed(s, left, right) ==
  LET l == Key(left, s.key)  r == Key(right, s.key)
  IN IF s.desc THEN l > r ELSE l < r

\* compareLatencyValues, then compareRowIdentity.  The name, a number here,
\* stands for all that it compares; the measurement mode is not part of it.
Before(s, left, right) ==
  LET l == Key(left, s.key)  r == Key(right, s.key)
  IN (IF s.desc THEN l > r ELSE l < r) \/ (l = r /\ left.name < right.name)

\* Rows that no comparison tells apart stay in the order of the answer.
SortedRows(rows, s) ==
  LET shown == {i \in DOMAIN rows : Measured(rows[i])}
  IN At(rows, Arranged(shown, [i \in shown |->
       {j \in shown : \/ Before(s, rows[j], rows[i])
                      \/ ~Before(s, rows[i], rows[j]) /\ j < i}]))

NextSort(s, key) == [key |-> key, desc |-> s.key = key /\ ~s.desc]

\* getStats: the best row for the makers by p95, for the takers by p50.
Contenders(rows, taker) == Kept(rows, {i \in DOMAIN rows : Rankable(rows[i]) /\ rows[i].taker = taker})

Winner(rows, taker) ==
  LET able == Contenders(rows, taker)
  IN IF able = <<>> THEN Off
     ELSE able[BestOf(DOMAIN able, [i \in DOMAIN able |-> Key(able[i], IF taker THEN "p50" ELSE "p95")])]

TableInit == summaries \in Summaries /\ sort = [key |-> "p95", desc |-> FALSE]
TableOff == summaries = Off /\ sort = Off

ReceiveSummaries ==
  /\ summaries' \in Summaries
  /\ UNCHANGED sort

ClickColumn(key) ==
  /\ sort' = NextSort(sort, key)
  /\ UNCHANGED summaries

TableNext == ReceiveSummaries \/ \E key \in {"p50", "p95", "p99"} : ClickColumn(key)

\* However the columns have been clicked and whatever arrived since, the
\* table has every measured row once, in an order of the chosen column that
\* another order of the same answer cannot change but for rows that differ in
\* nothing except the mode; the server, which groups them in a map, gives them
\* in any order.  Where the table is ascending in a card's column, the card's
\* row has the value of the first row of its kind that can be ranked (sortRows
\* and getStats, which rank on their own).
Ranked ==
  summaries # Off =>
  LET rows == SortedRows(summaries, sort)
      values == [i \in DOMAIN rows |-> Key(rows[i], sort.key)]
      measured == {j \in DOMAIN summaries : summaries[j].ok > 0}
  IN /\ Range(rows) = {summaries[j] : j \in measured}
     /\ Len(rows) = Cardinality(measured)
     /\ \A i, j \in DOMAIN rows : i < j =>
          \/ IF sort.desc THEN values[i] > values[j] ELSE values[i] < values[j]
          \/ values[i] = values[j] /\ rows[i].name < rows[j].name
          \/ values[i] = values[j] /\ rows[i].name = rows[j].name /\ rows[i].mode # rows[j].mode
     /\ \A taker \in BOOLEAN :
          (sort = [key |-> IF taker THEN "p50" ELSE "p95", desc |-> FALSE]) =>
            LET of == Contenders(rows, taker) IN
            IF of = <<>> THEN Winner(summaries, taker) = Off
            ELSE Key(Winner(summaries, taker), sort.key) = Key(of[1], sort.key)
=============================================================================
