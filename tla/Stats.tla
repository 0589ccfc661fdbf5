-------------------------------- MODULE Stats --------------------------------
(* The sequences and order statistics that the charts share.  Integers     *)
(* stand for the numbers of the code; what it interpolates between two of  *)
(* them is given in quarters.                                              *)
EXTENDS Integers, SequencesExt

CONSTANTS
  Off,        \* of a panel that is not on the page, of a tooltip that is closed
  OutlierMin  \* a series with fewer points has no outliers

\* Some things, places of a sequence or dates, in an order of their own: ahead
\* gives for each the ones that come before it.
Arranged(places, ahead) ==
  LET ranked == {<<Cardinality(ahead[i]), i>> : i \in places}
  IN [k \in 1..Cardinality(places) |-> (CHOOSE r \in ranked : r[1] = k - 1)[2]]

\* (With nothing appended: TLC then computes it once.)
At(s, order) == [k \in DOMAIN order |-> s[order[k]]] \o <<>>

\* What a filter leaves, and a stable sort by a number for each place.
Kept(s, places) == At(s, Arranged(places, [i \in places |-> {j \in places : j < i}]))

SortedBy(s, score) ==
  At(s, Arranged(DOMAIN s, [i \in DOMAIN s |->
          {j \in DOMAIN s : score[j] < score[i] \/ (score[j] = score[i] /\ j < i)}]))

Ascending(s) == SortedBy(s, s)

\* Four times the k-th quartile of an ascending sequence, interpolated.
Quantile(s, k) ==
  LET at == (Len(s) - 1) * k
      low == 1 + at \div 4
      weight == at % 4
  IN IF weight = 0 THEN 4 * s[low] ELSE s[low] * (4 - weight) + s[low + 1] * weight

Median(values) == Quantile(Ascending(values), 2)

SumOf(values) ==
  LET Sum[n \in 0..Len(values)] == IF n = 0 THEN 0 ELSE Sum[n - 1] + values[n]
  IN Sum[Len(values)]

\* The first of the places with the least score.
BestOf(places, score) ==
  CHOOSE i \in places : \A j \in places : score[i] < score[j] \/ (score[i] = score[j] /\ i <= j)
=============================================================================
