------------------------------ MODULE MCPanels ------------------------------
(* Answers with the cases that differ: ties, dirty and uncovered rounds,    *)
(* late and legacy samples, series just below and above the length that    *)
(* has outliers, lines longer than the plot has points for.                *)
EXTENDS Panels

Summary(name, taker, ok, p50, p95) == [name |-> name, mode |-> "ack", taker |-> taker, ok |-> ok, p50 |-> p50, p95 |-> p95, p99 |-> p95]

\* Two rows that differ in their mode alone, and another with their latencies.
Tied ==
  {Summary(2, TRUE, 5, 2, 4), [Summary(2, TRUE, 5, 2, 4) EXCEPT !.mode = "account_feed"], Summary(1, TRUE, 4, 2, 4)}

MCSummaries ==
  {<<a, b, c>> : <<a, b, c>> \in {t \in Tied \X Tied \X Tied : Cardinality({t[1], t[2], t[3]}) = 3}}
  \cup {<<>>, <<Summary(1, TRUE, 0, 0, 0)>>,
   <<Summary(3, TRUE, 5, 2, 4), Summary(1, TRUE, 5, 2, 6), Summary(2, FALSE, 5, 3, 4), Summary(4, FALSE, 5, 1, 5)>>,
   <<Summary(2, TRUE, 1, 0, 3), Summary(3, TRUE, 4, 4, 4), Summary(1, FALSE, 0, 1, 1)>>}

Row(venue, at, latency, bump, legacy) ==
  [venue |-> venue, network |-> latency + bump, bump |-> bump, floor |-> 2, extended |-> venue = 2,
   batch |-> FALSE, ok |-> TRUE, scheduled |-> at, sent |-> at + 1, completed |-> at + 2,
   cleanupOK |-> TRUE, cancel |-> TRUE, duration |-> latency, native |-> "", model |-> FALSE,
   feed |-> legacy, legacy |-> legacy]

Short ==
  {<<>>,
   <<Row(1, 3, 3, 2, TRUE), Row(2, 9, 1, 2, FALSE), Row(1, 1, 0, 1, FALSE)>>,
   <<Row(1, 5, 3, 0, FALSE), [Row(1, 5, 4, 1, FALSE) EXCEPT !.batch = TRUE, !.native = "no"],
     [Row(1, 9, 9, 0, TRUE) EXCEPT !.ok = FALSE], Row(1, 4, 2, 0, FALSE)>>}

Long ==
  {[i \in 1..n |-> Row(1, 1 + ((5 * i) % spread), IF i <= a THEN 2 ELSE IF i <= b THEN 3 ELSE 12, 0, FALSE)] :
     <<n, a, b, spread>> \in {<<7, 2, 5, 8>>, <<8, 2, 5, 8>>, <<8, 7, 7, 61>>, <<9, 6, 7, 23>>, <<11, 4, 8, 61>>}}

MCAnswers == [form : {"latency", "dashboard"}, rows : Short \cup Long] \cup [form : {"raw"}, rows : Short]
MCPointers == [x : {0, 4, 8}, y : {1, 7}]
MCIntervals == <<2, 4, 12>>

Bucketed(venue, start, tx, complete) ==
  [venue |-> venue, start |-> start, seconds |-> 60, tx |-> tx, complete |-> complete]

MCTPSAnswers ==
  {<<>>,
   <<Bucketed(1, 6, 3, TRUE), Bucketed(2, 6, 4, FALSE), Bucketed(1, 0, 2, TRUE), Bucketed(2, 2, 5, TRUE)>>}
  \cup {[i \in 1..12 |-> Bucketed(1, 12 - i, (i * k) % 7, i # 3)]
        \o [i \in 1..5 |-> Bucketed(2, 3 * i, (i * k) % 3, TRUE)] : k \in 1..4}

Leg(sell, qty, value, expected, book) ==
  [sell |-> sell, qty |-> qty, value |-> value, fee |-> 1, expected |-> expected, book |-> book, top |-> FALSE]

Round(venue, date, clean, sell, qty, in, out, book) ==
  [venue |-> venue, date |-> date, taker |-> TRUE, clean |-> clean,
   entry |-> Leg(sell, qty, in, 10, book), exit |-> Leg(~sell, qty, out, 9, "yes")]

MCRounds ==
  {<<>>,
   <<Round(1, 3, TRUE, FALSE, 1, 11, 9, "yes"), Round(2, 5, FALSE, FALSE, 1, 12, 8, "yes"),
     Round(2, 14, TRUE, TRUE, 1, 9, 11, "yes"), Round(1, 12, TRUE, FALSE, 2, 23, 18, "no")>>,
   <<Round(1, 14, TRUE, FALSE, 1, 9, 11, "?"), Round(1, 3, TRUE, TRUE, 1, 12, 10, "yes"),
     [Round(2, 3, TRUE, TRUE, 1, 12, 10, "yes") EXCEPT !.taker = FALSE]>>,
   <<Round(1, 3, TRUE, FALSE, 1, 11, 9, "yes"), Round(2, 14, TRUE, FALSE, 1, 12, 8, "yes")>>}
  \cup {[i \in 1..n |-> Round(1, 2 * i, TRUE, FALSE, 1, IF i = far THEN 40 ELSE 8 + ((i * k) % 5), 9, "yes")] :
          <<n, far, k>> \in {<<7, 3, 1>>, <<8, 3, 2>>, <<8, 3, 5>>, <<20, 20, 2>>}}
=============================================================================
