---------------------------- MODULE LatencyMetric ----------------------------
(***************************************************************************)
(* What the dashboard reads of one sample.  The API serves a stored row in *)
(* three forms, and the proxy falls back from the latency series to the    *)
(* dashboard samples and from these to the raw samples: the charts have to *)
(* say the same of all three.  A number or a name that JSON leaves out is  *)
(* 0 or "", as the code's tests take it.                                   *)
(***************************************************************************)
EXTENDS Integers

Max0(n) == IF n > 0 THEN n ELSE 0

\* Extended's orders, where only the market and IOC ones have another rule:
\* both rules leave out the speed bump.
EffectiveBump(s) == IF s.extended THEN 0 ELSE Max0(s.bump)

-----------------------------------------------------------------------------
(* The store (external)                                                    *)

\* Rows that the runner writes have both latencies, those of an earlier
\* schema neither, and not the columns taken from the metadata either.
StoredRow(r) ==
  /\ r.network \in Nat /\ r.bump \in Nat /\ r.floor \in Nat
  /\ r.extended \in BOOLEAN /\ r.batch \in BOOLEAN /\ r.ok \in BOOLEAN
  /\ r.scheduled \in Nat /\ r.sent \in Nat /\ r.completed \in Nat \ {0}
  /\ r.cleanupOK \in BOOLEAN /\ r.cancel \in BOOLEAN /\ r.duration \in Nat
  /\ r.native \in {"", "yes", "no"} /\ r.model \in BOOLEAN
  /\ r.feed \in BOOLEAN
  /\ r.legacy \in BOOLEAN

Raw(r) == IF r.legacy THEN 0 ELSE r.network
Adjusted(r) == IF r.legacy THEN 0 ELSE Max0(r.network - EffectiveBump(r))

Submission(r) ==
  IF r.native # "" THEN IF r.native = "yes" THEN "native" ELSE "manual"
  ELSE IF r.model THEN "manual" ELSE "native"

FeedCancel(r) == r.cleanupOK /\ r.cancel /\ r.feed

\* latencyConfirmNS
ConfirmNS(r) ==
  IF Adjusted(r) > 0 /\ r.bump = EffectiveBump(r) THEN Adjusted(r)
  ELSE Max0((IF Raw(r) > 0 THEN Raw(r) ELSE r.network) - EffectiveBump(r))

\* toDashboardLatencySample
LatencyForm(r) ==
  [extended |-> r.extended, batch |-> r.batch, ok |-> r.ok, floor |-> r.floor,
   confirm |-> ConfirmNS(r), network |-> 0, raw |-> 0, adjusted |-> 0, bump |-> 0,
   feed |-> FeedCancel(r), cleanupConfirm |-> IF FeedCancel(r) THEN r.duration ELSE 0,
   cleanupOK |-> FALSE, cancel |-> FALSE, duration |-> 0, confirmation |-> FALSE,
   submission |-> IF r.batch THEN Submission(r) ELSE "", native |-> "", model |-> FALSE,
   plot |-> IF r.scheduled > 0 THEN r.scheduled ELSE IF r.sent > 0 THEN r.sent ELSE r.completed,
   scheduled |-> 0, sent |-> 0, completed |-> 0]

\* toDashboardSample fills in what an earlier schema lacks.
DashboardForm(r) ==
  [extended |-> r.extended, batch |-> r.batch, ok |-> r.ok, floor |-> r.floor,
   confirm |-> 0, network |-> r.network, raw |-> IF Raw(r) = 0 THEN r.network ELSE Raw(r),
   adjusted |-> IF Adjusted(r) = 0 THEN Max0(r.network - r.bump) ELSE Adjusted(r), bump |-> r.bump,
   feed |-> FALSE, cleanupConfirm |-> 0,
   cleanupOK |-> r.cleanupOK, cancel |-> r.cancel, duration |-> r.duration, confirmation |-> r.feed,
   submission |-> IF r.batch THEN Submission(r) ELSE "", native |-> "", model |-> FALSE,
   plot |-> 0, scheduled |-> r.scheduled, sent |-> r.sent, completed |-> r.completed]

\* toSample, as compactSample leaves it: the submission is in its metadata.
RawForm(r) ==
  [DashboardForm(r) EXCEPT !.submission = "", !.native = r.native, !.model = r.model]

-----------------------------------------------------------------------------
(* The dashboard                                                           *)

RawNetwork(s) == IF s.raw > 0 THEN s.raw ELSE s.network

\* Mutant of AdjustedNetwork: the bump is taken from what is adjusted already.
AdjustedNetworkTwice(s) ==
  IF s.adjusted > 0 /\ s.bump = 0 THEN s.adjusted ELSE Max0(RawNetwork(s) - 2 * EffectiveBump(s))

AdjustedNetwork(s) ==
  IF s.adjusted > 0 /\ EffectiveBump(s) = s.bump THEN s.adjusted
  ELSE Max0(RawNetwork(s) - EffectiveBump(s))

\* subtractNetworkFloorNS, where it is asked for.
Floored(value, s, subtract) == IF subtract /\ s.floor > 0 THEN Max0(value - s.floor) ELSE value

ConfirmSample(s, subtract) ==
  Floored(IF s.confirm > 0 THEN s.confirm ELSE AdjustedNetwork(s), s, subtract)

AccountFeedCancel(s) == s.feed \/ (s.cleanupOK /\ s.cancel /\ s.confirmation)

\* 0 is no value, which no chart shows either.
CancelSample(s, subtract) ==
  IF s.feed /\ s.cleanupConfirm > 0 THEN Floored(s.cleanupConfirm, s, subtract)
  ELSE IF AccountFeedCancel(s) /\ s.duration > 0 THEN Floored(s.duration, s, subtract)
  ELSE 0

PlotDate(s) ==
  IF s.plot > 0 THEN s.plot ELSE IF s.scheduled > 0 THEN s.scheduled
  ELSE IF s.sent > 0 THEN s.sent ELSE s.completed

\* The chart's series of a venue.
BatchSubmission(s) ==
  IF ~s.batch THEN ""
  ELSE IF s.submission # "" THEN s.submission
  ELSE IF s.native = "no" THEN "manual" ELSE IF s.native = "yes" THEN "native"
  ELSE IF s.model THEN "manual" ELSE "native"

-----------------------------------------------------------------------------
Forms == {"latency", "dashboard", "raw"}

InForm(form, r) ==
  CASE form = "latency" -> LatencyForm(r) [] form = "dashboard" -> DashboardForm(r)
    [] OTHER -> RawForm(r)

\* What the charts take from a sample.
Seen(s, subtract) ==
  [confirm |-> ConfirmSample(s, subtract), cancel |-> CancelSample(s, subtract),
   date |-> PlotDate(s), submission |-> BatchSubmission(s)]

\* A stored row is drawn at the same time, with the same latencies and in the
\* same series, whichever endpoint the proxy found; also a row of an earlier
\* schema, an Extended row with a speed bump, and one whose latency is less
\* than its bump or its network floor.
FormsAgree(r) ==
  \A form \in Forms, subtract \in BOOLEAN :
    Seen(InForm(form, r), subtract) = Seen(LatencyForm(r), subtract)
=============================================================================
