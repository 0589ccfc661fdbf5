---------------------------- MODULE Confirmations ----------------------------
(***************************************************************************)
(* What the account feed promises to the benchmark lifecycle               *)
(* (bench.Confirmation.Wait, internal/bench/types.go): a confirmation is   *)
(* answered exactly once; it succeeds, or is rejected, only on account     *)
(* events observed at or after the submission they confirm; and any other  *)
(* answer is an error.  AccountFeed implements this specification.         *)
(***************************************************************************)
EXTENDS Integers

CONSTANTS Waiters, Orders, Messages, MsgIds, Need, CancelWaiters, Rejects, None

VARIABLES
  stage,    \* "idle", "submitted" or "answered"
  since,    \* when the submission was written
  answer,   \* the answer, once there is one
  observed  \* the events observed so far

vars == <<stage, since, answer, observed>>

Event == [msg : Messages, at : Nat]
Errors == {"conn", "reconnecting", "timeout", "ensure"}
NoAnswer == [kind |-> "none", msg |-> None]

Init ==
  /\ stage = [w \in Waiters |-> "idle"]
  /\ since = [w \in Waiters |-> 0]
  /\ answer = [w \in Waiters |-> NoAnswer]
  /\ observed = {}

\* The events that may count for w.
Evidence(w) == {e \in observed : e.at >= since[w]}

Covers(w, e) ==
  IF w \in CancelWaiters
  THEN Need[w] \subseteq UNION {MsgIds[d.msg] : d \in Evidence(w)}
  ELSE Need[w] \cap MsgIds[e.msg] # {}

Conclude(w, kind, m) ==
  /\ stage' = [stage EXCEPT ![w] = "answered"]
  /\ answer' = [answer EXCEPT ![w] = [kind |-> kind, msg |-> m]]
  /\ UNCHANGED <<since, observed>>

Observe ==
  /\ \E e \in observed' : e \in Event /\ observed' = observed \cup {e}
  /\ UNCHANGED <<stage, since, answer>>

Submit(w) ==
  /\ stage[w] = "idle"
  /\ stage' = [stage EXCEPT ![w] = "submitted"]
  /\ since'[w] \in Nat /\ since' = [since EXCEPT ![w] = since'[w]]
  /\ UNCHANGED <<answer, observed>>

Confirm(w) ==
  /\ stage[w] = "submitted"
  /\ \E e \in Evidence(w) : Covers(w, e) /\ Conclude(w, "ok", e.msg)

Refuse(w) ==
  /\ stage[w] = "submitted"
  /\ \E e \in Evidence(w) : <<w, e.msg>> \in Rejects /\ Conclude(w, "match", e.msg)

\* The stream could not be prepared: there was no submission to confirm.
Abandon(w) == stage[w] = "idle" /\ Conclude(w, "ensure", None)

Fail(w) ==
  /\ stage[w] = "submitted"
  /\ \E kind \in Errors : Conclude(w, kind, None)

Next ==
  \/ Observe
  \/ \E w \in Waiters : Submit(w) \/ Confirm(w) \/ Refuse(w) \/ Abandon(w) \/ Fail(w)

Spec == Init /\ [][Next]_vars
=============================================================================
