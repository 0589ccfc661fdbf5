----------------------------- MODULE MCContinuous -----------------------------
(* A small instance of Continuous. *)
EXTENDS Continuous

OperatorChoices == { [slow |-> FALSE, reserve |-> TRUE], [slow |-> TRUE, reserve |-> FALSE],
             [slow |-> FALSE, reserve |-> FALSE] }
=============================================================================
