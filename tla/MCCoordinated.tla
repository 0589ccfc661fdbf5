---------------------------- MODULE MCCoordinated ----------------------------
(* A small instance of Coordinated for TLC.                                 *)
EXTENDS Coordinated

CONSTANTS v1, v2, v3

\* One measured cycle of two strict venues, or of one beside a venue without
\* cleanup; or one venue for ever.
TogetherOrForever ==
  {[items |-> {v1, v2}, cycles |-> 1], [items |-> {v1, v3}, cycles |-> 1],
   [items |-> {v1}, cycles |-> 0]}

\* A run of one iteration and no warmups
FirstOnly == {0}
=============================================================================
