---------------------------- MODULE MCOrderSocket ----------------------------
(* A small instance of OrderSocket. *)
EXTENDS OrderSocket

Every == [timed : BOOLEAN, greets : BOOLEAN, beat : {"none", "message", "control"}]
=============================================================================
