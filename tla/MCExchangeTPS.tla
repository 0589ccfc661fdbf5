---------------------------- MODULE MCExchangeTPS ----------------------------
(* A small instance of ExchangeTPS for TLC.                                 *)
EXTENDS ExchangeTPS

CONSTANTS b1, b2

\* A larger block, and a smaller one of the next minute of the same hour.
MCBlockTime == [h \in Blocks |-> IF h = b1 THEN 1 ELSE 2]
MCNumTxs == [h \in Blocks |-> IF h = b1 THEN 2 ELSE 1]
MCSlot == MCBlockTime
=============================================================================
