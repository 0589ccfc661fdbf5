------------------------------ MODULE MCFunding ------------------------------
(* Small instances of Funding for TLC.                                      *)
EXTENDS Funding

CONSTANTS a1, a2

TwoAccounts == <<a1, a2>>
MCCooldown == [a \in Accounts |-> IF a = a1 THEN 1 ELSE 2]
\* All live, or a1 switched to dry-run by the operator.
MCModes == {{}, {a1}}
=============================================================================
