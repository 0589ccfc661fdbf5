--------------------------- MODULE MCAccountFeed ---------------------------
(* A small instance of AccountFeed for TLC.                                *)
EXTENDS AccountFeed, TLC

CONSTANTS w1, w2, o1, o2, m1, m2

MCMsgIds == (m1 :> {o1}) @@ (m2 :> {o2})
\* w1 confirms the cancel of both orders, w2 the order o2.
MCNeed == [w \in Waiters |-> IF w = w1 THEN {o1, o2} ELSE {o2}]
\* m1 is a rejection to w2.
MCRejects == {<<w, m>> \in Waiters \X Messages : w = w2 /\ m = m1}
\* Both plans use the same dial key.
SharedKey == [w \in Waiters |-> NoKey]

ClientSymmetry == Permutations(Clients)
=============================================================================
