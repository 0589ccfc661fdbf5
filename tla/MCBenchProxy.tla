---------------------------- MODULE MCBenchProxy ----------------------------
(* A small instance of BenchProxy for TLC.                                  *)
EXTENDS BenchProxy, TLC

CONSTANTS c1, r1, r2, v1

Query(endpoint, window, bucket, limit, venues) ==
  [endpoint |-> endpoint, window |-> window, bucket |-> bucket, limit |-> limit, venues |-> venues]

\* A public and a restricted window of one route with fallbacks.
MCAsks == {Query("samples", "zz", None, 0, None), Query("samples", "7d", None, 0, None),
           Query("exchange-tps-export", "7d", None, 0, {v1})}

\* They differ in a character that counts as 0.
MCAttempts == {<<1, 0>>, <<1>>}

\* The second deployment hides a venue and changes the secret.
MCEnvs == {[hidden |-> {}, password |-> <<1, 0>>, secret |-> "s1"],
           [hidden |-> {v1}, password |-> <<1, 0>>, secret |-> "s2"]}

MCSymmetry == Permutations({r1, r2})
=============================================================================
