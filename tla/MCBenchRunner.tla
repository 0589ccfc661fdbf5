---------------------------- MODULE MCBenchRunner ----------------------------
(* Small instances of BenchRunner. *)
EXTENDS BenchRunner

Base == [open |-> TRUE, inFlight |-> 2, stop |-> FALSE, mode |-> "strict",
         taker |-> FALSE, neutralize |-> FALSE, guard |-> FALSE, heal |-> FALSE]

\* The shipped profiles: post-only quotes and takers, in both loops, with and
\* without the repair of a position found; a run without cleanup; and post-only
\* quotes that neutralize what fills, which no profile ships.
Takers == [Base EXCEPT !.taker = TRUE, !.neutralize = TRUE, !.guard = TRUE]
Profiles ==
  { [Base EXCEPT !.open = FALSE, !.stop = TRUE],
    [Base EXCEPT !.open = FALSE, !.neutralize = TRUE, !.guard = TRUE],
    [Base EXCEPT !.stop = TRUE],
    [Base EXCEPT !.inFlight = 1, !.mode = "best_effort", !.neutralize = TRUE, !.guard = TRUE],
    [Base EXCEPT !.mode = "off", !.open = FALSE],
    Takers,
    [Takers EXCEPT !.open = FALSE, !.heal = TRUE] }

CutProfiles == { [Base EXCEPT !.stop = TRUE] }

Accounts == { [stale |-> FALSE, pos |-> 0], [stale |-> TRUE, pos |-> 0],
              [stale |-> FALSE, pos |-> 1], [stale |-> TRUE, pos |-> 1] }
CleanAccount == { [stale |-> FALSE, pos |-> 0] }
=============================================================================
