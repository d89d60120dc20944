----------------------------- MODULE MCMetrics -----------------------------
(* Small instances of Metrics, and with it of Quota, for TLC. *)
EXTENDS Metrics, TLC

CONSTANTS w1, w2

TwoWorkers == {w1, w2}

\* The threads are interchangeable.
Threads == Permutations(TwoWorkers)
=============================================================================
