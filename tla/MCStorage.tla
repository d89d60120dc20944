----------------------------- MODULE MCStorage -----------------------------
(***************************************************************************)
(* Small instances of Storage for TLC: keys and threads are model values.  *)
(***************************************************************************)
EXTENDS Storage

CONSTANTS k1, k2, w1, w2

OneKey     == {k1}
TwoKeys    == {k1, k2}
OneWorker  == {w1}
TwoWorkers == {w1, w2}
=============================================================================
