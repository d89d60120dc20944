---------------------------- MODULE MCWriteQueue ----------------------------
(* Small instances of WriteQueue for TLC. *)
EXTENDS WriteQueue

CONSTANTS w1, w2

OneWorker  == {w1}
TwoWorkers == {w1, w2}
=============================================================================
