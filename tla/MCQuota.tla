------------------------------ MODULE MCQuota ------------------------------
(* Small instances of Quota for TLC. *)
EXTENDS Quota

CONSTANTS w1, w2

OneWorker  == {w1}
TwoWorkers == {w1, w2}
=============================================================================
