------------------------------ MODULE MCPools -------------------------------
(* Small instance of Pools for TLC. *)
EXTENDS Pools

CONSTANTS w1, w2

TwoWorkers == {w1, w2}
=============================================================================
