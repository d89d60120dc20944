--------------------------- MODULE MCPersistence ----------------------------
(* Small instance of Persistence for TLC. *)
EXTENDS Persistence

CONSTANTS empty, a, b

MCKey == {empty, a, b}
MCItem == {[type |-> "counter", value |-> 1, expires |-> 1], [type |-> "raw", value |-> 2, expires |-> 2]}
=============================================================================
