---------------------------- MODULE MCDirectory ----------------------------
(* Small instances of Directory, and with it of PubSub, for TLC. *)
EXTENDS Directory, TLC

CONSTANTS w1, w2

OneWorker  == {w1}
TwoWorkers == {w1, w2}

\* Odd connections are in the first map, even ones in the second.
Alternate == [c \in Connection |-> 2 - (c % 2)]

Symmetry == Permutations(TwoWorkers)
=============================================================================
