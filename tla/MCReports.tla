----------------------------- MODULE MCReports -----------------------------
(* An instance of Reports for TLC: the sizes are those of the code scaled    *)
(* down so that four items fill several fragments.                           *)
EXTENDS Reports

SmallName == [i \in Item |-> i % 3]

\* Two connection maps.
SmallMap == [i \in Item |-> (i + 1) \div 2]

SmallFixed == [k \in Kind |-> CASE k = "list" -> 3 [] k = "stats" -> 4
                                [] k = "connections" -> 3 [] k = "channels" -> 2
                                [] OTHER -> 3]
=============================================================================
