------------------------- MODULE OperatorManagerMC -------------------------
(* Two resources of one engine and one of the other.                       *)
EXTENDS OperatorManager

CONSTANTS m1, m2, c1

Engine3 == [s \in {m1, m2, c1} |-> IF s = c1 THEN "clickhouse" ELSE "mysql"]
=============================================================================
