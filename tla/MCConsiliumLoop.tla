--------------------------- MODULE MCConsiliumLoop ---------------------------
(* Small instances of ConsiliumLoop for TLC. *)
EXTENDS ConsiliumLoop

(* All loops belong to one task group; the first two share one; each loop  *)
(* has its own.                                                            *)
OneGroup == [l \in Loops |-> 1]
TwoGroups == [l \in Loops |-> IF l <= 2 THEN 1 ELSE 2]
OwnGroups == [l \in Loops |-> l]

Clean == [conv |-> TRUE, p0 |-> 0]
Open(n) == [conv |-> FALSE, p0 |-> n]

OpenOrClean == {Clean, Open(1)}
OnlyOpen == {Open(1)}
=============================================================================
