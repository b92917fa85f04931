------------------------- MODULE MCTaskOrchestrator -------------------------
(* Small instances of TaskOrchestrator for TLC.                              *)
EXTENDS TaskOrchestrator

(* "join" waits for all the others.                                          *)
Join == [t \in Tasks |-> IF t = "join" THEN Tasks \ {"join"} ELSE {}]
=============================================================================
