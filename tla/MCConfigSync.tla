---------------------------- MODULE MCConfigSync ----------------------------
(* Small instances of ConfigSync for TLC.                                    *)
EXTENDS ConfigSync

OneEntity == [e \in Events |-> "x"]
FirstEventAtP == {<<"p", 1>>}
=============================================================================
