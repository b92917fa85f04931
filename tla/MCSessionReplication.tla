------------------------ MODULE MCSessionReplication ------------------------
(* Small instances of SessionReplication for TLC.                            *)
EXTENDS SessionReplication

MayNotTick == {TRUE, FALSE}
=============================================================================
