----------------------- MODULE MCConflictResolution -----------------------
(* Small instances of ConflictResolution for TLC.                            *)
EXTENDS ConflictResolution

(* Numbers that are no conflicts': TLC compares a request with a conflict.   *)
TwoRequests == {11, 12}
OneRequest == {11}

(* A vote or an experiment first, then a debate or a deferral.               *)
VoteThenDebate == <<{"quorum", "experiment"}, {"debate", "owner"}>>

(* Any strategy for every conflict.                                          *)
AnyStrategy == [c \in 1..MaxConflicts |-> Strategies]
=============================================================================
