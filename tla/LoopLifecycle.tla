---------------------------- MODULE LoopLifecycle ----------------------------
(***************************************************************************)
(* What the consilium loop controller promises of the loop rows, whatever  *)
(* instances, requests and faults race: a row moves along the transition   *)
(* table, a task group has one active loop at a time, and a terminal loop  *)
(* is re-opened by nothing but a human promotion.                          *)
(*                                                                         *)
(* One atomic step per transition: reads, locks, reviews and coders are    *)
(* abstracted away.  ConsiliumLoop implements this specification.          *)
(***************************************************************************)
EXTENDS LoopFSM

CONSTANTS Loops, GroupOf, Gated, Created, Vbm

VARIABLE state    \* the state column of each loop row

ActiveLoops(g) == {l \in Loops : GroupOf[l] = g /\ state[l] \in Active}

Init == state = [l \in Loops |-> IF l \in Created THEN "pending" ELSE "none"]

(* A loop is created in a group without an active loop. *)
Create(l) ==
  /\ state[l] = "none" /\ ActiveLoops(GroupOf[l]) = {}
  /\ state' = [state EXCEPT ![l] = "pending"]

(* The loop takes an edge of the table.  Only active loops do. *)
Advance(l) ==
  /\ state[l] \in Active
  /\ \E e \in Edges(Vbm, l \in Gated) :
       e.from = state[l] /\ state' = [state EXCEPT ![l] = e.to]

(* A human re-opens a loop with a verdict, alone in its group. *)
Promote(l) ==
  /\ state[l] \in DevelopPromotable(l \in Gated)
  /\ ActiveLoops(GroupOf[l]) \subseteq {l}
  /\ state' = [state EXCEPT ![l] = "developing"]

Next == \E l \in Loops : Create(l) \/ Advance(l) \/ Promote(l)

Spec == Init /\ [][Next]_state

-----------------------------------------------------------------------------

(* H-3: one active loop per group at most, in every behaviour the          *)
(* lifecycle allows.                                                       *)
AtMostOneActive == \A l, m \in Loops :
  state[l] \in Active /\ state[m] \in Active /\ GroupOf[l] = GroupOf[m] => l = m
=============================================================================
