------------------------- MODULE LoopLifecycleProofs -------------------------
(* The lifecycle keeps its promise for any number of loops and groups.      *)
EXTENDS LoopLifecycle, TLAPS

(* What the proof assumes of the rows at the start: at most one             *)
(* loop of a group exists then.                                             *)
Setup ==
  /\ Created \subseteq Loops
  /\ \A l, m \in Created : GroupOf[l] = GroupOf[m] => l = m

StateOK == state \in [Loops -> RowStates]

(* A row of the table ends in a state of the machine.                       *)
LEMMA EdgeInStates ==
  ASSUME NEW vbm, NEW gated, NEW e \in Edges(vbm, gated)
  PROVE  e.to \in LoopStates
<1>1. CASE e \in CommandEdges(gated)
  BY <1>1 DEF CommandEdges, Edge, Active, Terminal, LoopStates
<1>2. CASE e \in TickEdges(vbm)
  BY <1>2 DEF TickEdges, Edge, Active, Terminal, LoopStates
<1>3. CASE e \in MergeEdges(vbm)
  BY <1>3 DEF MergeEdges, Edge, Active, Terminal, LoopStates
<1>4. CASE e \in DecideEdges(vbm)
  BY <1>4 DEF DecideEdges, Edge, Active, Terminal, LoopStates
<1> QED  BY <1>1, <1>2, <1>3, <1>4 DEF Edges

(* A step keeps the column's type and the group's single active loop: the   *)
(* only rows that become active are alone in their group.                   *)
LEMMA StepKeeps ==
  ASSUME Setup, StateOK, AtMostOneActive, [Next]_state
  PROVE  StateOK' /\ AtMostOneActive'
<1>1. CASE UNCHANGED state
  BY <1>1 DEF StateOK, AtMostOneActive
<1>2. ASSUME NEW l \in Loops, Create(l)
      PROVE  StateOK' /\ AtMostOneActive'
  BY <1>2 DEF Create, ActiveLoops, StateOK, AtMostOneActive, RowStates, LoopStates, Active
<1>3. ASSUME NEW l \in Loops, Advance(l)
      PROVE  StateOK' /\ AtMostOneActive'
  <2>1. PICK e \in Edges(Vbm, l \in Gated) : state' = [state EXCEPT ![l] = e.to]
    BY <1>3 DEF Advance
  <2>2. e.to \in RowStates
    BY EdgeInStates DEF RowStates
  <2>3. state[l] \in Active
    BY <1>3 DEF Advance
  <2> QED  BY <2>1, <2>2, <2>3 DEF StateOK, AtMostOneActive
<1>4. ASSUME NEW l \in Loops, Promote(l)
      PROVE  StateOK' /\ AtMostOneActive'
  BY <1>4 DEF Promote, ActiveLoops, StateOK, AtMostOneActive, RowStates, LoopStates, Active
<1> QED  BY <1>1, <1>2, <1>3, <1>4 DEF Next

(* H-3, abstractly: create, the table and human promotions can never give a *)
(* task group a second active loop.                                         *)
THEOREM LifecycleKeepsOneActive ==
  ASSUME Setup
  PROVE  Spec => []AtMostOneActive
<1>1. Init => StateOK /\ AtMostOneActive
  BY DEF Setup, Init, StateOK, AtMostOneActive, RowStates, LoopStates, Active, Terminal
<1>2. StateOK /\ AtMostOneActive /\ [Next]_state => StateOK' /\ AtMostOneActive'
  BY StepKeeps
<1> QED  BY <1>1, <1>2, PTL DEF Spec

=============================================================================
