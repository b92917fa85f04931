-------------------------- MODULE ConsiliumLoopProofs --------------------------
(* What holds of ConsiliumLoop for every number of loops, groups, instances *)
(* and requests: the types, together with what a call knows of the row it    *)
(* read before it claims it; the refinement of LoopLifecycle, and what       *)
(* follows for the rows; one call per loop in flight at an instance; the cap *)
(* on coder runs.                                                            *)
EXTENDS ConsiliumLoop, SequenceTheorems, FiniteSetTheorems, TLAPS

(* What the row in hand of a call looks like before the call claims it.     *)
CallOK(call) ==
  /\ call.pc = "develop" =>
       call.op = "develop" /\ call.row.state \in DevelopPromotable(call.on \in Gated)
  /\ call.pc = "retry" => call.op = "retry" /\ call.row.state = "throttled"
  /\ call.pc = "rereview" => call.row.state = "deciding"
  /\ call.pc \in {"abort", "aborted"} => call.op \in {"cancel", "finish"}

CallsOK == \A t \in Threads : CallOK(th[t])

IInv == TypeOK /\ CallsOK

-----------------------------------------------------------------------------
(* The transition table: what an edge, an event and a decision lead to.     *)

(* A row of the table that is not a promotion starts in an active state,    *)
(* whatever the gate, and ends in a state of the machine.                   *)
LEMMA EdgeEnds ==
  ASSUME NEW vbm, NEW gated, NEW e \in Edges(vbm, gated)
  PROVE  /\ e.to \in LoopStates
         /\ e.on # "develop_requested" => e.from \in Active
         /\ e.on = "develop_requested" => e.from \in DevelopPromotable(gated) /\ e.to = "developing"
<1>1. CASE e \in CommandEdges(gated)
  BY <1>1 DEF CommandEdges, Edge, Active, Terminal, LoopStates, DevelopPromotable
<1>2. CASE e \in TickEdges(vbm)
  BY <1>2 DEF TickEdges, Edge, Active, Terminal, LoopStates
<1>3. CASE e \in MergeEdges(vbm)
  BY <1>3 DEF MergeEdges, Edge, Active, Terminal, LoopStates
<1>4. CASE e \in DecideEdges(vbm)
  BY <1>4 DEF DecideEdges, Edge, Active, Terminal, LoopStates
<1> QED  BY <1>1, <1>2, <1>3, <1>4 DEF Edges

(* Only a promotion, a resume and a decision lead to developing. *)
LEMMA EdgesToDeveloping ==
  ASSUME NEW vbm, NEW gated, NEW e \in Edges(vbm, gated), e.to = "developing"
  PROVE  e.on \in {"develop_requested", "retry_develop", "decided"}
<1>1. CASE e \in CommandEdges(gated)
  BY <1>1 DEF CommandEdges, Edge
<1>2. CASE e \in TickEdges(vbm)
  BY <1>2 DEF TickEdges, Edge
<1>3. CASE e \in MergeEdges(vbm)
  BY <1>3 DEF MergeEdges, Edge
<1>4. CASE e \in DecideEdges(vbm)
  BY <1>4 DEF DecideEdges, Edge
<1> QED  BY <1>1, <1>2, <1>3, <1>4 DEF Edges

(* An edge is its three fields. *)
LEMMA EdgeFields ==
  ASSUME NEW vbm, NEW gated, NEW e \in Edges(vbm, gated)
  PROVE  e = Edge(e.from, e.on, e.to)
<1>1. CASE e \in CommandEdges(gated)
  BY <1>1 DEF CommandEdges, Edge
<1>2. CASE e \in TickEdges(vbm)
  BY <1>2 DEF TickEdges, Edge
<1>3. CASE e \in MergeEdges(vbm)
  BY <1>3 DEF MergeEdges, Edge
<1>4. CASE e \in DecideEdges(vbm)
  BY <1>4 DEF DecideEdges, Edge
<1> QED  BY <1>1, <1>2, <1>3, <1>4 DEF Edges

(* A successor that `reduce` finds is the end of an edge of the table that  *)
(* starts in the row's state.                                               *)
LEMMA ReduceEdge ==
  ASSUME NEW vbm, NEW state, NEW event,
         event # "develop_requested", NEW to \in Reduce(state, event, vbm, FALSE)
  PROVE  /\ state \in Active /\ to \in LoopStates
         /\ Edge(state, event, to) \in Edges(vbm, FALSE)
         /\ to = "developing" => event = "retry_develop" \/ event = "decided"
<1>1. PICK e \in Edges(vbm, FALSE) : e.from = state /\ e.on = event /\ e.to = to
  BY DEF Reduce
<1> QED  BY <1>1, EdgeEnds, EdgesToDeveloping, EdgeFields

(* What a tick decides is an edge from deciding. *)
LEMMA DecideEdge ==
  ASSUME NEW vbm, NEW verdict, NEW series
  PROVE  /\ Edge("deciding", "decided", Decide(verdict, series, vbm)) \in Edges(vbm, FALSE)
         /\ Edge("deciding", "decided", "stopped_cap") \in Edges(vbm, FALSE)
<1>1. Decide(verdict, series, vbm) \in {"converged", "escalated", "developing"} \union
             (IF vbm THEN {"awaiting_merge"} ELSE {})
  BY DEF Decide
<1> QED  BY <1>1 DEF Edges, DecideEdges

(* The edges a tick takes.                                                   *)
LEMMA TickEdgesOnly ==
  ASSUME NEW from, NEW on, on \notin {"cancel", "finish", "develop_requested", "rereview_requested",
                                      "retry_review", "retry_develop", "merge_approved", "decided"},
         NEW to \in Reduce(from, on, Vbm, FALSE)
  PROVE  \/ from = "pending" /\ on = "start" /\ to = "building_context"
         \/ from = "building_context" /\ on = "context_built" /\ to = "reviewing"
         \/ /\ from = "reviewing" /\ on # "none" /\ to \in {"deciding", "failed", "throttled"}
            /\ to = "deciding" => on = "review_completed"
            /\ to = "throttled" => on = "review_throttled"
         \/ from = "developing" /\ on # "none" /\ to \in {"throttled", "awaiting_merge", "building_context"}
<1>1. PICK e \in Edges(Vbm, FALSE) : e.from = from /\ e.on = on /\ e.to = to
  BY DEF Reduce
<1>2. e \in TickEdges(Vbm)
  <2>1. e \notin CommandEdges(FALSE)
    <3>2. e \notin {Edge("deciding", "rereview_requested", "building_context"),
                   Edge("throttled", "retry_review", "building_context"),
                   Edge("throttled", "retry_develop", "developing")}
      BY <1>1 DEF Edge
    <3>3. e \notin {Edge(s, "cancel", "cancelled") : s \in Active}
      BY <1>1 DEF Edge
    <3>4. e \notin {Edge(s, "finish", "stopped") : s \in Active}
      BY <1>1 DEF Edge
    <3>5. e \notin {Edge(s, "develop_requested", "developing") : s \in DevelopPromotable(FALSE)}
      BY <1>1 DEF Edge, DevelopPromotable
    <3> QED  BY <3>2, <3>3, <3>4, <3>5 DEF CommandEdges
  <2>2. e \notin MergeEdges(Vbm)
    BY <1>1 DEF MergeEdges, Edge
  <2>3. e \notin DecideEdges(Vbm)
    BY <1>1 DEF DecideEdges, Edge
  <2> QED  BY <2>1, <2>2, <2>3 DEF Edges
<1> QED  BY <1>1, <1>2 DEF TickEdges, Edge

LEMMA EventOfTick ==
  ASSUME NEW i, NEW l, NEW row
  PROVE  Event(i, l, row) \notin {"cancel", "finish", "develop_requested", "rereview_requested",
                                  "retry_review", "retry_develop", "merge_approved"}
<1> DEFINE commands == {"cancel", "finish", "develop_requested", "rereview_requested",
                        "retry_review", "retry_develop", "merge_approved"}
<1>1. ReviewEvent(i, l, row) \notin commands
  BY DEF ReviewEvent
<1>2. DevEvent(i, l, row) \notin commands
  BY DEF DevEvent
<1> QED  BY <1>1, <1>2 DEF Event

(* What a merge approval and an abort can make of a state.                   *)
LEMMA MergeEdgesOnly ==
  ASSUME NEW to \in Reduce("awaiting_merge", "merge_approved", Vbm, FALSE)
  PROVE  to = IF Vbm THEN "converged" ELSE "building_context"
<1>1. PICK e \in Edges(Vbm, FALSE) : e.from = "awaiting_merge" /\ e.on = "merge_approved" /\ e.to = to
  BY DEF Reduce
<1>2. e \notin TickEdges(Vbm) /\ e \notin DecideEdges(Vbm)
  BY <1>1 DEF TickEdges, DecideEdges, Edge
<1>3. e \notin CommandEdges(FALSE)
  <2>1. e \notin {Edge("deciding", "rereview_requested", "building_context"),
                 Edge("throttled", "retry_review", "building_context"),
                 Edge("throttled", "retry_develop", "developing")}
    BY <1>1 DEF Edge
  <2>2. /\ e \notin {Edge(s, "cancel", "cancelled") : s \in Active}
        /\ e \notin {Edge(s, "finish", "stopped") : s \in Active}
    BY <1>1 DEF Edge
  <2>3. e \notin {Edge(s, "develop_requested", "developing") : s \in DevelopPromotable(FALSE)}
    BY <1>1 DEF Edge, DevelopPromotable
  <2> QED  BY <2>1, <2>2, <2>3 DEF CommandEdges
<1>4. e \in MergeEdges(Vbm)
  BY <1>2, <1>3 DEF Edges
<1> QED  BY <1>1, <1>4 DEF MergeEdges, Edge

LEMMA AbortEdgesOnly ==
  ASSUME NEW from, NEW op \in {"cancel", "finish"}, NEW to \in Reduce(from, op, Vbm, FALSE)
  PROVE  to \in {"cancelled", "stopped"}
<1>1. PICK e \in Edges(Vbm, FALSE) : e.from = from /\ e.on = op /\ e.to = to
  BY DEF Reduce
<1>2. e \notin TickEdges(Vbm) /\ e \notin MergeEdges(Vbm) /\ e \notin DecideEdges(Vbm)
  BY <1>1 DEF TickEdges, MergeEdges, DecideEdges, Edge
<1>3. e \notin {Edge("deciding", "rereview_requested", "building_context"),
               Edge("throttled", "retry_review", "building_context"),
               Edge("throttled", "retry_develop", "developing")}
  BY <1>1 DEF Edge
<1>4. e \notin {Edge(s, "develop_requested", "developing") : s \in DevelopPromotable(FALSE)}
  BY <1>1 DEF Edge, DevelopPromotable
<1>5. e \in {Edge(s, "cancel", "cancelled") : s \in Active} \union {Edge(s, "finish", "stopped") : s \in Active}
  BY <1>2, <1>3, <1>4 DEF CommandEdges, Edges
<1> QED  BY <1>1, <1>5 DEF Edge

-----------------------------------------------------------------------------
(* Values.                                                                  *)

LEMMA IdleOK == Idle \in Thread /\ CallOK(Idle) /\ Idle.row.iter = 0
<1>1. NoRow \in Row
  BY DEF NoRow, Row, RowStates
<1>2. (CHOOSE l \in Loops : TRUE) \in Loops
  BY LoopAssumption
<1>3. Idle \in Thread
  <2> DEFINE any == CHOOSE l \in Loops : TRUE
  <2>1. any \in Loops
    BY <1>2
  <2> HIDE DEF any
  <2>2. Idle = [pc |-> "idle", op |-> "none", on |-> any, row |-> NoRow,
                job |-> "none", held |-> FALSE, slot |-> FALSE]
    BY DEF Idle, any
  <2> QED  BY <1>1, <2>1, <2>2 DEF Thread, PCs, Ops, Jobs
<1>4. Idle.pc = "idle" /\ Idle.row = NoRow
  BY DEF Idle
<1> QED  BY <1>3, <1>4 DEF CallOK, NoRow

LEMMA NoVerdictOK == NoVerdict \in VerdictOrNone
  BY DEF NoVerdict, VerdictOrNone

LEMMA MovedOK ==
  ASSUME NEW row \in Row, NEW on, NEW to \in RowStates, NEW res \in CoderResults \union {"none"}
  PROVE  LET new == Moved(row, on, to, res)
         IN  new \in Row /\ new.state = to /\ new.iter = row.iter /\ new.round = row.round
  BY DEF Moved, Row

(* A won swap replaces one row. *)
LEMMA CasOK ==
  ASSUME LoopsOK, NEW l \in Loops, NEW on, NEW to \in RowStates,
         NEW res \in CoderResults \union {"none"}, Cas(l, on, to, res)
  PROVE  /\ LoopsOK'
         /\ loop'[l].state = to
         /\ \A m \in Loops : loop'[m].iter = loop[m].iter
         /\ \A m \in Loops \ {l} : loop'[m] = loop[m]
<1>1. Moved(loop[l], on, to, res) \in Row /\ Moved(loop[l], on, to, res).iter = loop[l].iter
      /\ Moved(loop[l], on, to, res).state = to
  BY MovedOK DEF LoopsOK
<1>2. loop' = [loop EXCEPT ![l] = Moved(loop[l], on, to, res)]
  BY DEF Cas
<1> QED  BY <1>1, <1>2 DEF LoopsOK

(* Writing one row. *)
LEMMA WriteOK ==
  ASSUME LoopsOK, NEW l \in Loops, NEW row \in Row, loop' = [loop EXCEPT ![l] = row]
  PROVE  LoopsOK' /\ loop'[l] = row /\ \A m \in Loops \ {l} : loop'[m] = loop[m]
  BY DEF LoopsOK

LEMMA ResolveOK ==
  ASSUME TypeOK, NEW l \in Loops, NEW row \in Row, row.iter <= Len(iters[GroupOf[l]])
  PROVE  Resolve(l, row) \in VerdictOrNone
<1>1. CASE row.iter = 0 /\ RunnerMode /\ Recorded(l, row.round)
  <2>1. \E x \in rounds[l] : x.round = row.round
    BY <1>1 DEF Recorded
  <2>2. (CHOOSE x \in rounds[l] : x.round = row.round) \in rounds[l]
    BY <2>1
  <2>3. VerdictOf(l, row.round) \in VerdictOrNone
    BY <2>2 DEF VerdictOf, TypeOK, RoundsOK
  <2> QED  BY <1>1, <2>3 DEF Resolve
<1>2. CASE row.iter = 0 /\ ~(RunnerMode /\ Recorded(l, row.round))
  BY <1>2, NoVerdictOK DEF Resolve
<1>3. CASE row.iter # 0
  <2>1. row.iter \in 1..Len(iters[GroupOf[l]]) /\ iters[GroupOf[l]] \in Seq(Iteration)
    BY <1>3 DEF TypeOK, ItersOK, Groups, Row
  <2>2. iters[GroupOf[l]][row.iter] \in Iteration
    BY <2>1
  <2> QED  BY <1>3, <2>2 DEF Resolve, Iteration
<1> QED  BY <1>1, <1>2, <1>3

LEMMA UnconvergedOK ==
  ASSUME NEW v \in VerdictOrNone
  PROVE  Unconverged(v) \in VerdictOrNone
<1>1. CASE v = NoVerdict
  BY <1>1 DEF Unconverged, VerdictOrNone, NoVerdict
<1>2. CASE v \in [conv : BOOLEAN, p0 : Nat]
  BY <1>2 DEF Unconverged, VerdictOrNone
<1> QED  BY <1>1, <1>2 DEF VerdictOrNone

(* An audit row, written or lost. *)
LEMMA AuditOK ==
  ASSUME RoundsOK, LeftOK, NEW l \in Loops, NEW r \in Nat, NEW v \in VerdictOrNone, Audit(l, r, v)
  PROVE  RoundsOK' /\ LeftOK'
<1>1. CASE RecordRound(l, r, v) /\ UNCHANGED left
  BY <1>1 DEF RecordRound, RoundsOK, LeftOK
<1>2. CASE Fault("auditLoss") /\ UNCHANGED rounds
  BY <1>2 DEF Fault, RoundsOK, LeftOK
<1> QED  BY <1>1, <1>2 DEF Audit

LEMMA FaultOK ==
  ASSUME LeftOK, NEW f, Fault(f)
  PROVE  LeftOK'
  BY DEF Fault, LeftOK

LEMMA CommandOK ==
  ASSUME LeftOK, NEW c, Command(c)
  PROVE  LeftOK'
  BY DEF Command, LeftOK

LEMMA SetCoderOK ==
  ASSUME RegistryOK, NEW i \in Instances, NEW l \in Loops, NEW run \in CoderRun,
         SetCoder(i, l, run), UNCHANGED review
  PROVE  RegistryOK'
<1>1. sdlc' \in [Instances -> [Loops -> CoderRun]]
  BY DEF SetCoder, RegistryOK
<1>2. stray' \in [Instances -> [Loops -> [BOOLEAN -> Nat]]]
  <2>1. sdlc[i][l].via \in BOOLEAN
    BY DEF RegistryOK, CoderRun
  <2> QED  BY <2>1 DEF SetCoder, RegistryOK
<1> QED  BY <1>1, <1>2 DEF RegistryOK

LEMMA NoCoderOK == NoCoder \in CoderRun /\ NoReview \in ReviewRun /\ NoStray \in [BOOLEAN -> Nat]
  BY NoVerdictOK DEF NoCoder, CoderRun, NoReview, ReviewRun, NoStray

-----------------------------------------------------------------------------
(* Steps.  A step of thread t keeps the invariant when it leaves the        *)
(* database well-formed, keeps every iteration and puts a sound call in t.  *)

DbNext ==
  /\ LoopsOK' /\ RoundsOK' /\ ItersOK' /\ LeftOK'
  /\ \A g \in Groups : Len(iters[g]) <= Len(iters'[g])
  /\ \A l \in Loops : loop'[l].iter <= Len(iters'[GroupOf[l]])

CallNext(t) ==
  \E call \in Thread :
    /\ CallOK(call) /\ call.row.iter <= Len(iters'[GroupOf[call.on]])
    /\ th' = [th EXCEPT ![t] = call]

LockOK == lock \in [Instances -> SUBSET Loops]

LEMMA StepOK ==
  ASSUME IInv, DbNext, RegistryOK', LockOK', NEW t \in Threads, CallNext(t) \/ UNCHANGED th
  PROVE  IInv'
<1>1. ASSUME NEW s \in Threads
      PROVE  th[s] \in Thread /\ GroupOf[th[s].on] \in Groups
  BY DEF IInv, TypeOK, ThreadsOK, Thread, Groups
<1>2. ASSUME NEW s \in Threads, th'[s] = th[s]
      PROVE  th'[s].row.iter <= Len(iters'[GroupOf[th'[s].on]])
  <2>1. th[s].row.iter \in Nat
    BY <1>1 DEF Thread, Row
  <2>2. th[s].row.iter <= Len(iters[GroupOf[th[s].on]])
    BY DEF IInv, TypeOK, RefsOK
  <2>3. Len(iters[GroupOf[th[s].on]]) <= Len(iters'[GroupOf[th[s].on]])
    BY <1>1 DEF DbNext
  <2>4. Len(iters[GroupOf[th[s].on]]) \in Nat /\ Len(iters'[GroupOf[th[s].on]]) \in Nat
    BY <1>1 DEF DbNext, ItersOK, IInv, TypeOK
  <2> QED  BY <1>2, <2>1, <2>2, <2>3, <2>4
<1>3. CASE UNCHANGED th
  <2>1. ThreadsOK' /\ CallsOK'
    BY <1>3 DEF IInv, TypeOK, ThreadsOK, LockOK, CallsOK
  <2>2. RefsOK'
    BY <1>2, <1>3 DEF RefsOK, DbNext
  <2> QED  BY <2>1, <2>2 DEF IInv, TypeOK, DbNext
<1>4. CASE CallNext(t)
  <2>1. PICK call \in Thread : /\ CallOK(call) /\ call.row.iter <= Len(iters'[GroupOf[call.on]])
                               /\ th' = [th EXCEPT ![t] = call]
    BY <1>4 DEF CallNext
  <2>2. \A s \in Threads : th'[s] = IF s = t THEN call ELSE th[s]
    BY <2>1 DEF IInv, TypeOK, ThreadsOK
  <2>3. ThreadsOK' /\ CallsOK'
    BY <2>1, <2>2 DEF IInv, TypeOK, ThreadsOK, LockOK, CallsOK
  <2>4. RefsOK'
    BY <1>2, <2>1, <2>2 DEF RefsOK, DbNext
  <2> QED  BY <2>3, <2>4 DEF IInv, TypeOK, DbNext
<1> QED  BY <1>3, <1>4

(* The database of a step that creates no iteration and writes at most one  *)
(* row, without a new child ref.                                            *)
LEMMA QuietDb ==
  ASSUME IInv, RoundsOK', LeftOK', UNCHANGED iters, LoopsOK',
         \A l \in Loops : loop'[l].iter \in {loop[l].iter, 0}
  PROVE  DbNext
<1>1. \A g \in Groups : Len(iters[g]) \in Nat
  BY DEF IInv, TypeOK, ItersOK
<1>2. ASSUME NEW l \in Loops
      PROVE  loop'[l].iter <= Len(iters[GroupOf[l]])
  BY <1>1 DEF IInv, TypeOK, RefsOK, Groups
<1> QED  BY <1>1, <1>2 DEF DbNext, IInv, TypeOK, ItersOK

LEMMA ReturnOK ==
  ASSUME IInv, ItersOK', NEW t \in Threads, Return(t)
  PROVE  CallNext(t) /\ LockOK'
<1>1. Len(iters'[GroupOf[Idle.on]]) \in Nat
  BY IdleOK DEF ItersOK, Thread, Groups
<1>2. CallNext(t)
  <2>1. Idle.row.iter <= Len(iters'[GroupOf[Idle.on]])
    BY <1>1, IdleOK
  <2>2. th' = [th EXCEPT ![t] = Idle]
    BY DEF Return
  <2> QED  BY <2>1, <2>2, IdleOK DEF CallNext
<1>3. t[1] \in Instances
  BY DEF Threads
<1> QED  BY <1>2, <1>3 DEF Return, LockOK, IInv, TypeOK, ThreadsOK

(* A call goes on at a point where CallOK asks nothing. *)
Unclaimed == {"develop", "retry", "rereview", "abort", "aborted"}

LEMMA GotoOK ==
  ASSUME IInv, DbNext, NEW t \in Threads, NEW pc \in PCs \ Unclaimed, Goto(t, pc)
  PROVE  CallNext(t)
<1> DEFINE call == [th[t] EXCEPT !.pc = pc]
<1>1. th[t] \in Thread
  BY DEF IInv, TypeOK, ThreadsOK
<1>2. call \in Thread /\ call.pc = pc /\ call.row = th[t].row /\ call.on = th[t].on
  BY <1>1 DEF Thread
<1>3. CallOK(call)
  BY <1>2 DEF CallOK, Unclaimed
<1>4. call.row.iter <= Len(iters'[GroupOf[call.on]])
  <2>1. th[t].row.iter \in Nat /\ th[t].row.iter <= Len(iters[GroupOf[th[t].on]]) /\ GroupOf[th[t].on] \in Groups
    BY <1>1 DEF Thread, Row, IInv, TypeOK, RefsOK, Groups
  <2>2. Len(iters[GroupOf[th[t].on]]) <= Len(iters'[GroupOf[th[t].on]])
    BY <2>1 DEF DbNext
  <2>3. Len(iters[GroupOf[th[t].on]]) \in Nat /\ Len(iters'[GroupOf[th[t].on]]) \in Nat
    BY <2>1 DEF DbNext, ItersOK, IInv, TypeOK
  <2> QED  BY <1>2, <2>1, <2>2, <2>3
<1>5. th' = [th EXCEPT ![t] = call]
  BY DEF Goto
<1> HIDE DEF call
<1> QED  BY <1>2, <1>3, <1>4, <1>5 DEF CallNext

(* A call goes on with the row that its claim left. *)
LEMMA RunOK ==
  ASSUME IInv, DbNext, NEW t \in Threads, NEW pc \in PCs \ Unclaimed, NEW job \in Jobs, Run(t, pc, job)
  PROVE  CallNext(t)
<1> DEFINE call == [th[t] EXCEPT !.pc = pc, !.job = job, !.row = loop'[th[t].on]]
<1>1. th[t] \in Thread
  BY DEF IInv, TypeOK, ThreadsOK
<1>2. loop'[th[t].on] \in Row /\ loop'[th[t].on].iter <= Len(iters'[GroupOf[th[t].on]])
  BY <1>1 DEF DbNext, LoopsOK, Thread
<1>3. call \in Thread /\ call.pc = pc /\ call.row = loop'[th[t].on] /\ call.on = th[t].on
  BY <1>1, <1>2 DEF Thread
<1>4. CallOK(call)
  BY <1>3 DEF CallOK, Unclaimed
<1>5. th' = [th EXCEPT ![t] = call]
  BY DEF Run
<1> HIDE DEF call
<1> QED  BY <1>2, <1>3, <1>4, <1>5 DEF CallNext

(* A request starts a call with the row it reads. *)
LEMMA CallFromOK ==
  ASSUME IInv, DbNext, NEW t \in Threads, NEW op \in Ops, NEW l \in Loops, NEW pc \in PCs,
         pc = "develop" => op = "develop" /\ loop[l].state \in DevelopPromotable(l \in Gated),
         pc = "retry" => op = "retry" /\ loop[l].state = "throttled",
         pc = "rereview" => loop[l].state = "deciding",
         pc \in {"abort", "aborted"} => op \in {"cancel", "finish"},
         UNCHANGED loop, Call(t, op, l, pc)
  PROVE  CallNext(t)
<1> DEFINE call == [Idle EXCEPT !.pc = pc, !.op = op, !.on = l, !.row = loop[l]]
<1>1. loop[l] \in Row /\ loop[l].iter <= Len(iters'[GroupOf[l]])
  BY DEF IInv, TypeOK, LoopsOK, DbNext
<1>2. call \in Thread /\ call.pc = pc /\ call.op = op /\ call.row = loop[l] /\ call.on = l
  BY <1>1, IdleOK DEF Thread
<1>3. CallOK(call)
  BY <1>2 DEF CallOK
<1>4. th' = [th EXCEPT ![t] = call]
  BY DEF Call
<1> HIDE DEF call
<1> QED  BY <1>1, <1>2, <1>3, <1>4 DEF CallNext

(* A step that leaves the database alone. *)
LEMMA SameDb ==
  ASSUME IInv, UNCHANGED db, LeftOK'
  PROVE  DbNext
<1>1. RoundsOK' /\ LoopsOK' /\ UNCHANGED iters
  BY DEF db, IInv, TypeOK, RoundsOK, LoopsOK
<1>2. \A l \in Loops : loop'[l].iter \in {loop[l].iter, 0}
  BY DEF db
<1> QED  BY <1>1, <1>2, QuietDb

LEMMA SameRegistry ==
  ASSUME IInv, UNCHANGED registry
  PROVE  RegistryOK'
  BY DEF IInv, TypeOK, RegistryOK, registry

LEMMA SameLeft ==
  ASSUME IInv, UNCHANGED left
  PROVE  LeftOK'
  BY DEF IInv, TypeOK, LeftOK

LEMMA SameLock ==
  ASSUME IInv
  PROVE  LockOK /\ (UNCHANGED lock => LockOK')
  BY DEF IInv, TypeOK, ThreadsOK, LockOK

(* The thread's own loop and row. *)
LEMMA OwnRow ==
  ASSUME IInv, NEW t \in Threads
  PROVE  /\ t[1] \in Instances /\ th[t] \in Thread /\ th[t].on \in Loops /\ th[t].row \in Row
         /\ GroupOf[th[t].on] \in Groups /\ th[t].row.iter <= Len(iters[GroupOf[th[t].on]])
         /\ CallOK(th[t])
<1>1. th[t] \in Thread
  BY DEF IInv, TypeOK, ThreadsOK
<1> QED  BY <1>1 DEF Threads, Thread, Groups, IInv, TypeOK, RefsOK, CallsOK

-----------------------------------------------------------------------------
(* The poller.                                                              *)

LEMMA EventIsNoCommand ==
  ASSUME NEW i, NEW l, NEW row
  PROVE  Event(i, l, row) # "develop_requested"
<1>1. ReviewEvent(i, l, row) # "develop_requested"
  BY DEF ReviewEvent
<1>2. DevEvent(i, l, row) # "develop_requested"
  BY DEF DevEvent
<1> QED  BY <1>1, <1>2 DEF Event

LEMMA DecideToState ==
  ASSUME NEW l, NEW row
  PROVE  DecideTo(l, row) \in RowStates
  BY DEF DecideTo, Decide, RowStates, LoopStates, Active, Terminal

LEMMA NextJobOK ==
  ASSUME IInv, DbNext, NEW t \in Threads, NEW on, NEW to, NextJob(t, on, to)
  PROVE  CallNext(t) /\ LockOK'
<1>1. \/ Run(t, "effect", "review") /\ UNCHANGED lock
      \/ Run(t, "effect", "handoff") /\ UNCHANGED lock
      \/ Run(t, "effect", "settled") /\ UNCHANGED lock
      \/ Run(t, "effect", "audit") /\ UNCHANGED lock
      \/ Run(t, "touch", "none") /\ UNCHANGED lock
      \/ Return(t)
  BY DEF NextJob
<1>2. ASSUME NEW pc \in {"effect", "touch"}, NEW job \in Jobs, Run(t, pc, job), UNCHANGED lock
      PROVE  CallNext(t) /\ LockOK'
  BY <1>2, RunOK, SameLock DEF PCs, Unclaimed
<1>3. CASE Return(t)
  BY <1>3, ReturnOK DEF DbNext
<1> QED  BY <1>1, <1>2, <1>3 DEF Jobs

LEMMA TickOK ==
  ASSUME IInv, NEW t \in Threads, NEW l \in Loops, Tick(t, l), LeftOK'
  PROVE  IInv'
<1> DEFINE call == [Idle EXCEPT !.pc = "tick", !.op = "tick", !.on = l, !.row = loop[l], !.held = TRUE]
<1>1. DbNext
  BY SameDb DEF Tick
<1>2. loop[l] \in Row /\ loop[l].iter <= Len(iters'[GroupOf[l]])
  BY <1>1 DEF IInv, TypeOK, LoopsOK, DbNext, Tick, db
<1>3. call \in Thread /\ call.pc = "tick" /\ call.row = loop[l] /\ call.on = l
  BY <1>2, IdleOK DEF Thread, PCs, Ops
<1>4. th' = [th EXCEPT ![t] = call]
  BY DEF Tick
<1> HIDE DEF call
<1>5. CallNext(t)
  BY <1>2, <1>3, <1>4 DEF CallNext, CallOK
<1>6. LockOK'
  BY OwnRow, SameLock DEF Tick, LockOK
<1> QED  BY <1>1, <1>5, <1>6, StepOK, SameRegistry DEF Tick

LEMMA RedriveOK ==
  ASSUME IInv, NEW t \in Threads, Redrive(t)
  PROVE  IInv'
<1> DEFINE l == th[t].on
<1>1. loop' = [loop EXCEPT ![l].old = FALSE] \/ UNCHANGED loop
  BY DEF Redrive
<1>2. LoopsOK' /\ \A m \in Loops : loop'[m].iter \in {loop[m].iter, 0}
  <2> DEFINE new == [loop[l] EXCEPT !.old = FALSE]
  <2>1. l \in Loops /\ loop[l] \in Row /\ th[t].row \in Row
    BY OwnRow DEF IInv, TypeOK, LoopsOK
  <2>2. new \in Row /\ new.iter = loop[l].iter
    BY <2>1 DEF Row
  <2>3. loop' = [loop EXCEPT ![l] = new] \/ UNCHANGED loop
    BY <1>1
  <2> HIDE DEF new
  <2> QED  BY <2>1, <2>2, <2>3, WriteOK DEF IInv, TypeOK, LoopsOK
<1>3. DbNext
  BY <1>2, QuietDb, SameLeft DEF Redrive, IInv, TypeOK, RoundsOK
<1>4. \/ Run(t, "effect", "review") /\ UNCHANGED lock
      \/ Run(t, "effect", "handoff") /\ UNCHANGED lock
      \/ Return(t)
  BY DEF Redrive
<1>5. CallNext(t) /\ LockOK'
  BY <1>3, <1>4, RunOK, ReturnOK, SameLock DEF DbNext, PCs, Unclaimed, Jobs
<1> QED  BY <1>3, <1>5, StepOK, SameRegistry DEF Redrive

LEMMA AutoRetryOK ==
  ASSUME IInv, NEW t \in Threads, AutoRetry(t)
  PROVE  IInv'
<1> DEFINE l == th[t].on
<1>1. loop' = [loop EXCEPT ![l].tries = th[t].row.tries + 1] \/ UNCHANGED loop
  BY DEF AutoRetry
<1>2. LoopsOK' /\ \A m \in Loops : loop'[m].iter \in {loop[m].iter, 0}
  <2> DEFINE new == [loop[l] EXCEPT !.tries = th[t].row.tries + 1]
  <2>1. l \in Loops /\ loop[l] \in Row /\ th[t].row \in Row
    BY OwnRow DEF IInv, TypeOK, LoopsOK
  <2>2. new \in Row /\ new.iter = loop[l].iter
    BY <2>1 DEF Row
  <2>3. loop' = [loop EXCEPT ![l] = new] \/ UNCHANGED loop
    BY <1>1
  <2> HIDE DEF new
  <2> QED  BY <2>1, <2>2, <2>3, WriteOK DEF IInv, TypeOK, LoopsOK
<1>3. DbNext
  BY <1>2, QuietDb, SameLeft DEF AutoRetry, IInv, TypeOK, RoundsOK
<1>4. CASE ReleaseForResume(t) /\ Goto(t, "resume")
  <2>1. CallNext(t)
    BY <1>3, <1>4, GotoOK DEF PCs, Unclaimed
  <2>2. LockOK'
    BY <1>4, OwnRow, SameLock DEF ReleaseForResume, LockOK
  <2> QED  BY <2>1, <2>2, <1>3, StepOK, SameRegistry DEF AutoRetry
<1>5. CASE Return(t)
  BY <1>3, <1>5, ReturnOK, StepOK, SameRegistry DEF AutoRetry, DbNext
<1> QED  BY <1>4, <1>5 DEF AutoRetry

(* A swap on the thread's row, or none, as the only write to the database.  *)
LEMMA SwapDb ==
  ASSUME IInv, NEW l \in Loops, NEW on, NEW to \in RowStates,
         NEW res \in CoderResults \union {"none"},
         Cas(l, on, to, res) \/ UNCHANGED loop, UNCHANGED iters, RoundsOK', LeftOK'
  PROVE  DbNext
<1>1. LoopsOK' /\ \A m \in Loops : loop'[m].iter \in {loop[m].iter, 0}
  BY CasOK DEF IInv, TypeOK, LoopsOK
<1> QED  BY <1>1, QuietDb

LEMMA DropCoderOK ==
  ASSUME IInv, NEW i \in Instances, NEW l \in Loops,
         DropCoder(i, l) \/ UNCHANGED <<sdlc, stray>>, UNCHANGED review
  PROVE  RegistryOK'
<1>1. RegistryOK
  BY DEF IInv, TypeOK
<1>2. CASE DropCoder(i, l)
  BY <1>1, <1>2, SetCoderOK, NoCoderOK DEF DropCoder
<1>3. CASE UNCHANGED <<sdlc, stray>>
  BY <1>1, <1>3 DEF RegistryOK
<1> QED  BY <1>2, <1>3

LEMMA SameRounds ==
  ASSUME IInv, UNCHANGED rounds
  PROVE  RoundsOK'
  BY DEF IInv, TypeOK, RoundsOK

LEMMA TickAdvanceOK ==
  ASSUME IInv, NEW t \in Threads, TickAdvance(t)
  PROVE  IInv'
<1> DEFINE l == th[t].on  row == th[t].row  i == t[1]  on == Event(i, l, row)
<1>1. PICK to \in Reduce(row.state, on, Vbm, FALSE) :
        IF CasWins(l, row.state)
          THEN /\ Cas(l, on, to, sdlc[i][l].res)
               /\ IF to = "awaiting_merge" THEN DropCoder(i, l) ELSE UNCHANGED <<sdlc, stray>>
               /\ NextJob(t, on, to)
          ELSE Return(t) /\ UNCHANGED <<loop, sdlc, stray>>
  BY DEF TickAdvance
<1>2. to \in RowStates
  <2>1. on # "develop_requested"
    BY EventIsNoCommand
  <2> HIDE DEF on, row
  <2> QED  BY <2>1, ReduceEdge DEF RowStates
<1>3. l \in Loops /\ i \in Instances /\ sdlc[i][l].res \in CoderResults \union {"none"}
  BY OwnRow DEF IInv, TypeOK, RegistryOK, CoderRun
<1>4. UNCHANGED <<rounds, iters, review, left>>
  BY DEF TickAdvance
<1>5. Cas(l, on, to, sdlc[i][l].res) \/ UNCHANGED loop
  BY <1>1
<1>6. DbNext
  BY <1>2, <1>3, <1>4, <1>5, SwapDb, SameRounds, SameLeft
<1>7. DropCoder(i, l) \/ UNCHANGED <<sdlc, stray>>
  BY <1>1
<1>8. RegistryOK'
  BY <1>3, <1>4, <1>7, DropCoderOK
<1>9. NextJob(t, on, to) \/ Return(t)
  BY <1>1
<1> HIDE DEF l, row, i, on
<1>10. CallNext(t) /\ LockOK'
  BY <1>6, <1>9, NextJobOK, ReturnOK DEF DbNext
<1> QED  BY <1>6, <1>8, <1>10, StepOK

LEMMA TickDecideOK ==
  ASSUME IInv, NEW t \in Threads, TickDecide(t)
  PROVE  IInv'
<1> DEFINE l == th[t].on  row == th[t].row  i == t[1]  to == DecideTo(l, row)
<1>1. /\ UNCHANGED <<iters, review>>
      /\ \/ Audit(l, row.round, Resolve(l, row)) /\ Return(t) /\ UNCHANGED <<loop, sdlc, stray>>
         \/ /\ UNCHANGED <<rounds, left>>
            /\ Cas(l, "decided", to, "none")
            /\ DropCoder(i, l) \/ UNCHANGED <<sdlc, stray>>
            /\ NextJob(t, "decided", to)
         \/ UNCHANGED <<rounds, left>> /\ Return(t) /\ UNCHANGED <<loop, sdlc, stray>>
  BY DEF TickDecide
<1>2. l \in Loops /\ i \in Instances /\ row \in Row /\ row.round \in Nat /\ to \in RowStates
  BY OwnRow, DecideToState DEF Row
<1>3. Resolve(l, row) \in VerdictOrNone
  BY <1>2, OwnRow, ResolveOK DEF IInv
<1>4. RoundsOK' /\ LeftOK'
  BY <1>1, <1>2, <1>3, AuditOK, SameRounds, SameLeft DEF IInv, TypeOK
<1>5. Cas(l, "decided", to, "none") \/ UNCHANGED loop
  BY <1>1
<1>6. UNCHANGED <<iters, review>> /\ (DropCoder(i, l) \/ UNCHANGED <<sdlc, stray>>)
      /\ (NextJob(t, "decided", to) \/ Return(t))
  BY <1>1
<1> HIDE DEF l, row, i, to
<1>7. DbNext
  BY <1>2, <1>4, <1>5, <1>6, SwapDb
<1>8. RegistryOK'
  BY <1>2, <1>6, DropCoderOK
<1>9. CallNext(t) /\ LockOK'
  BY <1>6, <1>7, NextJobOK, ReturnOK DEF DbNext
<1> QED  BY <1>7, <1>8, <1>9, StepOK

LEMMA ClaimStalledOK ==
  ASSUME IInv, NEW t \in Threads, ClaimStalled(t)
  PROVE  IInv'
<1> DEFINE l == th[t].on
<1>1. loop' = [loop EXCEPT ![l].old = FALSE] \/ UNCHANGED loop
  BY DEF ClaimStalled
<1>2. LoopsOK' /\ \A m \in Loops : loop'[m].iter \in {loop[m].iter, 0}
  <2> DEFINE new == [loop[l] EXCEPT !.old = FALSE]
  <2>1. l \in Loops /\ loop[l] \in Row
    BY OwnRow DEF IInv, TypeOK, LoopsOK
  <2>2. new \in Row /\ new.iter = loop[l].iter
    BY <2>1 DEF Row
  <2>3. loop' = [loop EXCEPT ![l] = new] \/ UNCHANGED loop
    BY <1>1
  <2> HIDE DEF new
  <2> QED  BY <2>1, <2>2, <2>3, WriteOK DEF IInv, TypeOK, LoopsOK
<1>3. DbNext
  BY <1>2, QuietDb, SameLeft, SameRounds DEF ClaimStalled
<1>4. (Run(t, "claimed", "none") /\ UNCHANGED lock) \/ Return(t)
  BY DEF ClaimStalled
<1>5. CallNext(t) /\ LockOK'
  BY <1>3, <1>4, RunOK, ReturnOK, SameLock DEF DbNext, PCs, Unclaimed, Jobs
<1> QED  BY <1>3, <1>5, StepOK, SameRegistry DEF ClaimStalled

LEMMA TickNothingOK ==
  ASSUME IInv, NEW t \in Threads, TickNothing(t)
  PROVE  IInv'
<1>1. DbNext
  BY SameDb, SameLeft DEF TickNothing
<1> QED  BY <1>1, ReturnOK, StepOK, SameRegistry DEF TickNothing, DbNext

(* One field of one iteration changes. *)
LEMMA IterWrite ==
  ASSUME ItersOK, NEW g \in Groups, NEW n, NEW x \in Iteration,
         iters' = [iters EXCEPT ![g][n] = x]
  PROVE  ItersOK' /\ \A h \in Groups : Len(iters'[h]) = Len(iters[h])
<1>1. iters[g] \in Seq(Iteration)
  BY DEF ItersOK
<1>2. [iters[g] EXCEPT ![n] = x] \in Seq(Iteration) /\ Len([iters[g] EXCEPT ![n] = x]) = Len(iters[g])
  <2>1. CASE n \in 1..Len(iters[g])
    BY <1>1, <2>1, ExceptSeq
  <2>2. CASE n \notin 1..Len(iters[g])
    <3>1. iters[g] \in [1..Len(iters[g]) -> Iteration]
      BY <1>1
    <3>2. [iters[g] EXCEPT ![n] = x] = iters[g]
      BY <2>2, <3>1
    <3> QED  BY <1>1, <3>2
  <2> QED  BY <2>1, <2>2
<1>3. iters' = [iters EXCEPT ![g] = [iters[g] EXCEPT ![n] = x]]
  OBVIOUS
<1> QED  BY <1>2, <1>3 DEF ItersOK

(* Iterations change or are added; no row takes a new child ref. *)
LEMMA GrowDb ==
  ASSUME IInv, RoundsOK', LeftOK', ItersOK', LoopsOK',
         \A g \in Groups : Len(iters[g]) <= Len(iters'[g]),
         \A l \in Loops : loop'[l].iter = loop[l].iter
  PROVE  DbNext
<1>1. ASSUME NEW l \in Loops
      PROVE  loop'[l].iter <= Len(iters'[GroupOf[l]])
  <2>1. GroupOf[l] \in Groups /\ loop[l].iter \in Nat /\ loop[l].iter <= Len(iters[GroupOf[l]])
    BY DEF Groups, IInv, TypeOK, RefsOK, LoopsOK, Row
  <2>2. Len(iters[GroupOf[l]]) \in Nat /\ Len(iters'[GroupOf[l]]) \in Nat
    BY <2>1 DEF ItersOK, IInv, TypeOK
  <2>3. Len(iters[GroupOf[l]]) <= Len(iters'[GroupOf[l]])
    BY <2>1
  <2> QED  BY <2>1, <2>2, <2>3
<1> QED  BY <1>1 DEF DbNext

LEMMA StatusDb ==
  ASSUME IInv, RoundsOK', LeftOK', UNCHANGED loop, NEW g \in Groups, NEW n, NEW x \in Iteration,
         iters' = [iters EXCEPT ![g][n] = x]
  PROVE  DbNext
<1>1. ItersOK' /\ \A h \in Groups : Len(iters'[h]) = Len(iters[h])
  BY IterWrite DEF IInv, TypeOK
<1>2. \A h \in Groups : Len(iters[h]) <= Len(iters'[h])
  BY <1>1 DEF ItersOK, IInv, TypeOK
<1>3. LoopsOK' /\ \A l \in Loops : loop'[l].iter = loop[l].iter
  BY DEF LoopsOK, IInv, TypeOK
<1> QED  BY <1>1, <1>2, <1>3, GrowDb

LEMMA SupersedeOK ==
  ASSUME IInv, NEW t \in Threads, Supersede(t)
  PROVE  IInv'
<1> DEFINE l == th[t].on
<1>1. /\ UNCHANGED <<rounds, iters, registry, left>>
      /\ \/ Return(t) /\ (Cas(l, "review_failed", "failed", "none") \/ UNCHANGED loop)
         \/ /\ loop' = [loop EXCEPT ![l].iter = 0, ![l].old = FALSE]
            /\ Goto(t, "orphan") /\ UNCHANGED lock
  BY DEF Supersede
<1>2. l \in Loops
  BY OwnRow
<1>3. CASE Return(t) /\ (Cas(l, "review_failed", "failed", "none") \/ UNCHANGED loop)
  <2>1. "failed" \in RowStates
    BY DEF RowStates, LoopStates, Terminal
  <2> HIDE DEF l
  <2>2. DbNext
    BY <1>1, <1>2, <1>3, <2>1, SwapDb, SameRounds, SameLeft
  <2> QED  BY <1>1, <1>3, <2>2, ReturnOK, StepOK, SameRegistry DEF DbNext
<1>4. CASE /\ loop' = [loop EXCEPT ![l].iter = 0, ![l].old = FALSE]
           /\ Goto(t, "orphan") /\ UNCHANGED lock
  <2> DEFINE new == [loop[l] EXCEPT !.iter = 0, !.old = FALSE]
  <2>1. loop[l] \in Row
    BY <1>2 DEF IInv, TypeOK, LoopsOK
  <2>2. new \in Row /\ new.iter = 0
    BY <2>1 DEF Row
  <2>3. loop' = [loop EXCEPT ![l] = new]
    BY <1>2, <1>4 DEF IInv, TypeOK, LoopsOK
  <2> HIDE DEF new, l
  <2>4. LoopsOK' /\ \A m \in Loops : loop'[m].iter \in {loop[m].iter, 0}
    BY <1>2, <2>2, <2>3, WriteOK DEF IInv, TypeOK
  <2>5. DbNext
    BY <1>1, <2>4, QuietDb, SameLeft, SameRounds
  <2>6. CallNext(t)
    BY <1>4, <2>5, GotoOK DEF PCs, Unclaimed
  <2> QED  BY <1>1, <1>4, <2>5, <2>6, StepOK, SameRegistry, SameLock
<1> QED  BY <1>1, <1>3, <1>4

LEMMA CancelOrphanOK ==
  ASSUME IInv, NEW t \in Threads, CancelOrphan(t)
  PROVE  IInv'
<1> DEFINE g == GroupOf[th[t].on]  n == th[t].row.iter  x == [iters[g][n] EXCEPT !.status = "cancelled"]
<1>1. g \in Groups /\ th[t] \in Thread /\ th[t].row \in Row /\ n <= Len(iters[g]) /\ iters[g] \in Seq(Iteration)
  BY OwnRow DEF IInv, TypeOK, ItersOK
<1>2. iters' = [iters EXCEPT ![g][n] = x]
  BY DEF CancelOrphan
<1>3. DbNext
  <2>1. CASE n = 0
    <3>1. iters[g] \in [1..Len(iters[g]) -> Iteration]
      BY <1>1
    <3>2. [iters[g] EXCEPT ![n] = x] = iters[g]
      BY <2>1, <3>1
    <3>3. iters' = [iters EXCEPT ![g] = iters[g]]
      BY <1>2, <3>2
    <3>4. UNCHANGED iters
      BY <1>1, <3>3 DEF IInv, TypeOK, ItersOK
    <3> QED  BY <3>4, SameDb, SameLeft DEF CancelOrphan, db
  <2>2. CASE n # 0
    <3>1. n \in 1..Len(iters[g])
      BY <1>1, <2>2 DEF Row
    <3>2. iters[g][n] \in Iteration
      BY <1>1, <3>1
    <3>3. x \in Iteration
      BY <3>2 DEF Iteration
    <3> HIDE DEF x, n, g
    <3> QED  BY <1>1, <1>2, <3>3, StatusDb, SameRounds, SameLeft DEF CancelOrphan
  <2> QED  BY <2>1, <2>2
<1>4. CallNext(t)
  <2> DEFINE again == [th[t].row EXCEPT !.redrives = th[t].row.redrives + 1]
             call == [th[t] EXCEPT !.pc = "effect", !.job = "relaunch", !.row = again]
  <2>0. again \in Row /\ again.iter = th[t].row.iter /\ n \in Nat
    <3> DEFINE r == th[t].row  k == r.redrives + 1
    <3>1. r \in Row /\ k \in Nat
      BY <1>1 DEF Row
    <3> HIDE DEF r, k
    <3>2. [r EXCEPT !.redrives = k] \in Row /\ [r EXCEPT !.redrives = k].iter = r.iter /\ r.iter \in Nat
      BY <3>1 DEF Row
    <3> QED  BY <3>2 DEF r, k
  <2>1. call \in Thread /\ call.pc = "effect" /\ call.row.iter = th[t].row.iter /\ call.on = th[t].on
    <3> HIDE DEF again
    <3> QED  BY <1>1, <2>0 DEF Thread, PCs, Jobs
  <2>2. th' = [th EXCEPT ![t] = call]
    BY DEF CancelOrphan
  <2> HIDE DEF call
  <2>3. call.row.iter <= Len(iters'[GroupOf[call.on]])
    <3>1. Len(iters[g]) <= Len(iters'[g]) /\ Len(iters[g]) \in Nat /\ Len(iters'[g]) \in Nat
      BY <1>1, <1>3 DEF DbNext, ItersOK
    <3> HIDE DEF g, n
    <3>2. n <= Len(iters'[g])
      BY <1>1, <2>0, <3>1
    <3> QED  BY <2>0, <2>1, <3>2 DEF g, n
  <2> QED  BY <2>1, <2>2, <2>3 DEF CallNext, CallOK
<1> QED  BY <1>3, <1>4, StepOK, SameRegistry, SameLock DEF CancelOrphan

-----------------------------------------------------------------------------
(* Side effects.                                                            *)

(* The round and child ref that a dispatch will write. *)
LEMMA DispatchedOK ==
  ASSUME IInv, DbNext, NEW t \in Threads, NEW iter \in Nat, iter <= Len(iters'[GroupOf[th[t].on]]),
         Dispatched(t, iter)
  PROVE  CallNext(t)
<1> DEFINE old == th[t].row
           row == [old EXCEPT !.round = NextRound(t), !.iter = iter,
                              !.redrives = IF th[t].job = "relaunch" THEN old.redrives ELSE 0]
           call == [th[t] EXCEPT !.pc = "write", !.row = row]
<1>1. th[t] \in Thread /\ old \in Row
  BY OwnRow
<1>2. NextRound(t) \in Nat /\ (IF th[t].job = "relaunch" THEN old.redrives ELSE 0) \in Nat
  BY <1>1 DEF NextRound, Row
<1>3. row \in Row /\ row.iter = iter
  <2> HIDE DEF old
  <2> QED  BY <1>1, <1>2 DEF Row
<1>4. th' = [th EXCEPT ![t] = call]
  BY DEF Dispatched
<1> HIDE DEF row
<1>5. call \in Thread /\ call.pc = "write" /\ call.row = row /\ call.on = th[t].on
  BY <1>1, <1>3 DEF Thread, PCs
<1> HIDE DEF call
<1> QED  BY <1>3, <1>4, <1>5 DEF CallNext, CallOK

LEMMA UnresolvedRefOK ==
  ASSUME IInv, NEW t \in Threads, UnresolvedRef(t), UNCHANGED <<rounds, sdlc, stray>>
  PROVE  IInv'
<1>1. th[t].on \in Loops /\ "failed" \in RowStates
  BY OwnRow DEF RowStates, LoopStates, Terminal
<1>2. Cas(th[t].on, "review_failed", "failed", "none") \/ UNCHANGED loop
  BY DEF UnresolvedRef
<1>3. LeftOK' /\ RoundsOK'
  BY FaultOK, SameRounds DEF UnresolvedRef, IInv, TypeOK
<1>4. DbNext
  BY <1>1, <1>2, <1>3, SwapDb DEF UnresolvedRef
<1> QED  BY <1>4, ReturnOK, StepOK, SameRegistry DEF DbNext, UnresolvedRef, registry

LEMMA DispatchReviewOK ==
  ASSUME IInv, NEW t \in Threads, DispatchReview(t), UNCHANGED <<rounds, sdlc, stray>>
  PROVE  IInv'
<1>1. DbNext
  BY SameDb, SameLeft DEF DispatchReview, db
<1>2. th[t].row \in Row /\ t[1] \in Instances /\ th[t].on \in Loops /\ GroupOf[th[t].on] \in Groups
  BY OwnRow
<1>3. NextRound(t) \in Nat
  BY <1>2 DEF NextRound, Row
<1>4. [NoReview EXCEPT !.round = NextRound(t)] \in ReviewRun
  BY <1>3, NoCoderOK DEF ReviewRun
<1>5. RegistryOK'
  BY <1>2, <1>4 DEF DispatchReview, IInv, TypeOK, RegistryOK
<1>6. CallNext(t)
  <2>1. Len(iters'[GroupOf[th[t].on]]) \in Nat
    BY <1>1, <1>2 DEF DbNext, ItersOK
  <2>2. 0 <= Len(iters'[GroupOf[th[t].on]])
    BY <2>1
  <2> QED  BY <1>1, <2>2, DispatchedOK DEF DispatchReview
<1> QED  BY <1>1, <1>5, <1>6, StepOK, SameLock DEF DispatchReview

LEMMA StartIterationOK ==
  ASSUME IInv, NEW t \in Threads, StartIteration(t), UNCHANGED <<rounds, sdlc, stray>>
  PROVE  IInv'
<1> DEFINE g == GroupOf[th[t].on]
           x == [status |-> "running", worker |-> {t[1]}, verdict |-> NoVerdict]
<1>1. UNCHANGED <<loop, rounds, registry>>
  BY DEF StartIteration, registry
<1>2. CASE Fault("gitError") /\ Goto(t, "touch") /\ UNCHANGED <<iters, lock>>
  <2>1. DbNext
    BY <1>1, <1>2, FaultOK, SameDb DEF db, IInv, TypeOK
  <2> QED  BY <1>1, <1>2, <2>1, GotoOK, StepOK, SameRegistry, SameLock DEF PCs, Unclaimed
<1>3. CASE Return(t) /\ UNCHANGED <<iters, left>>
  <2>1. DbNext
    BY <1>1, <1>3, SameLeft, SameDb DEF db
  <2> QED  BY <1>1, <1>3, <2>1, ReturnOK, StepOK, SameRegistry DEF DbNext
<1>4. CASE /\ iters' = [iters EXCEPT ![g] = Append(@, x)]
           /\ Dispatched(t, Len(iters[g]) + 1) /\ UNCHANGED <<lock, left>>
  <2>1. g \in Groups /\ t[1] \in Instances
    BY OwnRow
  <2>2. x \in Iteration
    BY <2>1, NoVerdictOK DEF Iteration
  <2>3. iters[g] \in Seq(Iteration) /\ \A h \in Groups : iters[h] \in Seq(Iteration)
    BY <2>1 DEF IInv, TypeOK, ItersOK
  <2> DEFINE new == Append(iters[g], x)
  <2>4. new \in Seq(Iteration) /\ Len(new) = Len(iters[g]) + 1 /\ Len(iters[g]) \in Nat
    <3> HIDE DEF x
    <3> QED  BY <2>2, <2>3
  <2>5. iters' = [iters EXCEPT ![g] = new]
    BY <1>4
  <2> HIDE DEF new, g
  <2>6. ItersOK' /\ iters'[g] = new
    BY <2>1, <2>4, <2>5 DEF IInv, TypeOK, ItersOK
  <2>7. \A h \in Groups : Len(iters[h]) <= Len(iters'[h])
    <3>1. ASSUME NEW h \in Groups
          PROVE  Len(iters[h]) <= Len(iters'[h])
      <4>1. Len(iters[h]) \in Nat
        BY <2>3
      <4>2. iters'[h] = IF h = g THEN new ELSE iters[h]
        BY <2>5 DEF IInv, TypeOK, ItersOK
      <4> QED  BY <2>4, <4>1, <4>2
    <3> QED  BY <3>1
  <2>8. DbNext
    BY <1>1, <1>4, <2>6, <2>7, GrowDb, SameRounds, SameLeft DEF IInv, TypeOK, LoopsOK
  <2>9. CallNext(t)
    <3>1. Len(iters[g]) + 1 \in Nat /\ Len(iters[g]) + 1 <= Len(iters'[g])
      BY <2>4, <2>6
    <3> QED  BY <1>4, <2>8, <3>1, DispatchedOK DEF g
  <2> QED  BY <1>1, <1>4, <2>8, <2>9, StepOK, SameRegistry, SameLock
<1> QED  BY <1>2, <1>3, <1>4 DEF StartIteration

LEMMA StartReviewRoundOK ==
  ASSUME IInv, NEW t \in Threads, StartReviewRound(t)
  PROVE  IInv'
  BY UnresolvedRefOK, DispatchReviewOK, StartIterationOK DEF StartReviewRound

LEMMA DropReviewOK ==
  ASSUME RegistryOK, NEW i \in Instances, NEW l \in Loops,
         DropReview(i, l) \/ UNCHANGED review, UNCHANGED <<sdlc, stray>>
  PROVE  RegistryOK'
<1>1. CASE UNCHANGED review
  BY <1>1 DEF RegistryOK
<1>2. CASE DropReview(i, l)
  <2>1. NoReview \in ReviewRun
    BY NoCoderOK
  <2>2. review' \in [Instances -> [Loops -> ReviewRun]]
    BY <1>2, <2>1 DEF RegistryOK, DropReview
  <2> QED  BY <2>2 DEF RegistryOK
<1> QED  BY <1>1, <1>2

LEMMA SettleReviewingOK ==
  ASSUME IInv, NEW t \in Threads, SettleReviewing(t)
  PROVE  IInv'
<1> DEFINE l == th[t].on  i == t[1]  r == th[t].row.round  v == review[i][l].verdict
<1>1. /\ l \in Loops /\ i \in Instances /\ r \in Nat /\ v \in VerdictOrNone
  BY OwnRow DEF IInv, TypeOK, RegistryOK, ReviewRun, Row
<1>2. Audit(l, r, v) \/ UNCHANGED <<rounds, left>>
  BY DEF SettleReviewing
<1>3. DropReview(i, l) \/ UNCHANGED review
  BY DEF SettleReviewing
<1>4. RegistryOK'
  <2>1. UNCHANGED <<sdlc, stray>>
    BY DEF SettleReviewing
  <2> HIDE DEF l, i, r, v
  <2> QED  BY <1>1, <1>3, <2>1, DropReviewOK DEF IInv, TypeOK
<1> HIDE DEF l, i, r, v
<1>5. RoundsOK' /\ LeftOK'
  BY <1>1, <1>2, AuditOK, SameRounds, SameLeft DEF IInv, TypeOK
<1>6. DbNext
  BY <1>5, QuietDb DEF SettleReviewing, IInv, TypeOK, LoopsOK
<1> QED  BY <1>4, <1>6, ReturnOK, StepOK DEF SettleReviewing, DbNext

LEMMA AuditDecisionOK ==
  ASSUME IInv, NEW t \in Threads, AuditDecision(t)
  PROVE  IInv'
<1>1. th[t].row.round \in Nat /\ th[t].on \in Loops /\ Resolve(th[t].on, th[t].row) \in VerdictOrNone
  BY OwnRow, ResolveOK DEF IInv, Row
<1>2. RoundsOK' /\ LeftOK'
  BY <1>1, AuditOK DEF IInv, TypeOK, AuditDecision
<1>3. DbNext
  BY <1>2, QuietDb DEF AuditDecision, IInv, TypeOK, LoopsOK
<1> QED  BY <1>3, ReturnOK, StepOK, SameRegistry DEF AuditDecision, DbNext

LEMMA StartDevHandoffOK ==
  ASSUME IInv, NEW t \in Threads, StartDevHandoff(t)
  PROVE  IInv'
<1>1. /\ th[t].row.round \in Nat /\ th[t].on \in Loops
      /\ Unconverged(Resolve(th[t].on, th[t].row)) \in VerdictOrNone
  BY OwnRow, ResolveOK, UnconvergedOK DEF IInv, Row
<1>2. RoundsOK' /\ LeftOK'
  BY <1>1, AuditOK DEF IInv, TypeOK, StartDevHandoff
<1>3. DbNext
  BY <1>2, QuietDb DEF StartDevHandoff, IInv, TypeOK, LoopsOK
<1>4. CallNext(t)
  BY <1>3, GotoOK DEF StartDevHandoff, PCs, Unclaimed
<1> QED  BY <1>3, <1>4, StepOK, SameRegistry, SameLock DEF StartDevHandoff

LEMMA DispatchSdlcOK ==
  ASSUME IInv, NEW t \in Threads, DispatchSdlc(t)
  PROVE  IInv'
<1> DEFINE run == [NoCoder EXCEPT !.round = th[t].row.round, !.via = th[t].op # "tick"]
<1>1. t[1] \in Instances /\ th[t].on \in Loops /\ run \in CoderRun
  BY OwnRow, NoCoderOK DEF Row, CoderRun
<1>2. SetCoder(t[1], th[t].on, run) /\ UNCHANGED review
  BY DEF DispatchSdlc, RegisterCoder
<1> HIDE DEF run
<1>3. RegistryOK'
  BY <1>1, <1>2, SetCoderOK DEF IInv, TypeOK
<1>4. DbNext
  BY SameDb, SameLeft DEF DispatchSdlc
<1>5. CallNext(t)
  BY <1>4, GotoOK DEF DispatchSdlc, PCs, Unclaimed
<1> QED  BY <1>3, <1>4, <1>5, StepOK, SameLock DEF DispatchSdlc

LEMMA WriteRoundOK ==
  ASSUME IInv, NEW t \in Threads, WriteRound(t)
  PROVE  IInv'
<1> DEFINE l == th[t].on  row == th[t].row
           new == [loop[l] EXCEPT !.round = row.round, !.iter = row.iter,
                                  !.redrives = row.redrives, !.old = FALSE]
<1>1. l \in Loops /\ row \in Row /\ loop[l] \in Row /\ row.iter <= Len(iters[GroupOf[l]])
  BY OwnRow DEF IInv, TypeOK, LoopsOK
<1>2. new \in Row /\ new.iter = row.iter
  <2> HIDE DEF row
  <2> QED  BY <1>1 DEF Row
<1>3. loop' = [loop EXCEPT ![l] = new]
  BY DEF WriteRound
<1> HIDE DEF new, l, row
<1>4. LoopsOK' /\ loop'[l] = new /\ \A m \in Loops \ {l} : loop'[m] = loop[m]
  BY <1>1, <1>2, <1>3, WriteOK DEF IInv, TypeOK
<1>5. \A m \in Loops : loop'[m].iter <= Len(iters[GroupOf[m]])
  BY <1>1, <1>2, <1>4 DEF IInv, TypeOK, RefsOK
<1>6. \A g \in Groups : Len(iters[g]) \in Nat
  BY DEF IInv, TypeOK, ItersOK
<1>7. DbNext
  BY <1>4, <1>5, <1>6, SameRounds, SameLeft DEF DbNext, WriteRound, IInv, TypeOK, ItersOK
<1> QED  BY <1>7, ReturnOK, StepOK, SameRegistry DEF WriteRound, DbNext

(* Only a row's freshness changes. *)
LEMMA FreshOK ==
  ASSUME IInv, NEW l \in Loops, NEW old \in BOOLEAN, loop' = [loop EXCEPT ![l].old = old],
         UNCHANGED <<rounds, iters, left>>
  PROVE  DbNext
<1> DEFINE new == [loop[l] EXCEPT !.old = old]
<1>1. loop[l] \in Row
  BY DEF IInv, TypeOK, LoopsOK
<1>2. new \in Row /\ new.iter = loop[l].iter
  BY <1>1 DEF Row
<1>3. loop' = [loop EXCEPT ![l] = new]
  OBVIOUS
<1> HIDE DEF new
<1>4. LoopsOK' /\ \A m \in Loops : loop'[m].iter \in {loop[m].iter, 0}
  <2>1. LoopsOK
    BY DEF IInv, TypeOK
  <2>2. LoopsOK' /\ loop'[l] = new /\ \A m \in Loops \ {l} : loop'[m] = loop[m]
    BY <1>2, <1>3, <2>1, WriteOK
  <2> QED  BY <1>2, <2>2
<1> QED  BY <1>4, QuietDb, SameRounds, SameLeft

LEMMA TouchOK ==
  ASSUME IInv, NEW t \in Threads, Touch(t)
  PROVE  IInv'
<1>1. DbNext
  BY OwnRow, FreshOK DEF Touch
<1> QED  BY <1>1, ReturnOK, StepOK, SameRegistry DEF Touch, DbNext

-----------------------------------------------------------------------------
(* Commands.                                                                *)

(* A request that reads a row and writes nothing but the number of commands *)
(* still to come.                                                           *)
LEMMA RequestOK ==
  ASSUME IInv, NEW t \in Threads, LeftOK', CallNext(t), UNCHANGED <<db, registry, lock>>
  PROVE  IInv'
<1>1. DbNext /\ LockOK'
  BY SameDb, SameLock
<1>2. UNCHANGED registry
  OBVIOUS
<1> QED  BY <1>1, <1>2, StepOK, SameRegistry

LEMMA CreateReadOK ==
  ASSUME IInv, NEW t \in Threads, NEW l \in Loops, CreateRead(t, l)
  PROVE  IInv'
<1>1. LeftOK' /\ DbNext
  BY CommandOK, SameDb DEF CreateRead, IInv, TypeOK
<1>2. UNCHANGED loop /\ Call(t, "create", l, "create")
  BY DEF CreateRead, db
<1>3. CallNext(t)
  BY <1>1, <1>2, CallFromOK DEF PCs, Ops
<1> QED  BY <1>1, <1>3, RequestOK DEF CreateRead

LEMMA CreateInsertOK ==
  ASSUME IInv, NEW t \in Threads, CreateInsert(t)
  PROVE  IInv'
<1> DEFINE l == th[t].on  new == [loop[l] EXCEPT !.state = "pending"]
<1>1. l \in Loops /\ loop[l] \in Row
  BY OwnRow DEF IInv, TypeOK, LoopsOK
<1>2. new \in Row /\ new.iter = loop[l].iter
  BY <1>1 DEF Row, RowStates, LoopStates, Active
<1>3. loop' = [loop EXCEPT ![l] = new] \/ UNCHANGED loop
  BY DEF CreateInsert
<1> HIDE DEF new, l
<1>4. LoopsOK' /\ \A m \in Loops : loop'[m].iter \in {loop[m].iter, 0}
  BY <1>1, <1>2, <1>3, WriteOK DEF IInv, TypeOK, LoopsOK
<1>5. DbNext
  BY <1>4, QuietDb, SameRounds, SameLeft DEF CreateInsert
<1> QED  BY <1>5, ReturnOK, StepOK, SameRegistry DEF CreateInsert, DbNext

LEMMA StartOK ==
  ASSUME IInv, NEW t \in Threads, NEW l \in Loops, Start(t, l)
  PROVE  IInv'
  BY CommandOK, TickOK DEF Start, IInv, TypeOK

LEMMA DevelopReadOK ==
  ASSUME IInv, NEW t \in Threads, NEW l \in Loops, DevelopRead(t, l)
  PROVE  IInv'
<1>1. LeftOK' /\ DbNext
  BY CommandOK, SameDb DEF DevelopRead, IInv, TypeOK
<1>2. UNCHANGED loop /\ Call(t, "develop", l, "develop") /\ loop[l].state \in DevelopPromotable(l \in Gated)
  BY DEF DevelopRead, DevelopAdmitted, db
<1>3. CallNext(t)
  BY <1>1, <1>2, CallFromOK DEF PCs, Ops
<1> QED  BY <1>1, <1>3, RequestOK DEF DevelopRead

LEMMA RetryReadOK ==
  ASSUME IInv, NEW t \in Threads, NEW l \in Loops, RetryRead(t, l)
  PROVE  IInv'
<1>1. LeftOK' /\ DbNext
  BY CommandOK, SameDb DEF RetryRead, IInv, TypeOK
<1>2. UNCHANGED loop /\ Call(t, "retry", l, "retry") /\ loop[l].state = "throttled"
  BY DEF RetryRead, db
<1>3. CallNext(t)
  BY <1>1, <1>2, CallFromOK DEF PCs, Ops
<1> QED  BY <1>1, <1>3, RequestOK DEF RetryRead

LEMMA ReReviewReadOK ==
  ASSUME IInv, NEW t \in Threads, NEW l \in Loops, ReReviewRead(t, l)
  PROVE  IInv'
<1>1. LeftOK' /\ DbNext
  BY CommandOK, SameDb DEF ReReviewRead, IInv, TypeOK
<1>2. UNCHANGED loop /\ Call(t, "rereview", l, "rereview") /\ loop[l].state = "deciding"
  BY DEF ReReviewRead, db
<1>3. CallNext(t)
  BY <1>1, <1>2, CallFromOK DEF PCs, Ops
<1> QED  BY <1>1, <1>3, RequestOK DEF ReReviewRead

LEMMA MergeReadOK ==
  ASSUME IInv, NEW t \in Threads, NEW l \in Loops, MergeRead(t, l)
  PROVE  IInv'
<1>1. LeftOK' /\ DbNext
  BY CommandOK, SameDb DEF MergeRead, IInv, TypeOK
<1>2. UNCHANGED loop /\ Call(t, "merge", l, "merge")
  BY DEF MergeRead, db
<1>3. CallNext(t)
  BY <1>1, <1>2, CallFromOK DEF PCs, Ops
<1> QED  BY <1>1, <1>3, RequestOK DEF MergeRead

LEMMA AbortReadOK ==
  ASSUME IInv, NEW t \in Threads, NEW l \in Loops, AbortRead(t, l)
  PROVE  IInv'
<1>1. PICK op \in {"cancel", "finish"} : Command(op) /\ Call(t, op, l, "abort")
  BY DEF AbortRead
<1>2. LeftOK' /\ DbNext
  BY <1>1, CommandOK, SameDb DEF AbortRead, IInv, TypeOK
<1>3. UNCHANGED loop
  BY DEF AbortRead, db
<1>4. CallNext(t)
  BY <1>1, <1>2, <1>3, CallFromOK DEF PCs, Ops
<1> QED  BY <1>2, <1>4, RequestOK DEF AbortRead

(* The shape of a claim that takes the lock: nothing, or a swap of the      *)
(* thread's row, its lock entry and a call that holds it.                   *)
ClaimsOrReturns(t, on, to, pc, job, slot) ==
  \/ Return(t) /\ UNCHANGED loop
  \/ /\ Cas(th[t].on, on, to, "none")
     /\ lock' = [lock EXCEPT ![t[1]] = @ \union {th[t].on}]
     /\ th' = [th EXCEPT ![t] = [th[t] EXCEPT !.pc = pc, !.job = job, !.row = loop'[th[t].on],
                                             !.held = TRUE, !.slot = slot]]

LEMMA ClaimOK ==
  ASSUME IInv, NEW t \in Threads, NEW on, NEW to \in RowStates, NEW pc \in PCs \ Unclaimed,
         NEW job \in Jobs, NEW slot \in BOOLEAN, UNCHANGED <<rounds, iters, registry, left>>,
         ClaimsOrReturns(t, on, to, pc, job, slot)
  PROVE  IInv'
<1>1. th[t].on \in Loops /\ t[1] \in Instances /\ th[t] \in Thread
  BY OwnRow
<1>2. DbNext
  BY <1>1, SwapDb, SameRounds, SameLeft DEF ClaimsOrReturns
<1>3. CASE Return(t) /\ UNCHANGED loop
  BY <1>2, <1>3, ReturnOK, StepOK, SameRegistry DEF DbNext
<1>4. CASE /\ lock' = [lock EXCEPT ![t[1]] = @ \union {th[t].on}]
           /\ th' = [th EXCEPT ![t] = [th[t] EXCEPT !.pc = pc, !.job = job, !.row = loop'[th[t].on],
                                                   !.held = TRUE, !.slot = slot]]
  <2> DEFINE call == [th[t] EXCEPT !.pc = pc, !.job = job, !.row = loop'[th[t].on],
                                   !.held = TRUE, !.slot = slot]
  <2>1. loop'[th[t].on] \in Row /\ loop'[th[t].on].iter <= Len(iters'[GroupOf[th[t].on]])
    BY <1>1, <1>2 DEF DbNext, LoopsOK
  <2>2. call \in Thread /\ call.pc = pc /\ call.row = loop'[th[t].on] /\ call.on = th[t].on
    BY <1>1, <2>1 DEF Thread
  <2>3. th' = [th EXCEPT ![t] = call]
    BY <1>4
  <2> HIDE DEF call
  <2>4. CallNext(t)
    BY <2>1, <2>2, <2>3 DEF CallNext, CallOK, Unclaimed
  <2>5. LockOK'
    BY <1>1, <1>4, SameLock DEF LockOK
  <2> QED  BY <1>2, <2>4, <2>5, StepOK, SameRegistry
<1> QED  BY <1>3, <1>4 DEF ClaimsOrReturns

LEMMA ClaimDevelopOK ==
  ASSUME IInv, NEW t \in Threads, NEW on, ClaimDevelop(t, on), UNCHANGED <<rounds, iters, registry, left>>
  PROVE  IInv'
<1>1. ClaimsOrReturns(t, on, "developing", "effect", "handoff", TRUE)
  BY DEF ClaimDevelop, ClaimsOrReturns
<1>2. "developing" \in RowStates /\ "effect" \in PCs \ Unclaimed /\ "handoff" \in Jobs
  BY DEF RowStates, LoopStates, Active, PCs, Unclaimed, Jobs
<1> QED  BY <1>1, <1>2, ClaimOK

LEMMA DevelopOK ==
  ASSUME IInv, NEW t \in Threads, Develop(t)
  PROVE  IInv'
  BY ClaimDevelopOK DEF Develop

LEMMA RetryDevelopOK ==
  ASSUME IInv, NEW t \in Threads, RetryDevelop(t)
  PROVE  IInv'
<1>1. CASE Return(t) /\ UNCHANGED loop
  <2>1. DbNext
    BY <1>1, SameDb, SameLeft DEF RetryDevelop, db
  <2> QED  BY <1>1, <2>1, ReturnOK, StepOK, SameRegistry DEF RetryDevelop, DbNext
<1>2. CASE ClaimDevelop(t, "retry_develop")
  BY <1>2, ClaimDevelopOK DEF RetryDevelop
<1> QED  BY <1>1, <1>2 DEF RetryDevelop

LEMMA ResumeReadOK ==
  ASSUME IInv, NEW t \in Threads, ResumeRead(t)
  PROVE  IInv'
<1> DEFINE l == th[t].on  call == [th[t] EXCEPT !.pc = "retry", !.op = "retry", !.row = loop[l]]
<1>1. DbNext
  BY SameDb, SameLeft DEF ResumeRead
<1>2. \/ loop[l].state = "throttled" /\ th' = [th EXCEPT ![t] = call] /\ UNCHANGED lock
      \/ Return(t)
  BY DEF ResumeRead
<1>3. l \in Loops /\ th[t] \in Thread /\ loop[l] \in Row /\ loop[l].iter <= Len(iters'[GroupOf[l]])
  BY <1>1, OwnRow DEF IInv, TypeOK, LoopsOK, DbNext, ResumeRead, db
<1>4. call \in Thread /\ call.pc = "retry" /\ call.op = "retry" /\ call.row = loop[l] /\ call.on = l
  BY <1>3 DEF Thread, PCs, Ops
<1>5. CASE loop[l].state = "throttled" /\ th' = [th EXCEPT ![t] = call] /\ UNCHANGED lock
  <2> HIDE DEF call
  <2>1. CallNext(t)
    BY <1>3, <1>4, <1>5 DEF CallNext, CallOK
  <2> QED  BY <1>1, <1>5, <2>1, StepOK, SameRegistry, SameLock DEF ResumeRead
<1>6. CASE Return(t)
  BY <1>1, <1>6, ReturnOK, StepOK, SameRegistry DEF ResumeRead, DbNext
<1> QED  BY <1>2, <1>5, <1>6

LEMMA ClaimReviewOK ==
  ASSUME IInv, NEW t \in Threads, NEW on, NEW job \in Jobs, ClaimReview(t, on, job),
         UNCHANGED <<rounds, iters, registry, left>>
  PROVE  IInv'
<1>2. /\ "building_context" \in RowStates /\ "reenter" \in PCs \ Unclaimed
      /\ th[t] \in Thread /\ th[t].slot \in BOOLEAN
  BY OwnRow DEF RowStates, LoopStates, Active, PCs, Unclaimed, Thread
<1>3. [th[t] EXCEPT !.pc = "reenter", !.job = job, !.row = loop'[th[t].on], !.held = TRUE]
      = [th[t] EXCEPT !.pc = "reenter", !.job = job, !.row = loop'[th[t].on], !.held = TRUE,
                      !.slot = th[t].slot]
  BY <1>2 DEF Thread
<1>4. ClaimsOrReturns(t, on, "building_context", "reenter", job, th[t].slot)
  BY <1>3 DEF ClaimReview, ClaimsOrReturns
<1> QED  BY <1>2, <1>4, ClaimOK

LEMMA RetryReviewOK ==
  ASSUME IInv, NEW t \in Threads, RetryReview(t)
  PROVE  IInv'
  BY ClaimReviewOK DEF RetryReview, Jobs

LEMMA ReReviewOK ==
  ASSUME IInv, NEW t \in Threads, ReReview(t)
  PROVE  IInv'
  BY ClaimReviewOK DEF ReReview, Jobs

LEMMA ReenterOK ==
  ASSUME IInv, NEW t \in Threads, Reenter(t)
  PROVE  IInv'
<1>1. th[t].on \in Loops /\ th[t] \in Thread /\ th[t].job \in Jobs /\ "reviewing" \in RowStates
  BY OwnRow DEF Thread, RowStates, LoopStates, Active
<1>2. Cas(th[t].on, "context_built", "reviewing", "none") \/ UNCHANGED loop
  BY DEF Reenter
<1>3. DbNext
  BY <1>1, <1>2, SwapDb, SameRounds, SameLeft DEF Reenter
<1>4. (Run(t, "effect", th[t].job) /\ UNCHANGED lock) \/ Return(t)
  BY DEF Reenter
<1>5. CallNext(t) /\ LockOK'
  BY <1>1, <1>3, <1>4, RunOK, ReturnOK, SameLock DEF DbNext, PCs, Unclaimed
<1> QED  BY <1>3, <1>5, StepOK, SameRegistry DEF Reenter

LEMMA OnMergeApprovedOK ==
  ASSUME IInv, NEW t \in Threads, OnMergeApproved(t)
  PROVE  IInv'
<1>1. \/ \E to \in Reduce("awaiting_merge", "merge_approved", Vbm, FALSE) :
              Cas(th[t].on, "merge_approved", to, "none")
      \/ UNCHANGED loop
  BY DEF OnMergeApproved
<1>2. \A to \in Reduce("awaiting_merge", "merge_approved", Vbm, FALSE) : to \in RowStates
  BY ReduceEdge DEF RowStates
<1>3. th[t].on \in Loops
  BY OwnRow
<1>4. DbNext
  <2>1. UNCHANGED <<iters, rounds, left>>
    BY DEF OnMergeApproved
  <2>2. CASE UNCHANGED loop
    BY <2>1, <2>2, SameDb, SameLeft DEF db
  <2>3. ASSUME NEW to \in Reduce("awaiting_merge", "merge_approved", Vbm, FALSE),
               Cas(th[t].on, "merge_approved", to, "none")
        PROVE  DbNext
    BY <1>2, <1>3, <2>1, <2>3, SwapDb, SameRounds, SameLeft
  <2> QED  BY <1>1, <2>2, <2>3
<1> QED  BY <1>4, ReturnOK, StepOK, SameRegistry DEF OnMergeApproved, DbNext

LEMMA AbortGroupOK ==
  ASSUME IInv, NEW t \in Threads, AbortGroup(t)
  PROVE  IInv'
<1> DEFINE g == GroupOf[th[t].on]  n == Len(iters[g])  x == [iters[g][n] EXCEPT !.status = "cancelled"]
<1>1. g \in Groups /\ iters[g] \in Seq(Iteration) /\ n \in Nat
  BY OwnRow DEF IInv, TypeOK, ItersOK
<1>2. DbNext
  <2>1. CASE n = 0
    BY <2>1, SameDb, SameLeft DEF AbortGroup, db
  <2>2. CASE n # 0
    <3>1. iters[g][n] \in Iteration
      BY <1>1, <2>2
    <3>2. x \in Iteration
      BY <3>1 DEF Iteration
    <3>3. iters' = [iters EXCEPT ![g][n] = x]
      BY <2>2 DEF AbortGroup
    <3> HIDE DEF x, g, n
    <3>4. RoundsOK' /\ LeftOK' /\ UNCHANGED loop
      BY SameRounds, SameLeft DEF AbortGroup
    <3> QED  BY <1>1, <3>2, <3>3, <3>4, StatusDb
  <2> QED  BY <2>1, <2>2
<1>3. CallNext(t)
  <2> DEFINE call == [th[t] EXCEPT !.pc = "aborted"]
  <2>1. th[t] \in Thread /\ th[t].op \in {"cancel", "finish"} /\ GroupOf[th[t].on] \in Groups
        /\ th[t].row.iter \in Nat /\ th[t].row.iter <= Len(iters[GroupOf[th[t].on]])
    BY OwnRow DEF CallOK, AbortGroup, At, Row
  <2>2. call \in Thread /\ call.pc = "aborted" /\ call.row = th[t].row /\ call.on = th[t].on /\ call.op = th[t].op
    BY <2>1 DEF Thread, PCs
  <2>3. th' = [th EXCEPT ![t] = call]
    BY DEF AbortGroup, Goto
  <2> HIDE DEF call
  <2>4. CallOK(call)
    BY <2>1, <2>2 DEF CallOK
  <2>5. call.row.iter <= Len(iters'[GroupOf[call.on]])
    <3>1. Len(iters[g]) <= Len(iters'[g]) /\ Len(iters'[g]) \in Nat
      BY <1>1, <1>2 DEF DbNext, ItersOK
    <3> QED  BY <1>1, <2>1, <2>2, <3>1
  <2> QED  BY <2>2, <2>3, <2>4, <2>5 DEF CallNext
<1> QED  BY <1>2, <1>3, StepOK, SameRegistry, SameLock DEF AbortGroup

LEMMA AbortCommitOK ==
  ASSUME IInv, NEW t \in Threads, AbortCommit(t)
  PROVE  IInv'
<1> DEFINE l == th[t].on  from == th[t].row.state  op == th[t].op
<1>1. (\E to \in Reduce(from, op, Vbm, FALSE) : Cas(l, op, to, "none")) \/ UNCHANGED loop
  BY DEF AbortCommit
<1>2. l \in Loops /\ t[1] \in Instances /\ op \in {"cancel", "finish"}
  BY OwnRow DEF AbortCommit, At, CallOK
<1>3. UNCHANGED <<rounds, iters, review, left>> /\ DropCoder(t[1], l) /\ Return(t)
  BY DEF AbortCommit
<1> HIDE DEF l, from, op
<1>4. \A to \in Reduce(from, op, Vbm, FALSE) : to \in RowStates
  BY <1>2, ReduceEdge DEF RowStates
<1>5. DbNext
  <2>1. CASE UNCHANGED loop
    BY <1>3, <2>1, SameDb, SameLeft DEF db
  <2>2. ASSUME NEW to \in Reduce(from, op, Vbm, FALSE), Cas(l, op, to, "none")
        PROVE  DbNext
    BY <1>2, <1>3, <1>4, <2>2, SwapDb, SameRounds, SameLeft
  <2> QED  BY <1>1, <2>1, <2>2
<1> QED  BY <1>2, <1>3, <1>5, DropCoderOK, ReturnOK, StepOK DEF DbNext

-----------------------------------------------------------------------------
(* The background runs, time and crashes.                                   *)

(* A step of no thread that leaves the database alone. *)
LEMMA BackgroundOK ==
  ASSUME IInv, UNCHANGED <<db, lock, th>>, RegistryOK', LeftOK'
  PROVE  IInv'
<1>1. (Threads # {}) => IInv'
  <2> SUFFICES ASSUME NEW t \in Threads PROVE IInv'
    OBVIOUS
  <2> QED  BY SameDb, SameLock, StepOK
<1>2. (Threads = {}) => IInv'
  <2>1. ThreadsOK' /\ CallsOK' /\ (Threads = {} => RefsOK')
    BY DEF IInv, TypeOK, ThreadsOK, CallsOK, RefsOK, db
  <2> QED  BY <2>1, SameDb DEF DbNext, IInv, TypeOK
<1> QED  BY <1>1, <1>2

LEMMA CoderSettleOK ==
  ASSUME IInv, NEW i \in Instances, NEW l \in Loops, CoderSettle(i, l)
  PROVE  IInv'
<1>1. PICK res \in CoderResults :
        /\ IF res = "clean" THEN UNCHANGED left ELSE Fault(res)
        /\ sdlc' = [sdlc EXCEPT ![i][l].done = TRUE, ![i][l].res = res]
  BY DEF CoderSettle
<1> DEFINE run == [sdlc[i][l] EXCEPT !.done = TRUE, !.res = res]
<1>2. sdlc[i][l] \in CoderRun /\ sdlc \in [Instances -> [Loops -> CoderRun]]
  BY DEF IInv, TypeOK, RegistryOK
<1>3. run \in CoderRun
  BY <1>2 DEF CoderRun
<1>4. sdlc' = [sdlc EXCEPT ![i][l] = run]
  BY <1>1, <1>2
<1> HIDE DEF run
<1>5. RegistryOK'
  BY <1>3, <1>4 DEF CoderSettle, IInv, TypeOK, RegistryOK
<1>6. LeftOK'
  BY <1>1, FaultOK, SameLeft DEF IInv, TypeOK
<1> QED  BY <1>5, <1>6, BackgroundOK DEF CoderSettle

LEMMA StraySettleOK ==
  ASSUME IInv, NEW i \in Instances, NEW l \in Loops, StraySettle(i, l)
  PROVE  IInv'
<1>1. PICK command \in BOOLEAN :
        /\ stray[i][l][command] > 0
        /\ stray' = [stray EXCEPT ![i][l][command] = @ - 1]
  BY DEF StraySettle
<1>2. stray \in [Instances -> [Loops -> [BOOLEAN -> Nat]]]
  BY DEF IInv, TypeOK, RegistryOK
<1>3. stray' \in [Instances -> [Loops -> [BOOLEAN -> Nat]]]
  <2> DEFINE x == stray[i][l][command] - 1
  <2>1. x \in Nat
    BY <1>1, <1>2
  <2>2. stray' = [stray EXCEPT ![i][l][command] = x]
    BY <1>1
  <2> HIDE DEF x
  <2> QED  BY <1>2, <2>1, <2>2
<1>4. RegistryOK' /\ LeftOK'
  BY <1>3, SameLeft DEF StraySettle, IInv, TypeOK, RegistryOK
<1> QED  BY <1>4, BackgroundOK DEF StraySettle

LEMMA ReviewSettleOK ==
  ASSUME IInv, NEW i \in Instances, NEW l \in Loops, ReviewSettle(i, l)
  PROVE  IInv'
<1>1. review[i][l] \in ReviewRun
  BY DEF IInv, TypeOK, RegistryOK
<1>2. ASSUME NEW run \in ReviewRun, review' = [review EXCEPT ![i][l] = run], LeftOK'
      PROVE  IInv'
  <2>1. RegistryOK'
    BY <1>2 DEF ReviewSettle, IInv, TypeOK, RegistryOK
  <2> QED  BY <1>2, <2>1, BackgroundOK DEF ReviewSettle
<1>3. ASSUME UNCHANGED left, NEW v \in Verdicts,
             review' = [review EXCEPT ![i][l].done = TRUE, ![i][l].res = "verdict", ![i][l].verdict = v]
      PROVE  IInv'
  <2> DEFINE run == [review[i][l] EXCEPT !.done = TRUE, !.res = "verdict", !.verdict = v]
  <2>1. v \in VerdictOrNone
    BY LoopAssumption DEF VerdictOrNone
  <2>2. run \in ReviewRun
    BY <1>1, <2>1 DEF ReviewRun
  <2>3. review' = [review EXCEPT ![i][l] = run]
    BY <1>3 DEF IInv, TypeOK, RegistryOK
  <2> HIDE DEF run
  <2> QED  BY <1>2, <1>3, <2>2, <2>3, SameLeft
<1>4. ASSUME NEW res \in {"error", "limited"}, Fault(res),
             review' = [review EXCEPT ![i][l].done = TRUE, ![i][l].res = res]
      PROVE  IInv'
  <2> DEFINE run == [review[i][l] EXCEPT !.done = TRUE, !.res = res]
  <2>1. run \in ReviewRun
    BY <1>1, <1>4 DEF ReviewRun
  <2>2. review' = [review EXCEPT ![i][l] = run]
    BY <1>4 DEF IInv, TypeOK, RegistryOK
  <2> HIDE DEF run
  <2> QED  BY <1>2, <1>4, <2>1, <2>2, FaultOK DEF IInv, TypeOK
<1> QED  BY <1>3, <1>4 DEF ReviewSettle

(* A step of no thread that changes the database. *)
LEMMA StorageOK ==
  ASSUME IInv, DbNext, UNCHANGED <<registry, lock, th>>
  PROVE  IInv'
<1>1. (Threads # {}) => IInv'
  <2> SUFFICES ASSUME NEW t \in Threads PROVE IInv'
    OBVIOUS
  <2>1. UNCHANGED registry /\ UNCHANGED lock /\ UNCHANGED th
    OBVIOUS
  <2> QED  BY <2>1, SameRegistry, SameLock, StepOK
<1>2. (Threads = {}) => IInv'
  <2>1. UNCHANGED registry
    OBVIOUS
  <2>2. ThreadsOK' /\ CallsOK' /\ (Threads = {} => RefsOK')
    BY DEF IInv, TypeOK, ThreadsOK, CallsOK, RefsOK, DbNext
  <2> QED  BY <2>1, <2>2, SameRegistry DEF DbNext, IInv, TypeOK
<1> QED  BY <1>1, <1>2

LEMMA IterationSettleOK ==
  ASSUME IInv, NEW g \in Groups, NEW n \in 1..Len(iters[g]), IterationSettle(g, n)
  PROVE  IInv'
<1>1. iters[g][n] \in Iteration /\ \A h \in Groups : iters[h] \in Seq(Iteration)
  <2>1. iters[g] \in Seq(Iteration) /\ \A h \in Groups : iters[h] \in Seq(Iteration)
    BY DEF IInv, TypeOK, ItersOK
  <2> QED  BY <2>1
<1>2. ASSUME NEW x \in Iteration, iters' = [iters EXCEPT ![g][n] = x], LeftOK'
      PROVE  IInv'
  <2>1. DbNext
    BY <1>2, StatusDb, SameRounds DEF IterationSettle
  <2> QED  BY <2>1, StorageOK DEF IterationSettle
<1>3. ASSUME UNCHANGED left, NEW v \in Verdicts,
             iters' = [iters EXCEPT ![g][n] = [status |-> "completed", worker |-> {}, verdict |-> v]]
      PROVE  IInv'
  <2>1. v \in VerdictOrNone
    BY LoopAssumption DEF VerdictOrNone
  <2>2. [status |-> "completed", worker |-> {}, verdict |-> v] \in Iteration
    BY <2>1 DEF Iteration
  <2> QED  BY <1>2, <1>3, <2>2, SameLeft
<1>4. ASSUME Fault("error"), iters' = [iters EXCEPT ![g][n].status = "failed", ![g][n].worker = {}]
      PROVE  IInv'
  <2> DEFINE x == [iters[g][n] EXCEPT !.status = "failed", !.worker = {}]
  <2>1. x \in Iteration
    BY <1>1 DEF Iteration
  <2>2. iters' = [iters EXCEPT ![g][n] = x]
    BY <1>4, <1>1 DEF IInv, TypeOK, ItersOK
  <2> HIDE DEF x
  <2> QED  BY <1>2, <1>4, <2>1, <2>2, FaultOK DEF IInv, TypeOK
<1> QED  BY <1>3, <1>4 DEF IterationSettle

LEMMA AgeOK ==
  ASSUME IInv, NEW l \in Loops, Age(l)
  PROVE  IInv'
<1>1. DbNext
  BY FreshOK DEF Age
<1> QED  BY <1>1, StorageOK DEF Age

LEMMA CrashOK ==
  ASSUME IInv, NEW i \in Instances, Crash(i)
  PROVE  IInv'
<1>1. LeftOK' /\ LoopsOK' /\ RoundsOK'
  BY FaultOK DEF Crash, IInv, TypeOK, LoopsOK, RoundsOK
<1>2. RegistryOK'
  <2>1. sdlc' \in [Instances -> [Loops -> CoderRun]]
    BY NoCoderOK DEF Crash, IInv, TypeOK, RegistryOK
  <2>2. review' \in [Instances -> [Loops -> ReviewRun]]
    BY NoCoderOK DEF Crash, IInv, TypeOK, RegistryOK
  <2>3. stray' \in [Instances -> [Loops -> [BOOLEAN -> Nat]]]
    BY NoCoderOK DEF Crash, IInv, TypeOK, RegistryOK
  <2> QED  BY <2>1, <2>2, <2>3 DEF RegistryOK
<1>3. ASSUME NEW g \in Groups
      PROVE  iters'[g] \in Seq(Iteration) /\ Len(iters'[g]) = Len(iters[g])
  <2> DEFINE s == [n \in DOMAIN iters[g] |-> [iters[g][n] EXCEPT !.worker = @ \ {i}]]
  <2>1. iters[g] \in Seq(Iteration) /\ Len(iters[g]) \in Nat /\ DOMAIN iters[g] = 1..Len(iters[g])
    BY DEF IInv, TypeOK, ItersOK
  <2>2. ASSUME NEW n \in 1..Len(iters[g])
        PROVE  [iters[g][n] EXCEPT !.worker = @ \ {i}] \in Iteration
    <3>1. iters[g][n] \in Iteration
      BY <2>1
    <3> QED  BY <3>1 DEF Iteration
  <2>3. s \in [1..Len(iters[g]) -> Iteration]
    BY <2>1, <2>2
  <2>4. iters'[g] = s
    BY DEF Crash
  <2> HIDE DEF s
  <2>5. s \in Seq(Iteration) /\ Len(s) = Len(iters[g])
    BY <2>1, <2>3
  <2> QED  BY <2>4, <2>5
<1>4. ItersOK'
  BY <1>3 DEF ItersOK, Crash
<1>5. ThreadsOK' /\ CallsOK'
  BY IdleOK DEF Crash, ThreadsOK, CallsOK, IInv, TypeOK
<1>6. RefsOK'
  <2>1. ASSUME NEW l \in Loops
        PROVE  loop'[l].iter <= Len(iters'[GroupOf[l]])
    BY <1>3 DEF Crash, IInv, TypeOK, RefsOK, Groups
  <2>2. ASSUME NEW t \in Threads
        PROVE  th'[t].row.iter <= Len(iters'[GroupOf[th'[t].on]])
    <3>1. th[t].on \in Loops /\ Idle.on \in Loops
      BY OwnRow, IdleOK DEF Thread
    <3>2. GroupOf[th[t].on] \in Groups /\ GroupOf[Idle.on] \in Groups
      BY <3>1 DEF Groups
    <3>3. Len(iters'[GroupOf[th[t].on]]) = Len(iters[GroupOf[th[t].on]])
          /\ Len(iters'[GroupOf[Idle.on]]) \in Nat
      BY <1>3, <3>2
    <3>4. th'[t] = IF t[1] = i THEN Idle ELSE th[t]
      BY DEF Crash
    <3>5. th[t].row.iter <= Len(iters[GroupOf[th[t].on]])
      BY OwnRow
    <3> QED  BY <3>3, <3>4, <3>5, IdleOK
  <2> QED  BY <2>1, <2>2 DEF RefsOK
<1> QED  BY <1>1, <1>2, <1>4, <1>5, <1>6 DEF IInv, TypeOK

-----------------------------------------------------------------------------

LEMMA InitOK == Init => IInv
<1> SUFFICES ASSUME Init PROVE IInv
  OBVIOUS
<1>1. LoopsOK
  <2>1. NoRow \in Row /\ [NoRow EXCEPT !.state = "pending"] \in Row
    BY DEF NoRow, Row, RowStates, LoopStates, Active
  <2> QED  BY <2>1 DEF Init, LoopsOK
<1>2. ItersOK /\ \A g \in Groups : Len(iters[g]) = 0
  <2>1. << >> \in Seq(Iteration) /\ Len(<< >>) = 0
    OBVIOUS
  <2> QED  BY <2>1 DEF Init, ItersOK
<1>3. RegistryOK
  BY NoCoderOK DEF Init, RegistryOK
<1>4. ThreadsOK /\ CallsOK
  BY IdleOK DEF Init, ThreadsOK, CallsOK
<1>5. RefsOK
  <2>1. ASSUME NEW l \in Loops PROVE loop[l].iter = 0 /\ GroupOf[l] \in Groups
    BY DEF Init, NoRow, Groups
  <2>2. ASSUME NEW t \in Threads PROVE th[t].row.iter = 0 /\ GroupOf[th[t].on] \in Groups
    BY IdleOK DEF Init, Thread, Groups
  <2> QED  BY <1>2, <2>1, <2>2 DEF RefsOK
<1> QED  BY <1>1, <1>2, <1>3, <1>4, <1>5, LoopAssumption DEF IInv, TypeOK, RoundsOK, LeftOK, Init

LEMMA ContinueOK ==
  ASSUME IInv, NEW t \in Threads, Continue(t)
  PROVE  IInv'
<1>1. CASE Redrive(t) \/ AutoRetry(t) \/ TickAdvance(t) \/ TickDecide(t) \/ ClaimStalled(t) \/ TickNothing(t)
  BY <1>1, RedriveOK, AutoRetryOK, TickAdvanceOK, TickDecideOK, ClaimStalledOK, TickNothingOK
<1>2. CASE Supersede(t) \/ CancelOrphan(t) \/ StartReviewRound(t) \/ SettleReviewing(t) \/ AuditDecision(t)
  BY <1>2, SupersedeOK, CancelOrphanOK, StartReviewRoundOK, SettleReviewingOK, AuditDecisionOK
<1>3. CASE StartDevHandoff(t) \/ DispatchSdlc(t) \/ WriteRound(t) \/ Touch(t) \/ CreateInsert(t)
  BY <1>3, StartDevHandoffOK, DispatchSdlcOK, WriteRoundOK, TouchOK, CreateInsertOK
<1>4. CASE Develop(t) \/ ResumeRead(t) \/ RetryDevelop(t) \/ RetryReview(t) \/ ReReview(t)
  BY <1>4, DevelopOK, ResumeReadOK, RetryDevelopOK, RetryReviewOK, ReReviewOK
<1>5. CASE Reenter(t) \/ OnMergeApproved(t) \/ AbortGroup(t) \/ AbortCommit(t)
  BY <1>5, ReenterOK, OnMergeApprovedOK, AbortGroupOK, AbortCommitOK
<1> QED  BY <1>1, <1>2, <1>3, <1>4, <1>5 DEF Continue

(* IInv is inductive. *)
LEMMA NextOK == IInv /\ [Next]_vars => IInv'
<1> SUFFICES ASSUME IInv, [Next]_vars PROVE IInv'
  OBVIOUS
<1>1. ASSUME NEW t \in Threads, Continue(t) PROVE IInv'
  BY <1>1, ContinueOK
<1>2. ASSUME NEW t \in Threads, NEW l \in Loops, Sweep(t, l) PROVE IInv'
  BY <1>2, TickOK, SameLeft DEF Sweep
<1>3. ASSUME NEW t \in Threads \ Pollers, NEW l \in Loops, Request(t, l) PROVE IInv'
  BY <1>3, CreateReadOK, StartOK, DevelopReadOK, RetryReadOK, ReReviewReadOK, MergeReadOK, AbortReadOK
     DEF Request
<1>4. ASSUME NEW i \in Instances, NEW l \in Loops, Background(i, l) PROVE IInv'
  BY <1>4, CoderSettleOK, StraySettleOK, ReviewSettleOK DEF Background
<1>5. ASSUME NEW g \in Groups, NEW n \in 1..Len(iters[g]), IterationSettle(g, n) PROVE IInv'
  BY <1>5, IterationSettleOK
<1>6. ASSUME NEW l \in Loops, Age(l) PROVE IInv'
  BY <1>6, AgeOK
<1>7. ASSUME NEW i \in Instances, Crash(i) PROVE IInv'
  BY <1>7, CrashOK
<1>8. CASE UNCHANGED vars
  BY <1>8, BackgroundOK, SameLeft, SameRegistry DEF vars, db, registry
<1> QED  BY <1>1, <1>2, <1>3, <1>4, <1>5, <1>6, <1>7, <1>8 DEF Next

THEOREM InductiveInvariant == Spec => []IInv
  BY InitOK, NextOK, PTL DEF Spec

(* Every variable holds values of its table or registry in every reachable  *)
(* state, and a child ref - of a row or of the stale copy of one that a     *)
(* call holds - names an iteration that exists, so no tick reads past the   *)
(* end of a group's iterations.                                             *)
THEOREM TypeCorrect == Spec => []TypeOK
<1>1. IInv => TypeOK
  BY DEF IInv
<1> QED  BY <1>1, InductiveInvariant, PTL

-----------------------------------------------------------------------------
(* The refinement of LoopLifecycle: the state column.                        *)

Same(l) == loop'[l].state = loop[l].state

Creates(l) ==
  /\ loop[l].state = "none" /\ loop'[l].state = "pending"
  /\ ActiveInGroup(GroupOf[l]) = {}

(* Call t of an operator wins the loop for a coder. *)
WinsForCoder(t, l, op) ==
  th[t].on = l /\ th[t].op = op /\ th'[t].pc = "effect" /\ th'[t].slot

Advances(l) ==
  /\ loop[l].state \in Active
  /\ \E e \in Edges(Vbm, l \in Gated) : e.from = loop[l].state /\ e.to = loop'[l].state
  /\ l \in Gated /\ loop'[l].state = "developing" =>
       \E t \in Threads : WinsForCoder(t, l, "retry")

Promotes(l) ==
  /\ loop[l].state \in DevelopPromotable(l \in Gated) /\ loop'[l].state = "developing"
  /\ ActiveInGroup(GroupOf[l]) \subseteq {l}
  /\ \E t \in Threads : WinsForCoder(t, l, "develop")

(* A step of the system moves at most one row, and along the lifecycle. *)
RowStep ==
  \/ \A l \in Loops : Same(l)
  \/ \E l \in Loops : /\ Creates(l) \/ Advances(l) \/ Promotes(l)
                      /\ \A m \in Loops \ {l} : Same(m)

(* Steps that write a row but not its state. *)
LEMMA QuietStep ==
  ASSUME IInv, NEW l \in Loops, NEW row, row.state = loop[l].state,
         loop' = [loop EXCEPT ![l] = row] \/ UNCHANGED loop
  PROVE  RowStep
  BY DEF RowStep, Same, IInv, TypeOK, LoopsOK

(* The gate only adds promotions: every edge of an ungated loop is one of a *)
(* gated loop.                                                              *)
LEMMA EdgesGrow ==
  ASSUME NEW l
  PROVE  Edges(Vbm, FALSE) \subseteq Edges(Vbm, l \in Gated)
<1>1. CommandEdges(FALSE) \subseteq CommandEdges(l \in Gated)
  BY DEF CommandEdges, DevelopPromotable
<1> QED  BY <1>1 DEF Edges

(* A won swap along an edge of the table. *)
LEMMA EdgeStep ==
  ASSUME IInv, NEW l \in Loops, NEW on, NEW to \in RowStates, NEW res \in CoderResults \union {"none"},
         Cas(l, on, to, res), loop[l].state \in Active,
         NEW event, Edge(loop[l].state, event, to) \in Edges(Vbm, FALSE),
         to # "developing" \/ l \notin Gated \/ \E t \in Threads : WinsForCoder(t, l, "retry")
  PROVE  RowStep
<1>1. loop'[l].state = to /\ \A m \in Loops \ {l} : loop'[m] = loop[m]
  BY CasOK DEF IInv, TypeOK
<1>2. \E e \in Edges(Vbm, l \in Gated) : e.from = loop[l].state /\ e.to = to
  <2> DEFINE e == Edge(loop[l].state, event, to)
  <2>1. e \in Edges(Vbm, l \in Gated)
    BY EdgesGrow
  <2>2. e.from = loop[l].state /\ e.to = to
    BY DEF Edge
  <2> HIDE DEF e
  <2> QED  BY <2>1, <2>2
<1> QED  BY <1>1, <1>2 DEF RowStep, Advances, Same

LEMMA InReduce ==
  ASSUME NEW from, NEW on, NEW to, Edge(from, on, to) \in Edges(Vbm, FALSE)
  PROVE  to \in Reduce(from, on, Vbm, FALSE)
<1> DEFINE e == Edge(from, on, to)
<1>1. e \in Edges(Vbm, FALSE) /\ e.from = from /\ e.on = on /\ e.to = to
  BY DEF Edge
<1> HIDE DEF e
<1> QED  BY <1>1 DEF Reduce

(* A won swap for an event of `reduce`, if any. *)
LEMMA ReduceStep ==
  ASSUME IInv, NEW l \in Loops, NEW on, on \notin {"develop_requested", "retry_develop", "decided"},
         NEW from, NEW to \in Reduce(from, on, Vbm, FALSE), NEW res \in CoderResults \union {"none"},
         CasWins(l, from), Cas(l, on, to, res)
  PROVE  RowStep
<1>1. from \in Active /\ to \in RowStates /\ to # "developing" /\ Edge(from, on, to) \in Edges(Vbm, FALSE)
  BY ReduceEdge DEF RowStates
<1> QED  BY <1>1, EdgeStep DEF CasWins

-----------------------------------------------------------------------------
(* The actions that write a row.                                            *)

LEMMA TickStep ==
  ASSUME IInv, NEW t \in Threads,
         Redrive(t) \/ AutoRetry(t) \/ ClaimStalled(t) \/ WriteRound(t) \/ Touch(t)
  PROVE  RowStep
<1> DEFINE l == th[t].on
<1>1. l \in Loops /\ loop[l] \in Row
  BY OwnRow DEF IInv, TypeOK, LoopsOK
<1>2. CASE Redrive(t)
  <2>1. loop' = [loop EXCEPT ![l] = [loop[l] EXCEPT !.old = FALSE]] \/ UNCHANGED loop
    BY <1>2 DEF Redrive
  <2> QED  BY <1>1, <2>1, QuietStep DEF Row
<1>3. CASE AutoRetry(t)
  <2>1. loop' = [loop EXCEPT ![l] = [loop[l] EXCEPT !.tries = th[t].row.tries + 1]] \/ UNCHANGED loop
    BY <1>3 DEF AutoRetry
  <2> QED  BY <1>1, <2>1, QuietStep DEF Row
<1>4. CASE ClaimStalled(t)
  <2>1. loop' = [loop EXCEPT ![l] = [loop[l] EXCEPT !.old = FALSE]] \/ UNCHANGED loop
    BY <1>4 DEF ClaimStalled
  <2> QED  BY <1>1, <2>1, QuietStep DEF Row
<1>5. CASE WriteRound(t)
  <2> DEFINE row == th[t].row
             new == [loop[l] EXCEPT !.round = row.round, !.iter = row.iter,
                                    !.redrives = row.redrives, !.old = FALSE]
  <2>1. loop' = [loop EXCEPT ![l] = new]
    BY <1>5 DEF WriteRound
  <2>2. new.state = loop[l].state
    BY <1>1 DEF Row
  <2> HIDE DEF new
  <2> QED  BY <1>1, <2>1, <2>2, QuietStep
<1>6. CASE Touch(t)
  <2>1. loop' = [loop EXCEPT ![l] = [loop[l] EXCEPT !.old = FALSE]]
    BY <1>6 DEF Touch
  <2> QED  BY <1>1, <2>1, QuietStep DEF Row
<1> QED  BY <1>2, <1>3, <1>4, <1>5, <1>6

LEMMA TickAdvanceStep ==
  ASSUME IInv, NEW t \in Threads, TickAdvance(t)
  PROVE  RowStep
<1> DEFINE l == th[t].on  from == th[t].row.state  on == Event(t[1], l, th[t].row)
           res == sdlc[t[1]][l].res
<1>1. \/ \E to \in Reduce(from, on, Vbm, FALSE) : CasWins(l, from) /\ Cas(l, on, to, res)
      \/ UNCHANGED loop
  BY DEF TickAdvance
<1>2. l \in Loops /\ res \in CoderResults \union {"none"}
  BY OwnRow DEF IInv, TypeOK, RegistryOK, CoderRun
<1>3. on \notin {"develop_requested", "retry_develop"} /\ on # "decided"
  <2>1. on # "decided"
    BY DEF TickAdvance
  <2>2. ReviewEvent(t[1], l, th[t].row) # "retry_develop" /\ DevEvent(t[1], l, th[t].row) # "retry_develop"
    BY DEF ReviewEvent, DevEvent
  <2>3. on # "retry_develop"
    BY <2>2 DEF Event
  <2> QED  BY <2>1, <2>3, EventIsNoCommand
<1> HIDE DEF l, from, on, res
<1>4. CASE UNCHANGED loop
  BY <1>4 DEF RowStep, Same
<1> QED  BY <1>1, <1>2, <1>3, <1>4, ReduceStep

LEMMA TickDecideStep ==
  ASSUME IInv, NEW t \in Threads, TickDecide(t)
  PROVE  RowStep
<1> DEFINE l == th[t].on  to == DecideTo(l, th[t].row)
<1>1. \/ CasWins(l, "deciding") /\ Cas(l, "decided", to, "none") /\ (l \notin Gated \/ to # "developing")
      \/ UNCHANGED loop
  BY DEF TickDecide, RestsAtGate
<1>2. l \in Loops /\ to \in RowStates
  BY OwnRow, DecideToState
<1>3. Edge("deciding", "decided", to) \in Edges(Vbm, FALSE)
  BY DecideEdge DEF DecideTo
<1> HIDE DEF l, to
<1>4. CASE UNCHANGED loop
  BY <1>4 DEF RowStep, Same
<1>5. CASE CasWins(l, "deciding") /\ Cas(l, "decided", to, "none") /\ (l \notin Gated \/ to # "developing")
  <2>1. loop[l].state \in Active /\ loop[l].state = "deciding"
    BY <1>5 DEF CasWins, Active
  <2> QED  BY <1>2, <1>3, <1>5, <2>1, EdgeStep
<1> QED  BY <1>1, <1>4, <1>5

(* A review that can no longer be run ends the loop. *)
LEMMA FailStep ==
  ASSUME IInv, NEW l \in Loops,
         IF CasWins(l, "reviewing") THEN Cas(l, "review_failed", "failed", "none") ELSE UNCHANGED loop
  PROVE  RowStep
<1>1. CASE UNCHANGED loop
  BY <1>1 DEF RowStep, Same
<1>2. CASE CasWins(l, "reviewing") /\ Cas(l, "review_failed", "failed", "none")
  <2>1. Edge("reviewing", "review_failed", "failed") \in Edges(Vbm, FALSE)
    BY DEF Edges, TickEdges
  <2>2. "failed" \in Reduce("reviewing", "review_failed", Vbm, FALSE)
    BY <2>1, InReduce
  <2> QED  BY <1>2, <2>2, ReduceStep
<1> QED  BY <1>1, <1>2

LEMMA SupersedeStep ==
  ASSUME IInv, NEW t \in Threads, Supersede(t)
  PROVE  RowStep
<1> DEFINE l == th[t].on
<1>1. l \in Loops /\ loop[l] \in Row
  BY OwnRow DEF IInv, TypeOK, LoopsOK
<1>2. \/ UNCHANGED loop
      \/ IF CasWins(l, "reviewing") THEN Cas(l, "review_failed", "failed", "none") ELSE UNCHANGED loop
      \/ loop' = [loop EXCEPT ![l].iter = 0, ![l].old = FALSE]
  BY DEF Supersede
<1>3. CASE loop' = [loop EXCEPT ![l].iter = 0, ![l].old = FALSE]
  <2> DEFINE new == [loop[l] EXCEPT !.iter = 0, !.old = FALSE]
  <2>1. loop' = [loop EXCEPT ![l] = new]
    BY <1>1, <1>3 DEF IInv, TypeOK, LoopsOK
  <2>2. new.state = loop[l].state
    BY <1>1 DEF Row
  <2> HIDE DEF new
  <2> QED  BY <1>1, <2>1, <2>2, QuietStep
<1>4. CASE UNCHANGED loop
  BY <1>4 DEF RowStep, Same
<1> QED  BY <1>1, <1>2, <1>3, <1>4, FailStep

LEMMA StartReviewStep ==
  ASSUME IInv, NEW t \in Threads, StartReviewRound(t)
  PROVE  RowStep
<1>1. \/ IF CasWins(th[t].on, "reviewing") THEN Cas(th[t].on, "review_failed", "failed", "none")
                                           ELSE UNCHANGED loop
      \/ UNCHANGED loop
  BY DEF StartReviewRound, UnresolvedRef, DispatchReview, StartIteration
<1>2. CASE UNCHANGED loop
  BY <1>2 DEF RowStep, Same
<1> QED  BY <1>1, <1>2, OwnRow, FailStep

(* The unique index counts every active row. *)
LEMMA CreateStep ==
  ASSUME IInv, NEW t \in Threads, CreateInsert(t)
  PROVE  RowStep
<1> DEFINE l == th[t].on  new == [loop[l] EXCEPT !.state = "pending"]
<1>1. l \in Loops /\ loop[l] \in Row
  BY OwnRow DEF IInv, TypeOK, LoopsOK
<1>2. CASE UNCHANGED loop
  BY <1>2 DEF RowStep, Same
<1>3. CASE /\ Indexed(GroupOf[l]) = {} /\ loop[l].state = "none"
           /\ loop' = [loop EXCEPT ![l].state = "pending"]
  <2>1. new.state = "pending" /\ loop' = [loop EXCEPT ![l] = new]
    BY <1>1, <1>3 DEF Row
  <2>2. ActiveInGroup(GroupOf[l]) = {}
    BY <1>3 DEF Indexed, ActiveInGroup
  <2> HIDE DEF new, l
  <2>3. Creates(l) /\ \A m \in Loops \ {l} : Same(m)
    BY <1>1, <1>3, <2>1, <2>2 DEF Creates, Same, IInv, TypeOK, LoopsOK
  <2> QED  BY <1>1, <2>3 DEF RowStep
<1> QED  BY <1>2, <1>3 DEF CreateInsert

(* A claim for a coder, its effect on the row and on the call. *)
LEMMA ClaimDevelopWins ==
  ASSUME IInv, NEW t \in Threads, NEW on, ClaimDevelop(t, on), ~UNCHANGED loop
  PROVE  LET l == th[t].on IN
         /\ loop[l].state = th[t].row.state /\ ActiveInGroup(GroupOf[l]) \subseteq {l}
         /\ Cas(l, on, "developing", "none")
         /\ th'[t].pc = "effect" /\ th'[t].slot
<1>1. /\ CasWins(th[t].on, th[t].row.state) /\ Indexed(GroupOf[th[t].on]) \subseteq {th[t].on}
      /\ Cas(th[t].on, on, "developing", "none")
      /\ th' = [th EXCEPT ![t] = [th[t] EXCEPT !.pc = "effect", !.job = "handoff", !.row = loop'[th[t].on],
                                              !.held = TRUE, !.slot = TRUE]]
  BY DEF ClaimDevelop
<1>2. th[t] \in Thread /\ th \in [Threads -> Thread]
  BY DEF IInv, TypeOK, ThreadsOK
<1>3. th'[t].pc = "effect" /\ th'[t].slot
  BY <1>1, <1>2 DEF Thread
<1> QED  BY <1>1, <1>3 DEF CasWins, Indexed, ActiveInGroup

LEMMA DevelopStep ==
  ASSUME IInv, NEW t \in Threads, Develop(t)
  PROVE  RowStep
<1> DEFINE l == th[t].on
<1>1. l \in Loops /\ th[t].op = "develop" /\ th[t].row.state \in DevelopPromotable(l \in Gated)
  BY OwnRow DEF Develop, At, CallOK
<1>2. CASE UNCHANGED loop
  BY <1>2 DEF RowStep, Same
<1>3. CASE ~UNCHANGED loop
  <2>1. /\ loop[l].state = th[t].row.state /\ ActiveInGroup(GroupOf[l]) \subseteq {l}
        /\ Cas(l, "develop_requested", "developing", "none")
        /\ th'[t].pc = "effect" /\ th'[t].slot
    BY <1>3, ClaimDevelopWins DEF Develop
  <2>2. loop'[l].state = "developing" /\ \A m \in Loops \ {l} : loop'[m] = loop[m]
    <3>1. "developing" \in RowStates
      BY DEF RowStates, LoopStates, Active
    <3> QED  BY <1>1, <2>1, <3>1, CasOK DEF IInv, TypeOK
  <2>3. WinsForCoder(t, l, "develop")
    BY <1>1, <2>1 DEF WinsForCoder
  <2> HIDE DEF l
  <2> QED  BY <1>1, <2>1, <2>2, <2>3 DEF RowStep, Promotes, Same
<1> QED  BY <1>2, <1>3

LEMMA RetryDevelopStep ==
  ASSUME IInv, NEW t \in Threads, RetryDevelop(t)
  PROVE  RowStep
<1> DEFINE l == th[t].on
<1>1. l \in Loops /\ th[t].op = "retry" /\ th[t].row.state = "throttled"
  BY OwnRow DEF RetryDevelop, At, CallOK
<1>2. CASE UNCHANGED loop
  BY <1>2 DEF RowStep, Same
<1>3. CASE ~UNCHANGED loop
  <2>1. /\ loop[l].state = "throttled" /\ Cas(l, "retry_develop", "developing", "none")
        /\ th'[t].pc = "effect" /\ th'[t].slot
    BY <1>1, <1>3, ClaimDevelopWins DEF RetryDevelop
  <2>2. WinsForCoder(t, l, "retry")
    BY <1>1, <2>1 DEF WinsForCoder
  <2>3. Edge("throttled", "retry_develop", "developing") \in Edges(Vbm, FALSE)
    BY DEF Edges, CommandEdges
  <2>4. "developing" \in RowStates /\ loop[l].state \in Active
    BY <2>1 DEF RowStates, LoopStates, Active
  <2> HIDE DEF l
  <2> QED  BY <1>1, <2>1, <2>2, <2>3, <2>4, EdgeStep
<1> QED  BY <1>2, <1>3

(* A swap of a command whose successor the table fixes. *)
LEMMA CommandStep ==
  ASSUME IInv, NEW l \in Loops, NEW from, NEW on, NEW to, Edge(from, on, to) \in Edges(Vbm, FALSE),
         on \notin {"develop_requested", "retry_develop", "decided"},
         CasWins(l, from), Cas(l, on, to, "none")
  PROVE  RowStep
<1>1. to \in Reduce(from, on, Vbm, FALSE)
  BY InReduce
<1> QED  BY <1>1, ReduceStep

LEMMA ReviewCommandStep ==
  ASSUME IInv, NEW t \in Threads, RetryReview(t) \/ ReReview(t) \/ Reenter(t)
  PROVE  RowStep
<1> DEFINE l == th[t].on
<1>1. l \in Loops
  BY OwnRow
<1>2. /\ Edge("throttled", "retry_review", "building_context") \in Edges(Vbm, FALSE)
      /\ Edge("deciding", "rereview_requested", "building_context") \in Edges(Vbm, FALSE)
      /\ Edge("building_context", "context_built", "reviewing") \in Edges(Vbm, FALSE)
  BY DEF Edges, CommandEdges, TickEdges
<1>3. CASE UNCHANGED loop
  BY <1>3 DEF RowStep, Same
<1>4. CASE RetryReview(t) /\ ~UNCHANGED loop
  <2>1. th[t].row.state = "throttled"
    BY <1>4, OwnRow DEF RetryReview, At, CallOK
  <2>2. CasWins(l, "throttled") /\ Cas(l, "retry_review", "building_context", "none")
    BY <1>4, <2>1 DEF RetryReview, ClaimReview
  <2> HIDE DEF l
  <2> QED  BY <1>1, <1>2, <2>2, CommandStep
<1>5. CASE ReReview(t) /\ ~UNCHANGED loop
  <2>1. th[t].row.state = "deciding"
    BY <1>5, OwnRow DEF ReReview, At, CallOK
  <2>2. CasWins(l, "deciding") /\ Cas(l, "rereview_requested", "building_context", "none")
    BY <1>5, <2>1 DEF ReReview, ClaimReview
  <2> HIDE DEF l
  <2> QED  BY <1>1, <1>2, <2>2, CommandStep
<1>6. CASE Reenter(t) /\ ~UNCHANGED loop
  <2>1. CasWins(l, "building_context") /\ Cas(l, "context_built", "reviewing", "none")
    BY <1>6 DEF Reenter
  <2> HIDE DEF l
  <2> QED  BY <1>1, <1>2, <2>1, CommandStep
<1> QED  BY <1>3, <1>4, <1>5, <1>6

LEMMA MergeStep ==
  ASSUME IInv, NEW t \in Threads, OnMergeApproved(t)
  PROVE  RowStep
<1>1. th[t].on \in Loops
  BY OwnRow
<1>2. CASE UNCHANGED loop
  BY <1>2 DEF RowStep, Same
<1>3. CASE ~UNCHANGED loop
  <2>1. PICK to \in Reduce("awaiting_merge", "merge_approved", Vbm, FALSE) :
          CasWins(th[t].on, "awaiting_merge") /\ Cas(th[t].on, "merge_approved", to, "none")
    BY <1>3 DEF OnMergeApproved
  <2> QED  BY <1>1, <2>1, ReduceStep
<1> QED  BY <1>2, <1>3

LEMMA AbortStep ==
  ASSUME IInv, NEW t \in Threads, AbortCommit(t)
  PROVE  RowStep
<1> DEFINE l == th[t].on  from == th[t].row.state  op == th[t].op
<1>1. l \in Loops /\ op \in {"cancel", "finish"}
  BY OwnRow DEF AbortCommit, At, CallOK
<1>2. CASE UNCHANGED loop
  BY <1>2 DEF RowStep, Same
<1>3. CASE ~UNCHANGED loop
  <2>1. PICK to \in Reduce(from, op, Vbm, FALSE) : CasWins(l, from) /\ Cas(l, op, to, "none")
    BY <1>3 DEF AbortCommit
  <2> HIDE DEF l, from, op
  <2> QED  BY <1>1, <2>1, ReduceStep
<1> QED  BY <1>2, <1>3

LEMMA AgeStep ==
  ASSUME IInv, NEW l \in Loops, Age(l)
  PROVE  RowStep
<1>1. loop' = [loop EXCEPT ![l] = [loop[l] EXCEPT !.old = TRUE]] /\ loop[l] \in Row
  BY DEF Age, IInv, TypeOK, LoopsOK
<1> QED  BY <1>1, QuietStep DEF Row

(* Every step of the system is one of the lifecycle, or leaves it alone.    *)
LEMMA NextStep == IInv /\ [Next]_vars => RowStep
<1> SUFFICES ASSUME IInv, [Next]_vars PROVE RowStep
  OBVIOUS
<1>1. CASE UNCHANGED loop
  BY <1>1 DEF RowStep, Same
<1>2. ASSUME NEW t \in Threads, Continue(t), ~UNCHANGED loop
      PROVE  RowStep
  <2>1. \/ Redrive(t) \/ AutoRetry(t) \/ ClaimStalled(t) \/ WriteRound(t) \/ Touch(t)
        \/ TickAdvance(t) \/ TickDecide(t) \/ Supersede(t) \/ StartReviewRound(t)
        \/ CreateInsert(t) \/ Develop(t) \/ RetryDevelop(t)
        \/ RetryReview(t) \/ ReReview(t) \/ Reenter(t) \/ OnMergeApproved(t) \/ AbortCommit(t)
    BY <1>2 DEF Continue, TickNothing, CancelOrphan, SettleReviewing, AuditDecision, StartDevHandoff,
                DispatchSdlc, ResumeRead, AbortGroup, db
  <2> QED  BY <2>1, TickStep, TickAdvanceStep, TickDecideStep, SupersedeStep, StartReviewStep,
              CreateStep, DevelopStep, RetryDevelopStep, ReviewCommandStep, MergeStep, AbortStep
<1>3. ASSUME NEW t \in Threads, NEW l \in Loops, Sweep(t, l) PROVE UNCHANGED loop
  BY <1>3 DEF Sweep, Tick, db
<1>4. ASSUME NEW t \in Threads, NEW l \in Loops, Request(t, l) PROVE UNCHANGED loop
  BY <1>4 DEF Request, CreateRead, Start, Tick, DevelopRead, RetryRead, ReReviewRead, MergeRead, AbortRead, db
<1>5. ASSUME NEW i \in Instances, NEW l \in Loops, Background(i, l) PROVE UNCHANGED loop
  BY <1>5 DEF Background, CoderSettle, StraySettle, ReviewSettle, db
<1>6. ASSUME NEW g \in Groups, NEW n \in 1..Len(iters[g]), IterationSettle(g, n) PROVE UNCHANGED loop
  BY <1>6 DEF IterationSettle
<1>7. ASSUME NEW l \in Loops, Age(l) PROVE RowStep
  BY <1>7, AgeStep
<1>8. ASSUME NEW i \in Instances, Crash(i) PROVE UNCHANGED loop
  BY <1>8 DEF Crash
<1>9. CASE UNCHANGED vars
  BY <1>1, <1>9 DEF vars
<1> QED  BY <1>1, <1>2, <1>3, <1>4, <1>5, <1>6, <1>7, <1>8, <1>9 DEF Next

-----------------------------------------------------------------------------
(* What follows for the rows.                                               *)

States == [l \in Loops |-> loop[l].state]

(* Lifecycle has the table of LoopFSM. *)
LEMMA SameTable ==
  ASSUME NEW l
  PROVE  /\ Lifecycle!Active = Active
         /\ Lifecycle!DevelopPromotable(l \in Gated) = DevelopPromotable(l \in Gated)
         /\ Lifecycle!Edges(Vbm, l \in Gated) = Edges(Vbm, l \in Gated)
<1>1. Lifecycle!Active = Active
  BY DEF Lifecycle!Active, Active
<1>2. Lifecycle!DevelopPromotable(l \in Gated) = DevelopPromotable(l \in Gated)
  BY DEF Lifecycle!DevelopPromotable, DevelopPromotable
<1>3. Lifecycle!CommandEdges(l \in Gated) = CommandEdges(l \in Gated)
  BY DEF Lifecycle!CommandEdges, CommandEdges, Lifecycle!Edge, Edge, Lifecycle!Active, Active,
         Lifecycle!DevelopPromotable, DevelopPromotable
<1>4. /\ Lifecycle!TickEdges(Vbm) = TickEdges(Vbm)
      /\ Lifecycle!MergeEdges(Vbm) = MergeEdges(Vbm)
      /\ Lifecycle!DecideEdges(Vbm) = DecideEdges(Vbm)
  BY DEF Lifecycle!TickEdges, TickEdges, Lifecycle!MergeEdges, MergeEdges,
         Lifecycle!DecideEdges, DecideEdges, Lifecycle!Edge, Edge
<1> QED  BY <1>1, <1>2, <1>3, <1>4 DEF Lifecycle!Edges, Edges

LEMMA RowStepImplements ==
  ASSUME RowStep
  PROVE  [Lifecycle!Next]_States
<1>1. CASE \A l \in Loops : Same(l)
  BY <1>1 DEF States, Same
<1>2. ASSUME NEW l \in Loops, Creates(l) \/ Advances(l) \/ Promotes(l), \A m \in Loops \ {l} : Same(m)
      PROVE  Lifecycle!Next
  <2>1. States' = [States EXCEPT ![l] = loop'[l].state]
    BY <1>2 DEF States, Same
  <2>2. Lifecycle!ActiveLoops(GroupOf[l]) = ActiveInGroup(GroupOf[l])
    BY SameTable DEF Lifecycle!ActiveLoops, ActiveInGroup
  <2>3. CASE Creates(l)
    BY <2>1, <2>2, <2>3 DEF Creates, Lifecycle!Next, Lifecycle!Create, States
  <2>4. CASE Advances(l)
    <3>1. Lifecycle!Edges(Vbm, l \in Gated) = Edges(Vbm, l \in Gated) /\ loop[l].state \in Lifecycle!Active
      BY <2>4, SameTable DEF Advances
    <3>2. PICK e \in Lifecycle!Edges(Vbm, l \in Gated) : e.from = loop[l].state /\ e.to = loop'[l].state
      BY <2>4, <3>1 DEF Advances
    <3>3. States' = [States EXCEPT ![l] = e.to] /\ States[l] = loop[l].state
      BY <2>1, <3>2 DEF States
    <3>4. Lifecycle!Advance(l)
      BY <3>1, <3>2, <3>3 DEF Lifecycle!Advance, States
    <3> QED  BY <3>4 DEF Lifecycle!Next
  <2>5. CASE Promotes(l)
    BY <2>1, <2>2, <2>5, SameTable DEF Promotes, Lifecycle!Next, Lifecycle!Promote, States
  <2> QED  BY <1>2, <2>3, <2>4, <2>5
<1> QED  BY <1>1, <1>2 DEF RowStep

(* The controller implements the lifecycle: whatever instances, requests,   *)
(* crashes and stale reads race, the state column moves along the table,    *)
(* one loop at a time, and is created or re-opened only in a group without  *)
(* another active loop.                                                     *)
THEOREM ImplementsLifecycle == Spec => LifecycleSpec
<1>1. Init => Lifecycle!Init
  <2>1. ASSUME Init, NEW l \in Loops
        PROVE  loop[l].state = IF l \in Created THEN "pending" ELSE "none"
    BY <2>1 DEF Init, NoRow
  <2> QED  BY <2>1 DEF Lifecycle!Init
<1>2. IInv /\ [Next]_vars => [Lifecycle!Next]_States
  BY NextStep, RowStepImplements
<1> QED  BY <1>1, <1>2, InductiveInvariant, PTL DEF Spec, LifecycleSpec, Lifecycle!Spec, States

(* H-3: in every reachable state a task group has at most one loop that is  *)
(* not terminal.                                                            *)
THEOREM OneActiveLoop == Spec => []OneActivePerGroup
<1>1. Init => OneActivePerGroup
  BY LoopAssumption DEF Init, OneActivePerGroup, NoRow, Active
<1>2. OneActivePerGroup /\ IInv /\ [Next]_vars => OneActivePerGroup'
  <2> SUFFICES ASSUME OneActivePerGroup, IInv, RowStep PROVE OneActivePerGroup'
    BY NextStep
  <2>1. CASE \A l \in Loops : Same(l)
    BY <2>1 DEF Same, OneActivePerGroup
  <2>2. ASSUME NEW l \in Loops, \A m \in Loops \ {l} : Same(m),
               loop[l].state \in Active \/ ActiveInGroup(GroupOf[l]) \subseteq {l}
        PROVE  OneActivePerGroup'
    BY <2>2 DEF Same, OneActivePerGroup, ActiveInGroup
  <2> QED  BY <2>1, <2>2 DEF RowStep, Creates, Advances, Promotes
<1> QED  BY <1>1, <1>2, InductiveInvariant, PTL DEF Spec

(* A terminal loop is left by nothing but an operator's develop that won    *)
(* the loop: no tick, resume or abort that read the row earlier does it.    *)
THEOREM TerminalIsFinal == Spec => TerminalIsLeftByDevelop
<1> DEFINE Leaves(l) == loop[l].state \in Terminal /\ loop'[l].state # loop[l].state
           ByDevelop(l) == /\ loop'[l].state = "developing"
                           /\ loop[l].state \in DevelopPromotable(FALSE)
                           /\ \E t \in Threads : th[t].op = "develop" /\ th[t].on = l /\ th'[t].pc = "effect"
<1>1. IInv /\ [Next]_vars => \A l \in Loops : Leaves(l) => ByDevelop(l)
  <2> SUFFICES ASSUME IInv, RowStep, NEW l \in Loops, Leaves(l) PROVE ByDevelop(l)
    BY NextStep
  <2>1. Creates(l) \/ Advances(l) \/ Promotes(l)
    BY DEF RowStep, Same
  <2>2. loop[l].state # "none" /\ loop[l].state \notin Active /\ loop[l].state # "deciding"
    BY DEF Terminal, Active
  <2>3. Promotes(l)
    BY <2>1, <2>2 DEF Creates, Advances
  <2> QED  BY <2>2, <2>3 DEF Promotes, WinsForCoder, DevelopPromotable
<1> QED  BY <1>1, InductiveInvariant, PTL DEF Spec, TerminalIsLeftByDevelop

(* A gated loop goes to developing only for an operator's develop or a      *)
(* resume of the coder an operator asked for.                               *)
THEOREM GateIsKept == Spec => GateHolds
<1>1. IInv /\ [Next]_vars =>
        \A l \in Gated : loop[l].state # "developing" /\ loop'[l].state = "developing" =>
          \E t \in Threads : th[t].on = l /\ th[t].op \in {"develop", "retry"} /\ th'[t].slot
  <2> SUFFICES ASSUME IInv, RowStep, NEW l \in Gated,
                      loop[l].state # "developing", loop'[l].state = "developing"
               PROVE  \E t \in Threads : th[t].on = l /\ th[t].op \in {"develop", "retry"} /\ th'[t].slot
    BY NextStep
  <2>1. l \in Loops
    BY LoopAssumption
  <2>2. Advances(l) \/ Promotes(l)
    BY <2>1 DEF RowStep, Same, Creates
  <2> QED  BY <2>2 DEF Advances, Promotes, WinsForCoder
<1> QED  BY <1>1, InductiveInvariant, PTL DEF Spec, GateHolds

-----------------------------------------------------------------------------
(* Calls: what a step of a call makes of it, its lock entry and reservation. *)

Others(t) == \A s \in Threads \ {t} : th'[s] = th[s]

Stays(t) ==
  /\ Others(t)
  /\ th'[t].on = th[t].on /\ th'[t].op = th[t].op /\ th'[t].slot = th[t].slot

(* From one point of a call to the next; the lock entry stays.               *)
Goes(p, j, pc, job) ==
  \/ p = "tick" /\ pc \in {"effect", "touch", "claimed"}
  \/ p = "claimed" /\ pc = "orphan"
  \/ p = "orphan" /\ pc = "effect" /\ job = "relaunch"
  \/ p = "effect" /\ j \in {"review", "relaunch"} /\ pc \in {"touch", "write"}
  \/ p = "effect" /\ j = "handoff" /\ pc = "plan"
  \/ p = "plan" /\ pc = "touch"
  \/ p = "reenter" /\ pc = "effect" /\ job = j
  \/ p = "abort" /\ pc = "aborted"
Proceeds(t) ==
  /\ Stays(t) /\ th'[t].held = th[t].held /\ UNCHANGED lock
  /\ Goes(th[t].pc, th[t].job, th'[t].pc, th'[t].job)

(* A claim takes the lock entry, and for a coder a reservation.              *)
Takes(t) ==
  /\ Others(t) /\ ~Locked(t[1], th[t].on) /\ th[t].pc \in {"develop", "retry", "rereview"}
  /\ lock' = [lock EXCEPT ![t[1]] = @ \union {th[t].on}]
  /\ th'[t].on = th[t].on /\ th'[t].op = th[t].op /\ th'[t].held
  /\ \/ th'[t].pc = "effect" /\ th'[t].job = "handoff" /\ th'[t].slot /\ ~DevBusy(t[1])
     \/ th'[t].pc = "reenter" /\ th'[t].job \in {"review", "relaunch"} /\ th'[t].slot = th[t].slot

(* The auto-resume gives the entry up and becomes an operator's retry.       *)
Resumes(t) ==
  /\ AutoResume \/ th[t].pc = "resume"
  /\ Others(t) /\ th'[t].on = th[t].on /\ th'[t].slot = th[t].slot
  /\ \/ th[t].pc = "tick" /\ th'[t].pc = "resume"
     \/ th[t].pc = "resume" /\ th'[t].pc = "retry"

(* A request of an operator begins.                                          *)
Opens(t) ==
  /\ Others(t) /\ th[t].pc = "idle" /\ UNCHANGED lock
  /\ th'[t].pc \in {"create", "develop", "retry", "rereview", "merge", "abort"}
  /\ ~th'[t].held /\ ~th'[t].slot

Ticks(t) ==
  /\ Others(t) /\ th[t].pc = "idle" /\ ~Locked(t[1], th'[t].on)
  /\ th'[t].pc = "tick" /\ th'[t].op = "tick" /\ th'[t].held /\ ~th'[t].slot
  /\ lock' = [lock EXCEPT ![t[1]] = @ \union {th'[t].on}]

CallStep(t) == Return(t) \/ Proceeds(t) \/ Takes(t) \/ Resumes(t) \/ Opens(t) \/ Ticks(t)

LEMMA Calls ==
  ASSUME IInv
  PROVE  th \in [Threads -> Thread] /\ lock \in [Instances -> SUBSET Loops] /\ \A t \in Threads : t[1] \in Instances
  BY DEF IInv, TypeOK, ThreadsOK, Threads

LEMMA GotoFields ==
  ASSUME IInv, NEW t \in Threads, NEW pc, Goto(t, pc)
  PROVE  Stays(t) /\ th'[t].held = th[t].held /\ th'[t].pc = pc /\ th'[t].job = th[t].job
<1>1. th \in [Threads -> Thread] /\ th[t] \in Thread
  BY Calls
<1>2. Others(t)
  BY <1>1 DEF Goto, Others
<1> QED  BY <1>1, <1>2 DEF Goto, Stays, Thread

LEMMA RunFields ==
  ASSUME IInv, NEW t \in Threads, NEW pc, NEW job, Run(t, pc, job)
  PROVE  Stays(t) /\ th'[t].held = th[t].held /\ th'[t].pc = pc /\ th'[t].job = job
<1>1. th \in [Threads -> Thread] /\ th[t] \in Thread
  BY Calls
<1>2. Others(t)
  BY <1>1 DEF Run, Others
<1> QED  BY <1>1, <1>2 DEF Run, Stays, Thread

LEMMA CallFields ==
  ASSUME IInv, NEW t \in Threads, NEW op, NEW l, NEW pc, Call(t, op, l, pc)
  PROVE  Others(t) /\ th'[t].pc = pc /\ ~th'[t].held /\ ~th'[t].slot
<1>1. th \in [Threads -> Thread]
  BY Calls
<1> QED  BY <1>1 DEF Call, Others, Idle

LEMMA ReturnFields ==
  ASSUME IInv, NEW t \in Threads, Return(t)
  PROVE  Others(t) /\ th'[t].pc = "idle" /\ ~th'[t].held /\ ~th'[t].slot
<1>1. th \in [Threads -> Thread]
  BY Calls
<1> QED  BY <1>1 DEF Return, Others, Idle

LEMMA NextJobCall ==
  ASSUME IInv, NEW t \in Threads, NEW on, NEW to, At(t, "tick"), NextJob(t, on, to)
  PROVE  CallStep(t)
<1>1. \/ \E pc \in {"effect", "touch"}, job \in Jobs : Run(t, pc, job) /\ UNCHANGED lock
      \/ Return(t)
  BY DEF NextJob, Jobs
<1>2. ASSUME NEW pc \in {"effect", "touch"}, NEW job \in Jobs, Run(t, pc, job), UNCHANGED lock
      PROVE  Proceeds(t)
  BY <1>2, RunFields DEF Proceeds, Goes, At
<1> QED  BY <1>1, <1>2 DEF CallStep

LEMMA TickCalls ==
  ASSUME IInv, NEW t \in Threads,
         \/ Redrive(t) \/ AutoRetry(t) \/ TickAdvance(t) \/ TickDecide(t) \/ ClaimStalled(t)
         \/ TickNothing(t) \/ Supersede(t) \/ CancelOrphan(t)
  PROVE  CallStep(t)
<1>1. CASE Redrive(t)
  <2>1. At(t, "tick") /\ \/ \E job \in {"review", "handoff"} : Run(t, "effect", job) /\ UNCHANGED lock
                         \/ Return(t)
    BY <1>1 DEF Redrive
  <2>2. ASSUME NEW job, Run(t, "effect", job), UNCHANGED lock PROVE Proceeds(t)
    BY <2>1, <2>2, RunFields DEF Proceeds, Goes, At
  <2> QED  BY <2>1, <2>2 DEF CallStep
<1>2. CASE AutoRetry(t)
  <2>1. At(t, "tick") /\ AutoResume /\ (Goto(t, "resume") \/ Return(t))
    BY <1>2 DEF AutoRetry, Resumable
  <2> QED  BY <2>1, GotoFields DEF CallStep, Resumes, Stays, At
<1>3. CASE TickAdvance(t)
  <2>1. At(t, "tick") /\ (Return(t) \/ \E on, to : NextJob(t, on, to))
    BY <1>3 DEF TickAdvance
  <2> QED  BY <2>1, NextJobCall DEF CallStep
<1>4. CASE TickDecide(t)
  <2>1. At(t, "tick") /\ (Return(t) \/ \E on, to : NextJob(t, on, to))
    BY <1>4 DEF TickDecide
  <2> QED  BY <2>1, NextJobCall DEF CallStep
<1>5. CASE ClaimStalled(t)
  <2>1. At(t, "tick") /\ (Return(t) \/ (Run(t, "claimed", "none") /\ UNCHANGED lock))
    BY <1>5 DEF ClaimStalled
  <2> QED  BY <2>1, RunFields DEF CallStep, Proceeds, Goes, At
<1>6. CASE TickNothing(t)
  BY <1>6 DEF TickNothing, CallStep
<1>7. CASE Supersede(t)
  <2>1. At(t, "claimed") /\ (Return(t) \/ (Goto(t, "orphan") /\ UNCHANGED lock))
    BY <1>7 DEF Supersede
  <2> QED  BY <2>1, GotoFields DEF CallStep, Proceeds, Goes, At
<1>8. CASE CancelOrphan(t)
  <2> DEFINE new == [th[t].row EXCEPT !.redrives = th[t].row.redrives + 1]
  <2>1. /\ At(t, "orphan") /\ UNCHANGED lock
        /\ th' = [th EXCEPT ![t] = [th[t] EXCEPT !.pc = "effect", !.job = "relaunch", !.row = new]]
    BY <1>8 DEF CancelOrphan
  <2> HIDE DEF new
  <2>2. th \in [Threads -> Thread] /\ th[t] \in Thread
    BY Calls
  <2>3. Stays(t) /\ th'[t].held = th[t].held /\ th'[t].pc = "effect" /\ th'[t].job = "relaunch"
    BY <2>1, <2>2 DEF Stays, Others, Thread
  <2> QED  BY <2>1, <2>3 DEF CallStep, Proceeds, Goes, At
<1> QED  BY <1>1, <1>2, <1>3, <1>4, <1>5, <1>6, <1>7, <1>8

LEMMA EffectCalls ==
  ASSUME IInv, NEW t \in Threads,
         \/ StartReviewRound(t) \/ SettleReviewing(t) \/ AuditDecision(t) \/ StartDevHandoff(t)
         \/ DispatchSdlc(t) \/ WriteRound(t) \/ Touch(t)
  PROVE  CallStep(t)
<1>1. CASE StartReviewRound(t)
  <2>1. /\ At(t, "effect") /\ th[t].job \in {"review", "relaunch"}
        /\ \/ Return(t)
           \/ UNCHANGED lock /\ \E iter : Dispatched(t, iter)
           \/ UNCHANGED lock /\ Goto(t, "touch")
    BY <1>1 DEF StartReviewRound, UnresolvedRef, DispatchReview, StartIteration
  <2>2. ASSUME NEW iter, Dispatched(t, iter), UNCHANGED lock PROVE Proceeds(t)
    <3>1. PICK row : th' = [th EXCEPT ![t] = [th[t] EXCEPT !.pc = "write", !.row = row]]
      BY <2>2 DEF Dispatched
    <3>2. th \in [Threads -> Thread] /\ th[t] \in Thread
      BY Calls
    <3>3. Stays(t) /\ th'[t].held = th[t].held /\ th'[t].pc = "write"
      BY <3>1, <3>2 DEF Stays, Others, Thread
    <3> QED  BY <2>1, <2>2, <3>3 DEF Proceeds, Goes, At
  <2>3. ASSUME Goto(t, "touch"), UNCHANGED lock PROVE Proceeds(t)
    BY <2>1, <2>3, GotoFields DEF Proceeds, Goes, At
  <2> QED  BY <2>1, <2>2, <2>3 DEF CallStep
<1>2. CASE SettleReviewing(t) \/ AuditDecision(t) \/ WriteRound(t) \/ Touch(t)
  BY <1>2 DEF SettleReviewing, AuditDecision, WriteRound, Touch, CallStep
<1>3. CASE StartDevHandoff(t)
  <2>1. At(t, "effect") /\ th[t].job = "handoff" /\ Goto(t, "plan") /\ UNCHANGED lock
    BY <1>3 DEF StartDevHandoff
  <2> QED  BY <2>1, GotoFields DEF CallStep, Proceeds, Goes, At
<1>4. CASE DispatchSdlc(t)
  <2>1. At(t, "plan") /\ Goto(t, "touch") /\ UNCHANGED lock
    BY <1>4 DEF DispatchSdlc
  <2> QED  BY <2>1, GotoFields DEF CallStep, Proceeds, Goes, At
<1> QED  BY <1>1, <1>2, <1>3, <1>4

LEMMA ClaimDevelopCall ==
  ASSUME IInv, NEW t \in Threads, NEW on, ClaimDevelop(t, on), th[t].pc \in {"develop", "retry"}
  PROVE  CallStep(t)
<1>1. CASE Return(t)
  BY <1>1 DEF CallStep
<1>2. CASE ~Return(t)
  <2>1. /\ ~DevBusy(t[1]) /\ ~Locked(t[1], th[t].on)
        /\ lock' = [lock EXCEPT ![t[1]] = @ \union {th[t].on}]
        /\ th' = [th EXCEPT ![t] = [th[t] EXCEPT !.pc = "effect", !.job = "handoff",
                                      !.row = loop'[th[t].on], !.held = TRUE, !.slot = TRUE]]
    BY <1>2 DEF ClaimDevelop
  <2>2. th \in [Threads -> Thread] /\ th[t] \in Thread
    BY Calls
  <2>3. /\ Others(t) /\ th'[t].on = th[t].on /\ th'[t].op = th[t].op /\ th'[t].held
        /\ th'[t].pc = "effect" /\ th'[t].job = "handoff" /\ th'[t].slot
    BY <2>1, <2>2 DEF Others, Thread
  <2> QED  BY <2>1, <2>3 DEF Takes, CallStep
<1> QED  BY <1>1, <1>2

LEMMA ClaimReviewCall ==
  ASSUME IInv, NEW t \in Threads, NEW on, NEW job \in {"review", "relaunch"}, ClaimReview(t, on, job),
         th[t].pc \in {"retry", "rereview"}
  PROVE  CallStep(t)
<1>1. CASE Return(t)
  BY <1>1 DEF CallStep
<1>2. CASE ~Return(t)
  <2>1. /\ ~Locked(t[1], th[t].on) /\ lock' = [lock EXCEPT ![t[1]] = @ \union {th[t].on}]
        /\ th' = [th EXCEPT ![t] = [th[t] EXCEPT !.pc = "reenter", !.job = job,
                                      !.row = loop'[th[t].on], !.held = TRUE]]
    BY <1>2 DEF ClaimReview
  <2>2. th \in [Threads -> Thread] /\ th[t] \in Thread
    BY Calls
  <2>3. /\ Others(t) /\ th'[t].on = th[t].on /\ th'[t].op = th[t].op /\ th'[t].held
        /\ th'[t].pc = "reenter" /\ th'[t].job = job /\ th'[t].slot = th[t].slot
    BY <2>1, <2>2 DEF Others, Thread
  <2> QED  BY <2>1, <2>3 DEF Takes, CallStep
<1> QED  BY <1>1, <1>2

LEMMA CommandCalls ==
  ASSUME IInv, NEW t \in Threads,
         \/ CreateInsert(t) \/ Develop(t) \/ ResumeRead(t) \/ RetryDevelop(t) \/ RetryReview(t)
         \/ ReReview(t) \/ Reenter(t) \/ OnMergeApproved(t) \/ AbortGroup(t) \/ AbortCommit(t)
  PROVE  CallStep(t)
<1>1. CASE CreateInsert(t) \/ OnMergeApproved(t) \/ AbortCommit(t)
  BY <1>1 DEF CreateInsert, OnMergeApproved, AbortCommit, CallStep
<1>2. CASE Develop(t)
  BY <1>2, ClaimDevelopCall DEF Develop, At
<1>3. CASE RetryDevelop(t)
  BY <1>3, ClaimDevelopCall DEF RetryDevelop, At, CallStep
<1>4. CASE RetryReview(t)
  BY <1>4, ClaimReviewCall DEF RetryReview, At
<1>5. CASE ReReview(t)
  BY <1>5, ClaimReviewCall DEF ReReview, At
<1>6. CASE Reenter(t)
  <2>1. At(t, "reenter") /\ (Return(t) \/ (Run(t, "effect", th[t].job) /\ UNCHANGED lock))
    BY <1>6 DEF Reenter
  <2> QED  BY <2>1, RunFields DEF CallStep, Proceeds, Goes, At
<1>7. CASE AbortGroup(t)
  <2>1. At(t, "abort") /\ Goto(t, "aborted") /\ UNCHANGED lock
    BY <1>7 DEF AbortGroup
  <2> QED  BY <2>1, GotoFields DEF CallStep, Proceeds, Goes, At
<1>8. CASE ResumeRead(t)
  <2>1. CASE Return(t)
    BY <2>1 DEF CallStep
  <2>2. CASE ~Return(t)
    <3>1. /\ At(t, "resume")
          /\ th' = [th EXCEPT ![t] = [th[t] EXCEPT !.pc = "retry", !.op = "retry", !.row = loop[th[t].on]]]
      BY <1>8, <2>2 DEF ResumeRead
    <3>2. th \in [Threads -> Thread] /\ th[t] \in Thread
      BY Calls
    <3>3. Others(t) /\ th'[t].on = th[t].on /\ th'[t].pc = "retry" /\ th'[t].slot = th[t].slot
      BY <3>1, <3>2 DEF Others, Thread
    <3> QED  BY <3>1, <3>3 DEF Resumes, At, CallStep
  <2> QED  BY <2>1, <2>2
<1> QED  BY <1>1, <1>2, <1>3, <1>4, <1>5, <1>6, <1>7, <1>8

LEMMA ContinueCalls ==
  ASSUME IInv, NEW t \in Threads, Continue(t)
  PROVE  CallStep(t)
<1>1. CASE \/ Redrive(t) \/ AutoRetry(t) \/ TickAdvance(t) \/ TickDecide(t) \/ ClaimStalled(t)
           \/ TickNothing(t) \/ Supersede(t) \/ CancelOrphan(t)
  BY <1>1, TickCalls
<1>2. CASE \/ StartReviewRound(t) \/ SettleReviewing(t) \/ AuditDecision(t) \/ StartDevHandoff(t)
           \/ DispatchSdlc(t) \/ WriteRound(t) \/ Touch(t)
  BY <1>2, EffectCalls
<1>3. CASE \/ CreateInsert(t) \/ Develop(t) \/ ResumeRead(t) \/ RetryDevelop(t) \/ RetryReview(t)
           \/ ReReview(t) \/ Reenter(t) \/ OnMergeApproved(t) \/ AbortGroup(t) \/ AbortCommit(t)
  BY <1>3, CommandCalls
<1> QED  BY <1>1, <1>2, <1>3 DEF Continue

LEMMA TickIsACall ==
  ASSUME IInv, NEW t \in Threads, NEW l \in Loops, Tick(t, l)
  PROVE  CallStep(t)
<1> DEFINE call == [Idle EXCEPT !.pc = "tick", !.op = "tick", !.on = l, !.row = loop[l], !.held = TRUE]
<1>1. call.pc = "tick" /\ call.op = "tick" /\ call.on = l /\ call.held /\ ~call.slot
  BY DEF Idle
<1>2. th' = [th EXCEPT ![t] = call] /\ th \in [Threads -> Thread]
  BY Calls DEF Tick
<1> HIDE DEF call
<1>3. Others(t) /\ th'[t] = call
  BY <1>2 DEF Others
<1> QED  BY <1>1, <1>3 DEF Tick, Ticks, CallStep, At

LEMMA RequestIsACall ==
  ASSUME IInv, NEW t \in Threads, NEW l \in Loops, Request(t, l)
  PROVE  CallStep(t)
<1>1. CASE Start(t, l)
  BY <1>1, TickIsACall DEF Start
<1>2. CASE ~Start(t, l)
  <2>1. /\ At(t, "idle") /\ UNCHANGED lock
        /\ \E op, pc : Call(t, op, l, pc) /\ pc \in {"create", "develop", "retry", "rereview", "merge", "abort"}
    BY <1>2 DEF Request, CreateRead, DevelopRead, RetryRead, ReReviewRead, MergeRead, AbortRead
  <2> QED  BY <2>1, CallFields DEF Opens, CallStep, At
<1> QED  BY <1>1, <1>2

(* A step is one of a call, a crash, or none of a call's.                    *)
LEMMA NextCalls ==
  ASSUME IInv, [Next]_vars
  PROVE  \/ \E t \in Threads : CallStep(t)
         \/ \E i \in Instances : Crash(i)
         \/ UNCHANGED <<th, lock>>
<1>1. ASSUME NEW t \in Threads, NEW l \in Loops, Sweep(t, l) PROVE CallStep(t)
  BY <1>1, TickIsACall DEF Sweep
<1>2. ASSUME NEW t \in Threads, NEW l \in Loops, Request(t, l) PROVE CallStep(t)
  BY <1>2, RequestIsACall
<1>3. ASSUME NEW i \in Instances, NEW l \in Loops, Background(i, l) PROVE UNCHANGED <<th, lock>>
  BY <1>3 DEF Background, CoderSettle, StraySettle, ReviewSettle
<1>4. ASSUME NEW g \in Groups, NEW n \in 1..Len(iters[g]), IterationSettle(g, n) PROVE UNCHANGED <<th, lock>>
  BY <1>4 DEF IterationSettle
<1>5. ASSUME NEW l \in Loops, Age(l) PROVE UNCHANGED <<th, lock>>
  BY <1>5 DEF Age
<1>6. CASE UNCHANGED vars
  BY <1>6 DEF vars
<1> QED  BY ContinueCalls, <1>1, <1>2, <1>3, <1>4, <1>5, <1>6 DEF Next
-----------------------------------------------------------------------------
(* Single flight.  Without the auto-resume, which gives the lock entry up in *)
(* mid-call and deletes it again when its retry returns, a call past its     *)
(* claim holds the entry of its loop, and nobody else there does.            *)

Claimed == {"tick", "effect", "plan", "write", "touch", "reenter", "claimed", "orphan"}
LockHeld == \A t \in Threads :
  /\ th[t].pc # "resume" /\ (th[t].held <=> th[t].pc \in Claimed)
  /\ th[t].held => th[t].on \in lock[t[1]]
LockOnce == \A s, t \in Threads :
  th[s].held /\ th[t].held /\ s[1] = t[1] /\ th[s].on = th[t].on => s = t
LockInv == LockHeld /\ LockOnce

(* The entry of a call that goes on holding or not holding it.               *)
LEMMA LockKept ==
  ASSUME IInv, LockInv, NEW t \in Threads, Others(t), UNCHANGED lock,
         th'[t].pc # "resume", th'[t].held <=> th'[t].pc \in Claimed,
         th'[t].held => th[t].held /\ th'[t].on = th[t].on
  PROVE  LockInv'
<1>1. LockHeld'
  BY DEF LockInv, LockHeld, Others
<1>2. LockOnce'
  BY DEF LockInv, LockOnce, Others
<1> QED  BY <1>1, <1>2 DEF LockInv

(* The entry of a call that takes it.                                        *)
LEMMA LockTaken ==
  ASSUME IInv, LockInv, NEW t \in Threads, Others(t), ~th[t].held, ~Locked(t[1], th'[t].on),
         lock' = [lock EXCEPT ![t[1]] = @ \union {th'[t].on}],
         th'[t].pc \in Claimed, th'[t].held
  PROVE  LockInv'
<1>1. lock \in [Instances -> SUBSET Loops] /\ \A s \in Threads : s[1] \in Instances
  BY Calls
<1>2. \A s \in Threads : lock[s[1]] \subseteq lock'[s[1]]
  BY <1>1
<1>3. th'[t].on \in lock'[t[1]] /\ th'[t].on \notin lock[t[1]]
  BY <1>1 DEF Locked
<1>4. LockHeld'
  BY <1>2, <1>3 DEF LockInv, LockHeld, Others, Claimed
<1>5. ASSUME NEW s \in Threads \ {t}, th[s].held, s[1] = t[1] PROVE th[s].on # th'[t].on
  BY <1>3, <1>5 DEF LockInv, LockHeld
<1>6. LockOnce'
  BY <1>5 DEF LockInv, LockOnce, Others
<1> QED  BY <1>4, <1>6 DEF LockInv

LEMMA LockReturned ==
  ASSUME IInv, LockInv, NEW t \in Threads, Return(t)
  PROVE  LockInv'
<1>1. lock \in [Instances -> SUBSET Loops] /\ \A s \in Threads : s[1] \in Instances
  BY Calls
<1>2. Others(t) /\ th'[t].pc = "idle" /\ ~th'[t].held
  BY ReturnFields
<1>3. CASE ~th[t].held
  <2>1. UNCHANGED lock
    BY <1>3 DEF Return
  <2> QED  BY <1>2, <2>1, LockKept DEF Claimed
<1>4. CASE th[t].held
  <2>1. lock' = [lock EXCEPT ![t[1]] = @ \ {th[t].on}]
    BY <1>4 DEF Return
  <2>2. ASSUME NEW s \in Threads \ {t}, th[s].held PROVE th[s].on \in lock'[s[1]]
    <3>1. th[s].on \in lock[s[1]] /\ (s[1] = t[1] => th[s].on # th[t].on)
      BY <1>4, <2>2 DEF LockInv, LockHeld, LockOnce
    <3> QED  BY <1>1, <2>1, <3>1
  <2>3. LockHeld'
    BY <1>2, <2>2 DEF LockInv, LockHeld, Others, Claimed
  <2>4. LockOnce'
    BY <1>2 DEF LockInv, LockOnce, Others
  <2> QED  BY <2>3, <2>4 DEF LockInv
<1> QED  BY <1>3, <1>4

LEMMA LockStep ==
  ASSUME IInv, LockInv, AutoResume = FALSE, [Next]_vars
  PROVE  LockInv'
<1>1. ASSUME NEW t \in Threads, CallStep(t) PROVE LockInv'
  <2>1. th[t].pc # "resume" /\ (th[t].held <=> th[t].pc \in Claimed)
    BY DEF LockInv, LockHeld
  <2>2. CASE Return(t)
    BY <2>2, LockReturned
  <2>3. CASE Proceeds(t)
    <3>1. th'[t].pc # "resume" /\ (th'[t].pc \in Claimed <=> th[t].pc \in Claimed)
      BY <2>3 DEF Proceeds, Goes, Claimed
    <3> QED  BY <2>1, <2>3, <3>1, LockKept DEF Proceeds, Stays
  <2>4. CASE Takes(t)
    <3>1. ~th[t].held
      BY <2>1, <2>4 DEF Takes, Claimed
    <3> QED  BY <2>4, <3>1, LockTaken DEF Takes, Claimed
  <2>5. CASE Resumes(t)
    BY <2>1, <2>5 DEF Resumes
  <2>6. CASE Opens(t)
    BY <2>6, LockKept DEF Opens, Claimed
  <2>7. CASE Ticks(t)
    <3>1. ~th[t].held
      BY <2>1, <2>7 DEF Ticks, Claimed
    <3> QED  BY <2>7, <3>1, LockTaken DEF Ticks, Claimed
  <2> QED  BY <1>1, <2>2, <2>3, <2>4, <2>5, <2>6, <2>7 DEF CallStep
<1>2. ASSUME NEW i \in Instances, Crash(i) PROVE LockInv'
  <2>1. lock \in [Instances -> SUBSET Loops] /\ \A s \in Threads : s[1] \in Instances
    BY Calls
  <2>2. \A s \in Threads : th'[s] = IF s[1] = i THEN Idle ELSE th[s]
    BY <1>2 DEF Crash
  <2>3. \A s \in Threads : s[1] # i => lock'[s[1]] = lock[s[1]]
    BY <1>2, <2>1 DEF Crash
  <2>4. Idle.pc = "idle" /\ ~Idle.held
    BY DEF Idle
  <2>5. LockHeld'
    BY <2>2, <2>3, <2>4 DEF LockInv, LockHeld, Claimed
  <2>6. LockOnce'
    BY <2>2, <2>4 DEF LockInv, LockOnce
  <2> QED  BY <2>5, <2>6 DEF LockInv
<1>3. CASE UNCHANGED <<th, lock>>
  BY <1>3 DEF LockInv, LockHeld, LockOnce
<1> QED  BY <1>1, <1>2, <1>3, NextCalls

(* inFlight: where no tick resumes a throttled loop by itself, an instance   *)
(* has at most one call between the claim of a loop and the end of its side  *)
(* effect, whatever ticks, commands and crashes race.                        *)
THEOREM OneFlight == ASSUME AutoResume = FALSE PROVE Spec => []SingleFlight
<1>1. Init => LockInv
  <2> SUFFICES ASSUME Init PROVE LockInv
    OBVIOUS
  <2>1. \A t \in Threads : th[t] = Idle /\ Idle.pc = "idle" /\ ~Idle.held
    BY DEF Init, Idle
  <2> QED  BY <2>1 DEF LockInv, LockHeld, LockOnce, Claimed
<1>2. IInv /\ LockInv /\ [Next]_vars => LockInv'
  BY LockStep
<1>3. LockInv => SingleFlight
  BY DEF LockInv, LockHeld, LockOnce, SingleFlight, Holding, Claimed
<1> QED  BY <1>1, <1>2, <1>3, InductiveInvariant, PTL DEF Spec

-----------------------------------------------------------------------------
(* The cap on coders.  A command's coder is counted from its reservation to  *)
(* the end of its run.  The reservation outlives the registration, so a run  *)
(* may be counted twice, never missed.                                       *)

Reserving(i) == {t \in Reservations(i) : th[t].pc \in {"effect", "plan"}}
HandsOff(call) == call.pc = "plan" \/ (call.pc = "effect" /\ call.job = "handoff")
SlotHeld == \A t \in Threads :
  /\ th[t].slot => HandsOff(th[t]) \/ th[t].pc = "touch"
  /\ HandsOff(th[t]) /\ th[t].op # "tick" => th[t].slot
  /\ th[t].pc = "tick" => th[t].op = "tick"
  /\ th[t].pc = "reenter" => th[t].job \in {"review", "relaunch"}
RunsCounted == \A i \in Instances :
  /\ IsFiniteSet(CommandRuns(i)) /\ IsFiniteSet(Reservations(i))
  /\ Cardinality(CommandRuns(i)) + Cardinality(Reserving(i)) <= MaxDevRuns
SlotInv == SlotHeld /\ RunsCounted

LEMMA SlotCall ==
  ASSUME IInv, SlotHeld, NEW t \in Threads, CallStep(t)
  PROVE  SlotHeld'
<1> DEFINE Sound(call) == /\ call.slot => HandsOff(call) \/ call.pc = "touch"
                          /\ HandsOff(call) /\ call.op # "tick" => call.slot
                          /\ call.pc = "tick" => call.op = "tick"
                          /\ call.pc = "reenter" => call.job \in {"review", "relaunch"}
<1>1. Others(t)
  BY ReturnFields DEF CallStep, Proceeds, Stays, Takes, Resumes, Opens, Ticks
<1>2. Sound(th[t])
  BY DEF SlotHeld
<1>3. Sound(th'[t])
  <2>1. CASE Return(t)
    BY <2>1, ReturnFields DEF HandsOff
  <2>2. CASE Proceeds(t)
    <3>1. /\ th'[t].op = th[t].op /\ th'[t].slot = th[t].slot
          /\ Goes(th[t].pc, th[t].job, th'[t].pc, th'[t].job)
      BY <2>2 DEF Proceeds, Stays
    <3> QED  BY <1>2, <3>1 DEF Goes, HandsOff
  <2>3. CASE Takes(t)
    BY <1>2, <2>3 DEF Takes, HandsOff
  <2>4. CASE Resumes(t)
    BY <1>2, <2>4 DEF Resumes, HandsOff
  <2>5. CASE Opens(t)
    BY <2>5 DEF Opens, HandsOff
  <2>6. CASE Ticks(t)
    BY <2>6 DEF Ticks, HandsOff
  <2> QED  BY <2>1, <2>2, <2>3, <2>4, <2>5, <2>6 DEF CallStep
<1> QED  BY <1>1, <1>3 DEF SlotHeld, Others, HandsOff
(* What a step does to the registered runs of commands.                      *)

LEMMA SetCoderRuns ==
  ASSUME IInv, NEW i \in Instances, NEW l \in Loops, NEW run \in CoderRun, SetCoder(i, l, run)
  PROVE  /\ \A j \in Instances \ {i} : CommandRuns(j)' = CommandRuns(j)
         /\ CommandRuns(i)' \subseteq CommandRuns(i) \union {l}
         /\ run.round = 0 \/ ~run.via => CommandRuns(i)' \subseteq CommandRuns(i)
<1>1. sdlc \in [Instances -> [Loops -> CoderRun]] /\ sdlc' = [sdlc EXCEPT ![i][l] = run]
  BY DEF IInv, TypeOK, RegistryOK, SetCoder
<1>2. \A j \in Instances, m \in Loops : sdlc'[j][m] = IF j = i /\ m = l THEN run ELSE sdlc[j][m]
  BY <1>1
<1> QED  BY <1>2 DEF CommandRuns

LEMMA DropCoderRuns ==
  ASSUME IInv, NEW i \in Instances, NEW l \in Loops,
         DropCoder(i, l) \/ UNCHANGED <<sdlc, stray>>, NEW j \in Instances
  PROVE  CommandRuns(j)' \subseteq CommandRuns(j)
<1>1. CASE DropCoder(i, l)
  <2>1. NoCoder \in CoderRun /\ NoCoder.round = 0 /\ SetCoder(i, l, NoCoder)
    BY <1>1, NoCoderOK DEF DropCoder, NoCoder
  <2> QED  BY <2>1, SetCoderRuns
<1>2. CASE UNCHANGED <<sdlc, stray>>
  BY <1>2 DEF CommandRuns
<1> QED  BY <1>1, <1>2

LEMMA FewerRuns ==
  ASSUME IInv, [Next]_vars, \A t \in Threads : ~DispatchSdlc(t), NEW j \in Instances
  PROVE  CommandRuns(j)' \subseteq CommandRuns(j)
<1>1. CASE UNCHANGED sdlc
  BY <1>1 DEF CommandRuns
<1>2. ASSUME NEW t \in Threads, Continue(t), ~UNCHANGED sdlc
      PROVE  CommandRuns(j)' \subseteq CommandRuns(j)
  <2>1. TickAdvance(t) \/ TickDecide(t) \/ AbortCommit(t)
    BY <1>2 DEF Continue, Redrive, AutoRetry, ClaimStalled, TickNothing, Supersede, CancelOrphan,
                StartReviewRound, SettleReviewing, AuditDecision, StartDevHandoff, WriteRound, Touch,
                CreateInsert, Develop, ResumeRead, RetryDevelop, RetryReview, ReReview, Reenter,
                OnMergeApproved, AbortGroup, registry
  <2>2. DropCoder(t[1], th[t].on) \/ UNCHANGED <<sdlc, stray>>
    BY <2>1 DEF TickAdvance, TickDecide, AbortCommit
  <2> QED  BY <2>2, OwnRow, DropCoderRuns
<1>3. ASSUME NEW t \in Threads, NEW l \in Loops, Sweep(t, l) PROVE UNCHANGED sdlc
  BY <1>3 DEF Sweep, Tick, registry
<1>4. ASSUME NEW t \in Threads, NEW l \in Loops, Request(t, l) PROVE UNCHANGED sdlc
  BY <1>4 DEF Request, CreateRead, Start, Tick, DevelopRead, RetryRead, ReReviewRead, MergeRead,
              AbortRead, registry
<1>5. ASSUME NEW i \in Instances, NEW l \in Loops, Background(i, l), ~UNCHANGED sdlc
      PROVE  CommandRuns(j)' \subseteq CommandRuns(j)
  <2>1. CoderSettle(i, l)
    BY <1>5 DEF Background, StraySettle, ReviewSettle
  <2>2. PICK res \in CoderResults : sdlc' = [sdlc EXCEPT ![i][l].done = TRUE, ![i][l].res = res]
    BY <2>1 DEF CoderSettle
  <2>3. sdlc \in [Instances -> [Loops -> CoderRun]]
    BY DEF IInv, TypeOK, RegistryOK
  <2>4. sdlc'[i][l].done /\ \A k \in Instances, m \in Loops : k # i \/ m # l => sdlc'[k][m] = sdlc[k][m]
    BY <2>2, <2>3 DEF CoderRun
  <2> QED  BY <2>4 DEF CommandRuns
<1>6. ASSUME NEW g \in Groups, NEW n \in 1..Len(iters[g]), IterationSettle(g, n) PROVE UNCHANGED sdlc
  BY <1>6 DEF IterationSettle, registry
<1>7. ASSUME NEW l \in Loops, Age(l) PROVE UNCHANGED sdlc
  BY <1>7 DEF Age, registry
<1>8. ASSUME NEW i \in Instances, Crash(i) PROVE CommandRuns(j)' \subseteq CommandRuns(j)
  <2>1. sdlc' = [sdlc EXCEPT ![i] = [l \in Loops |-> NoCoder]] /\ sdlc \in [Instances -> [Loops -> CoderRun]]
    BY <1>8 DEF Crash, IInv, TypeOK, RegistryOK
  <2>2. \A m \in Loops : sdlc'[j][m] = IF j = i THEN NoCoder ELSE sdlc[j][m]
    BY <2>1
  <2>3. NoCoder.round = 0
    BY DEF NoCoder
  <2> QED  BY <2>2, <2>3 DEF CommandRuns
<1>9. CASE UNCHANGED vars
  BY <1>9, <1>1 DEF vars
<1> QED  BY <1>1, <1>2, <1>3, <1>4, <1>5, <1>6, <1>7, <1>8, <1>9 DEF Next

(* Sums of counts.                                                           *)

LEMMA SumShrinks ==
  ASSUME NEW R, NEW S, NEW C, NEW D, NEW N \in Nat, IsFiniteSet(R), IsFiniteSet(S),
         C \subseteq R, D \subseteq S, Cardinality(R) + Cardinality(S) <= N
  PROVE  IsFiniteSet(C) /\ Cardinality(C) + Cardinality(D) <= N
<1>1. IsFiniteSet(C) /\ Cardinality(C) <= Cardinality(R) /\ IsFiniteSet(D) /\ Cardinality(D) <= Cardinality(S)
  BY FS_Subset
<1>2. /\ Cardinality(R) \in Nat /\ Cardinality(S) \in Nat
      /\ Cardinality(C) \in Nat /\ Cardinality(D) \in Nat
  BY <1>1, FS_CardinalityType
<1> QED  BY <1>1, <1>2

LEMMA OneMore ==
  ASSUME NEW S, NEW x, NEW T, IsFiniteSet(S), T \subseteq S \union {x}
  PROVE  IsFiniteSet(T) /\ Cardinality(T) <= Cardinality(S) + 1
<1>c. Cardinality(S) \in Nat
  BY FS_CardinalityType
<1>a. /\ IsFiniteSet(S \union {x})
      /\ Cardinality(S \union {x}) = IF x \in S THEN Cardinality(S) ELSE Cardinality(S) + 1
  BY FS_AddElement, Zenon
<1>1. IsFiniteSet(S \union {x}) /\ Cardinality(S \union {x}) <= Cardinality(S) + 1
  <2>1. CASE x \in S
    BY <1>a, <1>c, <2>1
  <2>2. CASE x \notin S
    BY <1>a, <1>c, <2>2
  <2> QED  BY <2>1, <2>2
<1>2. IsFiniteSet(T) /\ Cardinality(T) <= Cardinality(S \union {x})
  BY <1>1, FS_Subset
<1>3. /\ Cardinality(S) \in Nat /\ Cardinality(S \union {x}) \in Nat /\ Cardinality(T) \in Nat
  BY <1>1, <1>2, FS_CardinalityType
<1> QED  BY <1>1, <1>2, <1>3

LEMMA ReservingSome ==
  ASSUME RunsCounted, NEW i \in Instances
  PROVE  /\ Reserving(i) \subseteq Reservations(i) /\ IsFiniteSet(Reserving(i))
         /\ Cardinality(Reserving(i)) <= Cardinality(Reservations(i))
         /\ Cardinality(Reserving(i)) \in Nat /\ Cardinality(Reservations(i)) \in Nat
         /\ Cardinality(CommandRuns(i)) \in Nat
<1>1. Reserving(i) \subseteq Reservations(i)
  BY DEF Reserving
<1> QED  BY <1>1, FS_Subset, FS_CardinalityType DEF RunsCounted

(* A step that adds neither a reservation nor a run.                         *)
LEMMA NothingCounted ==
  ASSUME RunsCounted, NEW i \in Instances, CommandRuns(i)' \subseteq CommandRuns(i),
         Reservations(i)' \subseteq Reservations(i), Reserving(i)' \subseteq Reserving(i)
  PROVE  /\ IsFiniteSet(CommandRuns(i)') /\ IsFiniteSet(Reservations(i)')
         /\ Cardinality(CommandRuns(i)') + Cardinality(Reserving(i)') <= MaxDevRuns
<1>1. /\ IsFiniteSet(CommandRuns(i)) /\ IsFiniteSet(Reservations(i)) /\ IsFiniteSet(Reserving(i))
      /\ Cardinality(CommandRuns(i)) + Cardinality(Reserving(i)) <= MaxDevRuns /\ MaxDevRuns \in Nat
  BY ReservingSome, LoopAssumption DEF RunsCounted
<1>2. IsFiniteSet(Reservations(i)')
  BY <1>1, FS_Subset
<1> QED  BY <1>1, <1>2, SumShrinks

(* A claim reserves while the runs and reservations leave room for it.       *)
LEMMA ClaimCounted ==
  ASSUME IInv, RunsCounted, NEW t \in Threads, Others(t), ~DevBusy(t[1]),
         CommandRuns(t[1])' \subseteq CommandRuns(t[1])
  PROVE  /\ IsFiniteSet(CommandRuns(t[1])') /\ IsFiniteSet(Reservations(t[1])')
         /\ Cardinality(CommandRuns(t[1])') + Cardinality(Reserving(t[1])') <= MaxDevRuns
<1> DEFINE i == t[1]
<1>1. i \in Instances /\ MaxDevRuns \in Nat
  BY Calls, LoopAssumption
<1>2. Reservations(i)' \subseteq Reservations(i) \union {t} /\ Reserving(i)' \subseteq Reservations(i)'
  BY DEF Reservations, Reserving, Others
<1>3. IsFiniteSet(CommandRuns(i)) /\ IsFiniteSet(Reservations(i))
  BY <1>1 DEF RunsCounted
<1>4. IsFiniteSet(Reservations(i)') /\ Cardinality(Reservations(i)') <= Cardinality(Reservations(i)) + 1
  BY <1>2, <1>3, OneMore
<1>5. Cardinality(Reserving(i)') <= Cardinality(Reservations(i)') /\ IsFiniteSet(Reserving(i)')
  BY <1>2, <1>4, FS_Subset
<1>6. IsFiniteSet(CommandRuns(i)') /\ Cardinality(CommandRuns(i)') <= Cardinality(CommandRuns(i))
  BY <1>3, FS_Subset
<1>7. /\ Cardinality(CommandRuns(i)) \in Nat /\ Cardinality(CommandRuns(i)') \in Nat
      /\ Cardinality(Reservations(i)) \in Nat /\ Cardinality(Reservations(i)') \in Nat
      /\ Cardinality(Reserving(i)') \in Nat
  BY <1>3, <1>4, <1>5, <1>6, FS_CardinalityType
<1>8. ~(Cardinality(CommandRuns(i)) + Cardinality(Reservations(i)) >= MaxDevRuns)
  BY DEF DevBusy
<1> HIDE DEF i
<1>9. Cardinality(CommandRuns(i)') + Cardinality(Reserving(i)') <= MaxDevRuns
  BY <1>1, <1>4, <1>5, <1>6, <1>7, <1>8
<1> QED  BY <1>4, <1>6, <1>9 DEF i

(* The registration of a run ends what its reservation stood for.            *)
LEMMA DispatchCounted ==
  ASSUME IInv, SlotInv, NEW t \in Threads, DispatchSdlc(t), NEW i \in Instances
  PROVE  /\ IsFiniteSet(CommandRuns(i)') /\ IsFiniteSet(Reservations(i)')
         /\ Cardinality(CommandRuns(i)') + Cardinality(Reserving(i)') <= MaxDevRuns
<1> DEFINE l == th[t].on
           run == [NoCoder EXCEPT !.round = th[t].row.round, !.via = th[t].op # "tick"]
<1>1. t[1] \in Instances /\ l \in Loops /\ th[t].row.round \in Nat
  BY OwnRow DEF Row
<1>2. run \in CoderRun /\ (run.via <=> th[t].op # "tick")
  BY <1>1, NoCoderOK DEF NoCoder, CoderRun
<1>3. SetCoder(t[1], l, run)
  BY DEF DispatchSdlc, RegisterCoder
<1>4. Stays(t) /\ th'[t].pc = "touch" /\ th[t].pc = "plan"
  BY GotoFields DEF DispatchSdlc, At
<1> HIDE DEF l, run
<1>5. Reservations(i)' \subseteq Reservations(i) /\ Reserving(i)' \subseteq Reserving(i) \ {t}
  BY <1>4 DEF Reservations, Reserving, Stays, Others
<1>6. CASE i # t[1] \/ ~run.via
  <2>1. CommandRuns(i)' \subseteq CommandRuns(i)
    BY <1>1, <1>2, <1>3, <1>6, SetCoderRuns
  <2> QED  BY <1>5, <2>1, NothingCounted DEF SlotInv
<1>7. CASE i = t[1] /\ run.via
  <2>1. CommandRuns(i)' \subseteq CommandRuns(i) \union {l}
    BY <1>1, <1>2, <1>3, <1>7, SetCoderRuns
  <2>2. t \in Reserving(i)
    BY <1>2, <1>4, <1>7 DEF SlotInv, SlotHeld, HandsOff, Reserving, Reservations
  <2>3. /\ IsFiniteSet(CommandRuns(i)) /\ IsFiniteSet(Reservations(i)) /\ IsFiniteSet(Reserving(i))
        /\ Cardinality(CommandRuns(i)) + Cardinality(Reserving(i)) <= MaxDevRuns
        /\ Cardinality(CommandRuns(i)) \in Nat /\ Cardinality(Reserving(i)) \in Nat /\ MaxDevRuns \in Nat
    BY ReservingSome, LoopAssumption DEF SlotInv, RunsCounted
  <2>4. IsFiniteSet(CommandRuns(i)') /\ Cardinality(CommandRuns(i)') <= Cardinality(CommandRuns(i)) + 1
    BY <2>1, <2>3, OneMore
  <2>5. IsFiniteSet(Reserving(i) \ {t}) /\ Cardinality(Reserving(i) \ {t}) = Cardinality(Reserving(i)) - 1
    BY <2>2, <2>3, FS_RemoveElement
  <2>6. IsFiniteSet(Reserving(i)') /\ Cardinality(Reserving(i)') <= Cardinality(Reserving(i) \ {t})
    BY <1>5, <2>5, FS_Subset
  <2>7. Cardinality(CommandRuns(i)') \in Nat /\ Cardinality(Reserving(i)') \in Nat
    BY <2>4, <2>6, FS_CardinalityType
  <2>8. Cardinality(CommandRuns(i)') + Cardinality(Reserving(i)') <= MaxDevRuns
    BY <2>3, <2>4, <2>5, <2>6, <2>7
  <2>9. IsFiniteSet(Reservations(i)')
    BY <1>5, <2>3, FS_Subset
  <2> QED  BY <2>4, <2>8, <2>9
<1> QED  BY <1>6, <1>7

LEMMA CrashIsNoDispatch ==
  ASSUME IInv, NEW i \in Instances, Crash(i), NEW t \in Threads
  PROVE  ~DispatchSdlc(t)
<1>1. th'[t] = IF t[1] = i THEN Idle ELSE th[t]
  BY DEF Crash
<1>2. Idle.pc = "idle"
  BY DEF Idle
<1>3. DispatchSdlc(t) => th[t].pc = "plan" /\ th'[t].pc = "touch"
  BY GotoFields DEF DispatchSdlc, At
<1> QED  BY <1>1, <1>2, <1>3

LEMMA SlotStep ==
  ASSUME IInv, SlotInv, [Next]_vars
  PROVE  SlotInv'
<1> DEFINE Counted(i) == /\ IsFiniteSet(CommandRuns(i)') /\ IsFiniteSet(Reservations(i)')
                         /\ Cardinality(CommandRuns(i)') + Cardinality(Reserving(i)') <= MaxDevRuns
<1>1. ASSUME NEW t \in Threads, CallStep(t) PROVE SlotHeld'
  BY <1>1, SlotCall DEF SlotInv
<1>2. ASSUME NEW t \in Threads, CallStep(t), \A s \in Threads : ~DispatchSdlc(s), NEW i \in Instances
      PROVE  Counted(i)
  <2>1. CommandRuns(i)' \subseteq CommandRuns(i)
    BY <1>2, FewerRuns
  <2>2. CASE Takes(t) /\ ~DevBusy(t[1]) /\ i = t[1]
    BY <2>1, <2>2, ClaimCounted DEF SlotInv, Takes
  <2>3. CASE ~(Takes(t) /\ ~DevBusy(t[1]) /\ i = t[1])
    <3>1. Others(t) /\ (i = t[1] /\ th'[t].slot => th[t].slot)
      BY <1>2, <2>3, ReturnFields DEF CallStep, Proceeds, Stays, Takes, Resumes, Opens, Ticks
    <3>2. i = t[1] /\ th'[t].slot /\ th'[t].pc \in {"effect", "plan"} => th[t].pc \in {"effect", "plan"}
      <4>1. CASE Proceeds(t)
        BY <4>1 DEF Proceeds, Stays, Goes, SlotInv, SlotHeld, HandsOff
      <4>2. CASE ~Proceeds(t)
        BY <1>2, <2>3, <4>2, ReturnFields DEF CallStep, Takes, Resumes, Opens, Ticks
      <4> QED  BY <4>1, <4>2
    <3>3. Reservations(i)' \subseteq Reservations(i) /\ Reserving(i)' \subseteq Reserving(i)
      BY <3>1, <3>2 DEF Reservations, Reserving, Others
    <3> QED  BY <2>1, <3>3, NothingCounted DEF SlotInv
  <2> HIDE DEF Counted
  <2> QED  BY <2>2, <2>3
<1>3. ASSUME NEW i \in Instances, Crash(i) PROVE SlotHeld' /\ \A j \in Instances : Counted(j)
  <2>1. \A s \in Threads : th'[s] = IF s[1] = i THEN Idle ELSE th[s]
    BY <1>3 DEF Crash
  <2>2. Idle.pc = "idle" /\ ~Idle.slot
    BY DEF Idle
  <2>3. SlotHeld'
    BY <2>1, <2>2 DEF SlotInv, SlotHeld, HandsOff
  <2>4. ASSUME NEW j \in Instances PROVE Counted(j)
    <3>1. Reservations(j)' \subseteq Reservations(j) /\ Reserving(j)' \subseteq Reserving(j)
      BY <2>1, <2>2 DEF Reservations, Reserving
    <3>2. CommandRuns(j)' \subseteq CommandRuns(j)
      <4>1. \A t \in Threads : ~DispatchSdlc(t)
        BY <1>3, CrashIsNoDispatch
      <4> QED  BY <4>1, FewerRuns
    <3> QED  BY <3>1, <3>2, NothingCounted DEF SlotInv
  <2> QED  BY <2>3, <2>4
<1>4. ASSUME UNCHANGED <<th, lock>> PROVE SlotHeld' /\ \A j \in Instances : Counted(j)
  <2>1. SlotHeld'
    BY <1>4 DEF SlotInv, SlotHeld, HandsOff
  <2>2. ASSUME NEW j \in Instances PROVE Counted(j)
    <3>1. Reservations(j)' = Reservations(j) /\ Reserving(j)' = Reserving(j)
      BY <1>4 DEF Reservations, Reserving
    <3>2. \A t \in Threads : ~DispatchSdlc(t)
      BY <1>4, GotoFields DEF DispatchSdlc, At
    <3> QED  BY <3>1, <3>2, FewerRuns, NothingCounted DEF SlotInv
  <2> QED  BY <2>1, <2>2
<1>5. ASSUME NEW t \in Threads, DispatchSdlc(t), NEW i \in Instances PROVE Counted(i)
  BY <1>5, DispatchCounted
<1>6. SlotHeld'
  BY <1>1, <1>3, <1>4, NextCalls
<1>7. \A i \in Instances : Counted(i)
  BY <1>2, <1>3, <1>4, <1>5, NextCalls
<1> QED  BY <1>6, <1>7 DEF SlotInv, RunsCounted

(* R1: with any interleaving of commands, ticks and crashes, the coders of   *)
(* an instance that commands started and that its registry shows stay within *)
(* the cap -- inFlightDevCommandCount and devCommandReservations.            *)
THEOREM CoderRunsCapped == Spec => []DevRunsWithinCap
<1>1. Init => SlotInv
  <2> SUFFICES ASSUME Init PROVE SlotInv
    OBVIOUS
  <2>1. \A t \in Threads : th[t].pc = "idle" /\ ~th[t].slot
    BY DEF Init, Idle
  <2>2. \A i \in Instances : CommandRuns(i) = {} /\ Reservations(i) = {} /\ Reserving(i) = {}
    BY <2>1 DEF Init, NoCoder, CommandRuns, Reservations, Reserving
  <2>3. IsFiniteSet({}) /\ Cardinality({}) = 0 /\ MaxDevRuns \in Nat
    BY FS_EmptySet, LoopAssumption
  <2> QED  BY <2>1, <2>2, <2>3 DEF SlotInv, SlotHeld, HandsOff, RunsCounted
<1>2. IInv /\ SlotInv /\ [Next]_vars => SlotInv'
  BY SlotStep
<1>3. SlotInv => DevRunsWithinCap
  <2> SUFFICES ASSUME SlotInv, NEW i \in Instances PROVE Cardinality(CommandRuns(i)) <= MaxDevRuns
    BY DEF DevRunsWithinCap
  <2>1. /\ Cardinality(CommandRuns(i)) \in Nat /\ Cardinality(Reserving(i)) \in Nat /\ MaxDevRuns \in Nat
        /\ Cardinality(CommandRuns(i)) + Cardinality(Reserving(i)) <= MaxDevRuns
    BY ReservingSome, LoopAssumption DEF SlotInv, RunsCounted
  <2> QED  BY <2>1
<1> QED  BY <1>1, <1>2, <1>3, InductiveInvariant, PTL DEF Spec
=============================================================================
