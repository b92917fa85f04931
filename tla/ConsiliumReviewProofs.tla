------------------------- MODULE ConsiliumReviewProofs -------------------------
(* The review a decision is taken on, where the orchestrator runs them: at   *)
(* one instance, and at any number of them in one round.                     *)
EXTENDS ConsiliumLoopProofs

(* Reviews run by the orchestrator: a decision is on the latest iteration.  The *)
(* row's child ref is the last iteration of its group or none, except           *)
(* between the creation of an iteration and the write of its number.            *)

Orchestrated == RunnerMode = FALSE /\ \A l, m \in Loops : GroupOf[l] = GroupOf[m] => l = m

(* An iteration that nobody will complete.                                   *)
Dead(x) == x.worker = {} /\ x.status # "completed"

(* What a step leaves of the rows and iterations but at one loop, of a row's *)
(* child ref and round, and of a group's iterations.                         *)
Elsewhere(l) == \A m \in Loops \ {l} : loop'[m] = loop[m] /\ iters'[GroupOf[m]] = iters[GroupOf[m]]
SameRef(l) == loop'[l].iter = loop[l].iter /\ loop'[l].round = loop[l].round
SameIters(l) ==
  /\ Len(iters'[GroupOf[l]]) = Len(iters[GroupOf[l]])
  /\ \A n \in 1..Len(iters[GroupOf[l]]) : Dead(iters[GroupOf[l]][n]) => Dead(iters'[GroupOf[l]][n])

LEMMA ItersKept ==
  ASSUME NEW l, UNCHANGED iters
  PROVE  iters'[GroupOf[l]] = iters[GroupOf[l]] /\ SameIters(l)
  BY DEF SameIters, Dead

LEMMA IterEdit ==
  ASSUME IInv, Orchestrated, NEW l \in Loops, NEW n \in 1..Len(iters[GroupOf[l]]), NEW x \in Iteration,
         iters' = [iters EXCEPT ![GroupOf[l]][n] = x],
         Dead(iters[GroupOf[l]][n]) => Dead(x)
  PROVE  SameIters(l) /\ \A m \in Loops \ {l} : iters'[GroupOf[m]] = iters[GroupOf[m]]
<1> DEFINE g == GroupOf[l]
<1>1. g \in Groups /\ iters \in [Groups -> Seq(Iteration)] /\ \A m \in Loops : GroupOf[m] \in Groups
  BY DEF IInv, TypeOK, ItersOK, Groups
<1>2. \A h \in Groups : Len(iters'[h]) = Len(iters[h])
  BY <1>1, IterWrite DEF IInv, TypeOK
<1>3. iters'[g] = [iters[g] EXCEPT ![n] = x] /\ \A h \in Groups \ {g} : iters'[h] = iters[h]
  BY <1>1
<1>4. \A m \in Loops \ {l} : GroupOf[m] # g
  BY DEF Orchestrated
<1>5. \A k \in 1..Len(iters[g]) : iters'[g][k] = IF k = n THEN x ELSE iters[g][k]
  <2> HIDE DEF g
  <2> QED  BY <1>1, <1>3
<1>6. \A k \in 1..Len(iters[GroupOf[l]]) : Dead(iters[g][k]) => Dead(iters'[g][k])
  BY <1>5 DEF Dead
<1> QED  BY <1>1, <1>2, <1>3, <1>4, <1>6 DEF SameIters

LEMMA IterStatus ==
  ASSUME IInv, Orchestrated, NEW l \in Loops, NEW n \in Nat, n <= Len(iters[GroupOf[l]]),
         iters' = [iters EXCEPT ![GroupOf[l]][n].status = "cancelled"]
  PROVE  SameIters(l) /\ \A m \in Loops \ {l} : iters'[GroupOf[m]] = iters[GroupOf[m]]
<1> DEFINE g == GroupOf[l]  x == [iters[g][n] EXCEPT !.status = "cancelled"]
<1>1. g \in Groups /\ iters[g] \in Seq(Iteration) /\ iters[g] \in [1..Len(iters[g]) -> Iteration]
  BY DEF IInv, TypeOK, ItersOK, Groups
<1>2. iters' = [iters EXCEPT ![g][n] = x]
  OBVIOUS
<1>3. CASE n = 0
  <2>1. [iters[g] EXCEPT ![n] = x] = iters[g]
    BY <1>1, <1>3
  <2>2. iters' = [iters EXCEPT ![g] = iters[g]]
    BY <1>2, <2>1
  <2>3. UNCHANGED iters
    BY <1>1, <2>2 DEF IInv, TypeOK, ItersOK
  <2> QED  BY <2>3, ItersKept
<1>4. CASE n # 0
  <2>1. n \in 1..Len(iters[g]) /\ iters[g][n] \in Iteration
    BY <1>1, <1>4
  <2>2. x \in Iteration /\ x.worker = iters[g][n].worker /\ x.status = "cancelled"
    BY <2>1 DEF Iteration
  <2>3. n \in 1..Len(iters[GroupOf[l]]) /\ (Dead(iters[GroupOf[l]][n]) => Dead(x))
    BY <2>1, <2>2 DEF Dead
  <2> HIDE DEF x
  <2> QED  BY <1>2, <2>2, <2>3, IterEdit
<1> QED  BY <1>3, <1>4

(* Writing a row: a won swap, the refresh of updatedAt, another field.       *)
LEMMA CasRef ==
  ASSUME IInv, NEW l \in Loops, NEW on, NEW to, NEW res, Cas(l, on, to, res)
  PROVE  /\ SameRef(l) /\ loop'[l].state = to /\ ~loop'[l].old
         /\ \A m \in Loops \ {l} : loop'[m] = loop[m]
<1> DEFINE new == Moved(loop[l], on, to, res)
<1>1. loop \in [Loops -> Row] /\ loop[l] \in Row
  BY DEF IInv, TypeOK, LoopsOK
<1>2. new.iter = loop[l].iter /\ new.round = loop[l].round /\ new.state = to /\ ~new.old
  BY <1>1 DEF Moved, Row
<1>3. loop' = [loop EXCEPT ![l] = new]
  BY DEF Cas
<1> HIDE DEF new
<1> QED  BY <1>1, <1>2, <1>3 DEF SameRef

LEMMA FreshRef ==
  ASSUME IInv, NEW l \in Loops, NEW old, loop' = [loop EXCEPT ![l].old = old]
  PROVE  /\ SameRef(l) /\ loop'[l].state = loop[l].state /\ loop'[l].old = old
         /\ \A m \in Loops \ {l} : loop'[m] = loop[m]
<1>1. loop \in [Loops -> Row] /\ loop[l] \in Row
  BY DEF IInv, TypeOK, LoopsOK
<1> QED  BY <1>1 DEF SameRef, Row

(* The call of a step that is not a request's or a sweep's first.            *)
LEMMA CallFrame ==
  ASSUME IInv, NEW t \in Threads, CallStep(t), th[t].pc # "idle"
  PROVE  /\ Others(t) /\ (th'[t].on = th[t].on \/ th'[t].pc = "idle") /\ th'[t].pc # "tick"
         /\ th'[t].pc = "write" => th[t].pc = "effect" /\ th[t].job \in {"review", "relaunch"}
<1>1. CASE Return(t)
  BY <1>1, ReturnFields
<1>2. CASE ~Return(t)
  BY <1>2 DEF CallStep, Proceeds, Goes, Stays, Takes, Resumes, Opens, Ticks
<1> QED  BY <1>1, <1>2

(* The steps of a call that neither create an iteration nor write a ref.     *)
QuietRow(l) == Elsewhere(l) /\ SameRef(l) /\ SameIters(l)

LEMMA QuietTicks ==
  ASSUME IInv, Orchestrated, NEW t \in Threads,
         \/ Redrive(t) \/ AutoRetry(t) \/ TickAdvance(t) \/ TickDecide(t) \/ ClaimStalled(t)
         \/ TickNothing(t) \/ CancelOrphan(t)
  PROVE  QuietRow(th[t].on)
<1> DEFINE l == th[t].on
<1>1. l \in Loops /\ loop \in [Loops -> Row]
  BY OwnRow DEF IInv, TypeOK, LoopsOK
<1>2. ASSUME UNCHANGED iters, \/ UNCHANGED loop
                              \/ \E old : loop' = [loop EXCEPT ![l].old = old]
                              \/ \E on, to, res : Cas(l, on, to, res)
      PROVE  QuietRow(l)
  <2>1. SameRef(l) /\ \A m \in Loops \ {l} : loop'[m] = loop[m]
    BY <1>1, <1>2, CasRef, FreshRef DEF SameRef
  <2> QED  BY <1>2, <2>1, ItersKept DEF QuietRow, Elsewhere
<1>3. CASE Redrive(t)
  BY <1>2, <1>3 DEF Redrive
<1>4. CASE AutoRetry(t)
  <2>1. UNCHANGED iters /\ (UNCHANGED loop \/ loop' = [loop EXCEPT ![l].tries = th[t].row.tries + 1])
    BY <1>4 DEF AutoRetry
  <2>2. SameRef(l) /\ \A m \in Loops \ {l} : loop'[m] = loop[m]
    BY <1>1, <2>1 DEF SameRef, Row
  <2> QED  BY <2>1, <2>2, ItersKept DEF QuietRow, Elsewhere
<1>5. CASE TickAdvance(t)
  <2>1. UNCHANGED iters /\ (UNCHANGED loop \/ \E on, to, res : Cas(l, on, to, res))
    BY <1>5 DEF TickAdvance
  <2> QED  BY <1>2, <2>1
<1>6. CASE TickDecide(t)
  <2>1. UNCHANGED iters /\ (UNCHANGED loop \/ \E on, to, res : Cas(l, on, to, res))
    BY <1>6 DEF TickDecide
  <2> QED  BY <1>2, <2>1
<1>7. CASE ClaimStalled(t)
  BY <1>2, <1>7 DEF ClaimStalled
<1>8. CASE TickNothing(t)
  BY <1>2, <1>8 DEF TickNothing, db
<1>9. CASE CancelOrphan(t)
  <2>1. UNCHANGED loop /\ iters' = [iters EXCEPT ![GroupOf[l]][th[t].row.iter].status = "cancelled"]
    BY <1>9 DEF CancelOrphan
  <2>2. th[t].row.iter \in Nat /\ th[t].row.iter <= Len(iters[GroupOf[l]])
    BY OwnRow DEF Row
  <2> QED  BY <1>1, <2>1, <2>2, IterStatus DEF QuietRow, Elsewhere, SameRef
<1> QED  BY <1>3, <1>4, <1>5, <1>6, <1>7, <1>8, <1>9

LEMMA QuietEffects ==
  ASSUME IInv, Orchestrated, NEW t \in Threads,
         \/ SettleReviewing(t) \/ AuditDecision(t) \/ StartDevHandoff(t) \/ DispatchSdlc(t) \/ Touch(t)
  PROVE  QuietRow(th[t].on)
<1> DEFINE l == th[t].on
<1>1. l \in Loops /\ UNCHANGED iters
  BY OwnRow DEF SettleReviewing, AuditDecision, StartDevHandoff, DispatchSdlc, Touch, db
<1>2. UNCHANGED loop \/ loop' = [loop EXCEPT ![l].old = FALSE]
  BY DEF SettleReviewing, AuditDecision, StartDevHandoff, DispatchSdlc, Touch, db
<1>3. SameRef(l) /\ \A m \in Loops \ {l} : loop'[m] = loop[m]
  <2> HIDE DEF l
  <2> QED  BY <1>1, <1>2, FreshRef DEF SameRef
<1> QED  BY <1>1, <1>3, ItersKept DEF QuietRow, Elsewhere

LEMMA QuietCommands ==
  ASSUME IInv, Orchestrated, NEW t \in Threads,
         \/ CreateInsert(t) \/ Develop(t) \/ ResumeRead(t) \/ RetryDevelop(t) \/ RetryReview(t)
         \/ ReReview(t) \/ Reenter(t) \/ OnMergeApproved(t) \/ AbortGroup(t) \/ AbortCommit(t)
  PROVE  QuietRow(th[t].on)
<1> DEFINE l == th[t].on
<1>1. l \in Loops /\ loop \in [Loops -> Row]
  BY OwnRow DEF IInv, TypeOK, LoopsOK
<1>2. ASSUME UNCHANGED iters, UNCHANGED loop \/ \E on, to, res : Cas(l, on, to, res)
      PROVE  QuietRow(l)
  <2>1. SameRef(l) /\ \A m \in Loops \ {l} : loop'[m] = loop[m]
    BY <1>1, <1>2, CasRef DEF SameRef
  <2> QED  BY <1>2, <2>1, ItersKept DEF QuietRow, Elsewhere
<1>3. CASE CreateInsert(t)
  <2>1. UNCHANGED iters /\ (UNCHANGED loop \/ loop' = [loop EXCEPT ![l].state = "pending"])
    BY <1>3 DEF CreateInsert
  <2>2. SameRef(l) /\ \A m \in Loops \ {l} : loop'[m] = loop[m]
    BY <1>1, <2>1 DEF SameRef, Row
  <2> QED  BY <2>1, <2>2, ItersKept DEF QuietRow, Elsewhere
<1>4. CASE Develop(t) \/ RetryDevelop(t)
  <2>1. UNCHANGED iters /\ (UNCHANGED loop \/ \E on, to, res : Cas(l, on, to, res))
    BY <1>4 DEF Develop, RetryDevelop, ClaimDevelop
  <2> QED  BY <1>2, <2>1
<1>5. CASE RetryReview(t) \/ ReReview(t)
  <2>1. UNCHANGED iters /\ (UNCHANGED loop \/ \E on, to, res : Cas(l, on, to, res))
    BY <1>5 DEF RetryReview, ReReview, ClaimReview
  <2> QED  BY <1>2, <2>1
<1>6. CASE ResumeRead(t)
  BY <1>2, <1>6 DEF ResumeRead, db
<1>7. CASE Reenter(t)
  <2>1. UNCHANGED iters /\ (UNCHANGED loop \/ \E on, to, res : Cas(l, on, to, res))
    BY <1>7 DEF Reenter
  <2> QED  BY <1>2, <2>1
<1>8. CASE OnMergeApproved(t)
  <2>1. UNCHANGED iters /\ (UNCHANGED loop \/ \E on, to, res : Cas(l, on, to, res))
    BY <1>8 DEF OnMergeApproved
  <2> QED  BY <1>2, <2>1
<1>9. CASE AbortCommit(t)
  <2>1. UNCHANGED iters /\ (UNCHANGED loop \/ \E on, to, res : Cas(l, on, to, res))
    BY <1>9 DEF AbortCommit
  <2> QED  BY <1>2, <2>1
<1>10. CASE AbortGroup(t)
  <2> DEFINE n == Len(iters[GroupOf[l]])
  <2>1. n \in Nat
    BY <1>1 DEF IInv, TypeOK, ItersOK, Groups
  <2>2. UNCHANGED loop /\ (UNCHANGED iters \/ iters' = [iters EXCEPT ![GroupOf[l]][n].status = "cancelled"])
    BY <1>10 DEF AbortGroup
  <2>3. SameIters(l) /\ \A m \in Loops \ {l} : iters'[GroupOf[m]] = iters[GroupOf[m]]
    <3>1. CASE UNCHANGED iters
      BY <3>1, ItersKept
    <3>2. CASE iters' = [iters EXCEPT ![GroupOf[l]][n].status = "cancelled"]
      <4>1. n <= Len(iters[GroupOf[l]])
        BY <2>1
      <4> HIDE DEF n, l
      <4> QED  BY <1>1, <2>1, <3>2, <4>1, IterStatus
    <3> QED  BY <2>2, <3>1, <3>2
  <2> QED  BY <2>2, <2>3 DEF QuietRow, Elsewhere, SameRef
<1> QED  BY <1>3, <1>4, <1>5, <1>6, <1>7, <1>8, <1>9, <1>10

(* The steps that create an iteration, and that drop or write a ref.         *)
ReadsRow(t, l) ==
  /\ th[t].pc = "idle" /\ th'[t].pc = "tick" /\ th'[t].on = l /\ th'[t].row = loop[l]
  /\ UNCHANGED <<loop, iters>>
Appends(t, l) ==
  /\ th[t].on = l /\ th[t].pc = "effect" /\ th[t].job \in {"review", "relaunch"}
  /\ th'[t].on = l /\ th'[t].pc = "write" /\ th'[t].row.iter = Len(iters'[GroupOf[l]])
  /\ th'[t].row.round = NextRound(t)
  /\ Len(iters'[GroupOf[l]]) = Len(iters[GroupOf[l]]) + 1
  /\ \A n \in 1..Len(iters[GroupOf[l]]) : Dead(iters[GroupOf[l]][n]) => Dead(iters'[GroupOf[l]][n])
  /\ UNCHANGED loop
DropsRef(t, l) ==
  /\ th[t].on = l /\ th[t].pc = "claimed" /\ th[t].row.iter <= Len(iters[GroupOf[l]])
  /\ th'[t].on = l /\ th'[t].pc = "orphan" /\ th'[t].row = th[t].row
  /\ loop'[l].iter = 0 /\ loop'[l].round = loop[l].round /\ loop'[l].state = loop[l].state /\ ~loop'[l].old
  /\ UNCHANGED iters
WritesRef(t, l) ==
  /\ th[t].on = l /\ th[t].pc = "write" /\ th'[t].pc = "idle"
  /\ loop'[l].iter = th[t].row.iter /\ loop'[l].round = th[t].row.round
  /\ loop'[l].state = loop[l].state /\ ~loop'[l].old
  /\ UNCHANGED iters

LEMMA StartedIteration ==
  ASSUME IInv, Orchestrated, NEW t \in Threads, StartReviewRound(t)
  PROVE  \/ QuietRow(th[t].on) /\ (Return(t) \/ Goto(t, "touch"))
         \/ Appends(t, th[t].on) /\ Others(t) /\ Elsewhere(th[t].on)
<1> DEFINE l == th[t].on  g == GroupOf[l]
<1>1. /\ l \in Loops /\ loop \in [Loops -> Row] /\ g \in Groups /\ iters \in [Groups -> Seq(Iteration)]
      /\ \A m \in Loops \ {l} : GroupOf[m] \in Groups \ {g}
  BY OwnRow DEF IInv, TypeOK, LoopsOK, ItersOK, Orchestrated, Groups
<1>2. CASE UnresolvedRef(t)
  <2>1. UNCHANGED iters /\ Return(t) /\ (UNCHANGED loop \/ Cas(l, "review_failed", "failed", "none"))
    BY <1>2 DEF UnresolvedRef
  <2>2. SameRef(l) /\ \A m \in Loops \ {l} : loop'[m] = loop[m]
    BY <1>1, <2>1, CasRef DEF SameRef
  <2> QED  BY <2>1, <2>2, ItersKept DEF QuietRow, Elsewhere
<1>3. CASE StartIteration(t) /\ UNCHANGED iters
  <2>1. Return(t) \/ Goto(t, "touch")
    <3>1. iters[g] # Append(iters[g], [status |-> "running", worker |-> {t[1]}, verdict |-> NoVerdict])
      <4>1. iters[g] \in Seq(Iteration)
        BY <1>1
      <4>2. \A x : Len(Append(iters[g], x)) = Len(iters[g]) + 1
        BY <4>1
      <4> QED  BY <4>1, <4>2
    <3> QED  BY <1>1, <1>3, <3>1 DEF StartIteration
  <2> QED  BY <1>3, <2>1, ItersKept DEF StartIteration, QuietRow, Elsewhere, SameRef
<1>4. CASE StartIteration(t) /\ ~UNCHANGED iters
  <2> DEFINE x == [status |-> "running", worker |-> {t[1]}, verdict |-> NoVerdict]
             row == [th[t].row EXCEPT !.round = NextRound(t), !.iter = Len(iters[g]) + 1,
                       !.redrives = IF th[t].job = "relaunch" THEN th[t].row.redrives ELSE 0]
  <2>1. /\ UNCHANGED loop /\ iters' = [iters EXCEPT ![g] = Append(iters[g], x)]
        /\ Dispatched(t, Len(iters[g]) + 1)
    BY <1>4 DEF StartIteration
  <2>2. th' = [th EXCEPT ![t] = [th[t] EXCEPT !.pc = "write", !.row = row]]
    BY <2>1 DEF Dispatched
  <2>3. th \in [Threads -> Thread] /\ th[t] \in Thread /\ th[t].row \in Row
    BY Calls, OwnRow
  <2>4. row.iter = Len(iters[g]) + 1 /\ row.round = NextRound(t)
    BY <2>3 DEF Row
  <2>5. Others(t) /\ th'[t].on = l /\ th'[t].pc = "write" /\ th'[t].row = row
    <3> HIDE DEF row
    <3> QED  BY <2>2, <2>3 DEF Others, Thread
  <2>6. iters'[g] = Append(iters[g], x) /\ \A m \in Loops \ {l} : iters'[GroupOf[m]] = iters[GroupOf[m]]
    <3> HIDE DEF x
    <3> QED  BY <1>1, <2>1
  <2>7. Len(iters'[g]) = Len(iters[g]) + 1 /\ \A n \in 1..Len(iters[g]) : iters'[g][n] = iters[g][n]
    <3>1. iters[g] \in Seq(Iteration)
      BY <1>1
    <3> HIDE DEF x, g
    <3> QED  BY <2>6, <3>1
  <2>8. Elsewhere(l)
    BY <2>1, <2>6 DEF Elsewhere
  <2>9. \A n \in 1..Len(iters[GroupOf[l]]) : Dead(iters[GroupOf[l]][n]) => Dead(iters'[GroupOf[l]][n])
    <3> SUFFICES ASSUME NEW n \in 1..Len(iters[GroupOf[l]])
                 PROVE  Dead(iters[GroupOf[l]][n]) => Dead(iters'[GroupOf[l]][n])
      OBVIOUS
    <3>1. iters'[g][n] = iters[g][n]
      BY <2>7
    <3> QED  BY <3>1 DEF Dead
  <2>10. th[t].pc = "effect" /\ th[t].job \in {"review", "relaunch"}
    BY DEF StartReviewRound, At
  <2> HIDE DEF row, x
  <2> QED  BY <2>1, <2>4, <2>5, <2>7, <2>8, <2>9, <2>10 DEF Appends
<1> QED  BY <1>2, <1>3, <1>4 DEF StartReviewRound, DispatchReview, Orchestrated

(* The rows and calls of a step, by its call t and the loop l it is about.   *)
RefFrame(t, l) ==
  /\ Others(t) /\ Elsewhere(l)
  /\ th[t].on = l \/ th[t].pc = "idle"
  /\ th'[t].on = l \/ th'[t].pc = "idle"
QuietCall(t, l) ==
  SameRef(l) /\ SameIters(l) /\ th[t].pc # "write" /\ th'[t].pc \notin {"tick", "write"}
RefStep(t, l) ==
  /\ RefFrame(t, l)
  /\ QuietCall(t, l) \/ ReadsRow(t, l) \/ Appends(t, l) \/ DropsRef(t, l) \/ WritesRef(t, l)
RefAside == UNCHANGED th /\ \A l \in Loops : SameRef(l) /\ SameIters(l)

LEMMA QuietContinues ==
  ASSUME IInv, NEW t \in Threads, CallStep(t), th[t].pc \notin {"idle", "write"},
         ~(th[t].pc = "effect" /\ th[t].job \in {"review", "relaunch"}), QuietRow(th[t].on)
  PROVE  RefStep(t, th[t].on)
  BY CallFrame DEF RefStep, RefFrame, QuietCall, QuietRow

(* The stalled iteration's ref is dropped before the iteration is cancelled. *)
LEMMA OrphanRef ==
  ASSUME IInv, NEW t \in Threads, th[t].pc = "claimed", Goto(t, "orphan"), UNCHANGED iters,
         loop' = [loop EXCEPT ![th[t].on].iter = 0, ![th[t].on].old = FALSE]
  PROVE  RefFrame(t, th[t].on) /\ DropsRef(t, th[t].on)
<1> DEFINE l == th[t].on
<1>1. l \in Loops /\ loop \in [Loops -> Row]
  BY OwnRow DEF IInv, TypeOK, LoopsOK
<1>2. /\ loop'[l].iter = 0 /\ loop'[l].round = loop[l].round
      /\ loop'[l].state = loop[l].state /\ ~loop'[l].old
      /\ \A m \in Loops \ {l} : loop'[m] = loop[m]
  <2> DEFINE new == [loop[l] EXCEPT !.iter = 0, !.old = FALSE]
  <2>1. loop[l] \in Row
    BY <1>1
  <2>2. new.iter = 0 /\ new.round = loop[l].round /\ new.state = loop[l].state /\ ~new.old
    BY <2>1 DEF Row
  <2>3. loop' = [loop EXCEPT ![l] = new]
    OBVIOUS
  <2> HIDE DEF new
  <2>4. loop'[l] = new /\ \A m \in Loops \ {l} : loop'[m] = loop[m]
    BY <1>1, <2>3
  <2> QED  BY <2>2, <2>4
<1>3. Elsewhere(l)
  BY <1>2 DEF Elsewhere
<1>4. th'[t].row = th[t].row /\ th[t].row.iter <= Len(iters[GroupOf[l]])
  <2>1. th \in [Threads -> Thread] /\ th[t] \in Thread
    BY Calls
  <2> QED  BY <2>1, OwnRow DEF Goto, Thread
<1>5. Others(t) /\ th'[t].on = l /\ th'[t].pc = "orphan"
  BY GotoFields DEF Stays
<1> QED  BY <1>2, <1>3, <1>4, <1>5 DEF RefFrame, DropsRef

LEMMA SupersedeRef ==
  ASSUME IInv, Orchestrated, NEW t \in Threads, Supersede(t)
  PROVE  RefStep(t, th[t].on)
<1> DEFINE l == th[t].on
<1>1. l \in Loops /\ loop \in [Loops -> Row] /\ th[t].pc = "claimed" /\ UNCHANGED iters
  BY OwnRow DEF IInv, TypeOK, LoopsOK, Supersede, At
<1>2. CASE Return(t) /\ (UNCHANGED loop \/ Cas(l, "review_failed", "failed", "none"))
  <2>1. SameRef(l) /\ \A m \in Loops \ {l} : loop'[m] = loop[m]
    BY <1>1, <1>2, CasRef DEF SameRef
  <2>2. QuietRow(l)
    BY <1>1, <2>1, ItersKept DEF QuietRow, Elsewhere
  <2>3. CallStep(t)
    BY <1>2 DEF CallStep
  <2> QED  BY <1>1, <2>2, <2>3, QuietContinues
<1>3. CASE Goto(t, "orphan") /\ loop' = [loop EXCEPT ![l].iter = 0, ![l].old = FALSE]
  BY <1>1, <1>3, OrphanRef DEF RefStep
<1> QED  BY <1>2, <1>3 DEF Supersede

LEMMA WriteRoundRef ==
  ASSUME IInv, NEW t \in Threads, WriteRound(t)
  PROVE  RefStep(t, th[t].on)
<1> DEFINE l == th[t].on  row == th[t].row
           new == [loop[l] EXCEPT !.round = row.round, !.iter = row.iter,
                                  !.redrives = row.redrives, !.old = FALSE]
<1>1. l \in Loops /\ loop \in [Loops -> Row] /\ th[t].pc = "write" /\ UNCHANGED iters /\ Return(t)
  BY OwnRow DEF IInv, TypeOK, LoopsOK, WriteRound, At
<1>2. loop' = [loop EXCEPT ![l] = new]
  BY DEF WriteRound
<1>3. new.iter = row.iter /\ new.round = row.round /\ new.state = loop[l].state /\ ~new.old
  BY <1>1 DEF Row
<1> HIDE DEF new
<1>4. loop'[l] = new /\ \A m \in Loops \ {l} : loop'[m] = loop[m]
  BY <1>1, <1>2
<1>5. Elsewhere(l)
  BY <1>1, <1>4 DEF Elsewhere
<1>6. Others(t) /\ th'[t].pc = "idle"
  BY <1>1, ReturnFields
<1> QED  BY <1>1, <1>3, <1>4, <1>5, <1>6 DEF RefStep, RefFrame, WritesRef

LEMMA StartReviewRef ==
  ASSUME IInv, Orchestrated, NEW t \in Threads, StartReviewRound(t)
  PROVE  RefStep(t, th[t].on)
<1>1. th[t].pc = "effect"
  BY DEF StartReviewRound, At
<1>2. CASE QuietRow(th[t].on) /\ (Return(t) \/ Goto(t, "touch"))
  <2>1. Others(t) /\ (th'[t].on = th[t].on \/ th'[t].pc = "idle") /\ th'[t].pc \in {"idle", "touch"}
    BY <1>2, ReturnFields, GotoFields DEF Stays
  <2> QED  BY <1>1, <1>2, <2>1 DEF RefStep, RefFrame, QuietCall, QuietRow
<1>3. CASE Appends(t, th[t].on) /\ Others(t) /\ Elsewhere(th[t].on)
  BY <1>3 DEF RefStep, RefFrame, Appends
<1> QED  BY <1>2, <1>3, StartedIteration

LEMMA ContinueRef ==
  ASSUME IInv, Orchestrated, NEW t \in Threads, Continue(t)
  PROVE  RefStep(t, th[t].on)
<1>1. CallStep(t)
  BY ContinueCalls
<1>2. CASE \/ Redrive(t) \/ AutoRetry(t) \/ TickAdvance(t) \/ TickDecide(t) \/ ClaimStalled(t)
           \/ TickNothing(t) \/ CancelOrphan(t)
  <2>1. th[t].pc \in {"tick", "orphan"}
    BY <1>2 DEF Redrive, AutoRetry, TickAdvance, TickDecide, ClaimStalled, TickNothing, CancelOrphan, At
  <2> QED  BY <1>1, <1>2, <2>1, QuietTicks, QuietContinues
<1>3. CASE Supersede(t)
  BY <1>3, SupersedeRef
<1>4. CASE StartReviewRound(t)
  BY <1>4, StartReviewRef
<1>5. CASE WriteRound(t)
  BY <1>5, WriteRoundRef
<1>6. CASE \/ SettleReviewing(t) \/ AuditDecision(t) \/ StartDevHandoff(t) \/ DispatchSdlc(t) \/ Touch(t)
  <2>1. th[t].pc \in {"plan", "touch"} \/ (th[t].pc = "effect" /\ th[t].job \notin {"review", "relaunch"})
    BY <1>6 DEF SettleReviewing, AuditDecision, StartDevHandoff, DispatchSdlc, Touch, At
  <2> QED  BY <1>1, <1>6, <2>1, QuietEffects, QuietContinues
<1>7. CASE \/ CreateInsert(t) \/ Develop(t) \/ ResumeRead(t) \/ RetryDevelop(t) \/ RetryReview(t)
           \/ ReReview(t) \/ Reenter(t) \/ OnMergeApproved(t) \/ AbortGroup(t) \/ AbortCommit(t)
  <2>1. th[t].pc \in {"create", "develop", "resume", "retry", "rereview", "reenter", "merge",
                      "abort", "aborted"}
    BY <1>7 DEF CreateInsert, Develop, ResumeRead, RetryDevelop, RetryReview, ReReview, Reenter,
                OnMergeApproved, AbortGroup, AbortCommit, At
  <2> QED  BY <1>1, <1>7, <2>1, QuietCommands, QuietContinues
<1> QED  BY <1>2, <1>3, <1>4, <1>5, <1>6, <1>7 DEF Continue

LEMMA TickRef ==
  ASSUME IInv, NEW t \in Threads, NEW l \in Loops, Tick(t, l)
  PROVE  RefStep(t, l) /\ ReadsRow(t, l)
<1> DEFINE call == [Idle EXCEPT !.pc = "tick", !.op = "tick", !.on = l, !.row = loop[l], !.held = TRUE]
<1>1. call.pc = "tick" /\ call.on = l /\ call.row = loop[l]
  BY DEF Idle
<1>2. /\ th' = [th EXCEPT ![t] = call] /\ th \in [Threads -> Thread]
      /\ UNCHANGED <<loop, iters>> /\ th[t].pc = "idle"
  BY Calls DEF Tick, At, db
<1> HIDE DEF call
<1>3. Others(t) /\ th'[t] = call
  BY <1>2 DEF Others
<1> QED  BY <1>1, <1>2, <1>3 DEF RefStep, RefFrame, ReadsRow, Elsewhere

LEMMA RequestRef ==
  ASSUME IInv, NEW t \in Threads, NEW l \in Loops, Request(t, l)
  PROVE  RefStep(t, l)
<1>1. CASE Start(t, l)
  BY <1>1, TickRef DEF Start
<1>2. CASE ~Start(t, l)
  <2>1. /\ At(t, "idle") /\ UNCHANGED <<loop, iters>>
        /\ \E op, pc : /\ Call(t, op, l, pc)
                       /\ pc \in {"create", "develop", "retry", "rereview", "merge", "abort"}
    BY <1>2 DEF Request, CreateRead, DevelopRead, RetryRead, ReReviewRead, MergeRead, AbortRead, db
  <2>2. PICK op, pc : /\ Call(t, op, l, pc)
                      /\ pc \in {"create", "develop", "retry", "rereview", "merge", "abort"}
    BY <2>1
  <2>3. th'[t].on = l
    BY <2>2, Calls DEF Call, Idle
  <2>4. SameRef(l) /\ SameIters(l) /\ Elsewhere(l)
    BY <2>1, ItersKept DEF SameRef, Elsewhere
  <2> QED  BY <2>1, <2>2, <2>3, <2>4, CallFields DEF RefStep, RefFrame, QuietCall, At
<1> QED  BY <1>1, <1>2

(* The steps that are none of a call's.                                      *)
LEMMA IterationSettleRef ==
  ASSUME IInv, Orchestrated, NEW g \in Groups, NEW n \in 1..Len(iters[g]), IterationSettle(g, n),
         NEW l \in Loops
  PROVE  SameIters(l)
<1>1. iters \in [Groups -> Seq(Iteration)] /\ iters[g][n] \in Iteration /\ iters[g][n].worker # {}
  BY DEF IInv, TypeOK, ItersOK, IterationSettle
<1>2. PICK x \in Iteration : iters' = [iters EXCEPT ![g][n] = x]
  <2>1. CASE \E v \in Verdicts :
               iters' = [iters EXCEPT ![g][n] = [status |-> "completed", worker |-> {}, verdict |-> v]]
    <3>1. \A v \in Verdicts : [status |-> "completed", worker |-> {}, verdict |-> v] \in Iteration
      BY LoopAssumption DEF Iteration, VerdictOrNone
    <3> QED  BY <2>1, <3>1
  <2>2. CASE iters' = [iters EXCEPT ![g][n].status = "failed", ![g][n].worker = {}]
    <3> DEFINE x == [iters[g][n] EXCEPT !.status = "failed", !.worker = {}]
    <3>1. x \in Iteration
      BY <1>1 DEF Iteration
    <3>2. iters' = [iters EXCEPT ![g][n] = x]
      BY <1>1, <2>2
    <3> QED  BY <3>1, <3>2
  <2> QED  BY <2>1, <2>2 DEF IterationSettle
<1>3. PICK m \in Loops : GroupOf[m] = g
  BY DEF Groups
<1>4. SameIters(m) /\ \A k \in Loops \ {m} : iters'[GroupOf[k]] = iters[GroupOf[k]]
  BY <1>1, <1>2, <1>3, IterEdit DEF Dead
<1> QED  BY <1>4 DEF SameIters

LEMMA NextRef ==
  ASSUME IInv, Orchestrated, [Next]_vars
  PROVE  \/ RefAside
         \/ \E i \in Instances : Crash(i)
         \/ \E t \in Threads, l \in Loops : RefStep(t, l)
<1>1. ASSUME NEW t \in Threads, Continue(t) PROVE RefStep(t, th[t].on) /\ th[t].on \in Loops
  BY <1>1, ContinueRef, OwnRow
<1>2. ASSUME NEW t \in Threads, NEW l \in Loops, Sweep(t, l) \/ Request(t, l) PROVE RefStep(t, l)
  BY <1>2, TickRef, RequestRef DEF Sweep
<1>3. ASSUME NEW i \in Instances, NEW l \in Loops, Background(i, l) PROVE RefAside
  BY <1>3, ItersKept DEF Background, CoderSettle, StraySettle, ReviewSettle, RefAside, SameRef, db
<1>4. ASSUME NEW g \in Groups, NEW n \in 1..Len(iters[g]), IterationSettle(g, n) PROVE RefAside
  <2>1. UNCHANGED <<loop, th>>
    BY <1>4 DEF IterationSettle
  <2> QED  BY <1>4, <2>1, IterationSettleRef DEF RefAside, SameRef
<1>5. ASSUME NEW l \in Loops, Age(l) PROVE RefAside
  <2>1. UNCHANGED <<iters, th>> /\ loop' = [loop EXCEPT ![l].old = TRUE]
    BY <1>5 DEF Age
  <2>2. SameRef(l) /\ \A m \in Loops \ {l} : loop'[m] = loop[m]
    BY <2>1, FreshRef
  <2> QED  BY <2>1, <2>2, ItersKept DEF RefAside, SameRef
<1>6. CASE UNCHANGED vars
  BY <1>6, ItersKept DEF vars, RefAside, SameRef
<1> QED  BY <1>1, <1>2, <1>3, <1>4, <1>5, <1>6 DEF Next

(* A loop enters deciding by a tick that read it in review, with the ref it  *)
(* then read, and that iteration completed.                                  *)
LEMMA DecidesByTick ==
  ASSUME IInv, [Next]_vars, NEW l \in Loops, loop[l].state = "reviewing", loop'[l].state = "deciding"
  PROVE  \E t \in Threads : /\ th[t].on = l /\ th[t].pc = "tick" /\ th[t].row.state = "reviewing"
                            /\ ReviewEvent(t[1], l, th[t].row) = "review_completed"
                            /\ loop'[l].iter = loop[l].iter
<1>0. loop \in [Loops -> Row]
  BY DEF IInv, TypeOK, LoopsOK
<1>f. ASSUME NEW k \in Loops, UNCHANGED loop \/ \E old : loop' = [loop EXCEPT ![k].old = old] PROVE FALSE
  BY <1>f, <1>0, FreshRef
<1>c. ASSUME NEW k \in Loops, NEW on, NEW to, NEW res, Cas(k, on, to, res),
             loop[k].state # "reviewing" \/ to # "deciding"
      PROVE  FALSE
  BY <1>c, <1>0, CasRef
<1>1. PICK t \in Threads : Continue(t)
  <2>1. ASSUME NEW s \in Threads, NEW k \in Loops, Sweep(s, k) \/ Request(s, k) PROVE UNCHANGED loop
    BY <2>1 DEF Sweep, Request, Start, Tick, CreateRead, DevelopRead, RetryRead, ReReviewRead,
                MergeRead, AbortRead, db
  <2>2. ASSUME NEW i \in Instances, NEW k \in Loops, Background(i, k) PROVE UNCHANGED loop
    BY <2>2 DEF Background, CoderSettle, StraySettle, ReviewSettle, db
  <2>3. ASSUME NEW g \in Groups, NEW n \in 1..Len(iters[g]), IterationSettle(g, n) PROVE UNCHANGED loop
    BY <2>3 DEF IterationSettle
  <2>4. ASSUME NEW k \in Loops, Age(k) PROVE loop' = [loop EXCEPT ![k].old = TRUE]
    BY <2>4 DEF Age
  <2>5. ASSUME NEW i \in Instances, Crash(i) PROVE UNCHANGED loop
    BY <2>5 DEF Crash
  <2>6. CASE UNCHANGED vars
    BY <2>6, <1>f DEF vars
  <2> QED  BY <1>f, <2>1, <2>2, <2>3, <2>4, <2>5, <2>6 DEF Next
<1> DEFINE m == th[t].on
<1>2. m \in Loops
  BY OwnRow
<1>3. TickAdvance(t)
  <2>1. CASE Redrive(t) \/ ClaimStalled(t) \/ TickNothing(t) \/ CancelOrphan(t)
    BY <2>1, <1>2, <1>f DEF Redrive, ClaimStalled, TickNothing, CancelOrphan, db
  <2>2. CASE AutoRetry(t)
    <3>1. UNCHANGED loop \/ loop' = [loop EXCEPT ![m].tries = th[t].row.tries + 1]
      BY <2>2 DEF AutoRetry
    <3> QED  BY <1>0, <1>2, <3>1 DEF Row
  <2>3. CASE TickDecide(t)
    <3>1. UNCHANGED loop \/ (loop[m].state = "deciding" /\ Cas(m, "decided", DecideTo(m, th[t].row), "none"))
      BY <2>3 DEF TickDecide, CasWins
    <3> QED  BY <1>2, <1>c, <1>f, <3>1
  <2>4. CASE Supersede(t)
    <3>1. \/ UNCHANGED loop \/ Cas(m, "review_failed", "failed", "none")
          \/ loop' = [loop EXCEPT ![m].iter = 0, ![m].old = FALSE]
      BY <2>4 DEF Supersede
    <3>2. CASE loop' = [loop EXCEPT ![m].iter = 0, ![m].old = FALSE]
      BY <1>0, <1>2, <3>2 DEF Row
    <3> QED  BY <1>2, <1>c, <1>f, <3>1, <3>2
  <2>5. CASE StartReviewRound(t)
    <3>1. UNCHANGED loop \/ Cas(m, "review_failed", "failed", "none")
      BY <2>5 DEF StartReviewRound, UnresolvedRef, DispatchReview, StartIteration
    <3> QED  BY <1>2, <1>c, <1>f, <3>1
  <2>6. CASE SettleReviewing(t) \/ AuditDecision(t) \/ StartDevHandoff(t) \/ DispatchSdlc(t) \/ Touch(t)
    <3>1. UNCHANGED loop \/ loop' = [loop EXCEPT ![m].old = FALSE]
      BY <2>6 DEF SettleReviewing, AuditDecision, StartDevHandoff, DispatchSdlc, Touch, db
    <3> QED  BY <1>2, <1>f, <3>1
  <2>7. CASE WriteRound(t)
    <3> DEFINE row == th[t].row
    <3>1. loop' = [loop EXCEPT ![m] = [loop[m] EXCEPT !.round = row.round, !.iter = row.iter,
                                                   !.redrives = row.redrives, !.old = FALSE]]
      BY <2>7 DEF WriteRound
    <3> HIDE DEF row
    <3> QED  BY <1>0, <1>2, <3>1 DEF Row
  <2>8. CASE CreateInsert(t)
    <3>1. UNCHANGED loop \/ loop' = [loop EXCEPT ![m].state = "pending"]
      BY <2>8 DEF CreateInsert
    <3> QED  BY <1>0, <1>2, <3>1 DEF Row
  <2>9. CASE Develop(t) \/ RetryDevelop(t)
    <3>1. UNCHANGED loop \/ \E on : Cas(m, on, "developing", "none")
      BY <2>9 DEF Develop, RetryDevelop, ClaimDevelop
    <3> QED  BY <1>2, <1>c, <1>f, <3>1
  <2>10. CASE RetryReview(t) \/ ReReview(t)
    <3>1. UNCHANGED loop \/ \E on : Cas(m, on, "building_context", "none")
      BY <2>10 DEF RetryReview, ReReview, ClaimReview
    <3> QED  BY <1>2, <1>c, <1>f, <3>1
  <2>11. CASE Reenter(t) \/ ResumeRead(t) \/ AbortGroup(t)
    <3>1. UNCHANGED loop \/ Cas(m, "context_built", "reviewing", "none")
      BY <2>11 DEF Reenter, ResumeRead, AbortGroup, db
    <3> QED  BY <1>2, <1>c, <1>f, <3>1
  <2>12. CASE OnMergeApproved(t)
    <3>1. UNCHANGED loop \/ (loop[m].state = "awaiting_merge" /\ \E to : Cas(m, "merge_approved", to, "none"))
      BY <2>12 DEF OnMergeApproved, CasWins
    <3> QED  BY <1>2, <1>c, <1>f, <3>1
  <2>13. CASE AbortCommit(t)
    <3>1. th[t].op \in {"cancel", "finish"}
      BY <2>13, OwnRow DEF AbortCommit, At, CallOK
    <3>2. UNCHANGED loop \/ \E to \in {"cancelled", "stopped"} : Cas(m, th[t].op, to, "none")
      BY <2>13, <3>1, AbortEdgesOnly DEF AbortCommit
    <3> QED  BY <1>2, <1>c, <1>f, <3>2
  <2> QED  BY <1>1, <2>1, <2>2, <2>3, <2>4, <2>5, <2>6, <2>7, <2>8, <2>9, <2>10, <2>11, <2>12, <2>13
           DEF Continue
<1> DEFINE row == th[t].row  on == Event(t[1], m, row)
<1>4. PICK to \in Reduce(row.state, on, Vbm, FALSE) :
        /\ on # "decided"
        /\ (loop[m].state = row.state /\ Cas(m, on, to, sdlc[t[1]][m].res)) \/ UNCHANGED loop
  BY <1>3 DEF TickAdvance, CasWins
<1>5. loop[m].state = row.state /\ Cas(m, on, to, sdlc[t[1]][m].res)
  BY <1>4, <1>2, <1>f
<1>6. SameRef(m) /\ loop'[m].state = to /\ \A k \in Loops \ {m} : loop'[k] = loop[k]
  <2> HIDE DEF m, on
  <2> QED  BY <1>2, <1>5, CasRef
<1>7. m = l /\ to = "deciding" /\ row.state = "reviewing"
  BY <1>5, <1>6
<1>8. on = "review_completed"
  <2>1. on \notin {"cancel", "finish", "develop_requested", "rereview_requested",
                  "retry_review", "retry_develop", "merge_approved", "decided"}
    BY <1>4, EventOfTick
  <2> HIDE DEF on, row
  <2> QED  BY <1>7, <2>1, TickEdgesOnly
<1>9. ReviewEvent(t[1], l, row) = "review_completed"
  BY <1>7, <1>8 DEF Event
<1>10. th[t].pc = "tick"
  BY <1>3 DEF TickAdvance, At
<1> QED  BY <1>6, <1>7, <1>9, <1>10 DEF SameRef

(* The orchestrator registers no review run.                                 *)
NoRuns == \A i \in Instances, l \in Loops : review[i][l].round = 0

LEMMA NoRunsStep ==
  ASSUME IInv, Orchestrated, NoRuns, [Next]_vars
  PROVE  NoRuns'
<1>0. review \in [Instances -> [Loops -> ReviewRun]]
  BY DEF IInv, TypeOK, RegistryOK
<1>1. CASE UNCHANGED review
  BY <1>1 DEF NoRuns
<1>2. ASSUME NEW i \in Instances, NEW l \in Loops, DropReview(i, l) PROVE NoRuns'
  <2>1. review' = [review EXCEPT ![i][l] = NoReview] /\ NoReview.round = 0
    BY <1>2 DEF DropReview, NoReview
  <2> QED  BY <1>0, <2>1 DEF NoRuns
<1>3. ASSUME NEW t \in Threads, Continue(t) PROVE NoRuns'
  <2>1. t[1] \in Instances /\ th[t].on \in Loops
    BY Calls, OwnRow
  <2>2. CASE \/ Redrive(t) \/ AutoRetry(t) \/ TickAdvance(t) \/ TickDecide(t) \/ ClaimStalled(t)
             \/ TickNothing(t) \/ Supersede(t) \/ CancelOrphan(t)
    BY <1>1, <2>2 DEF Redrive, AutoRetry, TickAdvance, TickDecide, ClaimStalled, TickNothing, Supersede,
                      CancelOrphan, registry
  <2>3. CASE StartReviewRound(t)
    BY <1>1, <2>3 DEF StartReviewRound, UnresolvedRef, DispatchReview, StartIteration, Orchestrated
  <2>4. CASE SettleReviewing(t)
    <3>1. UNCHANGED review \/ DropReview(t[1], th[t].on)
      BY <2>4 DEF SettleReviewing
    <3> QED  BY <1>1, <1>2, <2>1, <3>1
  <2>5. CASE AuditDecision(t) \/ StartDevHandoff(t) \/ DispatchSdlc(t) \/ WriteRound(t) \/ Touch(t)
    BY <1>1, <2>5 DEF AuditDecision, StartDevHandoff, DispatchSdlc, WriteRound, Touch, registry
  <2>6. CASE \/ CreateInsert(t) \/ Develop(t) \/ ResumeRead(t) \/ RetryDevelop(t) \/ RetryReview(t)
             \/ ReReview(t) \/ Reenter(t) \/ OnMergeApproved(t) \/ AbortGroup(t) \/ AbortCommit(t)
    BY <1>1, <2>6 DEF CreateInsert, Develop, ResumeRead, RetryDevelop, RetryReview, ReReview, Reenter,
                      OnMergeApproved, AbortGroup, AbortCommit, registry
  <2> QED  BY <1>3, <2>2, <2>3, <2>4, <2>5, <2>6 DEF Continue
<1>4. ASSUME NEW t \in Threads, NEW l \in Loops, Sweep(t, l) \/ Request(t, l) PROVE NoRuns'
  BY <1>1, <1>4 DEF Sweep, Request, Start, Tick, CreateRead, DevelopRead, RetryRead, ReReviewRead, MergeRead,
                    AbortRead, registry
<1>5. ASSUME NEW i \in Instances, NEW l \in Loops, Background(i, l) PROVE NoRuns'
  <2>1. CASE CoderSettle(i, l) \/ StraySettle(i, l)
    BY <1>1, <2>1 DEF CoderSettle, StraySettle
  <2>2. ~ReviewSettle(i, l)
    BY DEF ReviewSettle, NoRuns, Live
  <2> QED  BY <1>5, <2>1, <2>2 DEF Background
<1>6. ASSUME NEW g \in Groups, NEW n \in 1..Len(iters[g]), IterationSettle(g, n) PROVE NoRuns'
  BY <1>1, <1>6 DEF IterationSettle, registry
<1>7. ASSUME NEW l \in Loops, Age(l) PROVE NoRuns'
  BY <1>1, <1>7 DEF Age, registry
<1>8. ASSUME NEW i \in Instances, Crash(i) PROVE NoRuns'
  <2>1. review' = [review EXCEPT ![i] = [l \in Loops |-> NoReview]] /\ NoReview.round = 0
    BY <1>8 DEF Crash, NoReview
  <2> QED  BY <1>0, <2>1 DEF NoRuns
<1>9. CASE UNCHANGED vars
  BY <1>1, <1>9 DEF vars, registry
<1> QED  BY <1>3, <1>4, <1>5, <1>6, <1>7, <1>8, <1>9 DEF Next

LEMMA NoRunsInit == Init => NoRuns
  BY DEF Init, NoRuns, NoReview

(* A completed review is then one of an iteration.                           *)
LEMMA CompletedIteration ==
  ASSUME NoRuns, NEW i \in Instances, NEW l \in Loops, NEW row \in Row,
         ReviewEvent(i, l, row) = "review_completed"
  PROVE  row.iter # 0 /\ iters[GroupOf[l]][row.iter].status = "completed"
<1>1. ~OwnReview(i, l, row)
  BY DEF NoRuns, OwnReview, Row
<1> QED  BY <1>1 DEF ReviewEvent

-----------------------------------------------------------------------------
(* One instance and no crash, with no loop resumed by itself.                *)

Solo == /\ Orchestrated /\ AutoResume = FALSE /\ "crash" \notin Faults
        /\ \A i, j \in Instances : i = j

(* The ref of a row is the last iteration of its group or none, but while a  *)
(* call that has created one is about to write its number; a tick has read   *)
(* the ref as it is.                                                         *)
Creating(t, l) == th[t].on = l /\ th[t].pc = "write"
RefSound(l) ==
  /\ \A t \in Threads : Creating(t, l) => th[t].row.iter = Len(iters[GroupOf[l]])
  /\ (\A t \in Threads : ~Creating(t, l)) => loop[l].iter \in {0, Len(iters[GroupOf[l]])}
  /\ \A t \in Threads : th[t].on = l /\ th[t].pc = "tick" => th[t].row.iter = loop[l].iter

(* One instance has one call past its claim at a loop.                       *)
LEMMA OnlyHere ==
  ASSUME LockInv, Solo, NEW s \in Threads, NEW t \in Threads, th[s].on = th[t].on,
         th[s].pc \in Claimed, th[t].pc \in Claimed, s[1] \in Instances, t[1] \in Instances
  PROVE  s = t
  BY DEF LockInv, LockHeld, LockOnce, Solo

LEMMA RefElsewhere ==
  ASSUME NEW t \in Threads, NEW l \in Loops, NEW m \in Loops \ {l}, RefSound(m), RefFrame(t, l)
  PROVE  RefSound(m)'
<1>1. \A s \in Threads : Creating(s, m)' <=> Creating(s, m)
  BY DEF RefFrame, Others, Creating
<1>2. \A s \in Threads : Creating(s, m)' => th'[s] = th[s]
  BY DEF RefFrame, Others, Creating
<1>3. \A s \in Threads : th'[s].on = m /\ th'[s].pc = "tick" => th'[s] = th[s]
  BY DEF RefFrame, Others
<1>4. loop'[m] = loop[m] /\ iters'[GroupOf[m]] = iters[GroupOf[m]]
  BY DEF RefFrame, Elsewhere
<1> QED  BY <1>1, <1>2, <1>3, <1>4 DEF RefSound

LEMMA RefHere ==
  ASSUME IInv, LockInv, Solo, NEW t \in Threads, NEW l \in Loops, RefSound(l), RefStep(t, l)
  PROVE  RefSound(l)'
<1> DEFINE n == Len(iters[GroupOf[l]])
<1>0. Others(t) /\ \A s \in Threads : s[1] \in Instances
  BY Calls DEF RefStep, RefFrame
<1>1. ASSUME th[t].on = l, th[t].pc \in Claimed, NEW s \in Threads \ {t}, th'[s].on = l
      PROVE  th'[s].pc \notin Claimed
  BY <1>0, <1>1, OnlyHere DEF Others
<1>2. CASE QuietCall(t, l)
  <2>1. \A s \in Threads : Creating(s, l)' => Creating(s, l) /\ th'[s] = th[s]
    BY <1>0, <1>2 DEF Others, QuietCall, Creating
  <2>2. \A s \in Threads : Creating(s, l) => Creating(s, l)'
    BY <1>0, <1>2 DEF Others, QuietCall, Creating
  <2>3. \A s \in Threads : th'[s].on = l /\ th'[s].pc = "tick" => th'[s] = th[s]
    BY <1>0, <1>2 DEF Others, QuietCall
  <2>4. loop'[l].iter = loop[l].iter /\ Len(iters'[GroupOf[l]]) = Len(iters[GroupOf[l]])
    BY <1>2 DEF QuietCall, SameRef, SameIters
  <2> QED  BY <2>1, <2>2, <2>3, <2>4 DEF RefSound
<1>3. CASE ReadsRow(t, l)
  <2>1. UNCHANGED <<loop, iters>> /\ th'[t].row.iter = loop[l].iter
    BY <1>3 DEF ReadsRow
  <2>2. \A s \in Threads : Creating(s, l)' <=> Creating(s, l)
    BY <1>0, <1>3 DEF Others, ReadsRow, Creating
  <2>3. \A s \in Threads : Creating(s, l)' => th'[s] = th[s]
    BY <1>0, <1>3 DEF Others, ReadsRow, Creating
  <2>4. \A s \in Threads : th'[s].on = l /\ th'[s].pc = "tick" =>
          th'[s] = th[s] \/ th'[s].row.iter = loop[l].iter
    BY <1>0, <2>1 DEF Others
  <2> QED  BY <2>1, <2>2, <2>3, <2>4 DEF RefSound
<1>4. CASE Appends(t, l) \/ DropsRef(t, l) \/ WritesRef(t, l)
  <2>1. th[t].on = l /\ th[t].pc \in Claimed
    BY <1>4 DEF Appends, DropsRef, WritesRef, Claimed
  <2>2. \A s \in Threads \ {t} : th'[s].on = l => th'[s].pc \notin Claimed
    BY <1>1, <2>1
  <2>3. \A s \in Threads \ {t} : ~Creating(s, l)' /\ ~(th'[s].on = l /\ th'[s].pc = "tick")
    BY <2>2 DEF Creating, Claimed
  <2>4. CASE Appends(t, l)
    <3>1. th'[t].on = l /\ th'[t].pc = "write" /\ th'[t].row.iter = Len(iters'[GroupOf[l]])
      BY <2>4 DEF Appends
    <3> QED  BY <2>3, <3>1 DEF RefSound, Creating
  <2>5. CASE DropsRef(t, l)
    <3>1. th'[t].pc = "orphan" /\ loop'[l].iter = 0
      BY <2>5 DEF DropsRef
    <3> QED  BY <2>3, <3>1 DEF RefSound, Creating
  <2>6. CASE WritesRef(t, l)
    <3>1. th'[t].pc = "idle" /\ loop'[l].iter = th[t].row.iter /\ UNCHANGED iters /\ Creating(t, l)
      BY <2>6 DEF WritesRef, Creating
    <3>2. loop'[l].iter = Len(iters'[GroupOf[l]])
      BY <3>1 DEF RefSound
    <3> QED  BY <2>3, <3>1, <3>2 DEF RefSound, Creating
  <2> QED  BY <1>4, <2>4, <2>5, <2>6
<1> QED  BY <1>2, <1>3, <1>4 DEF RefStep

LEMMA RefSoundStep ==
  ASSUME IInv, LockInv, Solo, \A l \in Loops : RefSound(l), [Next]_vars
  PROVE  \A l \in Loops : RefSound(l)'
<1>1. CASE RefAside
  <2> SUFFICES ASSUME NEW l \in Loops PROVE RefSound(l)'
    OBVIOUS
  <2>1. UNCHANGED th /\ loop'[l].iter = loop[l].iter /\ Len(iters'[GroupOf[l]]) = Len(iters[GroupOf[l]])
    BY <1>1 DEF RefAside, SameRef, SameIters
  <2> QED  BY <2>1 DEF RefSound, Creating
<1>2. ASSUME NEW i \in Instances, Crash(i) PROVE FALSE
  BY <1>2 DEF Crash, Fault, Solo
<1>3. ASSUME NEW t \in Threads, NEW l \in Loops, RefStep(t, l) PROVE \A m \in Loops : RefSound(m)'
  BY <1>3, RefHere, RefElsewhere DEF RefStep
<1> QED  BY <1>1, <1>2, <1>3, NextRef DEF Solo

(* recoverStalledReview at one instance: whatever iterations fail or stall,  *)
(* are superseded, cancelled or completed late, and whatever the operators   *)
(* do meanwhile, a loop enters deciding with the latest iteration of its     *)
(* group.                                                                    *)
THEOREM LatestReviewAlone == ASSUME Solo PROVE Spec => DecidesOnLatestReview
<1> DEFINE Inv == IInv /\ LockInv /\ NoRuns /\ \A l \in Loops : RefSound(l)
<1>1. Init => Inv
  <2> SUFFICES ASSUME Init PROVE LockInv /\ \A l \in Loops : RefSound(l)
    BY InitOK, NoRunsInit
  <2>1. \A t \in Threads : th[t] = Idle /\ Idle.pc = "idle" /\ ~Idle.held
    BY DEF Init, Idle
  <2>2. LockInv
    BY <2>1 DEF LockInv, LockHeld, LockOnce, Claimed
  <2>3. \A l \in Loops : loop[l].iter = 0
    BY DEF Init, NoRow
  <2>4. \A l \in Loops : RefSound(l)
    BY <2>1, <2>3 DEF RefSound, Creating
  <2> QED  BY <2>2, <2>4
<1>2. Inv /\ [Next]_vars => Inv'
  BY NextOK, LockStep, NoRunsStep, RefSoundStep DEF Solo
<1>3. Inv /\ [Next]_vars =>
        [\A l \in Loops : loop[l].state = "reviewing" /\ loop'[l].state = "deciding" =>
           loop'[l].iter = Len(iters[GroupOf[l]])]_vars
  <2> SUFFICES ASSUME Inv, [Next]_vars, NEW l \in Loops,
                      loop[l].state = "reviewing", loop'[l].state = "deciding"
               PROVE  loop'[l].iter = Len(iters[GroupOf[l]])
    OBVIOUS
  <2>1. PICK t \in Threads : /\ th[t].on = l /\ th[t].pc = "tick" /\ th[t].row.state = "reviewing"
                             /\ ReviewEvent(t[1], l, th[t].row) = "review_completed"
                             /\ loop'[l].iter = loop[l].iter
    BY DecidesByTick
  <2>2. t[1] \in Instances /\ th[t].row \in Row /\ \A s \in Threads : s[1] \in Instances
    BY Calls, OwnRow
  <2>3. th[t].row.iter # 0
    BY <2>1, <2>2, CompletedIteration
  <2>4. th[t].row.iter = loop[l].iter
    BY <2>1 DEF RefSound
  <2>5. \A s \in Threads : ~Creating(s, l)
    <3> SUFFICES ASSUME NEW s \in Threads, Creating(s, l) PROVE FALSE
      OBVIOUS
    <3>1. s = t
      BY <2>1, <2>2, OnlyHere DEF Creating, Claimed
    <3> QED  BY <2>1, <3>1 DEF Creating
  <2> QED  BY <2>1, <2>3, <2>4, <2>5 DEF RefSound
<1> QED  BY <1>1, <1>2, <1>3, PTL DEF Spec, DecidesOnLatestReview

-----------------------------------------------------------------------------
(* One round, with crashes and any number of instances, as long as time      *)
(* passes only for a loop nobody works for.                                  *)

Once == Orchestrated /\ GraceCovers = TRUE /\ MaxRounds = 1 /\ "develop" \notin Commands

(* A call at work on a review: about to create its iteration, or past that;  *)
(* a call that is none of a hand-off, a resume or a second review.           *)
ToReview(call) == call.pc = "effect" /\ call.job \in {"review", "relaunch"}
Busy(call) == ToReview(call) \/ call.pc \in {"write", "claimed", "orphan"}
Simple(call) ==
  /\ call.pc \notin {"plan", "develop", "retry", "rereview", "reenter", "resume"}
  /\ ~(call.pc = "effect" /\ call.job = "handoff")

(* Before its review a loop has no iteration and nobody works on one.        *)
Early == {"none", "pending", "building_context"}
Unreviewed(l) == loop[l].state \in Early =>
  /\ Len(iters[GroupOf[l]]) = 0 /\ loop[l].iter = 0
  /\ \A t \in Threads : th[t].on = l => ~Busy(th[t]) /\ (th[t].pc = "tick" => th[t].row.iter = 0)

(* In review one call at most works on it and the row is fresh meanwhile;    *)
(* the row has the last iteration or, while a call creates the next, none.   *)
(* A row past the grace window has a dead iteration, and so has a tick that  *)
(* read a ref that is no longer the row's.                                   *)
CallInReview(t, l) ==
  /\ Busy(th[t]) => ~loop[l].old
  /\ Busy(th[t]) /\ th[t].pc # "claimed" => loop[l].iter = 0
  /\ th[t].pc = "write" => th[t].row.iter = Len(iters[GroupOf[l]])
  /\ th[t].pc = "claimed" => /\ th[t].row.iter = loop[l].iter /\ loop[l].iter > 0
                             /\ Dead(iters[GroupOf[l]][loop[l].iter])
  /\ th[t].pc = "tick" /\ th[t].row.state = "reviewing" /\ th[t].row.iter > 0 =>
       th[t].row.iter = loop[l].iter \/ Dead(iters[GroupOf[l]][th[t].row.iter])
InReview(l) == loop[l].state = "reviewing" =>
  /\ \A s, t \in Threads : th[s].on = l /\ th[t].on = l /\ Busy(th[s]) /\ Busy(th[t]) => s = t
  /\ loop[l].iter \in {0, Len(iters[GroupOf[l]])}
  /\ loop[l].old /\ loop[l].iter > 0 => Dead(iters[GroupOf[l]][loop[l].iter])
  /\ \A t \in Threads : th[t].on = l => CallInReview(t, l)

(* A ref, and a decision, come with a round.                                 *)
CallNumbered(call) ==
  /\ call.pc = "tick" /\ (call.row.iter > 0 \/ call.row.state = "deciding") => call.row.round > 0
  /\ call.pc \in {"write", "claimed", "orphan"} \/ (call.pc = "effect" /\ call.job = "relaunch") =>
       call.row.round > 0
Numbered(l) ==
  /\ loop[l].iter > 0 => loop[l].round > 0
  /\ loop[l].state = "deciding" => loop[l].round > 0
  /\ \A t \in Threads : th[t].on = l => CallNumbered(th[t])

(* A loop of one round comes to no development.                              *)
OneRound(l) == loop[l].state \notin {"developing", "throttled"} /\ (loop[l].state = "awaiting_merge" => Vbm)

OnceAt(l) == Unreviewed(l) /\ InReview(l) /\ Numbered(l) /\ OneRound(l)
OnceInv == (\A t \in Threads : Simple(th[t])) /\ \A l \in Loops : OnceAt(l)

(* The kinds of steps of a call t on l: it leaves the row's state alone or   *)
(* moves it on, enters the review, claims a stalled one, supersedes it,      *)
(* creates an iteration and writes its number.                               *)
Quits(t) == ~Busy(th'[t]) /\ th'[t].pc # "tick" /\ Simple(th'[t])
Rests(t, l) ==
  /\ Quits(t) /\ SameRef(l) /\ SameIters(l)
  /\ loop'[l].state = loop[l].state /\ (loop'[l].old => loop[l].old)
Passes(t, l) ==
  /\ Quits(t) /\ SameRef(l) /\ SameIters(l)
  /\ \/ loop[l].state \in {"none", "pending"} /\ loop'[l].state \in {"pending", "building_context"}
     \/ /\ loop'[l].state \notin Early \union {"reviewing", "developing", "throttled"}
        /\ loop'[l].state = "awaiting_merge" => Vbm
        /\ loop'[l].state = "deciding" => loop[l].round > 0
Enters(t, l) ==
  /\ loop[l].state = "building_context" /\ loop'[l].state = "reviewing" /\ ~loop'[l].old
  /\ SameRef(l) /\ SameIters(l)
  /\ th'[t].on = l /\ th'[t].pc = "effect" /\ th'[t].job = "review"
Reclaims(t, l) ==
  /\ loop[l].state = "reviewing" /\ loop'[l].state = "reviewing" /\ loop[l].old /\ ~loop'[l].old
  /\ SameRef(l) /\ SameIters(l) /\ th'[t].on = l
  /\ \/ th'[t].pc = "effect" /\ th'[t].job = "review" /\ loop[l].iter = 0
     \/ /\ th'[t].pc = "claimed" /\ th'[t].row.iter = loop[l].iter /\ loop[l].iter > 0
        /\ th'[t].row.round = loop[l].round
Cancels(t, l) ==
  /\ th[t].on = l /\ th[t].pc = "orphan" /\ UNCHANGED loop /\ SameIters(l)
  /\ th'[t].on = l /\ th'[t].pc = "effect" /\ th'[t].job = "relaunch"
  /\ th'[t].row.round = th[t].row.round
OnceStep(t, l) ==
  /\ RefFrame(t, l)
  /\ \/ Rests(t, l) \/ Passes(t, l) \/ Enters(t, l) \/ Reclaims(t, l) \/ Cancels(t, l)
     \/ ReadsRow(t, l) \/ Appends(t, l) \/ DropsRef(t, l) \/ WritesRef(t, l)

(* What a step leaves of a call that takes no part in it.                    *)
Grows(l) ==
  /\ Len(iters[GroupOf[l]]) <= Len(iters'[GroupOf[l]])
  /\ \A n \in 1..Len(iters[GroupOf[l]]) : Dead(iters[GroupOf[l]][n]) => Dead(iters'[GroupOf[l]][n])

LEMMA IterCount ==
  ASSUME IInv, NEW l \in Loops
  PROVE  Len(iters[GroupOf[l]]) \in Nat /\ loop[l].iter \in 0..Len(iters[GroupOf[l]])
<1>1. GroupOf[l] \in Groups
  BY DEF Groups
<1>2. Len(iters[GroupOf[l]]) \in Nat /\ loop[l].iter \in Nat
  BY <1>1 DEF IInv, TypeOK, ItersOK, LoopsOK, Row
<1> QED  BY <1>2 DEF IInv, TypeOK, RefsOK

LEMMA Bystander ==
  ASSUME IInv, NEW s \in Threads, NEW l \in Loops, th[s].on = l, th'[s] = th[s], ~Busy(th[s]),
         CallInReview(s, l), Grows(l),
         loop'[l].iter = loop[l].iter \/ loop[l].iter = 0 \/ Dead(iters[GroupOf[l]][loop[l].iter])
  PROVE  CallInReview(s, l)'
<1>1. th[s].row.iter \in 0..Len(iters[GroupOf[l]])
  BY OwnRow, IterCount DEF Row
<1>2. ASSUME th[s].row.iter > 0, Dead(iters[GroupOf[l]][th[s].row.iter])
      PROVE  Dead(iters'[GroupOf[l]][th[s].row.iter])
  BY <1>1, <1>2 DEF Grows
<1>3. th[s].pc = "tick" /\ th[s].row.state = "reviewing" /\ th[s].row.iter > 0 =>
        th[s].row.iter = loop'[l].iter \/ Dead(iters'[GroupOf[l]][th[s].row.iter])
  BY <1>2 DEF CallInReview
<1>4. th[s].pc \notin {"write", "claimed"}
  BY DEF Busy
<1> QED  BY <1>3, <1>4 DEF CallInReview, Dead

LEMMA SameCall ==
  ASSUME IInv, NEW s \in Threads, NEW l \in Loops, th[s].on = l, th'[s] = th[s],
         CallInReview(s, l), SameIters(l), SameRef(l), loop'[l].old => loop[l].old
  PROVE  CallInReview(s, l)'
<1>1. th[s].row.iter \in 0..Len(iters[GroupOf[l]]) /\ loop[l].iter \in 0..Len(iters[GroupOf[l]])
  BY OwnRow, IterCount DEF Row
<1>2. \A n \in 1..Len(iters[GroupOf[l]]) : Dead(iters[GroupOf[l]][n]) => Dead(iters'[GroupOf[l]][n])
  BY DEF SameIters
<1>3. th[s].pc = "tick" /\ th[s].row.state = "reviewing" /\ th[s].row.iter > 0 =>
        th[s].row.iter = loop'[l].iter \/ Dead(iters'[GroupOf[l]][th[s].row.iter])
  BY <1>1, <1>2 DEF CallInReview, SameRef
<1>4. th[s].pc = "claimed" => /\ th[s].row.iter = loop'[l].iter /\ loop'[l].iter > 0
                              /\ Dead(iters'[GroupOf[l]][loop'[l].iter])
  BY <1>1, <1>2 DEF CallInReview, SameRef
<1> QED  BY <1>3, <1>4 DEF CallInReview, SameRef, SameIters, Dead

(* The loop the step is about.                                               *)
LEMMA StepCalls ==
  ASSUME NEW t \in Threads, NEW l \in Loops, OnceStep(t, l)
  PROVE  /\ \A s \in Threads \ {t} : th'[s] = th[s]
         /\ th'[t].on = l \/ th'[t].pc = "idle"
         /\ Cancels(t, l) \/ Appends(t, l) \/ DropsRef(t, l) \/ WritesRef(t, l) =>
              th[t].on = l /\ Busy(th[t]) /\ loop'[l].state = loop[l].state
         /\ Rests(t, l) \/ ReadsRow(t, l) \/ Reclaims(t, l) => loop'[l].state = loop[l].state
  BY DEF OnceStep, RefFrame, Others, Rests, Reclaims, ReadsRow, Cancels, Appends, DropsRef, WritesRef,
         Busy, ToReview

LEMMA UnreviewedHere ==
  ASSUME IInv, NEW t \in Threads, NEW l \in Loops, OnceAt(l), OnceStep(t, l)
  PROVE  Unreviewed(l)'
<1> SUFFICES ASSUME loop'[l].state \in Early
             PROVE  /\ Len(iters'[GroupOf[l]]) = 0 /\ loop'[l].iter = 0
                    /\ \A s \in Threads : th'[s].on = l =>
                         ~Busy(th'[s]) /\ (th'[s].pc = "tick" => th'[s].row.iter = 0)
  BY DEF Unreviewed
<1>1. loop[l].state \in Early /\ (Rests(t, l) \/ Passes(t, l) \/ ReadsRow(t, l))
  <2>1. CASE Enters(t, l) \/ Reclaims(t, l)
    BY <2>1 DEF Enters, Reclaims, Early
  <2>2. CASE Cancels(t, l) \/ Appends(t, l) \/ DropsRef(t, l) \/ WritesRef(t, l)
    BY <2>2, StepCalls DEF OnceAt, Unreviewed
  <2>3. CASE Passes(t, l)
    BY <2>3 DEF Passes, Early
  <2> QED  BY <2>1, <2>2, <2>3, StepCalls DEF OnceStep
<1>2. /\ Len(iters[GroupOf[l]]) = 0 /\ loop[l].iter = 0
      /\ \A s \in Threads : th[s].on = l => ~Busy(th[s]) /\ (th[s].pc = "tick" => th[s].row.iter = 0)
  BY <1>1 DEF OnceAt, Unreviewed
<1>3. Len(iters'[GroupOf[l]]) = Len(iters[GroupOf[l]]) /\ loop'[l].iter = loop[l].iter
  BY <1>1 DEF Rests, Passes, ReadsRow, SameRef, SameIters
<1>4. ~Busy(th'[t]) /\ (th'[t].pc = "tick" => th'[t].row.iter = 0)
  BY <1>1, <1>2 DEF Rests, Passes, ReadsRow, Quits, Busy, ToReview
<1> QED  BY <1>2, <1>3, <1>4, StepCalls

LEMMA InReviewHere ==
  ASSUME IInv, NEW t \in Threads, NEW l \in Loops, OnceAt(l), OnceStep(t, l)
  PROVE  InReview(l)'
<1> DEFINE last == Len(iters[GroupOf[l]])
<1> SUFFICES ASSUME loop'[l].state = "reviewing"
             PROVE  /\ \A r, s \in Threads :
                         th'[r].on = l /\ th'[s].on = l /\ Busy(th'[r]) /\ Busy(th'[s]) => r = s
                    /\ loop'[l].iter \in {0, Len(iters'[GroupOf[l]])}
                    /\ loop'[l].old /\ loop'[l].iter > 0 => Dead(iters[GroupOf[l]][loop[l].iter])'
                    /\ \A s \in Threads : th'[s].on = l => CallInReview(s, l)'
  BY DEF InReview, Dead
<1>0. last \in Nat /\ loop[l].iter \in 0..last
  BY IterCount
<1>a. CASE loop[l].state # "reviewing"
  <2>1. Enters(t, l)
    BY <1>a, StepCalls DEF Passes, OnceStep, Early
  <2>2. /\ last = 0 /\ loop[l].iter = 0
        /\ \A s \in Threads : th[s].on = l => ~Busy(th[s]) /\ (th[s].pc = "tick" => th[s].row.iter = 0)
    BY <2>1 DEF Enters, OnceAt, Unreviewed, Early
  <2>3. Len(iters'[GroupOf[l]]) = 0 /\ loop'[l].iter = 0 /\ ~loop'[l].old
    BY <2>1, <2>2 DEF Enters, SameRef, SameIters
  <2>4. ASSUME NEW s \in Threads \ {t}, th'[s].on = l PROVE ~Busy(th'[s]) /\ CallInReview(s, l)'
    <3>1. ~Busy(th'[s]) /\ (th'[s].pc = "tick" => th'[s].row.iter = 0)
      BY <2>2, <2>4, StepCalls
    <3> QED  BY <2>3, <3>1 DEF CallInReview, Busy
  <2>5. CallInReview(t, l)'
    BY <2>1, <2>3 DEF Enters, CallInReview
  <2> QED  BY <2>3, <2>4, <2>5
<1>b. CASE loop[l].state = "reviewing"
  <2>0. /\ \A r, s \in Threads : th[r].on = l /\ th[s].on = l /\ Busy(th[r]) /\ Busy(th[s]) => r = s
        /\ loop[l].iter \in {0, last}
        /\ loop[l].old /\ loop[l].iter > 0 => Dead(iters[GroupOf[l]][loop[l].iter])
        /\ \A s \in Threads : th[s].on = l => CallInReview(s, l)
    BY <1>b DEF OnceAt, InReview
  <2>q. CASE Rests(t, l) \/ ReadsRow(t, l)
    <3>1. SameRef(l) /\ SameIters(l) /\ (loop'[l].old => loop[l].old) /\ ~Busy(th'[t])
      BY <2>q, ItersKept DEF Rests, ReadsRow, Quits, Busy, ToReview, SameRef
    <3>2. \A n \in 1..last : Dead(iters[GroupOf[l]][n]) => Dead(iters'[GroupOf[l]][n])
      BY <3>1 DEF SameIters
    <3>3. loop'[l].old /\ loop'[l].iter > 0 => Dead(iters'[GroupOf[l]][loop'[l].iter])
      BY <1>0, <2>0, <3>1, <3>2 DEF SameRef
    <3>4. loop'[l].iter \in {0, Len(iters'[GroupOf[l]])}
      BY <2>0, <3>1 DEF SameRef, SameIters
    <3>5. \A s \in Threads \ {t} : th'[s].on = l => CallInReview(s, l)'
      BY <2>0, <3>1, StepCalls, SameCall
    <3>6. CallInReview(t, l)'
      <4>1. CASE Rests(t, l)
        BY <4>1 DEF Rests, Quits, CallInReview, Busy
      <4>2. CASE ReadsRow(t, l)
        BY <4>2 DEF ReadsRow, CallInReview, Busy, ToReview
      <4> QED  BY <2>q, <4>1, <4>2
    <3>7. ASSUME NEW r \in Threads, NEW s \in Threads, th'[r].on = l, th'[s].on = l, Busy(th'[r]), Busy(th'[s])
          PROVE  r = s
      <4>1. r # t /\ s # t
        BY <3>1, <3>7
      <4>2. th'[r] = th[r] /\ th'[s] = th[s]
        BY <4>1, StepCalls
      <4> QED  BY <2>0, <3>7, <4>2
    <3>8. loop'[l].old /\ loop'[l].iter > 0 => Dead(iters[GroupOf[l]][loop[l].iter])'
      BY <3>3 DEF Dead
    <3>9. \A s \in Threads : th'[s].on = l => CallInReview(s, l)'
      BY <3>5, <3>6
    <3> QED  BY <3>4, <3>7, <3>8, <3>9
  <2>r. CASE Reclaims(t, l)
    <3>1. SameRef(l) /\ SameIters(l) /\ loop[l].old /\ ~loop'[l].old /\ Grows(l)
      BY <2>r, <1>0 DEF Reclaims, SameIters, Grows
    <3>2. \A s \in Threads : th[s].on = l => ~Busy(th[s])
      BY <2>0, <3>1 DEF CallInReview
    <3>3. \A s \in Threads \ {t} : th'[s].on = l => ~Busy(th'[s]) /\ CallInReview(s, l)'
      BY <2>0, <3>1, <3>2, StepCalls, Bystander DEF SameRef
    <3>4. loop'[l].iter \in {0, Len(iters'[GroupOf[l]])}
      BY <2>0, <3>1 DEF SameRef, SameIters
    <3>5. CallInReview(t, l)'
      <4>1. CASE th'[t].pc = "effect" /\ th'[t].job = "review" /\ loop[l].iter = 0
        BY <3>1, <4>1 DEF CallInReview, SameRef
      <4>2. CASE th'[t].pc = "claimed" /\ th'[t].row.iter = loop[l].iter /\ loop[l].iter > 0
        <5>1. Dead(iters'[GroupOf[l]][loop'[l].iter])
          BY <1>0, <2>0, <3>1, <4>2 DEF SameIters, SameRef
        <5> QED  BY <3>1, <4>2, <5>1 DEF CallInReview, SameRef, Dead, Busy, ToReview
      <4> QED  BY <2>r, <4>1, <4>2 DEF Reclaims
    <3> QED  BY <3>1, <3>3, <3>4, <3>5
  <2>c. CASE Cancels(t, l) \/ Appends(t, l) \/ DropsRef(t, l) \/ WritesRef(t, l)
    <3>1. th[t].on = l /\ Busy(th[t])
      BY <2>c, StepCalls
    <3>2. \A s \in Threads \ {t} : th'[s].on = l => th'[s] = th[s] /\ ~Busy(th[s]) /\ CallInReview(s, l)
      BY <2>0, <3>1, StepCalls
    <3>3. ~loop[l].old /\ (th[t].pc # "claimed" => loop[l].iter = 0)
      BY <2>0, <3>1 DEF CallInReview
    <3>4. CASE Cancels(t, l)
      <4>1. loop'[l].iter = 0 /\ ~loop'[l].old /\ Grows(l)
        BY <1>0, <3>3, <3>4 DEF Cancels, SameIters, Grows
      <4>2. \A s \in Threads \ {t} : th'[s].on = l => ~Busy(th'[s]) /\ CallInReview(s, l)'
        BY <3>2, <3>3, <3>4, <4>1, Bystander DEF Cancels
      <4>3. CallInReview(t, l)'
        BY <3>4, <4>1 DEF Cancels, CallInReview
      <4> QED  BY <4>1, <4>2, <4>3
    <3>5. CASE Appends(t, l)
      <4>1. loop'[l].iter = 0 /\ ~loop'[l].old /\ Grows(l)
        BY <1>0, <3>3, <3>5 DEF Appends, Grows
      <4>2. \A s \in Threads \ {t} : th'[s].on = l => ~Busy(th'[s]) /\ CallInReview(s, l)'
        BY <3>2, <3>5, <4>1, Bystander DEF Appends
      <4>3. CallInReview(t, l)'
        BY <3>5, <4>1 DEF Appends, CallInReview
      <4> QED  BY <4>1, <4>2, <4>3
    <3>6. CASE DropsRef(t, l)
      <4>1. loop'[l].iter = 0 /\ ~loop'[l].old /\ Grows(l) /\ th'[t].pc = "orphan"
        BY <1>0, <3>6 DEF DropsRef, Grows
      <4>2. Dead(iters[GroupOf[l]][loop[l].iter])
        BY <2>0, <3>1, <3>6 DEF DropsRef, CallInReview
      <4>3. \A s \in Threads \ {t} : th'[s].on = l => ~Busy(th'[s]) /\ CallInReview(s, l)'
        BY <3>2, <4>1, <4>2, Bystander
      <4>4. CallInReview(t, l)'
        BY <4>1 DEF CallInReview
      <4> QED  BY <4>1, <4>3, <4>4
    <3>7. CASE WritesRef(t, l)
      <4>1. /\ loop'[l].iter = Len(iters'[GroupOf[l]]) /\ ~loop'[l].old /\ Grows(l) /\ th'[t].pc = "idle"
            /\ loop[l].iter = 0
        <5>1. th[t].pc = "write" /\ th[t].row.iter = last
          BY <2>0, <3>1, <3>7 DEF WritesRef, CallInReview
        <5> QED  BY <1>0, <3>3, <3>7, <5>1 DEF WritesRef, Grows
      <4>2. \A s \in Threads \ {t} : th'[s].on = l => ~Busy(th'[s]) /\ CallInReview(s, l)'
        BY <3>2, <4>1, Bystander
      <4>3. CallInReview(t, l)' /\ ~Busy(th'[t])
        BY <4>1 DEF CallInReview, Busy, ToReview
      <4> QED  BY <4>1, <4>2, <4>3
    <3> QED  BY <2>c, <3>4, <3>5, <3>6, <3>7
  <2>p. CASE Passes(t, l) \/ Enters(t, l)
    BY <2>p, <1>b DEF Passes, Enters, Early
  <2> QED  BY <2>q, <2>r, <2>c, <2>p DEF OnceStep
<1> QED  BY <1>a, <1>b

LEMMA NumberedHere ==
  ASSUME IInv, NEW t \in Threads, NEW l \in Loops, OnceAt(l), OnceStep(t, l)
  PROVE  Numbered(l)'
<1>0. /\ loop[l].iter > 0 => loop[l].round > 0
      /\ loop[l].state = "deciding" => loop[l].round > 0
      /\ \A s \in Threads : th[s].on = l => CallNumbered(th[s])
  BY DEF OnceAt, Numbered
<1>1. \A s \in Threads \ {t} : th'[s].on = l => CallNumbered(th'[s])
  BY <1>0, StepCalls
<1>2. CASE Rests(t, l) \/ Passes(t, l)
  <2>1. SameRef(l) /\ Quits(t) /\ (loop'[l].state = "deciding" => loop[l].round > 0)
    BY <1>0, <1>2 DEF Rests, Passes
  <2>2. CallNumbered(th'[t])
    BY <2>1 DEF Quits, Busy, ToReview, CallNumbered
  <2> QED  BY <1>0, <1>1, <2>1, <2>2 DEF Numbered, SameRef
<1>3. CASE Enters(t, l)
  BY <1>0, <1>1, <1>3 DEF Enters, SameRef, Numbered, CallNumbered
<1>4. CASE Reclaims(t, l)
  <2>1. CallNumbered(th'[t])
    BY <1>0, <1>4 DEF Reclaims, CallNumbered
  <2> QED  BY <1>0, <1>1, <1>4, <2>1 DEF Reclaims, SameRef, Numbered
<1>5. CASE Cancels(t, l)
  <2>1. CallNumbered(th'[t])
    BY <1>0, <1>5 DEF Cancels, CallNumbered
  <2> QED  BY <1>0, <1>1, <1>5, <2>1 DEF Cancels, Numbered
<1>6. CASE ReadsRow(t, l)
  <2>1. CallNumbered(th'[t])
    BY <1>0, <1>6 DEF ReadsRow, CallNumbered
  <2> QED  BY <1>0, <1>1, <1>6, <2>1 DEF ReadsRow, Numbered
<1>7. CASE Appends(t, l)
  <2>1. th'[t].row.round > 0
    <3>1. th[t].row.round \in Nat
      BY OwnRow DEF Row
    <3> QED  BY <1>0, <1>7, <3>1 DEF Appends, NextRound, CallNumbered
  <2>2. CallNumbered(th'[t])
    BY <1>7, <2>1 DEF Appends, CallNumbered
  <2> QED  BY <1>0, <1>1, <1>7, <2>2 DEF Appends, Numbered
<1>8. CASE DropsRef(t, l)
  <2>1. th[t].row.round > 0
    BY <1>0, <1>8 DEF DropsRef, CallNumbered
  <2>2. CallNumbered(th'[t])
    BY <1>8, <2>1 DEF DropsRef, CallNumbered
  <2> QED  BY <1>0, <1>1, <1>8, <2>2 DEF DropsRef, Numbered
<1>9. CASE WritesRef(t, l)
  <2>1. th[t].row.round > 0
    BY <1>0, <1>9 DEF WritesRef, CallNumbered
  <2>2. CallNumbered(th'[t])
    BY <1>9 DEF WritesRef, CallNumbered
  <2> QED  BY <1>0, <1>1, <1>9, <2>1, <2>2 DEF WritesRef, Numbered
<1> QED  BY <1>2, <1>3, <1>4, <1>5, <1>6, <1>7, <1>8, <1>9 DEF OnceStep

LEMMA OneRoundHere ==
  ASSUME NEW t \in Threads, NEW l \in Loops, OnceAt(l), OnceStep(t, l), Simple(th[t])
  PROVE  OneRound(l)' /\ Simple(th'[t])
<1>1. OneRound(l)'
  <2>1. CASE Passes(t, l)
    BY <2>1 DEF Passes, OneRound
  <2>2. CASE Enters(t, l)
    BY <2>2 DEF Enters, OneRound
  <2> QED  BY <2>1, <2>2, StepCalls DEF OnceStep, OnceAt, OneRound
<1>2. Simple(th'[t])
  BY DEF OnceStep, Rests, Passes, Quits, Enters, Reclaims, Cancels, ReadsRow, Appends, DropsRef,
         WritesRef, Simple
<1> QED  BY <1>1, <1>2

(* A loop the step is not about.                                             *)
LEMMA OnceSame ==
  ASSUME IInv, NEW l \in Loops, OnceAt(l), SameRef(l), SameIters(l),
         loop'[l].state = loop[l].state, loop'[l].old => loop[l].old,
         \A s \in Threads : th'[s].on = l => th'[s] = th[s] \/ th'[s].pc = "idle"
  PROVE  OnceAt(l)'
<1>0. Len(iters[GroupOf[l]]) \in Nat /\ loop[l].iter \in 0..Len(iters[GroupOf[l]])
  BY IterCount
<1>1. \A s \in Threads : th'[s].on = l /\ (Busy(th'[s]) \/ th'[s].pc = "tick") =>
        th'[s] = th[s] /\ th[s].on = l
  BY DEF Busy, ToReview
<1>2. Unreviewed(l)'
  BY <1>1 DEF OnceAt, Unreviewed, SameRef, SameIters
<1>3. InReview(l)'
  <2> SUFFICES ASSUME loop'[l].state = "reviewing"
               PROVE  /\ \A r, s \in Threads :
                         th'[r].on = l /\ th'[s].on = l /\ Busy(th'[r]) /\ Busy(th'[s]) => r = s
                      /\ loop'[l].iter \in {0, Len(iters'[GroupOf[l]])}
                      /\ loop'[l].old /\ loop'[l].iter > 0 => Dead(iters[GroupOf[l]][loop[l].iter])'
                      /\ \A s \in Threads : th'[s].on = l => CallInReview(s, l)'
    BY DEF InReview, Dead
  <2>1. /\ \A r, s \in Threads : th[r].on = l /\ th[s].on = l /\ Busy(th[r]) /\ Busy(th[s]) => r = s
        /\ loop[l].iter \in {0, Len(iters[GroupOf[l]])}
        /\ loop[l].old /\ loop[l].iter > 0 => Dead(iters[GroupOf[l]][loop[l].iter])
        /\ \A s \in Threads : th[s].on = l => CallInReview(s, l)
    BY DEF OnceAt, InReview
  <2>2. loop'[l].old /\ loop'[l].iter > 0 => Dead(iters'[GroupOf[l]][loop'[l].iter])
    BY <1>0, <2>1 DEF SameRef, SameIters
  <2>3. ASSUME NEW s \in Threads, th'[s].on = l PROVE CallInReview(s, l)'
    <3>1. CASE th'[s] = th[s]
      BY <2>1, <2>3, <3>1, SameCall
    <3>2. CASE th'[s].pc = "idle"
      BY <3>2 DEF CallInReview, Busy, ToReview
    <3> QED  BY <2>3, <3>1, <3>2
  <2> QED  BY <1>1, <2>1, <2>2, <2>3 DEF SameRef, SameIters, Dead
<1>4. Numbered(l)'
  <2>1. ASSUME NEW s \in Threads, th'[s].on = l PROVE CallNumbered(th'[s])
    <3>1. CASE th'[s] = th[s]
      BY <2>1, <3>1 DEF OnceAt, Numbered
    <3>2. CASE th'[s].pc = "idle"
      BY <3>2 DEF CallNumbered
    <3> QED  BY <2>1, <3>1, <3>2
  <2> QED  BY <2>1 DEF OnceAt, Numbered, SameRef
<1>5. OneRound(l)'
  BY DEF OnceAt, OneRound
<1> QED  BY <1>2, <1>3, <1>4, <1>5 DEF OnceAt

LEMMA OnceWork ==
  ASSUME IInv, OnceInv, NEW t \in Threads, NEW l \in Loops, OnceStep(t, l)
  PROVE  OnceInv'
<1>1. \A s \in Threads : Simple(th'[s])
  BY StepCalls, OneRoundHere DEF OnceInv
<1>2. OnceAt(l)'
  BY UnreviewedHere, InReviewHere, NumberedHere, OneRoundHere DEF OnceInv, OnceAt
<1>3. ASSUME NEW m \in Loops \ {l} PROVE OnceAt(m)'
  <2>1. loop'[m] = loop[m] /\ iters'[GroupOf[m]] = iters[GroupOf[m]]
    BY DEF OnceStep, RefFrame, Elsewhere
  <2>2. SameRef(m) /\ SameIters(m)
    BY <2>1 DEF SameRef, SameIters, Dead
  <2>3. \A s \in Threads : th'[s].on = m => th'[s] = th[s] \/ th'[s].pc = "idle"
    BY StepCalls
  <2> QED  BY <2>1, <2>2, <2>3, OnceSame DEF OnceInv
<1> QED  BY <1>1, <1>2, <1>3 DEF OnceInv

(* A row ages in review when nobody works for it: its iteration, if it has   *)
(* one, is dead.                                                             *)
LEMMA AgeOnce ==
  ASSUME IInv, Once, OnceInv, NEW l \in Loops, Age(l)
  PROVE  OnceInv'
<1>1. UNCHANGED <<iters, th>> /\ loop' = [loop EXCEPT ![l].old = TRUE]
  BY DEF Age
<1>2. SameRef(l) /\ loop'[l].state = loop[l].state /\ \A m \in Loops \ {l} : loop'[m] = loop[m]
  BY <1>1, FreshRef
<1>3. ASSUME NEW m \in Loops \ {l} PROVE OnceAt(m)'
  BY <1>1, <1>2, OnceSame, ItersKept DEF OnceInv, SameRef
<1>4. CASE loop[l].state # "reviewing"
  <2>1. Unreviewed(l)' /\ InReview(l)' /\ Numbered(l)' /\ OneRound(l)'
    BY <1>1, <1>2, <1>4 DEF OnceInv, OnceAt, Unreviewed, InReview, Numbered, OneRound, SameRef
  <2> QED  BY <1>1, <1>3, <2>1 DEF OnceInv, OnceAt
<1>5. CASE loop[l].state = "reviewing"
  <2>1. ~Attended(l)
    BY <1>5 DEF Age, Once
  <2>2. \A t \in Threads : th[t].on = l => ~Busy(th[t])
    BY <2>1 DEF Attended, Busy, ToReview
  <2>3. loop[l].iter > 0 => Dead(iters[GroupOf[l]][loop[l].iter])
    BY <1>5, <2>1 DEF Attended, Dead
  <2>4. \A t \in Threads : th[t].on = l => CallInReview(t, l)
    BY <1>5 DEF OnceInv, OnceAt, InReview
  <2>5. \A t \in Threads : th'[t].on = l => ~Busy(th'[t]) /\ CallInReview(t, l)'
    BY <1>1, <1>2, <2>2, <2>4 DEF CallInReview, SameRef, Dead, Busy
  <2>6. loop[l].iter \in {0, Len(iters[GroupOf[l]])}
    BY <1>5 DEF OnceInv, OnceAt, InReview
  <2>7. InReview(l)'
    BY <1>1, <1>2, <2>3, <2>5, <2>6 DEF InReview, SameRef, Dead
  <2>8. Unreviewed(l)' /\ Numbered(l)' /\ OneRound(l)'
    BY <1>1, <1>2, <1>5 DEF OnceInv, OnceAt, Unreviewed, Numbered, OneRound, SameRef
  <2> QED  BY <1>1, <1>3, <2>7, <2>8 DEF OnceInv, OnceAt
<1> QED  BY <1>4, <1>5

(* A crash ends calls and the workers of iterations.                         *)
LEMMA CrashOnce ==
  ASSUME IInv, OnceInv, NEW i \in Instances, Crash(i)
  PROVE  OnceInv'
<1>1. UNCHANGED loop /\ \A s \in Threads : th'[s] = IF s[1] = i THEN Idle ELSE th[s]
  BY DEF Crash
<1>2. Idle.pc = "idle"
  BY DEF Idle
<1>3. ASSUME NEW l \in Loops PROVE SameIters(l)
  <2> DEFINE g == GroupOf[l]  s == [n \in DOMAIN iters[g] |-> [iters[g][n] EXCEPT !.worker = @ \ {i}]]
  <2>1. g \in Groups
    BY DEF Groups
  <2>2. iters[g] \in Seq(Iteration) /\ Len(iters[g]) \in Nat /\ DOMAIN iters[g] = 1..Len(iters[g])
    BY <2>1 DEF IInv, TypeOK, ItersOK
  <2>3. iters'[g] = s
    BY <2>1 DEF Crash
  <2>4. iters'[g] \in Seq(Iteration)
    BY <2>1, CrashOK DEF IInv, TypeOK, ItersOK
  <2>5. DOMAIN s = 1..Len(iters[g])
    BY <2>2
  <2>6. Len(iters'[g]) = Len(iters[g])
    <3> HIDE DEF s
    <3>1. DOMAIN iters'[g] = 1..Len(iters[g])
      BY <2>3, <2>5
    <3> HIDE DEF g
    <3> QED  BY <2>2, <2>4, <3>1
  <2>7. ASSUME NEW n \in 1..Len(iters[g]), Dead(iters[g][n]) PROVE Dead(iters'[g][n])
    <3>1. iters[g][n] \in Iteration
      BY <2>2
    <3>2. iters'[g][n] = [iters[g][n] EXCEPT !.worker = @ \ {i}]
      BY <2>2, <2>3
    <3> QED  BY <2>7, <3>1, <3>2 DEF Dead, Iteration
  <2> QED  BY <2>6, <2>7 DEF SameIters
<1>4. ASSUME NEW l \in Loops PROVE OnceAt(l)'
  BY <1>1, <1>2, <1>3, OnceSame DEF OnceInv, SameRef
<1>5. \A s \in Threads : Simple(th'[s])
  BY <1>1, <1>2 DEF OnceInv, Simple
<1> QED  BY <1>4, <1>5 DEF OnceInv

(* What the actions are.                                                     *)
LEMMA QuitsCall ==
  ASSUME IInv, NEW t \in Threads,
         \/ Return(t) \/ Goto(t, "touch") \/ Goto(t, "aborted")
         \/ Run(t, "touch", "none") \/ Run(t, "effect", "audit")
  PROVE  Quits(t)
<1>1. CASE Return(t)
  BY <1>1, ReturnFields DEF Quits, Busy, ToReview, Simple
<1>2. CASE Goto(t, "touch") \/ Goto(t, "aborted")
  <2>1. th'[t].pc \in {"touch", "aborted"}
    BY <1>2, GotoFields
  <2> QED  BY <2>1 DEF Quits, Busy, ToReview, Simple
<1>3. CASE Run(t, "touch", "none") \/ Run(t, "effect", "audit")
  <2>1. th'[t].pc = "touch" \/ (th'[t].pc = "effect" /\ th'[t].job = "audit")
    BY <1>3, RunFields
  <2> QED  BY <2>1 DEF Quits, Busy, ToReview, Simple
<1> QED  BY <1>1, <1>2, <1>3

LEMMA RunRow ==
  ASSUME IInv, NEW t \in Threads, NEW pc, NEW job, Run(t, pc, job)
  PROVE  th'[t].on = th[t].on /\ th'[t].pc = pc /\ th'[t].job = job /\ th'[t].row = loop'[th[t].on]
<1>1. th \in [Threads -> Thread] /\ th[t] \in Thread
  BY Calls
<1> QED  BY <1>1 DEF Run, Thread

LEMMA RestsRow ==
  ASSUME IInv, NEW t \in Threads, NEW l \in Loops, Quits(t), SameIters(l),
         UNCHANGED loop \/ loop' = [loop EXCEPT ![l].old = FALSE]
  PROVE  Rests(t, l)
<1>1. SameRef(l) /\ loop'[l].state = loop[l].state /\ (loop'[l].old => loop[l].old)
  BY FreshRef DEF SameRef
<1> QED  BY <1>1 DEF Rests

LEMMA PassesRow ==
  ASSUME IInv, NEW t \in Threads, NEW l \in Loops, Quits(t), SameIters(l),
         NEW on, NEW to, NEW res, Cas(l, on, to, res),
         to \notin Early \union {"reviewing", "developing", "throttled"},
         to = "awaiting_merge" => Vbm, to = "deciding" => loop[l].round > 0
  PROVE  Passes(t, l)
  BY CasRef DEF Passes

LEMMA TickAdvanceOnce ==
  ASSUME IInv, Once, NoRuns, OnceInv, NEW t \in Threads, TickAdvance(t)
  PROVE  OnceStep(t, th[t].on)
<1> DEFINE l == th[t].on  row == th[t].row  i == t[1]  on == Event(i, l, row)
<1>1. l \in Loops /\ row \in Row /\ i \in Instances /\ th[t].pc = "tick" /\ UNCHANGED iters
  BY OwnRow DEF TickAdvance, At
<1>2. RefFrame(t, l) /\ SameIters(l)
  BY <1>1, ContinueRef, ItersKept DEF Once, Continue, RefStep
<1>3. PICK to \in Reduce(row.state, on, Vbm, FALSE) :
        /\ on # "decided"
        /\ \/ CasWins(l, row.state) /\ Cas(l, on, to, sdlc[i][l].res) /\ NextJob(t, on, to)
           \/ UNCHANGED loop /\ Return(t)
  BY DEF TickAdvance
<1>4. CASE UNCHANGED loop /\ Return(t)
  BY <1>1, <1>2, <1>4, QuitsCall, RestsRow DEF OnceStep
<1>5. CASE CasWins(l, row.state) /\ Cas(l, on, to, sdlc[i][l].res) /\ NextJob(t, on, to)
  <2>0. on \notin {"cancel", "finish", "develop_requested", "rereview_requested",
                   "retry_review", "retry_develop", "merge_approved", "decided"}
    BY <1>3, EventOfTick
  <2>1. loop[l].state = row.state /\ loop[l].state \notin {"developing", "throttled"}
    BY <1>1, <1>5 DEF CasWins, OnceInv, OnceAt, OneRound
  <2>2. SameRef(l) /\ loop'[l].state = to /\ ~loop'[l].old
    <3> HIDE DEF l, on
    <3> QED  BY <1>1, <1>5, CasRef
  <2>3. CASE row.state = "pending" /\ on = "start" /\ to = "building_context"
    <3>1. Return(t)
      BY <1>5, <2>3 DEF NextJob
    <3>2. Passes(t, l)
      BY <1>2, <2>1, <2>2, <2>3, <3>1, QuitsCall DEF Passes
    <3> QED  BY <1>2, <3>2 DEF OnceStep
  <2>4. CASE row.state = "building_context" /\ to = "reviewing"
    <3>1. Run(t, "effect", "review")
      BY <1>5, <2>4 DEF NextJob
    <3>2. Enters(t, l)
      BY <1>1, <1>2, <2>1, <2>2, <2>4, <3>1, RunRow DEF Enters
    <3> QED  BY <1>2, <3>2 DEF OnceStep
  <2>5. CASE /\ row.state = "reviewing" /\ to \in {"deciding", "failed", "throttled"}
             /\ to = "deciding" => on = "review_completed"
             /\ to = "throttled" => on = "review_throttled"
    <3>1. on = ReviewEvent(i, l, row)
      BY <2>5 DEF Event
    <3>2. ~OwnReview(i, l, row)
      BY <1>1 DEF NoRuns, OwnReview, Row
    <3>3. on \notin {"review_throttled", "dev_clean"}
      BY <3>1, <3>2 DEF ReviewEvent
    <3>4. Return(t)
      BY <1>3, <1>5, <2>5, <3>3 DEF NextJob, Once, Orchestrated
    <3>5. to = "deciding" => loop[l].round > 0
      <4> SUFFICES ASSUME to = "deciding" PROVE loop[l].round > 0
        OBVIOUS
      <4>1. row.iter # 0 /\ iters[GroupOf[l]][row.iter].status = "completed"
        BY <1>1, <2>5, <3>1, CompletedIteration
      <4>2. CallInReview(t, l) /\ Numbered(l)
        BY <1>1, <2>1, <2>5 DEF OnceInv, OnceAt, InReview
      <4>3. row.iter > 0
        BY <1>1, <4>1 DEF Row
      <4>4. loop[l].iter = row.iter
        BY <1>1, <2>5, <4>1, <4>2, <4>3 DEF CallInReview, Dead
      <4> QED  BY <4>2, <4>3, <4>4 DEF Numbered
    <3>6. Passes(t, l)
      BY <1>2, <2>2, <2>5, <3>3, <3>4, <3>5, QuitsCall DEF Passes, Early
    <3> QED  BY <1>2, <3>6 DEF OnceStep
  <2> HIDE DEF on, row
  <2> QED  BY <2>0, <2>1, <2>3, <2>4, <2>5, TickEdgesOnly
<1> QED  BY <1>3, <1>4, <1>5

LEMMA TickDecideOnce ==
  ASSUME IInv, Once, OnceInv, NEW t \in Threads, TickDecide(t)
  PROVE  OnceStep(t, th[t].on)
<1> DEFINE l == th[t].on  row == th[t].row  to == DecideTo(l, row)
<1>1. l \in Loops /\ row \in Row /\ th[t].pc = "tick" /\ UNCHANGED iters
  BY OwnRow DEF TickDecide, At
<1>2. RefFrame(t, l) /\ SameIters(l)
  BY <1>1, ContinueRef, ItersKept DEF Once, Continue, RefStep
<1>3. \/ UNCHANGED loop /\ Return(t)
      \/ CasWins(l, "deciding") /\ Cas(l, "decided", to, "none") /\ NextJob(t, "decided", to)
  BY DEF TickDecide
<1>4. CASE UNCHANGED loop /\ Return(t)
  BY <1>1, <1>2, <1>4, QuitsCall, RestsRow DEF OnceStep
<1>5. CASE CasWins(l, "deciding") /\ Cas(l, "decided", to, "none") /\ NextJob(t, "decided", to)
  <2>1. row.state = "deciding"
    <3>1. Event(t[1], l, row) = "decided"
      BY DEF TickDecide
    <3>2. ReviewEvent(t[1], l, row) # "decided" /\ DevEvent(t[1], l, row) # "decided"
      BY DEF ReviewEvent, DevEvent
    <3> QED  BY <3>1, <3>2 DEF Event
  <2>2. row.round >= MaxRounds
    <3>1. row.round > 0
      BY <1>1, <2>1 DEF OnceInv, OnceAt, Numbered, CallNumbered
    <3> QED  BY <1>1, <3>1 DEF Once, Row
  <2>3. to \in {"stopped_cap", "converged"} \/ (to = "awaiting_merge" /\ Vbm)
    BY <2>2 DEF DecideTo, Decide
  <2>4. Run(t, "effect", "audit")
    BY <1>5, <2>1, <2>3 DEF NextJob, Once, Orchestrated
  <2>5. /\ to \notin Early \union {"reviewing", "developing", "throttled", "deciding"}
        /\ to = "awaiting_merge" => Vbm
    BY <2>3 DEF Early
  <2> HIDE DEF to
  <2>6. Passes(t, l)
    BY <1>1, <1>2, <1>5, <2>4, <2>5, QuitsCall, PassesRow
  <2> QED  BY <1>2, <2>6 DEF OnceStep
<1> QED  BY <1>3, <1>4, <1>5

LEMMA TickOnce ==
  ASSUME IInv, Once, OnceInv, NEW t \in Threads,
         Redrive(t) \/ AutoRetry(t) \/ ClaimStalled(t) \/ TickNothing(t) \/ CancelOrphan(t)
  PROVE  OnceStep(t, th[t].on)
<1> DEFINE l == th[t].on  row == th[t].row
<1>1. l \in Loops /\ row \in Row
  BY OwnRow
<1>2. RefFrame(t, l)
  BY ContinueRef DEF Once, Continue, RefStep
<1>3. OnceAt(l) /\ loop[l].state \notin {"developing", "throttled"}
  BY <1>1 DEF OnceInv, OnceAt, OneRound
<1>r. ASSUME Return(t), UNCHANGED <<loop, iters>> PROVE OnceStep(t, l)
  BY <1>1, <1>2, <1>r, QuitsCall, RestsRow, ItersKept DEF OnceStep
<1>4. CASE Redrive(t)
  <2>1. CASE ClaimsRedrive(l, row)
    <3>1. row.state = "reviewing" /\ loop[l].state = "reviewing" /\ loop[l].old /\ loop[l].iter = 0
      BY <1>3, <1>4, <2>1 DEF Redrive, Stranded, ClaimsRedrive
    <3>2. UNCHANGED iters /\ loop' = [loop EXCEPT ![l].old = FALSE] /\ Run(t, "effect", "review")
      BY <1>4, <2>1, <3>1 DEF Redrive
    <3>3. SameRef(l) /\ loop'[l].state = loop[l].state /\ ~loop'[l].old
      BY <1>1, <3>2, FreshRef
    <3>4. Reclaims(t, l)
      BY <3>1, <3>2, <3>3, RunRow, ItersKept DEF Reclaims
    <3> QED  BY <1>2, <3>4 DEF OnceStep
  <2>2. CASE ~ClaimsRedrive(l, row)
    <3>1. Return(t) /\ UNCHANGED <<loop, iters>>
      BY <1>4, <2>2 DEF Redrive
    <3> QED  BY <1>r, <3>1
  <2> QED  BY <2>1, <2>2
<1>5. CASE AutoRetry(t)
  <2>1. Return(t) /\ UNCHANGED <<loop, iters>>
    BY <1>3, <1>5 DEF AutoRetry, CasWins
  <2> QED  BY <1>r, <2>1
<1>6. CASE ClaimStalled(t)
  <2>1. CASE ClaimsStalled(l, row)
    <3>1. /\ loop[l].state = "reviewing" /\ loop[l].old /\ loop[l].iter = row.iter /\ row.iter > 0
          /\ UNCHANGED iters /\ loop' = [loop EXCEPT ![l].old = FALSE] /\ Run(t, "claimed", "none")
      BY <1>6, <2>1 DEF ClaimStalled, ClaimsStalled
    <3>2. SameRef(l) /\ loop'[l].state = loop[l].state /\ ~loop'[l].old
      BY <1>1, <3>1, FreshRef
    <3>3. Reclaims(t, l)
      BY <3>1, <3>2, RunRow, ItersKept DEF Reclaims, SameRef
    <3> QED  BY <1>2, <3>3 DEF OnceStep
  <2>2. CASE ~ClaimsStalled(l, row)
    <3>1. Return(t) /\ UNCHANGED <<loop, iters>>
      BY <1>6, <2>2 DEF ClaimStalled
    <3> QED  BY <1>r, <3>1
  <2> QED  BY <2>1, <2>2
<1>7. CASE TickNothing(t)
  BY <1>7, <1>r DEF TickNothing, db
<1>8. CASE CancelOrphan(t)
  <2>1. SameIters(l)
    BY <1>8, QuietTicks DEF Once, QuietRow
  <2>2. /\ th[t].pc = "orphan" /\ UNCHANGED loop
        /\ th' = [th EXCEPT ![t] = [th[t] EXCEPT !.pc = "effect", !.job = "relaunch",
                                                 !.row = [row EXCEPT !.redrives = row.redrives + 1]]]
    BY <1>8 DEF CancelOrphan, At
  <2>3. th \in [Threads -> Thread] /\ th[t] \in Thread
    BY Calls
  <2>4. [row EXCEPT !.redrives = row.redrives + 1].round = row.round
    BY <1>1 DEF Row
  <2>5. th'[t].on = l /\ th'[t].pc = "effect" /\ th'[t].job = "relaunch" /\ th'[t].row.round = row.round
    BY <2>2, <2>3, <2>4 DEF Thread
  <2>6. Cancels(t, l)
    BY <2>1, <2>2, <2>5 DEF Cancels
  <2> QED  BY <1>2, <2>6 DEF OnceStep
<1> QED  BY <1>4, <1>5, <1>6, <1>7, <1>8

LEMMA ReviewOnce ==
  ASSUME IInv, Once, OnceInv, NEW t \in Threads, Supersede(t) \/ StartReviewRound(t)
  PROVE  OnceStep(t, th[t].on)
<1> DEFINE l == th[t].on
<1>1. l \in Loops
  BY OwnRow
<1>2. RefFrame(t, l)
  BY ContinueRef DEF Once, Continue, RefStep
<1>r. ASSUME Return(t), UNCHANGED iters, UNCHANGED loop \/ Cas(l, "review_failed", "failed", "none")
      PROVE  OnceStep(t, l)
  <2>1. Quits(t) /\ SameIters(l)
    BY <1>r, QuitsCall, ItersKept
  <2>2. CASE UNCHANGED loop
    BY <1>1, <1>2, <2>1, <2>2, RestsRow DEF OnceStep
  <2>3. CASE Cas(l, "review_failed", "failed", "none")
    <3>1. "failed" \notin Early \union {"reviewing", "developing", "throttled"}
      BY DEF Early
    <3> HIDE DEF l
    <3> QED  BY <1>1, <1>2, <2>1, <2>3, <3>1, PassesRow DEF OnceStep
  <2> QED  BY <1>r, <2>2, <2>3
<1>3. CASE Supersede(t)
  <2>1. CASE Return(t) /\ (UNCHANGED loop \/ Cas(l, "review_failed", "failed", "none"))
    BY <1>3, <1>r, <2>1 DEF Supersede
  <2>2. CASE Goto(t, "orphan") /\ loop' = [loop EXCEPT ![l].iter = 0, ![l].old = FALSE]
    <3>1. DropsRef(t, l)
      BY <1>3, <2>2, OrphanRef DEF Supersede, At
    <3> QED  BY <1>2, <3>1 DEF OnceStep
  <2> QED  BY <1>3, <2>1, <2>2 DEF Supersede
<1>4. CASE StartReviewRound(t)
  <2>1. CASE UnresolvedRef(t)
    <3>1. Return(t) /\ UNCHANGED iters /\ (UNCHANGED loop \/ Cas(l, "review_failed", "failed", "none"))
      BY <2>1 DEF UnresolvedRef
    <3> QED  BY <1>r, <3>1
  <2>2. CASE StartIteration(t)
    <3>1. UNCHANGED loop
      BY <2>2 DEF StartIteration
    <3>2. CASE QuietRow(l) /\ (Return(t) \/ Goto(t, "touch"))
      BY <1>1, <1>2, <3>1, <3>2, QuitsCall, RestsRow DEF QuietRow, OnceStep
    <3>3. CASE Appends(t, l)
      BY <1>2, <3>3 DEF OnceStep
    <3> QED  BY <1>4, <3>2, <3>3, StartedIteration DEF Once
  <2> QED  BY <1>4, <2>1, <2>2 DEF StartReviewRound, DispatchReview, Once, Orchestrated
<1> QED  BY <1>3, <1>4

LEMMA EffectOnce ==
  ASSUME IInv, Once, OnceInv, NEW t \in Threads,
         \/ SettleReviewing(t) \/ AuditDecision(t) \/ StartDevHandoff(t) \/ DispatchSdlc(t)
         \/ WriteRound(t) \/ Touch(t)
  PROVE  OnceStep(t, th[t].on)
<1> DEFINE l == th[t].on
<1>1. l \in Loops
  BY OwnRow
<1>2. RefStep(t, l)
  BY ContinueRef DEF Once, Continue
<1>3. CASE StartDevHandoff(t) \/ DispatchSdlc(t)
  <2>1. ~Simple(th[t])
    BY <1>3 DEF StartDevHandoff, DispatchSdlc, At, Simple
  <2> QED  BY <2>1 DEF OnceInv
<1>4. CASE WriteRound(t)
  <2>1. th[t].pc = "write"
    BY <1>4 DEF WriteRound, At
  <2>2. WritesRef(t, l)
    BY <1>2, <2>1 DEF RefStep, QuietCall, ReadsRow, Appends, DropsRef
  <2> QED  BY <1>2, <2>2 DEF OnceStep, RefStep
<1>5. CASE SettleReviewing(t) \/ AuditDecision(t) \/ Touch(t)
  <2>1. Return(t) /\ UNCHANGED iters /\ (UNCHANGED loop \/ loop' = [loop EXCEPT ![l].old = FALSE])
    BY <1>5 DEF SettleReviewing, AuditDecision, Touch
  <2>2. Rests(t, l)
    <3> HIDE DEF l
    <3> QED  BY <1>1, <2>1, QuitsCall, RestsRow, ItersKept
  <2> QED  BY <1>2, <2>2 DEF OnceStep, RefStep
<1> QED  BY <1>3, <1>4, <1>5

LEMMA CommandOnce ==
  ASSUME IInv, Once, OnceInv, NEW t \in Threads,
         \/ CreateInsert(t) \/ Develop(t) \/ ResumeRead(t) \/ RetryDevelop(t) \/ RetryReview(t)
         \/ ReReview(t) \/ Reenter(t) \/ OnMergeApproved(t) \/ AbortGroup(t) \/ AbortCommit(t)
  PROVE  OnceStep(t, th[t].on)
<1> DEFINE l == th[t].on
<1>1. l \in Loops
  BY OwnRow
<1>2. RefFrame(t, l)
  BY ContinueRef DEF Once, Continue, RefStep
<1>m. ASSUME Return(t), UNCHANGED iters, NEW on, NEW to, Cas(l, on, to, "none"),
             to \in {"converged", "cancelled", "stopped"}
      PROVE  OnceStep(t, l)
  <2>1. Quits(t) /\ SameIters(l)
    BY <1>m, QuitsCall, ItersKept
  <2>2. /\ to \notin Early \union {"reviewing", "developing", "throttled"}
        /\ to = "awaiting_merge" => Vbm
        /\ to = "deciding" => loop[l].round > 0
    BY <1>m DEF Early
  <2>3. Passes(t, l)
    <3> HIDE DEF l
    <3> QED  BY <1>m, <1>1, <2>1, <2>2, PassesRow
  <2> QED  BY <1>2, <2>3 DEF OnceStep
<1>r. ASSUME Return(t), UNCHANGED <<loop, iters>> PROVE OnceStep(t, l)
  BY <1>1, <1>2, <1>r, QuitsCall, RestsRow, ItersKept DEF OnceStep
<1>3. CASE \/ Develop(t) \/ ResumeRead(t) \/ RetryDevelop(t) \/ RetryReview(t) \/ ReReview(t) \/ Reenter(t)
  <2>1. ~Simple(th[t])
    BY <1>3 DEF Develop, ResumeRead, RetryDevelop, RetryReview, ReReview, Reenter, At, Simple
  <2> QED  BY <2>1 DEF OnceInv
<1>4. CASE CreateInsert(t)
  <2>1. Return(t) /\ UNCHANGED iters
    BY <1>4 DEF CreateInsert
  <2>2. CASE UNCHANGED loop
    BY <1>r, <2>1, <2>2
  <2>3. CASE loop[l].state = "none" /\ loop' = [loop EXCEPT ![l].state = "pending"]
    <3>1. SameRef(l) /\ loop'[l].state = "pending"
      BY <1>1, <2>3 DEF SameRef, IInv, TypeOK, LoopsOK, Row
    <3>2. Passes(t, l)
      BY <2>1, <2>3, <3>1, QuitsCall, ItersKept DEF Passes
    <3> QED  BY <1>2, <3>2 DEF OnceStep
  <2> QED  BY <1>4, <2>2, <2>3 DEF CreateInsert
<1>5. CASE OnMergeApproved(t)
  <2>1. Return(t) /\ UNCHANGED iters
    BY <1>5 DEF OnMergeApproved
  <2>2. CASE CasWins(l, "awaiting_merge")
    <3>1. Vbm
      BY <1>1, <2>2 DEF CasWins, OnceInv, OnceAt, OneRound
    <3>2. PICK to \in Reduce("awaiting_merge", "merge_approved", Vbm, FALSE) :
            Cas(l, "merge_approved", to, "none")
      BY <1>5, <2>2 DEF OnMergeApproved
    <3>3. to = "converged"
      BY <3>1, MergeEdgesOnly
    <3> QED  BY <1>m, <2>1, <3>2, <3>3
  <2>3. CASE ~CasWins(l, "awaiting_merge")
    <3>1. UNCHANGED loop
      BY <1>5, <2>3 DEF OnMergeApproved
    <3> QED  BY <1>r, <2>1, <3>1
  <2> QED  BY <2>2, <2>3
<1>6. CASE AbortGroup(t)
  <2>1. SameIters(l)
    BY <1>6, QuietCommands DEF Once, QuietRow
  <2>2. UNCHANGED loop /\ Goto(t, "aborted")
    BY <1>6 DEF AbortGroup
  <2> QED  BY <1>1, <1>2, <2>1, <2>2, QuitsCall, RestsRow DEF OnceStep
<1>7. CASE AbortCommit(t)
  <2>1. Return(t) /\ UNCHANGED iters /\ th[t].op \in {"cancel", "finish"}
    BY <1>7, OwnRow DEF AbortCommit, At, CallOK
  <2>2. CASE UNCHANGED loop
    BY <1>r, <2>1, <2>2
  <2>3. ASSUME NEW to \in Reduce(th[t].row.state, th[t].op, Vbm, FALSE), Cas(l, th[t].op, to, "none")
        PROVE  OnceStep(t, l)
    <3>1. to \in {"cancelled", "stopped"}
      BY <2>1, AbortEdgesOnly
    <3> QED  BY <1>m, <2>1, <2>3, <3>1
  <2> QED  BY <1>7, <2>2, <2>3 DEF AbortCommit
<1> QED  BY <1>3, <1>4, <1>5, <1>6, <1>7

LEMMA RequestOnce ==
  ASSUME IInv, Once, OnceInv, NEW t \in Threads, NEW l \in Loops, Request(t, l)
  PROVE  OnceStep(t, l)
<1>1. RefFrame(t, l)
  BY RequestRef DEF RefStep
<1>2. CASE Start(t, l)
  BY <1>1, <1>2, TickRef DEF Start, OnceStep
<1>3. CASE DevelopRead(t, l) \/ RetryRead(t, l) \/ ReReviewRead(t, l)
  <2>1. loop[l].state # "throttled" /\ (loop[l].state = "deciding" => loop[l].round > 0)
    BY DEF OnceInv, OnceAt, OneRound, Numbered
  <2>2. loop[l].round \in Nat
    BY DEF IInv, TypeOK, LoopsOK, Row
  <2> QED  BY <1>3, <2>1, <2>2 DEF DevelopRead, RetryRead, ReReviewRead, Command, Once
<1>4. CASE CreateRead(t, l) \/ MergeRead(t, l) \/ AbortRead(t, l)
  <2>1. UNCHANGED <<loop, iters>> /\ \E op, pc : Call(t, op, l, pc) /\ pc \in {"create", "merge", "abort"}
    BY <1>4 DEF CreateRead, MergeRead, AbortRead, db
  <2>2. th'[t].pc \in {"create", "merge", "abort"}
    BY <2>1, CallFields
  <2>3. Quits(t)
    BY <2>2 DEF Quits, Busy, ToReview, Simple
  <2> QED  BY <1>1, <2>1, <2>3, RestsRow, ItersKept DEF OnceStep
<1> QED  BY <1>2, <1>3, <1>4 DEF Request

LEMMA ContinueOnce ==
  ASSUME IInv, Once, NoRuns, OnceInv, NEW t \in Threads, Continue(t)
  PROVE  OnceStep(t, th[t].on)
<1>1. CASE \/ Redrive(t) \/ AutoRetry(t) \/ ClaimStalled(t) \/ TickNothing(t) \/ CancelOrphan(t)
  BY <1>1, TickOnce
<1>2. CASE Supersede(t) \/ StartReviewRound(t)
  BY <1>2, ReviewOnce
<1>3. CASE \/ SettleReviewing(t) \/ AuditDecision(t) \/ StartDevHandoff(t) \/ DispatchSdlc(t)
           \/ WriteRound(t) \/ Touch(t)
  BY <1>3, EffectOnce
<1>4. CASE \/ CreateInsert(t) \/ Develop(t) \/ ResumeRead(t) \/ RetryDevelop(t) \/ RetryReview(t)
           \/ ReReview(t) \/ Reenter(t) \/ OnMergeApproved(t) \/ AbortGroup(t) \/ AbortCommit(t)
  BY <1>4, CommandOnce
<1> QED  BY <1>1, <1>2, <1>3, <1>4, TickAdvanceOnce, TickDecideOnce DEF Continue

LEMMA NextOnce ==
  ASSUME IInv, Once, NoRuns, OnceInv, [Next]_vars
  PROVE  OnceInv'
<1>1. ASSUME NEW t \in Threads, Continue(t) PROVE OnceInv'
  BY <1>1, ContinueOnce, OnceWork, OwnRow
<1>2. ASSUME NEW t \in Threads, NEW l \in Loops, Sweep(t, l) PROVE OnceInv'
  BY <1>2, TickRef, OnceWork DEF Sweep, OnceStep, RefStep
<1>3. ASSUME NEW t \in Threads, NEW l \in Loops, Request(t, l) PROVE OnceInv'
  BY <1>3, RequestOnce, OnceWork
<1>s. ASSUME UNCHANGED <<loop, th>>, \A l \in Loops : SameIters(l) PROVE OnceInv'
  BY <1>s, OnceSame DEF OnceInv, SameRef
<1>4. ASSUME NEW i \in Instances, NEW l \in Loops, Background(i, l) PROVE OnceInv'
  <2>1. UNCHANGED <<loop, iters, th>>
    BY <1>4 DEF Background, CoderSettle, StraySettle, ReviewSettle, db
  <2> QED  BY <1>s, <2>1, ItersKept
<1>5. ASSUME NEW g \in Groups, NEW n \in 1..Len(iters[g]), IterationSettle(g, n) PROVE OnceInv'
  <2>1. UNCHANGED <<loop, th>>
    BY <1>5 DEF IterationSettle
  <2> QED  BY <1>s, <1>5, <2>1, IterationSettleRef DEF Once
<1>6. CASE UNCHANGED vars
  BY <1>6, <1>s, ItersKept DEF vars
<1> QED  BY <1>1, <1>2, <1>3, <1>4, <1>5, <1>6, AgeOnce, CrashOnce DEF Next

LEMMA OnceInit == Init => OnceInv
<1> SUFFICES ASSUME Init PROVE OnceInv
  OBVIOUS
<1>1. \A t \in Threads : th[t] = Idle /\ Idle.pc = "idle"
  BY DEF Init, Idle
<1>2. \A t \in Threads : Simple(th[t]) /\ ~Busy(th[t]) /\ th[t].pc # "tick" /\ CallNumbered(th[t])
  BY <1>1 DEF Simple, Busy, ToReview, CallNumbered
<1>3. \A l \in Loops : loop[l].state \in {"none", "pending"} /\ loop[l].iter = 0 /\ Len(iters[GroupOf[l]]) = 0
  <2>1. \A l \in Loops : GroupOf[l] \in Groups
    BY DEF Groups
  <2> QED  BY <2>1 DEF Init, NoRow
<1>4. ASSUME NEW l \in Loops PROVE OnceAt(l)
  <2>1. Unreviewed(l)
    BY <1>2, <1>3 DEF Unreviewed
  <2>2. InReview(l) /\ OneRound(l)
    BY <1>3 DEF InReview, OneRound
  <2>3. Numbered(l)
    BY <1>2, <1>3 DEF Numbered
  <2> QED  BY <2>1, <2>2, <2>3 DEF OnceAt
<1> QED  BY <1>2, <1>4 DEF OnceInv

(* recoverStalledReview in one round: whichever instances race to re-drive,  *)
(* supersede and re-launch a review, and whatever crashes between the steps, *)
(* a superseded one is not decided on.                                       *)
THEOREM LatestReviewOnce == ASSUME Once PROVE Spec => DecidesOnLatestReview
<1> DEFINE Inv == IInv /\ NoRuns /\ OnceInv
<1>1. Init => Inv
  BY InitOK, NoRunsInit, OnceInit
<1>2. Inv /\ [Next]_vars => Inv'
  BY NextOK, NoRunsStep, NextOnce DEF Once
<1>3. Inv /\ [Next]_vars =>
        [\A l \in Loops : loop[l].state = "reviewing" /\ loop'[l].state = "deciding" =>
           loop'[l].iter = Len(iters[GroupOf[l]])]_vars
  <2> SUFFICES ASSUME Inv, [Next]_vars, NEW l \in Loops,
                      loop[l].state = "reviewing", loop'[l].state = "deciding"
               PROVE  loop'[l].iter = Len(iters[GroupOf[l]])
    OBVIOUS
  <2>1. PICK t \in Threads : /\ th[t].on = l /\ th[t].pc = "tick" /\ th[t].row.state = "reviewing"
                             /\ ReviewEvent(t[1], l, th[t].row) = "review_completed"
                             /\ loop'[l].iter = loop[l].iter
    BY DecidesByTick
  <2>2. t[1] \in Instances /\ th[t].row \in Row
    BY OwnRow
  <2>3. th[t].row.iter > 0 /\ iters[GroupOf[l]][th[t].row.iter].status = "completed"
    BY <2>1, <2>2, CompletedIteration DEF Row
  <2>4. loop[l].iter \in {0, Len(iters[GroupOf[l]])} /\ CallInReview(t, l)
    BY <2>1 DEF OnceInv, OnceAt, InReview
  <2>5. th[t].row.iter = loop[l].iter
    BY <2>1, <2>3, <2>4 DEF CallInReview, Dead
  <2> QED  BY <2>1, <2>3, <2>4, <2>5
<1> QED  BY <1>1, <1>2, <1>3, PTL DEF Spec, DecidesOnLatestReview
=============================================================================
