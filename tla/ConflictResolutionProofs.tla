---------------------- MODULE ConflictResolutionProofs ----------------------
(* Theorems about ConflictResolution: types and the bound of the map, that a  *)
(* quorum decides, and that every conflict is decided once.                   *)
EXTENDS ConflictResolution, FiniteSetTheorems, TLAPS

Timers == [Conflicts -> {"unset", "set", "off"}]

-----------------------------------------------------------------------------
(* Types                                                                      *)

LEMMA Constants ==
  /\ MaxConflicts \in Nat /\ Capacity \in Nat \ {0} /\ MaxProposals \in Nat
  /\ MaxFailures \in Nat /\ Threshold \in 1..100
  /\ SlowStorage \in BOOLEAN /\ Observed \in BOOLEAN
  /\ Requests \cap Conflicts = {} /\ None \notin Conflicts
  /\ \A c \in Conflicts : Choices[c] \subseteq Strategies
  BY ConflictAssumption DEF ConflictAssumption, Conflicts, None

LEMMA OutcomeTypes ==
  /\ Undecided \in Outcomes
  /\ \A who \in {"judge", "branches", "force", "deferral"} : By(who, None) \in Outcomes
  /\ \A p \in Proposals : By("vote", p) \in Outcomes /\ By("plurality", p) \in Outcomes
  BY DEF Undecided, By, Outcomes

LEMMA GotoType ==
  ASSUME CallOK, NEW t \in Threads, NEW pc \in Places, NEW c \in Conflicts \cup {None},
         NEW out \in Outcomes, Goto(t, pc, c, out)
  PROVE  CallOK'
  BY DEF CallOK, Goto

LEMMA DoneType ==
  ASSUME CallOK, NEW t \in Threads, Done(t)
  PROVE  CallOK'
  BY GotoType, OutcomeTypes DEF Done, Places

LEMMA ClearedType ==
  ASSUME timer \in Timers, NEW c \in Conflicts
  PROVE  Cleared(c) \in Timers
  BY DEF Cleared, Timers

LEMMA DecidedType ==
  ASSUME ConflictOK, NEW c \in Conflicts, NEW out \in Outcomes, conflict' = Decided(c, out)
  PROVE  ConflictOK'
  BY DEF ConflictOK, Decided

LEMMA ResolveType ==
  ASSUME ConflictOK, CallOK, timer \in Timers,
         NEW t \in Threads, NEW c \in Conflicts, NEW out \in Outcomes, Resolve(t, c, out)
  PROVE  ConflictOK' /\ CallOK' /\ timer' \in Timers
  <1>1. CASE c \in memory /\ conflict[c].status # "resolved"
    <2>1. conflict' = Decided(c, out) /\ timer' = Cleared(c) /\ Goto(t, "resolving", c, out)
      BY <1>1 DEF Resolve
    <2> QED
      BY <2>1, DecidedType, ClearedType, GotoType DEF Places
  <1>2. CASE ~(c \in memory /\ conflict[c].status # "resolved")
    <2>1. Done(t) /\ conflict' = conflict /\ timer' = timer
      BY <1>2 DEF Resolve
    <2> QED
      BY <2>1, DoneType DEF ConflictOK
  <1> QED
    BY <1>1, <1>2

(* The thread of a step and the conflict it is about are well typed.          *)
LEMMA OnConflict ==
  ASSUME CallOK, NEW t \in Threads
  PROVE  call[t].pc \in Places /\ call[t].on \in Conflicts \cup {None} /\ call[t].out \in Outcomes
  BY DEF CallOK

LEMMA VictimInMemory ==
  ASSUME MemoryOK, NEW v \in Victims
  PROVE  \/ v = None /\ Cardinality(memory) < Capacity
         \/ v \in memory
  BY DEF Victims, Oldest, Closed

LEMMA MemoryBound ==
  ASSUME MemoryOK, NEW v \in Victims, NEW c \in Conflicts
  PROVE  Cardinality((memory \ {v}) \cup {c}) <= Capacity
  <1>1. IsFiniteSet(Conflicts)
    BY Constants, FS_Interval DEF Conflicts
  <1>2. IsFiniteSet(memory)
    BY <1>1, FS_Subset DEF MemoryOK
  <1>3. Cardinality(memory) \in Nat
    BY <1>2, FS_CardinalityType
  <1>4. IsFiniteSet(memory \ {v}) /\ Cardinality(memory \ {v}) \in Nat /\ Cardinality(memory \ {v}) < Capacity
    <2>1. CASE v \in memory
      <3>1. IsFiniteSet(memory \ {v}) /\ Cardinality(memory \ {v}) = Cardinality(memory) - 1
        BY <1>2, <2>1, FS_RemoveElement
      <3>2. Cardinality(memory \ {v}) \in Nat
        BY <3>1, FS_CardinalityType
      <3>3. Cardinality(memory) <= Capacity
        BY DEF MemoryOK
      <3> QED
        BY <3>1, <3>2, <3>3, <1>3, Constants
    <2>2. CASE v \notin memory
      <3>1. memory \ {v} = memory
        BY <2>2
      <3> QED
        BY <3>1, <2>2, <1>2, <1>3, VictimInMemory
    <2> QED
      BY <2>1, <2>2
  <1>5. Cardinality((memory \ {v}) \cup {c}) <= Cardinality(memory \ {v}) + 1
    BY <1>4, FS_AddElement
  <1>6. Cardinality((memory \ {v}) \cup {c}) \in Nat
    BY <1>4, FS_AddElement, FS_CardinalityType
  <1> QED
    BY <1>4, <1>5, <1>6, Constants

ConflictRow == [status : {"unraised", "open", "resolved", "expired"}, strategy : Strategies,
                proposals : 0..MaxProposals, votes : Seq(Proposals),
                branches : Seq({"pending", "done"}), outcome : Outcomes]

LEMMA RowWritten ==
  ASSUME ConflictOK, NEW c \in Conflicts, NEW row \in ConflictRow, conflict' = [conflict EXCEPT ![c] = row]
  PROVE  ConflictOK'
  <1>1. conflict \in [Conflicts -> ConflictRow]
    BY DEF ConflictOK, ConflictRow
  <1>2. conflict' \in [Conflicts -> ConflictRow]
    BY <1>1
  <1> QED
    BY <1>2 DEF ConflictOK, ConflictRow

LEMMA RowRead ==
  ASSUME ConflictOK, NEW c \in Conflicts
  PROVE  conflict[c] \in ConflictRow
  BY DEF ConflictOK, ConflictRow

LEMMA RaiseType ==
  ASSUME TypeOK, NEW r \in Requests, NEW c \in Conflicts, NEW s \in Choices[c], Raise(r, c, s)
  PROVE  TypeOK'
  <1>1. ConflictOK'
    <2>1. s \in Strategies
      BY Constants DEF Conflicts
    <2> DEFINE row == [conflict[c] EXCEPT !.status = "open", !.strategy = s]
    <2>2. conflict' = [conflict EXCEPT ![c] = row]
      BY DEF Raise
    <2>3. row \in ConflictRow
      BY <2>1, RowRead DEF TypeOK, ConflictRow
    <2> HIDE DEF row
    <2> QED
      BY <2>2, <2>3, RowWritten DEF TypeOK
  <1>2. PICK v \in Victims :
           /\ memory' = (memory \ {v}) \cup {c}
           /\ listed' = IF v \in Closed THEN listed ELSE listed \ {v}
           /\ timer' = IF v = None \/ v \in Closed THEN timer ELSE Cleared(v)
    BY DEF Raise
  <1>3. MemoryOK'
    BY <1>2, MemoryBound DEF TypeOK, MemoryOK
  <1>4. timer' \in Timers
    <2>1. v \in Conflicts \/ v = None
      BY VictimInMemory DEF TypeOK, MemoryOK
    <2> QED
      BY <1>2, <2>1, ClearedType DEF TypeOK, Timers
  <1>5. CallOK'
    BY GotoType, OutcomeTypes DEF TypeOK, Raise, Threads, Places
  <1> QED
    BY <1>1, <1>3, <1>4, <1>5 DEF TypeOK, Raise, Timers

(* What a thread that is under way knows: which conflict it is about, and      *)
(* that an answer was given by a judge or by branches.                         *)
CallsKnow ==
    /\ \A t \in Threads : ~At(t, "idle") => call[t].on \in Conflicts
    /\ \A c \in Conflicts : ~At(c, "idle") => call[c].on = c
    /\ \A t \in Threads : At(t, "answered") => call[t].out.by \in {"nobody", "judge", "branches"}

LEMMA RaisedType ==
  ASSUME TypeOK, NEW r \in Requests, Raised(r), call[r].on \in Conflicts
  PROVE  TypeOK'
  <1> DEFINE c == call[r].on
  <1>1. /\ listed' = listed \cup {c} /\ promise' = [promise EXCEPT ![c] = "waiting"]
        /\ UNCHANGED <<memory, log, alive, failures>>
    BY DEF Raised
  <1>2. \/ /\ conflict' = Decided(c, By("deferral", None))
           /\ timer' = [timer EXCEPT ![c] = "off"]
           /\ Goto(r, "resolving", c, By("deferral", None))
        \/ timer' = [timer EXCEPT ![c] = "set"] /\ Done(r) /\ UNCHANGED conflict
    BY DEF Raised
  <1>3. ConflictOK' /\ CallOK' /\ timer' \in Timers
    <2>1. CASE timer' = [timer EXCEPT ![c] = "set"] /\ Done(r) /\ UNCHANGED conflict
      BY <2>1, DoneType DEF TypeOK, ConflictOK, Threads, Timers
    <2>2. CASE /\ conflict' = Decided(c, By("deferral", None))
               /\ timer' = [timer EXCEPT ![c] = "off"]
               /\ Goto(r, "resolving", c, By("deferral", None))
      BY <2>2, DecidedType, GotoType, OutcomeTypes DEF TypeOK, Threads, Timers, Places
    <2> QED
      BY <1>2, <2>1, <2>2
  <1> QED
    BY <1>1, <1>3 DEF TypeOK, MemoryOK, Timers

(* A step of a thread that ends, or goes to another place of the same call.   *)
LEMMA LogDecisionType ==
  ASSUME TypeOK, NEW t \in Threads, LogDecision(t), call[t].on \in Conflicts
  PROVE  TypeOK'
  <1>1. call[t].out \in Outcomes
    BY OnConflict DEF TypeOK
  <1>2. CallOK'
    BY <1>1, GotoType DEF TypeOK, LogDecision, Places
  <1>3. log' \in [Conflicts -> Seq(Outcomes)]
    BY <1>1 DEF TypeOK, LogDecision
  <1> QED
    BY <1>2, <1>3 DEF TypeOK, LogDecision, ConflictOK, MemoryOK

LEMMA SettleType ==
  ASSUME TypeOK, NEW t \in Threads, Settle(t), call[t].on \in Conflicts
  PROVE  TypeOK'
  <1>1. CallOK'
    BY DoneType DEF TypeOK, Settle
  <1> QED
    BY <1>1 DEF TypeOK, Settle, ConflictOK, MemoryOK

LEMMA AddProposalType ==
  ASSUME TypeOK, NEW r \in Requests, NEW c \in Conflicts, AddProposal(r, c)
  PROVE  TypeOK'
  <1> DEFINE n == conflict[c].proposals
             fresh == IF conflict[c].strategy # "experiment" THEN conflict[c].branches
                      ELSE [p \in 1..(n + 1) |-> "pending"]
  <1>1. n \in 0..MaxProposals /\ n < MaxProposals
    BY DEF TypeOK, ConflictOK, AddProposal
  <1>2. n + 1 \in 0..MaxProposals
    BY <1>1, Constants
  <1>3. fresh \in Seq({"pending", "done"})
    BY <1>1, Constants DEF TypeOK, ConflictOK
  <1> DEFINE row == [conflict[c] EXCEPT !.proposals = n + 1, !.branches = fresh]
  <1>4. conflict' = [conflict EXCEPT ![c] = row]
    BY DEF AddProposal, TypeOK, ConflictOK
  <1> HIDE DEF n, fresh
  <1>r. row \in ConflictRow
    BY <1>2, <1>3, RowRead DEF TypeOK, ConflictRow
  <1> HIDE DEF row
  <1>5. ConflictOK'
    BY <1>4, <1>r, RowWritten DEF TypeOK
  <1> QED
    BY <1>5 DEF TypeOK, AddProposal, MemoryOK, CallOK

LEMMA CastVoteType ==
  ASSUME TypeOK, NEW r \in Requests, NEW c \in Conflicts, NEW p \in Proposals, CastVote(r, c, p)
  PROVE  TypeOK'
  <1> DEFINE votes == Append(conflict[c].votes, p)
  <1>1. votes \in Seq(Proposals)
    BY DEF TypeOK, ConflictOK
  <1> DEFINE row == [conflict[c] EXCEPT !.votes = votes]
  <1>a. conflict' = [conflict EXCEPT ![c] = row]
    BY DEF CastVote, TypeOK, ConflictOK
  <1> HIDE DEF votes
  <1>r. row \in ConflictRow
    BY <1>1, RowRead DEF TypeOK, ConflictRow
  <1> HIDE DEF row
  <1>2. ConflictOK'
    BY <1>a, <1>r, RowWritten DEF TypeOK
  <1>3. CallOK'
    BY GotoType, OutcomeTypes DEF TypeOK, CastVote, Threads, Places
  <1> QED
    BY <1>2, <1>3 DEF TypeOK, CastVote, MemoryOK

LEMMA CheckQuorumType ==
  ASSUME TypeOK, NEW r \in Requests, CheckQuorum(r), call[r].on \in Conflicts
  PROVE  TypeOK'
  <1> DEFINE c == call[r].on
  <1>1. \/ Done(r) /\ UNCHANGED <<conflict, timer>>
        \/ \E p \in Proposals : Resolve(r, c, By("vote", p))
    BY DEF CheckQuorum
  <1>2. ConflictOK' /\ CallOK' /\ timer' \in Timers
    <2>1. CASE Done(r) /\ UNCHANGED <<conflict, timer>>
      BY <2>1, DoneType DEF TypeOK, ConflictOK, Timers, Threads
    <2>2. CASE \E p \in Proposals : Resolve(r, c, By("vote", p))
      BY <2>2, ResolveType, OutcomeTypes DEF TypeOK, Timers, Threads
    <2> QED
      BY <1>1, <2>1, <2>2
  <1> QED
    BY <1>2 DEF TypeOK, CheckQuorum, MemoryOK, Timers

LEMMA JudgeType ==
  ASSUME TypeOK, NEW r \in Requests, NEW c \in Conflicts, Judge(r, c)
  PROVE  TypeOK'
  <1>1. CallOK'
    BY GotoType, OutcomeTypes DEF TypeOK, Judge, Threads, Places
  <1> QED
    BY <1>1 DEF TypeOK, Judge, MemoryOK, ConflictOK

LEMMA BranchType ==
  ASSUME TypeOK, NEW r \in Requests, NEW c \in Conflicts, NEW p \in Proposals,
         NEW result \in {"pending", "done"}, Branch(r, c, p, result)
  PROVE  TypeOK'
  <1> DEFINE updated == [conflict[c].branches EXCEPT ![p] = result]
             out == IF \E q \in DOMAIN updated : updated[q] = "pending" THEN Undecided
                    ELSE By("branches", None)
  <1>1. updated \in Seq({"pending", "done"})
    <2> DEFINE b == conflict[c].branches
    <2>1. b \in Seq({"pending", "done"})
      BY DEF TypeOK, ConflictOK
    <2>2. b \in [1..Len(b) -> {"pending", "done"}] /\ Len(b) \in Nat
      BY <2>1
    <2>3. updated \in [1..Len(b) -> {"pending", "done"}]
      BY <2>2
    <2> QED
      BY <2>2, <2>3
  <1>2. out \in Outcomes
    BY OutcomeTypes
  <1> DEFINE row == [conflict[c] EXCEPT !.branches = updated]
  <1>3. conflict' = [conflict EXCEPT ![c] = row] /\ Goto(r, "answered", c, out)
    BY DEF Branch, TypeOK, ConflictOK
  <1> HIDE DEF updated, out
  <1>r. row \in ConflictRow
    BY <1>1, RowRead DEF TypeOK, ConflictRow
  <1> HIDE DEF row
  <1>4. ConflictOK'
    BY <1>3, <1>r, RowWritten DEF TypeOK
  <1>5. CallOK'
    BY <1>2, <1>3, GotoType DEF TypeOK, Threads, Places
  <1> QED
    BY <1>4, <1>5 DEF TypeOK, Branch, MemoryOK

LEMMA AnsweredType ==
  ASSUME TypeOK, NEW r \in Requests, Answered(r), call[r].on \in Conflicts
  PROVE  TypeOK'
  <1>1. \/ Done(r) /\ UNCHANGED <<conflict, timer>>
        \/ Resolve(r, call[r].on, call[r].out)
    BY DEF Answered
  <1>2. ConflictOK' /\ CallOK' /\ timer' \in Timers
    <2>1. CASE Done(r) /\ UNCHANGED <<conflict, timer>>
      BY <2>1, DoneType DEF TypeOK, ConflictOK, Timers, Threads
    <2>2. CASE Resolve(r, call[r].on, call[r].out)
      BY <2>2, ResolveType, OnConflict DEF TypeOK, Timers, Threads
    <2> QED
      BY <1>1, <2>1, <2>2
  <1> QED
    BY <1>2 DEF TypeOK, Answered, MemoryOK, Timers

LEMMA ForceType ==
  ASSUME TypeOK, NEW r \in Requests, NEW c \in Conflicts, ForceResolve(r, c)
  PROVE  TypeOK'
  <1>1. ConflictOK' /\ CallOK' /\ timer' \in Timers
    BY ResolveType, OutcomeTypes DEF TypeOK, Timers, Threads, ForceResolve
  <1> QED
    BY <1>1 DEF TypeOK, ForceResolve, MemoryOK, Timers

LEMMA FireType ==
  ASSUME TypeOK, NEW c \in Conflicts, Fire(c)
  PROVE  TypeOK'
  <1>1. \/ UNCHANGED <<conflict, call>>
        \/ \E p \in Proposals : /\ conflict' = Decided(c, By("plurality", p))
                                 /\ Goto(c, "resolving", c, By("plurality", p))
        \/ /\ conflict' = [conflict EXCEPT ![c] = [@ EXCEPT !.status = "expired"]]
           /\ Goto(c, "expiring", c, Undecided)
    BY DEF Fire
  <1>2. ConflictOK' /\ CallOK'
    <2>1. CASE UNCHANGED <<conflict, call>>
      BY <2>1 DEF TypeOK, ConflictOK, CallOK
    <2>2. CASE \E p \in Proposals : /\ conflict' = Decided(c, By("plurality", p))
                                    /\ Goto(c, "resolving", c, By("plurality", p))
      BY <2>2, DecidedType, GotoType, OutcomeTypes DEF TypeOK, Threads, Places
    <2>3. CASE /\ conflict' = [conflict EXCEPT ![c] = [@ EXCEPT !.status = "expired"]]
               /\ Goto(c, "expiring", c, Undecided)
      <3> DEFINE row == [conflict[c] EXCEPT !.status = "expired"]
      <3>2. row \in ConflictRow /\ conflict' = [conflict EXCEPT ![c] = row]
        BY <2>3, RowRead DEF TypeOK, ConflictRow
      <3> HIDE DEF row
      <3>1. ConflictOK'
        BY <3>2, RowWritten DEF TypeOK
      <3> QED
        BY <3>1, <2>3, GotoType, OutcomeTypes DEF TypeOK, Threads, Places
    <2> QED
      BY <1>1, <2>1, <2>2, <2>3
  <1> QED
    BY <1>2 DEF TypeOK, Fire, MemoryOK

LEMMA LogExpiryType ==
  ASSUME TypeOK, NEW c \in Conflicts, LogExpiry(c)
  PROVE  TypeOK'
  <1>1. CallOK'
    BY GotoType, OutcomeTypes DEF TypeOK, LogExpiry, Threads, Places
  <1>2. log' \in [Conflicts -> Seq(Outcomes)]
    BY OutcomeTypes DEF TypeOK, LogExpiry
  <1> QED
    BY <1>1, <1>2 DEF TypeOK, LogExpiry, MemoryOK, ConflictOK

LEMMA RejectType ==
  ASSUME TypeOK, NEW c \in Conflicts, Reject(c)
  PROVE  TypeOK'
  <1>1. CallOK'
    BY DoneType DEF TypeOK, Reject, Threads
  <1>2. alive' \in BOOLEAN
    BY DEF Reject
  <1> QED
    BY <1>1, <1>2 DEF TypeOK, Reject, MemoryOK, ConflictOK

LEMMA SaveFailsType ==
  ASSUME TypeOK, NEW t \in Threads, SaveFails(t)
  PROVE  TypeOK'
  <1>1. CallOK'
    BY DoneType DEF TypeOK, SaveFails
  <1>2. failures' \in 0..MaxFailures /\ alive' \in BOOLEAN
    BY Constants DEF TypeOK, SaveFails
  <1> QED
    BY <1>1, <1>2 DEF TypeOK, SaveFails, MemoryOK, ConflictOK

-----------------------------------------------------------------------------
(* What the threads know                                                      *)

LEMMA GotoKnows ==
  ASSUME CallOK, CallsKnow, NEW t \in Threads, NEW pc \in Places, NEW c \in Conflicts, NEW out \in Outcomes,
         t \in Conflicts => c = t,
         pc = "answered" => out.by \in {"nobody", "judge", "branches"},
         Goto(t, pc, c, out)
  PROVE  CallsKnow'
  BY DEF CallOK, CallsKnow, Goto, At, Threads

LEMMA DoneKnows ==
  ASSUME CallOK, CallsKnow, NEW t \in Threads, Done(t)
  PROVE  CallsKnow'
  BY DEF CallOK, CallsKnow, Done, Goto, At, Threads, Undecided, By

LEMMA ResolveKnows ==
  ASSUME CallOK, CallsKnow, NEW t \in Requests, NEW c \in Conflicts, NEW out \in Outcomes, Resolve(t, c, out)
  PROVE  CallsKnow'
  <1>1. Done(t) \/ Goto(t, "resolving", c, out)
    BY DEF Resolve
  <1>2. t \in Threads /\ t \notin Conflicts
    BY Constants DEF Threads
  <1> QED
    BY <1>1, <1>2, DoneKnows, GotoKnows DEF Places

LEMMA NoCallKnows ==
  ASSUME CallsKnow, call' = call
  PROVE  CallsKnow'
  BY DEF CallsKnow, At

LEMMA RequestStarts ==
  ASSUME TypeOK, CallsKnow, NEW r \in Requests, NEW c \in Conflicts,
         \/ \E s \in Choices[c] : Raise(r, c, s)
         \/ AddProposal(r, c)
         \/ \E p \in Proposals : CastVote(r, c, p)
         \/ Judge(r, c)
         \/ \E p \in Proposals, result \in {"pending", "done"} : Branch(r, c, p, result)
         \/ ForceResolve(r, c)
  PROVE  TypeOK' /\ CallsKnow'
  <1>1. r \in Threads /\ r \notin Conflicts /\ CallOK
    BY Constants DEF Threads, TypeOK
  <1>2. CASE \E s \in Choices[c] : Raise(r, c, s)
    <2>1. Goto(r, "raised", c, Undecided)
      BY <1>2 DEF Raise
    <2> QED
      BY <1>1, <1>2, <2>1, RaiseType, GotoKnows, OutcomeTypes DEF Places
  <1>3. CASE AddProposal(r, c)
    BY <1>3, AddProposalType, NoCallKnows DEF AddProposal
  <1>4. CASE \E p \in Proposals : CastVote(r, c, p)
    <2>1. Goto(r, "voted", c, Undecided)
      BY <1>4 DEF CastVote
    <2> QED
      BY <1>1, <1>4, <2>1, CastVoteType, GotoKnows, OutcomeTypes DEF Places
  <1>5. CASE Judge(r, c)
    <2>1. Goto(r, "answered", c, By("judge", None)) /\ By("judge", None).by = "judge"
      BY <1>5 DEF Judge, By
    <2> QED
      BY <1>1, <1>5, <2>1, JudgeType, GotoKnows, OutcomeTypes DEF Places
  <1>6. CASE \E p \in Proposals, result \in {"pending", "done"} : Branch(r, c, p, result)
    <2>1. \E out \in {Undecided, By("branches", None)} : Goto(r, "answered", c, out)
      BY <1>6 DEF Branch
    <2>2. Undecided.by = "nobody" /\ By("branches", None).by = "branches"
      BY DEF Undecided, By
    <2> QED
      BY <1>1, <1>6, <2>1, <2>2, BranchType, GotoKnows, OutcomeTypes DEF Places
  <1>7. CASE ForceResolve(r, c)
    <2>1. Resolve(r, c, By("force", None))
      BY <1>7 DEF ForceResolve
    <2> QED
      BY <1>1, <1>7, <2>1, ForceType, ResolveKnows, OutcomeTypes
  <1> QED
    BY <1>2, <1>3, <1>4, <1>5, <1>6, <1>7

LEMMA ContinueKnows ==
  ASSUME TypeOK, CallsKnow, NEW t \in Threads, Continue(t)
  PROVE  TypeOK' /\ CallsKnow' /\ call[t].on \in Conflicts
  <1>1. call[t].on \in Conflicts
    BY DEF Continue, LogDecision, Settle, CallsKnow, At
  <1>2. CASE LogDecision(t)
    <2>1. t \in Conflicts => call[t].on = t
      BY <1>2 DEF LogDecision, CallsKnow, At
    <2>2. CallsKnow'
      BY <1>1, <1>2, <2>1, GotoKnows, OnConflict DEF LogDecision, TypeOK, Places
    <2> QED
      BY <1>1, <1>2, <2>2, LogDecisionType
  <1>3. CASE Settle(t)
    BY <1>1, <1>3, SettleType, DoneKnows DEF Settle, TypeOK
  <1> QED
    BY <1>1, <1>2, <1>3 DEF Continue

LEMMA RequestContinues ==
  ASSUME TypeOK, CallsKnow, NEW r \in Requests, Answer(r)
  PROVE  TypeOK' /\ CallsKnow' /\ call[r].on \in Conflicts
  <1>1. r \in Threads /\ r \notin Conflicts /\ CallOK
    BY Constants DEF Threads, TypeOK
  <1>2. CASE Continue(r)
    BY <1>1, <1>2, ContinueKnows
  <1>3. CASE Raised(r)
    <2>1. call[r].on \in Conflicts
      BY <1>1, <1>3 DEF Raised, CallsKnow, At
    <2>2. Done(r) \/ Goto(r, "resolving", call[r].on, By("deferral", None))
      BY <1>3 DEF Raised
    <2>3. CallsKnow'
      BY <1>1, <2>1, <2>2, DoneKnows, GotoKnows, OutcomeTypes DEF Places
    <2> QED
      BY <1>3, <2>1, <2>3, RaisedType
  <1>4. CASE CheckQuorum(r)
    <2>1. call[r].on \in Conflicts
      BY <1>1, <1>4 DEF CheckQuorum, CallsKnow, At
    <2>2. Done(r) \/ \E p \in Proposals : Resolve(r, call[r].on, By("vote", p))
      BY <1>4 DEF CheckQuorum
    <2>3. CallsKnow'
      BY <1>1, <2>1, <2>2, DoneKnows, ResolveKnows, OutcomeTypes
    <2> QED
      BY <1>4, <2>1, <2>3, CheckQuorumType
  <1>5. CASE Answered(r)
    <2>1. call[r].on \in Conflicts /\ call[r].out \in Outcomes
      BY <1>1, <1>5, OnConflict DEF Answered, CallsKnow, At
    <2>2. Done(r) \/ Resolve(r, call[r].on, call[r].out)
      BY <1>5 DEF Answered
    <2>3. CallsKnow'
      BY <1>1, <2>1, <2>2, DoneKnows, ResolveKnows
    <2> QED
      BY <1>5, <2>1, <2>3, AnsweredType
  <1> QED
    BY <1>2, <1>3, <1>4, <1>5 DEF Answer

LEMMA TimerContinues ==
  ASSUME TypeOK, CallsKnow, NEW c \in Conflicts, Expire(c)
  PROVE  TypeOK' /\ CallsKnow'
  <1>1. c \in Threads /\ CallOK
    BY DEF Threads, TypeOK
  <1>2. CASE Continue(c)
    BY <1>1, <1>2, ContinueKnows
  <1>3. CASE Fire(c)
    <2>1. \/ call' = call
          \/ \E p \in Proposals : Goto(c, "resolving", c, By("plurality", p))
          \/ Goto(c, "expiring", c, Undecided)
      BY <1>3 DEF Fire
    <2>2. CallsKnow'
      BY <1>1, <2>1, NoCallKnows, GotoKnows, OutcomeTypes DEF Places
    <2> QED
      BY <1>3, <2>2, FireType
  <1>4. CASE LogExpiry(c)
    <2>1. CallsKnow'
      BY <1>1, <1>4, GotoKnows, OutcomeTypes DEF LogExpiry, Places
    <2> QED
      BY <1>4, <2>1, LogExpiryType
  <1>5. CASE Reject(c)
    BY <1>1, <1>5, DoneKnows, RejectType DEF Reject
  <1> QED
    BY <1>2, <1>3, <1>4, <1>5 DEF Expire

(* Types and the threads' knowledge hold in every reachable state.            *)
LEMMA KnownTypes == Spec => [](TypeOK /\ CallsKnow)
  <1>1. Init => TypeOK /\ CallsKnow
    <2> SUFFICES ASSUME Init PROVE TypeOK /\ CallsKnow
      OBVIOUS
    <2>1. ConflictOK
      BY Constants, OutcomeTypes DEF Init, ConflictOK, Unraised, Strategies
    <2>2. MemoryOK
      BY Constants, FS_EmptySet DEF Init, MemoryOK
    <2>3. CallOK /\ CallsKnow
      BY OutcomeTypes DEF Init, CallOK, CallsKnow, At, Places, Threads
    <2> QED
      BY <2>1, <2>2, <2>3, Constants DEF Init, TypeOK
  <1>2. TypeOK /\ CallsKnow /\ [Next]_vars => TypeOK' /\ CallsKnow'
    <2> SUFFICES ASSUME TypeOK, CallsKnow, [Next]_vars PROVE TypeOK' /\ CallsKnow'
      OBVIOUS
    <2>1. CASE \E t \in Threads : SaveFails(t)
      BY <2>1, SaveFailsType, DoneKnows DEF SaveFails, TypeOK
    <2>2. CASE \E r \in Requests : Answer(r)
      BY <2>2, RequestContinues
    <2>3. CASE \E c \in Conflicts : Expire(c)
      BY <2>3, TimerContinues
    <2>4. CASE UNCHANGED vars
      BY <2>4 DEF vars, TypeOK, ConflictOK, MemoryOK, CallOK, CallsKnow, At
    <2> QED
      BY <2>1, <2>2, <2>3, <2>4, RequestStarts DEF Next
  <1> QED
    BY <1>1, <1>2, PTL DEF Spec

(* Type correctness for any number of conflicts, requests and participants,   *)
(* and the map never exceeds its capacity (enforceCapacityLimit).             *)
THEOREM TypeCorrect == Spec => []TypeOK
  BY KnownTypes, PTL

-----------------------------------------------------------------------------
(* Decisions                                                                  *)

Told(c) == promise[c] = "kept"

(* What an outcome claims of the votes it was taken from.                     *)
Supported(votes, out) ==
    /\ out.by = "vote" => Len(votes) >= 2 /\ 100 * Count(votes, out.winner) >= Threshold * Len(votes)
    /\ out.by = "plurality" => \A p \in Proposals : Count(votes, p) <= Count(votes, out.winner)

(* A step that decides nothing: resolved conflicts stay as they are, and no   *)
(* call comes to the place behind a decision.                                 *)
KeepsDecisions ==
    \A c \in Conflicts :
        /\ conflict'[c].status = "resolved" <=> conflict[c].status = "resolved"
        /\ conflict'[c].outcome = conflict[c].outcome
        /\ conflict[c].status = "resolved" => conflict'[c].votes = conflict[c].votes

TellsNobody == \A c \in Conflicts : Told(c)' => Told(c)

Quiet(t) ==
    /\ KeepsDecisions /\ TellsNobody
    /\ \A u \in Threads \ {t} : call'[u] = call[u]
    /\ call'[t].pc \notin {"resolving", "logging"}

(* A step that decides a conflict.                                            *)
Decides(t, c, out) ==
    /\ conflict[c].status # "resolved" /\ out # Undecided /\ Supported(conflict[c].votes, out)
    /\ conflict' = Decided(c, out)
    /\ Goto(t, "resolving", c, out)
    /\ log' = log /\ TellsNobody

Resolves(t) == \E c \in Conflicts, out \in Outcomes : Decides(t, c, out)

LEMMA CountIsNat ==
  ASSUME NEW votes \in Seq(Proposals), NEW p
  PROVE  Count(votes, p) \in Nat
  <1>1. {i \in DOMAIN votes : votes[i] = p} \subseteq 1..Len(votes) /\ Len(votes) \in Nat
    OBVIOUS
  <1>2. IsFiniteSet(1..Len(votes))
    BY <1>1, FS_Interval
  <1>3. IsFiniteSet({i \in DOMAIN votes : votes[i] = p})
    BY <1>1, <1>2, FS_Subset
  <1> QED
    BY <1>3, FS_CardinalityType DEF Count

LEMMA LeaderHasMost ==
  ASSUME NEW votes \in Seq(Proposals), NEW p \in Proposals, Leads(votes, p)
  PROVE  Supported(votes, By("plurality", p))
  <1>1. ASSUME NEW q \in Proposals PROVE Count(votes, q) <= Count(votes, p)
    <2>1. CASE \E j \in DOMAIN votes : votes[j] = q
      BY <2>1 DEF Leads
    <2>2. CASE ~\E j \in DOMAIN votes : votes[j] = q
      <3>1. {i \in DOMAIN votes : votes[i] = q} = {}
        BY <2>2
      <3>2. Count(votes, q) = 0
        BY <3>1, FS_EmptySet DEF Count
      <3> QED
        BY <3>2, CountIsNat
    <2> QED
      BY <2>1, <2>2
  <1> QED
    BY <1>1 DEF Supported, By

LEMMA QuorumSupports ==
  ASSUME NEW votes, NEW p \in Proposals, Reaches(votes, p)
  PROVE  Supported(votes, By("vote", p))
  BY DEF Reaches, Supported, By

LEMMA OthersSupported ==
  ASSUME NEW votes, NEW out \in Outcomes, out.by \notin {"vote", "plurality"}
  PROVE  Supported(votes, out)
  BY DEF Supported

LEMMA NotUndecided ==
  /\ \A who \in {"judge", "branches", "force", "deferral"} :
        By(who, None) # Undecided /\ By(who, None).by \notin {"vote", "plurality"}
  /\ \A p \in Proposals : By("vote", p) # Undecided /\ By("plurality", p) # Undecided
  BY DEF By, Undecided

LEMMA ResolveDecides ==
  ASSUME CallOK, NEW t \in Threads, NEW c \in Conflicts, NEW out \in Outcomes, Resolve(t, c, out),
         out # Undecided, Supported(conflict[c].votes, out), log' = log, promise' = promise
  PROVE  (Quiet(t) /\ log' = log) \/ Resolves(t)
  <1>1. TellsNobody
    BY DEF TellsNobody, Told
  <1>2. CASE c \in memory /\ conflict[c].status # "resolved"
    BY <1>1, <1>2 DEF Resolve, Decides, Resolves
  <1>3. CASE ~(c \in memory /\ conflict[c].status # "resolved")
    <2>1. Done(t) /\ conflict' = conflict
      BY <1>3 DEF Resolve
    <2>2. KeepsDecisions
      BY <2>1 DEF KeepsDecisions
    <2> QED
      BY <1>1, <2>1, <2>2 DEF Quiet, Done, Goto, CallOK
  <1> QED
    BY <1>2, <1>3

LEMMA QuietStep ==
  ASSUME CallOK, NEW t \in Threads, NEW pc \in Places \ {"resolving", "logging"}, NEW c, NEW out,
         Goto(t, pc, c, out), KeepsDecisions, promise' = promise
  PROVE  Quiet(t)
  BY DEF Quiet, Goto, CallOK, TellsNobody, Told

(* Each step of a request that starts decides nothing, or resolves.           *)
LEMMA StartKinds ==
  ASSUME TypeOK, CallsKnow, NEW r \in Requests, NEW c \in Conflicts,
         \/ \E s \in Choices[c] : Raise(r, c, s)
         \/ AddProposal(r, c)
         \/ \E p \in Proposals : CastVote(r, c, p)
         \/ Judge(r, c)
         \/ \E p \in Proposals, result \in {"pending", "done"} : Branch(r, c, p, result)
         \/ ForceResolve(r, c)
  PROVE  (Quiet(r) /\ log' = log) \/ Resolves(r)
  <1>1. r \in Threads /\ CallOK /\ ConflictOK
    BY DEF Threads, TypeOK
  <1>2. CASE \E s \in Choices[c] : Raise(r, c, s)
    <2>a. PICK s \in Choices[c] : 
             /\ conflict[c].status = "unraised"
             /\ conflict' = [conflict EXCEPT ![c] = [conflict[c] EXCEPT !.status = "open", !.strategy = s]]
      BY <1>1, <1>2 DEF Raise, ConflictOK
    <2>1. KeepsDecisions
      BY <1>1, <2>a DEF KeepsDecisions, ConflictOK
    <2> QED
      BY <1>1, <1>2, <2>1, QuietStep DEF Raise, Places
  <1>3. CASE AddProposal(r, c)
    <2>1. KeepsDecisions
      BY <1>1, <1>3 DEF AddProposal, KeepsDecisions, ConflictOK
    <2>2. call[r].pc = "idle" /\ call' = call /\ promise' = promise /\ log' = log
      BY <1>3 DEF AddProposal, Idle, At
    <2> QED
      BY <2>1, <2>2 DEF Quiet, TellsNobody, Told
  <1>4. CASE \E p \in Proposals : CastVote(r, c, p)
    <2>1. KeepsDecisions
      BY <1>1, <1>4 DEF CastVote, KeepsDecisions, ConflictOK, Open
    <2> QED
      BY <1>1, <1>4, <2>1, QuietStep DEF CastVote, Places
  <1>5. CASE Judge(r, c)
    <2>1. KeepsDecisions
      BY <1>1, <1>5 DEF Judge, KeepsDecisions, ConflictOK
    <2> QED
      BY <1>1, <1>5, <2>1, QuietStep DEF Judge, Places
  <1>6. CASE \E p \in Proposals, result \in {"pending", "done"} : Branch(r, c, p, result)
    <2>1. KeepsDecisions
      BY <1>1, <1>6 DEF Branch, KeepsDecisions, ConflictOK
    <2>2. \E out : Goto(r, "answered", c, out)
      BY <1>6 DEF Branch
    <2> QED
      BY <1>1, <1>6, <2>1, <2>2, QuietStep DEF Branch, Places
  <1>7. CASE ForceResolve(r, c)
    <2>1. Resolve(r, c, By("force", None)) /\ log' = log /\ promise' = promise
      BY <1>7 DEF ForceResolve
    <2>2. Supported(conflict[c].votes, By("force", None))
      BY OthersSupported, OutcomeTypes, NotUndecided
    <2> QED
      BY <1>1, <2>1, <2>2, ResolveDecides, OutcomeTypes, NotUndecided
  <1> QED
    BY <1>2, <1>3, <1>4, <1>5, <1>6, <1>7

LEMMA AnswerKinds ==
  ASSUME TypeOK, CallsKnow, NEW r \in Requests, Answer(r)
  PROVE  (Quiet(r) /\ log' = log) \/ Resolves(r) \/ Continue(r)
  <1>1. r \in Threads /\ CallOK /\ ConflictOK
    BY DEF Threads, TypeOK
  <1> DEFINE c == call[r].on
  <1>2. c \in Conflicts
    BY RequestContinues
  <1>3. CASE Raised(r)
    <2>1. TellsNobody /\ log' = log
      BY <1>2, <1>3 DEF Raised, TellsNobody, Told, TypeOK
    <2>2. \/ UNCHANGED conflict /\ Done(r)
          \/ /\ conflict[c].status # "resolved"
             /\ conflict' = Decided(c, By("deferral", None))
             /\ Goto(r, "resolving", c, By("deferral", None))
      BY <1>3 DEF Raised
    <2>3. CASE UNCHANGED conflict /\ Done(r)
      BY <1>1, <2>1, <2>3 DEF Quiet, KeepsDecisions, Done, Goto, CallOK
    <2>4. CASE /\ conflict[c].status # "resolved"
               /\ conflict' = Decided(c, By("deferral", None))
               /\ Goto(r, "resolving", c, By("deferral", None))
      BY <1>2, <2>1, <2>4, OutcomeTypes, NotUndecided, OthersSupported DEF Resolves, Decides
    <2> QED
      BY <2>2, <2>3, <2>4
  <1>4. CASE CheckQuorum(r)
    <2>1. log' = log /\ promise' = promise
      BY <1>4 DEF CheckQuorum
    <2>2. CASE Done(r) /\ conflict' = conflict
      <3>1. KeepsDecisions
        BY <2>2 DEF KeepsDecisions
      <3> QED
        BY <1>1, <2>1, <2>2, <3>1, QuietStep DEF Done, Places
    <2>3. CASE \E p \in Proposals : Reaches(conflict[c].votes, p) /\ Resolve(r, c, By("vote", p))
      <3>1. PICK p \in Proposals : Reaches(conflict[c].votes, p) /\ Resolve(r, c, By("vote", p))
        BY <2>3
      <3>2. Supported(conflict[c].votes, By("vote", p))
        BY <3>1, QuorumSupports
      <3> QED
        BY <1>1, <1>2, <2>1, <3>1, <3>2, ResolveDecides, OutcomeTypes, NotUndecided
    <2> QED
      BY <1>4, <2>2, <2>3 DEF CheckQuorum
  <1>5. CASE Answered(r)
    <2>1. log' = log /\ promise' = promise
      BY <1>5 DEF Answered
    <2>2. CASE Done(r) /\ conflict' = conflict
      <3>1. KeepsDecisions
        BY <2>2 DEF KeepsDecisions
      <3> QED
        BY <1>1, <2>1, <2>2, <3>1, QuietStep DEF Done, Places
    <2>3. CASE call[r].out # Undecided /\ Resolve(r, c, call[r].out)
      <3>1. call[r].out \in Outcomes /\ call[r].out.by \notin {"vote", "plurality"}
        BY <1>1, <1>5, OnConflict DEF Answered, CallsKnow
      <3>2. Supported(conflict[c].votes, call[r].out)
        BY <3>1, OthersSupported
      <3> QED
        BY <1>1, <1>2, <2>1, <2>3, <3>1, <3>2, ResolveDecides
    <2> QED
      BY <1>5, <2>2, <2>3 DEF Answered
  <1> QED
    BY <1>3, <1>4, <1>5 DEF Answer

LEMMA TimerKinds ==
  ASSUME TypeOK, CallsKnow, NEW c \in Conflicts, Expire(c)
  PROVE  (Quiet(c) /\ log' = log) \/ Resolves(c) \/ Continue(c) \/ (LogExpiry(c) /\ Quiet(c))
  <1>1. c \in Threads /\ CallOK /\ ConflictOK
    BY DEF Threads, TypeOK
  <1>2. CASE Fire(c)
    <2>1. log' = log /\ promise' = promise /\ TellsNobody
      BY <1>2 DEF Fire, TellsNobody, Told
    <2>2. CASE UNCHANGED <<conflict, call>>
      <3>1. call[c].pc = "idle"
        BY <1>2 DEF Fire, Idle, At
      <3> QED
        BY <2>1, <2>2, <3>1 DEF Quiet, KeepsDecisions
    <2>3. CASE Open(c) /\ \E p \in Proposals : /\ Leads(conflict[c].votes, p)
                                             /\ conflict' = Decided(c, By("plurality", p))
                                             /\ Goto(c, "resolving", c, By("plurality", p))
      <3>1. PICK p \in Proposals : /\ Leads(conflict[c].votes, p)
                                  /\ conflict' = Decided(c, By("plurality", p))
                                  /\ Goto(c, "resolving", c, By("plurality", p))
        BY <2>3
      <3>2. conflict[c].votes \in Seq(Proposals) /\ conflict[c].status # "resolved"
        BY <1>1, <2>3 DEF ConflictOK, Open
      <3>3. Supported(conflict[c].votes, By("plurality", p))
        BY <3>1, <3>2, LeaderHasMost
      <3> QED
        BY <2>1, <3>1, <3>2, <3>3, OutcomeTypes, NotUndecided DEF Resolves, Decides
    <2>4. CASE /\ Open(c)
               /\ conflict' = [conflict EXCEPT ![c] = [@ EXCEPT !.status = "expired"]]
               /\ Goto(c, "expiring", c, Undecided)
      <3>1. KeepsDecisions
        BY <1>1, <2>4 DEF KeepsDecisions, ConflictOK, Open
      <3> QED
        BY <1>1, <2>1, <2>4, <3>1, QuietStep DEF Places
    <2> QED
      BY <1>2, <2>2, <2>3, <2>4 DEF Fire
  <1>3. CASE LogExpiry(c)
    <2>1. KeepsDecisions
      BY <1>3 DEF LogExpiry, KeepsDecisions
    <2> QED
      BY <1>1, <1>3, <2>1, QuietStep DEF LogExpiry, Places
  <1>4. CASE Reject(c)
    <2>1. KeepsDecisions /\ TellsNobody /\ log' = log
      BY <1>4 DEF Reject, KeepsDecisions, TellsNobody, Told, TypeOK
    <2> QED
      BY <1>1, <1>4, <2>1 DEF Reject, Quiet, Done, Goto, CallOK
  <1> QED
    BY <1>2, <1>3, <1>4 DEF Expire

(* Every step decides nothing, decides one conflict, logs a decision, tells   *)
(* the raiser or logs an expiry.                                              *)
LEMMA StepKinds ==
  ASSUME TypeOK, CallsKnow, Next
  PROVE  \E t \in Threads :
            \/ Quiet(t) /\ log' = log
            \/ Resolves(t)
            \/ Continue(t)
            \/ t \in Conflicts /\ LogExpiry(t) /\ Quiet(t)
  <1>1. CASE \E t \in Threads : SaveFails(t)
    <2>1. PICK t \in Threads : SaveFails(t)
      BY <1>1
    <2>2. KeepsDecisions /\ log' = log /\ promise' = promise /\ CallOK
      BY <2>1 DEF SaveFails, KeepsDecisions, TypeOK
    <2> QED
      BY <2>1, <2>2, QuietStep DEF SaveFails, Done, Places
  <1>2. CASE \E r \in Requests : Answer(r)
    BY <1>2, AnswerKinds DEF Threads
  <1>3. CASE \E c \in Conflicts : Expire(c)
    BY <1>3, TimerKinds DEF Threads
  <1> QED
    BY <1>1, <1>2, <1>3, StartKinds DEF Next, Threads

-----------------------------------------------------------------------------
(* A quorum decides                                                           *)

(* What was said of the votes at the decision still holds, as the votes of a  *)
(* resolved conflict are final.                                               *)
OutcomesSupported ==
    \A c \in Conflicts :
        /\ conflict[c].status # "resolved" => conflict[c].outcome = Undecided
        /\ Supported(conflict[c].votes, conflict[c].outcome)

LEMMA DecidedFields ==
  ASSUME ConflictOK, NEW c \in Conflicts, NEW out, conflict' = Decided(c, out)
  PROVE  /\ conflict'[c].status = "resolved" /\ conflict'[c].outcome = out
         /\ conflict'[c].votes = conflict[c].votes
         /\ \A d \in Conflicts \ {c} : conflict'[d] = conflict[d]
  BY DEF Decided, ConflictOK

LEMMA UndecidedSupported == \A votes : Supported(votes, Undecided)
  BY DEF Supported, Undecided, By

LEMMA SupportedStep ==
  ASSUME TypeOK, CallsKnow, OutcomesSupported, [Next]_vars
  PROVE  OutcomesSupported'
  <1>1. ConflictOK
    BY DEF TypeOK
  <1>2. CASE KeepsDecisions
    <2> SUFFICES ASSUME NEW c \in Conflicts
                 PROVE  /\ conflict'[c].status # "resolved" => conflict'[c].outcome = Undecided
                        /\ Supported(conflict'[c].votes, conflict'[c].outcome)
      BY DEF OutcomesSupported, Supported, Count
    <2>1. CASE conflict[c].status = "resolved"
      BY <1>2, <2>1 DEF KeepsDecisions, OutcomesSupported
    <2>2. CASE conflict[c].status # "resolved"
      <3>1. conflict'[c].outcome = Undecided
        BY <1>2, <2>2 DEF KeepsDecisions, OutcomesSupported
      <3> QED
        BY <3>1, UndecidedSupported
    <2> QED
      BY <2>1, <2>2
  <1>3. CASE \E t \in Threads : Resolves(t)
    <2>1. PICK t \in Threads, c \in Conflicts, out \in Outcomes : Decides(t, c, out)
      BY <1>3 DEF Resolves
    <2>2. conflict' = Decided(c, out) /\ Supported(conflict[c].votes, out)
      BY <2>1 DEF Decides
    <2> SUFFICES ASSUME NEW d \in Conflicts
                 PROVE  /\ conflict'[d].status # "resolved" => conflict'[d].outcome = Undecided
                        /\ Supported(conflict'[d].votes, conflict'[d].outcome)
      BY DEF OutcomesSupported, Supported, Count
    <2>3. CASE d = c
      BY <1>1, <2>2, <2>3, DecidedFields
    <2>4. CASE d # c
      BY <1>1, <2>2, <2>4, DecidedFields DEF OutcomesSupported
    <2> QED
      BY <2>3, <2>4
  <1>4. ASSUME NEW t \in Threads, Continue(t) PROVE KeepsDecisions
    BY <1>4 DEF Continue, LogDecision, Settle, KeepsDecisions
  <1>5. CASE UNCHANGED vars
    BY <1>5, <1>2 DEF vars, KeepsDecisions
  <1>6. CASE Next
    BY <1>6, <1>2, <1>3, <1>4, StepKinds DEF Quiet
  <1> QED
    BY <1>5, <1>6

(* A conflict decided by a quorum or by plurality has the votes for it, for   *)
(* any participants, proposals, threshold and order of votes, saves and       *)
(* timers (checkQuorum, handleTimeout).                                       *)
THEOREM QuorumDecidesAlways == Spec => []QuorumDecides
  <1>1. Init => OutcomesSupported
    BY UndecidedSupported DEF Init, OutcomesSupported, Unraised
  <1>2. TypeOK /\ CallsKnow /\ OutcomesSupported /\ [Next]_vars => OutcomesSupported'
    BY SupportedStep
  <1>3. OutcomesSupported => QuorumDecides
    BY DEF OutcomesSupported, QuorumDecides, Supported, Count
  <1> QED
    BY <1>1, <1>2, <1>3, KnownTypes, PTL DEF Spec

-----------------------------------------------------------------------------
(* Every conflict is decided once                                             *)

Logged(c) == \E i \in DOMAIN log[c] : log[c][i] = conflict[c].outcome
OnlyExpiries(c) == \A i \in DOMAIN log[c] : log[c][i] = Undecided

(* A resolved conflict has an outcome and no other has.                       *)
ResolvedIsDecided == \A c \in Conflicts : conflict[c].status = "resolved" <=> conflict[c].outcome # Undecided

(* The one call that has resolved a conflict carries its outcome, and the log *)
(* has no decision before that call has written it.                           *)
OneResolver ==
    /\ \A t \in Threads : At(t, "resolving") \/ At(t, "logging") =>
           conflict[call[t].on].status = "resolved" /\ call[t].out = conflict[call[t].on].outcome
    /\ \A t, u \in Threads : At(t, "resolving") /\ At(u, "resolving") /\ call[t].on = call[u].on => t = u
    /\ \A t \in Threads : At(t, "resolving") => OnlyExpiries(call[t].on)
    /\ \A t \in Threads : At(t, "logging") => Logged(call[t].on)

DecisionInv == ResolvedIsDecided /\ OneResolver /\ OneDecision

(* Nothing is decided or logged.                                              *)
LEMMA QuietDecision ==
  ASSUME TypeOK, CallsKnow, DecisionInv, NEW t \in Threads, Quiet(t), log' = log
  PROVE  DecisionInv'
  <1>1. ResolvedIsDecided'
    BY DEF DecisionInv, ResolvedIsDecided, Quiet, KeepsDecisions
  <1>2. \A u \in Threads : At(u, "resolving")' \/ At(u, "logging")' => u # t /\ call'[u] = call[u]
    BY DEF Quiet, At
  <1>3. \A u \in Threads : At(u, "resolving")' \/ At(u, "logging")' => call[u].on \in Conflicts
    BY <1>2 DEF CallsKnow, At
  <1>4. \A c \in Conflicts : conflict'[c].outcome = conflict[c].outcome
        /\ (conflict'[c].status = "resolved" <=> conflict[c].status = "resolved")
    BY DEF Quiet, KeepsDecisions
  <1>5. OneResolver'
    BY <1>2, <1>3, <1>4 DEF DecisionInv, OneResolver, OnlyExpiries, Logged, At
  <1>6. OneDecision'
    BY <1>4 DEF DecisionInv, OneDecision, Quiet, TellsNobody, Told
  <1> QED
    BY <1>1, <1>5, <1>6 DEF DecisionInv

(* A conflict that had no outcome gets one, and its log had no decision.      *)
LEMMA ResolveDecision ==
  ASSUME TypeOK, CallsKnow, DecisionInv, NEW t \in Threads, NEW c \in Conflicts, NEW out \in Outcomes,
         Decides(t, c, out)
  PROVE  DecisionInv'
  <1>1. /\ conflict'[c].status = "resolved" /\ conflict'[c].outcome = out /\ out # Undecided
        /\ \A d \in Conflicts \ {c} : conflict'[d] = conflict[d]
    BY DecidedFields DEF Decides, TypeOK
  <1>2. conflict[c].status # "resolved" /\ conflict[c].outcome = Undecided /\ log' = log
    BY DEF Decides, DecisionInv, ResolvedIsDecided
  <1>3. OnlyExpiries(c)
    BY <1>2 DEF DecisionInv, OneDecision, OnlyExpiries
  <1>4. promise[c] # "kept"
    BY <1>2 DEF DecisionInv, OneDecision
  <1>5. call'[t] = [pc |-> "resolving", on |-> c, out |-> out]
        /\ \A u \in Threads \ {t} : call'[u] = call[u]
    BY DEF Decides, Goto, TypeOK, CallOK
  <1>6. \A u \in Threads \ {t} : At(u, "resolving")' \/ At(u, "logging")' =>
            /\ At(u, "resolving") \/ At(u, "logging")
            /\ call[u].on \in Conflicts /\ call[u].on # c
    BY <1>2, <1>5 DEF At, CallsKnow, DecisionInv, OneResolver
  <1>7. ResolvedIsDecided'
    BY <1>1 DEF DecisionInv, ResolvedIsDecided
  <1>8. OneResolver'
    <2>1. \A u \in Threads : At(u, "resolving")' \/ At(u, "logging")' =>
            conflict'[call'[u].on].status = "resolved" /\ call'[u].out = conflict'[call'[u].on].outcome
      BY <1>1, <1>5, <1>6 DEF DecisionInv, OneResolver, At
    <2>2. \A u, v \in Threads : At(u, "resolving")' /\ At(v, "resolving")' /\ call'[u].on = call'[v].on => u = v
      BY <1>5, <1>6 DEF DecisionInv, OneResolver, At
    <2>4. \A u \in Threads : At(u, "resolving")' => \A i \in DOMAIN log'[call'[u].on] : log'[call'[u].on][i] = Undecided
      BY <1>2, <1>3, <1>5, <1>6 DEF DecisionInv, OneResolver, At, OnlyExpiries
    <2>5. \A u \in Threads : At(u, "logging")' => \E i \in DOMAIN log'[call'[u].on] : log'[call'[u].on][i] = conflict'[call'[u].on].outcome
      BY <1>1, <1>2, <1>5, <1>6 DEF DecisionInv, OneResolver, At, Logged
    <2> QED
      BY <2>1, <2>2, <2>4, <2>5 DEF OneResolver, OnlyExpiries, Logged, At
  <1>9. OneDecision'
    <2> SUFFICES ASSUME NEW d \in Conflicts
                 PROVE  /\ \A i \in DOMAIN log[d] : log[d][i] \in {Undecided, conflict'[d].outcome}
                        /\ \A i, j \in DOMAIN log[d] : log[d][i] # Undecided /\ log[d][j] # Undecided => i = j
                        /\ promise'[d] = "kept" =>
                               /\ conflict'[d].status = "resolved"
                               /\ \E i \in DOMAIN log[d] : log[d][i] = conflict'[d].outcome
      BY <1>2 DEF OneDecision
    <2>1. promise'[d] = "kept" => promise[d] = "kept"
      BY DEF Decides, TellsNobody, Told
    <2>2. CASE d = c
      BY <1>3, <1>4, <2>1, <2>2 DEF OnlyExpiries
    <2>3. CASE d # c
      BY <1>1, <2>1, <2>3 DEF DecisionInv, OneDecision
    <2> QED
      BY <2>2, <2>3
  <1> QED
    BY <1>7, <1>8, <1>9 DEF DecisionInv

LEMMA Appended ==
  ASSUME log \in [Conflicts -> Seq(Outcomes)], NEW c \in Conflicts, NEW out \in Outcomes,
         log' = [log EXCEPT ![c] = Append(@, out)]
  PROVE  /\ \A d \in Conflicts \ {c} : log'[d] = log[d]
         /\ DOMAIN log[c] = 1..Len(log[c]) /\ Len(log[c]) \in Nat
         /\ DOMAIN log'[c] = 1..(Len(log[c]) + 1)
         /\ \A i \in 1..Len(log[c]) : log'[c][i] = log[c][i]
         /\ log'[c][Len(log[c]) + 1] = out
  <1>1. log[c] \in Seq(Outcomes) /\ log'[c] = Append(log[c], out)
    OBVIOUS
  <1> QED
    BY <1>1

(* The one resolver of a conflict logs its outcome, as its first decision.    *)
LEMMA LogDecisionOnce ==
  ASSUME TypeOK, CallsKnow, DecisionInv, NEW t \in Threads, LogDecision(t)
  PROVE  DecisionInv'
  <1> DEFINE c == call[t].on
             n == Len(log[c]) + 1
  <1>1. c \in Conflicts /\ call[t].out \in Outcomes /\ call[t].pc = "resolving"
    BY OnConflict DEF LogDecision, CallsKnow, At, TypeOK
  <1>2. conflict[c].status = "resolved" /\ call[t].out = conflict[c].outcome /\ OnlyExpiries(c)
    BY <1>1 DEF DecisionInv, OneResolver, At
  <1>3. log' = [log EXCEPT ![c] = Append(@, call[t].out)] /\ conflict' = conflict /\ promise' = promise
    BY DEF LogDecision
  <1>4. /\ \A d \in Conflicts \ {c} : log'[d] = log[d]
        /\ DOMAIN log[c] = 1..(n - 1) /\ n \in Nat /\ DOMAIN log'[c] = 1..n
        /\ \A i \in 1..(n - 1) : log'[c][i] = Undecided
        /\ log'[c][n] = conflict[c].outcome /\ n \in 1..n
    <2>1. log \in [Conflicts -> Seq(Outcomes)]
      BY DEF TypeOK
    <2>2. /\ \A d \in Conflicts \ {c} : log'[d] = log[d]
          /\ DOMAIN log[c] = 1..Len(log[c]) /\ Len(log[c]) \in Nat
          /\ DOMAIN log'[c] = 1..(Len(log[c]) + 1)
          /\ \A i \in 1..Len(log[c]) : log'[c][i] = log[c][i]
          /\ log'[c][Len(log[c]) + 1] = call[t].out
      BY <1>1, <1>3, <2>1, Appended
    <2> QED
      BY <1>2, <2>2 DEF OnlyExpiries
  <1>5. /\ call'[t] = [pc |-> "logging", on |-> c, out |-> call[t].out]
        /\ \A u \in Threads \ {t} : call'[u] = call[u]
    BY <1>1 DEF LogDecision, Goto, TypeOK, CallOK
  <1>6. \A u \in Threads \ {t} : At(u, "resolving") => call[u].on # c /\ call[u].on \in Conflicts
    BY <1>1 DEF DecisionInv, OneResolver, At, CallsKnow
  <1> HIDE DEF c, n
  <1>7. ResolvedIsDecided'
    BY <1>3 DEF DecisionInv, ResolvedIsDecided
  <1>8. OneResolver'
    <2>1. \A u \in Threads : call'[u].pc = "resolving" \/ call'[u].pc = "logging" =>
            conflict'[call'[u].on].status = "resolved" /\ call'[u].out = conflict'[call'[u].on].outcome
      BY <1>2, <1>3, <1>5 DEF DecisionInv, OneResolver, At
    <2>2. \A u, v \in Threads : call'[u].pc = "resolving" /\ call'[v].pc = "resolving" /\ call'[u].on = call'[v].on => u = v
      BY <1>5 DEF DecisionInv, OneResolver, At
    <2>3. \A u \in Threads : call'[u].pc = "resolving" => \A i \in DOMAIN log'[call'[u].on] : log'[call'[u].on][i] = Undecided
      BY <1>4, <1>5, <1>6 DEF DecisionInv, OneResolver, OnlyExpiries, At
    <2>4. ASSUME NEW u \in Threads, call'[u].pc = "logging"
          PROVE  \E i \in DOMAIN log'[call'[u].on] : log'[call'[u].on][i] = conflict'[call'[u].on].outcome
      <3>1. CASE call'[u].on = c
        BY <1>3, <1>4, <3>1
      <3>2. CASE call'[u].on # c
        <4>1. u # t /\ call'[u] = call[u] /\ call[u].on \in Conflicts \ {c}
          BY <1>5, <2>4, <3>2 DEF CallsKnow, At
        <4>2. \E i \in DOMAIN log[call[u].on] : log[call[u].on][i] = conflict[call[u].on].outcome
          BY <2>4, <4>1 DEF DecisionInv, OneResolver, At, Logged
        <4> QED
          BY <1>3, <1>4, <4>1, <4>2
      <3> QED
        BY <3>1, <3>2
    <2> QED
      BY <2>1, <2>2, <2>3, <2>4 DEF OneResolver, At, OnlyExpiries, Logged
  <1>9. OneDecision'
    <2> SUFFICES ASSUME NEW d \in Conflicts
                 PROVE  /\ \A i \in DOMAIN log'[d] : log'[d][i] \in {Undecided, conflict[d].outcome}
                        /\ \A i, j \in DOMAIN log'[d] : log'[d][i] # Undecided /\ log'[d][j] # Undecided => i = j
                        /\ promise[d] = "kept" =>
                               /\ conflict[d].status = "resolved"
                               /\ \E i \in DOMAIN log'[d] : log'[d][i] = conflict[d].outcome
      BY <1>3 DEF OneDecision
    <2>1. CASE d # c
      BY <1>4, <2>1 DEF DecisionInv, OneDecision
    <2>2. CASE d = c
      <3>1. \A i \in 1..n : i = n \/ i \in 1..(n - 1)
        BY <1>4
      <3> QED
        BY <1>2, <1>4, <2>2, <3>1
    <2> QED
      BY <2>1, <2>2
  <1> QED
    BY <1>7, <1>8, <1>9 DEF DecisionInv

(* Who is told is told of a decision that is logged.                          *)
LEMMA SettleDecision ==
  ASSUME TypeOK, CallsKnow, DecisionInv, NEW t \in Threads, Settle(t)
  PROVE  DecisionInv'
  <1> DEFINE c == call[t].on
  <1>1. c \in Conflicts /\ conflict[c].status = "resolved" /\ Logged(c)
    BY DEF Settle, CallsKnow, DecisionInv, OneResolver, At
  <1>2. conflict' = conflict /\ log' = log /\ call'[t].pc = "idle"
        /\ \A u \in Threads \ {t} : call'[u] = call[u]
    BY DEF Settle, Done, Goto, TypeOK, CallOK
  <1>3. \A d \in Conflicts : promise'[d] = "kept" => promise[d] = "kept" \/ d = c
    BY <1>1 DEF Settle, TypeOK
  <1>4. ResolvedIsDecided'
    BY <1>2 DEF DecisionInv, ResolvedIsDecided
  <1>5. OneResolver'
    BY <1>2 DEF DecisionInv, OneResolver, OnlyExpiries, Logged, At
  <1>6. OneDecision'
    BY <1>1, <1>2, <1>3 DEF DecisionInv, OneDecision, Logged
  <1> QED
    BY <1>4, <1>5, <1>6 DEF DecisionInv

(* An expiry is logged beside a decision, but is none.                        *)
LEMMA ExpiryDecision ==
  ASSUME TypeOK, CallsKnow, DecisionInv, NEW c \in Conflicts, LogExpiry(c), Quiet(c)
  PROVE  DecisionInv'
  <1> DEFINE n == Len(log[c]) + 1
  <1>1. conflict' = conflict /\ promise' = promise /\ log' = [log EXCEPT ![c] = Append(@, Undecided)]
    BY DEF LogExpiry
  <1>2. /\ \A d \in Conflicts \ {c} : log'[d] = log[d]
        /\ DOMAIN log[c] = 1..(n - 1) /\ n \in Nat /\ DOMAIN log'[c] = 1..n
        /\ \A i \in 1..(n - 1) : log'[c][i] = log[c][i]
        /\ log'[c][n] = Undecided
    BY <1>1, Appended, OutcomeTypes DEF TypeOK
  <1>3. ASSUME NEW d \in Conflicts
        PROVE  /\ DOMAIN log[d] \subseteq DOMAIN log'[d]
               /\ \A i \in DOMAIN log[d] : log'[d][i] = log[d][i]
               /\ \A i \in DOMAIN log'[d] \ DOMAIN log[d] : log'[d][i] = Undecided
    <2>1. \A i \in 1..n : i = n \/ i \in 1..(n - 1)
      BY <1>2
    <2>2. 1..(n - 1) \subseteq 1..n
      BY <1>2
    <2> QED
      BY <1>2, <2>1, <2>2
  <1> HIDE DEF n
  <1>4. \A u \in Threads : At(u, "resolving")' \/ At(u, "logging")' =>
            u # c /\ call'[u] = call[u] /\ call[u].on \in Conflicts
    BY DEF Quiet, At, CallsKnow, Threads
  <1>5. ResolvedIsDecided'
    BY <1>1 DEF DecisionInv, ResolvedIsDecided
  <1>6. OneResolver'
    <2>1. \A u \in Threads : At(u, "resolving")' => OnlyExpiries(call[u].on)
      BY <1>4 DEF DecisionInv, OneResolver, At
    <2>2. \A u \in Threads : At(u, "logging")' => Logged(call[u].on)
      BY <1>4 DEF DecisionInv, OneResolver, At
    <2>3. \A u \in Threads : call'[u].pc = "resolving" => \A i \in DOMAIN log'[call'[u].on] : log'[call'[u].on][i] = Undecided
      BY <1>3, <1>4, <2>1 DEF OnlyExpiries, At
    <2>4. \A u \in Threads : call'[u].pc = "logging" =>
             \E i \in DOMAIN log'[call'[u].on] : log'[call'[u].on][i] = conflict'[call'[u].on].outcome
      BY <1>1, <1>3, <1>4, <2>2 DEF Logged, At
    <2>5. \A u \in Threads : call'[u].pc = "resolving" \/ call'[u].pc = "logging" =>
            conflict'[call'[u].on].status = "resolved" /\ call'[u].out = conflict'[call'[u].on].outcome
      BY <1>1, <1>4 DEF DecisionInv, OneResolver, At
    <2>6. \A u, v \in Threads : call'[u].pc = "resolving" /\ call'[v].pc = "resolving" /\ call'[u].on = call'[v].on => u = v
      BY <1>4 DEF DecisionInv, OneResolver, At
    <2> QED
      BY <2>3, <2>4, <2>5, <2>6 DEF OneResolver, At, OnlyExpiries, Logged
  <1>7. OneDecision'
    <2> SUFFICES ASSUME NEW d \in Conflicts
                 PROVE  /\ \A i \in DOMAIN log'[d] : log'[d][i] \in {Undecided, conflict[d].outcome}
                        /\ \A i, j \in DOMAIN log'[d] : log'[d][i] # Undecided /\ log'[d][j] # Undecided => i = j
                        /\ promise[d] = "kept" =>
                               /\ conflict[d].status = "resolved"
                               /\ \E i \in DOMAIN log'[d] : log'[d][i] = conflict[d].outcome
      BY <1>1 DEF OneDecision
    <2> QED
      BY <1>3 DEF DecisionInv, OneDecision
  <1> QED
    BY <1>5, <1>6, <1>7 DEF DecisionInv

LEMMA DecisionStep ==
  ASSUME TypeOK, CallsKnow, DecisionInv, [Next]_vars
  PROVE  DecisionInv'
  <1>1. CASE UNCHANGED vars
    BY <1>1 DEF vars, DecisionInv, ResolvedIsDecided, OneResolver, OneDecision, OnlyExpiries, Logged, At
  <1>2. CASE Next
    <2>1. PICK t \in Threads :
             \/ Quiet(t) /\ log' = log
             \/ Resolves(t)
             \/ Continue(t)
             \/ t \in Conflicts /\ LogExpiry(t) /\ Quiet(t)
      BY <1>2, StepKinds
    <2>2. CASE Quiet(t) /\ log' = log
      BY <2>2, QuietDecision
    <2>3. CASE Resolves(t)
      BY <2>3, ResolveDecision DEF Resolves
    <2>4. CASE Continue(t)
      BY <2>4, LogDecisionOnce, SettleDecision DEF Continue
    <2>5. CASE t \in Conflicts /\ LogExpiry(t) /\ Quiet(t)
      BY <2>5, ExpiryDecision
    <2> QED
      BY <2>1, <2>2, <2>3, <2>4, <2>5
  <1> QED
    BY <1>1, <1>2

(* A conflict is decided once, for any number of calls that race with each    *)
(* other and its timer and for any failing saves: one decision is logged, it  *)
(* is the outcome, and who is told of a decision finds it in the log          *)
(* (resolveWithOutcome).                                                      *)
THEOREM DecidedOnce == Spec => []OneDecision
  <1>1. Init => DecisionInv
    BY DEF Init, DecisionInv, ResolvedIsDecided, OneResolver, OneDecision, Unraised, At
  <1>2. TypeOK /\ CallsKnow /\ DecisionInv /\ [Next]_vars => DecisionInv'
    BY DecisionStep
  <1>3. DecisionInv => OneDecision
    BY DEF DecisionInv
  <1> QED
    BY <1>1, <1>2, <1>3, KnownTypes, PTL DEF Spec
=============================================================================
