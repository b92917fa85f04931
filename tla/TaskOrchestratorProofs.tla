------------------------ MODULE TaskOrchestratorProofs ------------------------
(* Proofs about TaskOrchestrator, for every task graph, number of requests    *)
(* and bound.                                                                 *)
EXTENDS TaskOrchestrator, FiniteSetTheorems, TLAPS

(* A count of the rows of one status, and of the launches of one execution,   *)
(* is a natural number.                                                       *)
LEMMA CountTasks ==
    ASSUME NEW S \in SUBSET Tasks
    PROVE  Cardinality(S) \in Nat
BY TasksAssumption, FS_Subset, FS_CardinalityType

LEMMA CountLaunches ==
    ASSUME NEW S \in SUBSET (1 .. MaxLaunches)
    PROVE  Cardinality(S) \in Nat
<1>1. IsFiniteSet(1 .. MaxLaunches)
  BY BoundsAssumption, FS_Interval
<1> QED
  BY <1>1, FS_Subset, FS_CardinalityType

LEMMA NextLaunchIsThread ==
    ASSUME NEW n \in Iterations, NEW t \in Tasks,
           Cardinality(Launched(n, t)) < MaxLaunches
    PROVE  NextLaunch(n, t) \in Threads
<1>1. Cardinality(Launched(n, t)) \in Nat
  BY CountLaunches DEF Launched
<1>2. Cardinality(Launched(n, t)) + 1 \in 1 .. MaxLaunches
  BY <1>1, BoundsAssumption
<1> QED
  BY <1>2 DEF NextLaunch, Threads

LEMMA FreeSlotsInRange ==
    ASSUME NEW n \in Iterations
    PROVE  FreeSlots(n) \in 0 .. MaxConcurrent
<1>1. Cardinality({t \in Tasks : exec[n][t] = "running"}) \in Nat
  BY CountTasks
<1> QED
  BY <1>1, BoundsAssumption DEF FreeSlots

(* The type invariant in four parts.                                          *)
ThreadType == [pc : ThreadPcs, todo : SUBSET Tasks, ready : SUBSET Tasks,
               batch : SUBSET Threads, slots : 0 .. MaxConcurrent]
StartType == [pc : {"idle", "create", "mark", "launch"}, n : 0 .. MaxIterations]
CancelType == [pc : {"idle", "rows", "group"}, n : 0 .. MaxIterations, todo : SUBSET Tasks]
RetryType == [pc : {"idle", "iter", "group", "reset", "launch"}, n : 0 .. MaxIterations,
              task : Tasks \cup {"none"}]

RowsOK ==
    /\ iter \in [Iterations -> IterationStatus]
    /\ exec \in [Iterations -> [Tasks -> ExecutionStatus]]
    /\ group \in {"pending", "running", "completed", "failed", "cancelled"}
    /\ live \in BOOLEAN
    /\ claims \in [Iterations -> SUBSET Tasks]
ThreadsOK == thr \in [Threads -> ThreadType]
RequestsOK ==
    /\ starters \in [Starters -> StartType] /\ cancel \in CancelType /\ retry \in RetryType
    /\ \A s \in Starters : starters[s].pc # "idle" => starters[s].n \in Iterations
    /\ cancel.pc # "idle" => cancel.n \in Iterations
    /\ retry.pc # "idle" => retry.n \in Iterations /\ retry.task \in Tasks
HistoryOK ==
    /\ used \in 0 .. MaxDisturbances
    /\ answered \in [Iterations -> SUBSET Tasks]
    /\ disturbed \in [Iterations -> SUBSET Disturbances]
    /\ cleared \in SUBSET Iterations
Typed == RowsOK /\ ThreadsOK /\ RequestsOK /\ HistoryOK

LEMMA TypedIsTypeOK == Typed => TypeOK
BY DEF Typed, TypeOK, RowsOK, ThreadsOK, RequestsOK, HistoryOK, ThreadType, StartType,
       CancelType, RetryType

(* Starting the chains of a batch keeps every chain's record typed.           *)
LEMMA AfterLaunchType ==
    ASSUME ThreadsOK, NEW n \in Iterations, NEW S \in SUBSET Tasks, CanLaunch(n, S), NEW self
    PROVE  AfterLaunch(n, S, self) \in [Threads -> ThreadType]
<1> DEFINE new == {NextLaunch(n, t) : t \in S}
<1>1. new \in SUBSET Threads
  BY NextLaunchIsThread DEF CanLaunch
<1>2. ASSUME NEW id \in Threads
      PROVE  /\ [NoThread EXCEPT !.pc = "start"] \in ThreadType
             /\ [thr[id] EXCEPT !.pc = "wait", !.ready = {}, !.slots = 0, !.batch = new] \in ThreadType
             /\ thr[id] \in ThreadType
  <2>1. thr[id] \in ThreadType
    BY <1>2 DEF ThreadsOK
  <2>2. 0 \in 0 .. MaxConcurrent
    BY BoundsAssumption
  <2> QED
    BY <1>1, <2>1, <2>2 DEF ThreadType, ThreadPcs, NoThread
<1> QED
  BY <1>2 DEF AfterLaunch

(* Moving one chain, and the fields it may change on the way.                 *)
LEMMA MoveThread ==
    ASSUME ThreadsOK, NEW id \in Threads, NEW chain \in ThreadType, Put(id, chain)
    PROVE  ThreadsOK'
BY DEF ThreadsOK, Put, ThreadType

LEMMA MovedThread ==
    ASSUME ThreadsOK, NEW id \in Threads, NEW pc \in ThreadPcs
    PROVE  [thr[id] EXCEPT !.pc = pc] \in ThreadType
BY DEF ThreadsOK, ThreadType

LEMMA ChainParts ==
    ASSUME NEW id \in Threads
    PROVE  id[1] \in Iterations /\ id[2] \in Tasks
BY DEF Threads

LEMMA NoThreadType ==
    ASSUME NEW pc \in ThreadPcs
    PROVE  [NoThread EXCEPT !.pc = pc] \in ThreadType
<1>1. 0 \in 0 .. MaxConcurrent
  BY BoundsAssumption
<1> QED
  BY <1>1 DEF NoThread, ThreadType

(* Every step keeps the variables typed.                                      *)
LEMMA TypedStep ==
    ASSUME Typed, [Next]_vars
    PROVE  Typed'
<1> USE BoundsAssumption
<1>0. CASE UNCHANGED vars
  BY <1>0 DEF Typed, RowsOK, ThreadsOK, RequestsOK, HistoryOK, vars, rows
<1>1. ASSUME NEW s \in Starters, StartRead(s) PROVE Typed'
  <2>1. RowsOK'
    BY <1>1 DEF StartRead, rows, Untouched, Typed, RowsOK
  <2>2. ThreadsOK'
    BY <1>1 DEF StartRead, rows, Untouched, Typed, ThreadsOK
  <2>3. RequestsOK'
    BY <1>1 DEF StartRead, rows, Untouched, Typed, RequestsOK, StartType, CancelType, RetryType, NoStart, NoCancel, NoRetry, Unfinished, Iterations
  <2>4. HistoryOK'
    BY <1>1 DEF StartRead, rows, Untouched, Typed, HistoryOK
  <2> QED BY <2>1, <2>2, <2>3, <2>4 DEF Typed
<1>2. ASSUME NEW s \in Starters, StartConflict(s) PROVE Typed'
  <2>1. RowsOK'
    BY <1>2 DEF StartConflict, rows, Untouched, Typed, RowsOK
  <2>2. ThreadsOK'
    BY <1>2 DEF StartConflict, rows, Untouched, Typed, ThreadsOK
  <2>3. RequestsOK'
    BY <1>2 DEF StartConflict, rows, Untouched, Typed, RequestsOK, StartType, CancelType, RetryType, NoStart, NoCancel, NoRetry, Unfinished, Iterations
  <2>4. HistoryOK'
    BY <1>2 DEF StartConflict, rows, Untouched, Typed, HistoryOK
  <2> QED BY <2>1, <2>2, <2>3, <2>4 DEF Typed
<1>3. ASSUME NEW s \in Starters, StartCreate(s) PROVE Typed'
  <2>1. RowsOK'
    BY <1>3 DEF StartCreate, rows, Untouched, Typed, RowsOK, RequestsOK, IterationStatus, ExecutionStatus, SetExec
  <2>2. ThreadsOK'
    BY <1>3 DEF StartCreate, rows, Untouched, Typed, ThreadsOK
  <2>3. RequestsOK'
    BY <1>3 DEF StartCreate, rows, Untouched, Typed, RequestsOK, StartType, CancelType, RetryType, NoStart, NoCancel, NoRetry, Unfinished, Iterations
  <2>4. HistoryOK'
    BY <1>3 DEF StartCreate, rows, Untouched, Typed, HistoryOK
  <2> QED BY <2>1, <2>2, <2>3, <2>4 DEF Typed
<1>4. ASSUME NEW s \in Starters, StartMark(s) PROVE Typed'
  <2>1. RowsOK'
    BY <1>4 DEF StartMark, rows, Untouched, Typed, RowsOK, RequestsOK, IterationStatus, ExecutionStatus, SetExec
  <2>2. ThreadsOK'
    BY <1>4 DEF StartMark, rows, Untouched, Typed, ThreadsOK
  <2>3. RequestsOK'
    BY <1>4 DEF StartMark, rows, Untouched, Typed, RequestsOK, StartType, CancelType, RetryType, NoStart, NoCancel, NoRetry, Unfinished, Iterations
  <2>4. HistoryOK'
    BY <1>4 DEF StartMark, rows, Untouched, Typed, HistoryOK
  <2> QED BY <2>1, <2>2, <2>3, <2>4 DEF Typed
<1>5. ASSUME NEW s \in Starters, StartLaunch(s) PROVE Typed'
  <2>1. RowsOK'
    BY <1>5 DEF StartLaunch, rows, Untouched, Typed, RowsOK, RequestsOK, IterationStatus, ExecutionStatus, SetExec, Claimed
  <2>2. ThreadsOK'
    BY <1>5, AfterLaunchType DEF StartLaunch, Typed, ThreadsOK, Claimed, RequestsOK
  <2>3. RequestsOK'
    BY <1>5 DEF StartLaunch, rows, Untouched, Typed, RequestsOK, StartType, CancelType, RetryType, NoStart, NoCancel, NoRetry, Unfinished, Iterations
  <2>4. HistoryOK'
    BY <1>5 DEF StartLaunch, rows, Untouched, Typed, HistoryOK
  <2> QED BY <2>1, <2>2, <2>3, <2>4 DEF Typed
<1>6. ASSUME NEW id \in Threads, BodyStart(id) PROVE Typed'
  <2>1. RowsOK'
    BY ChainParts, <1>6 DEF BodyStart, rows, Untouched, Typed, RowsOK, IterationStatus, ExecutionStatus, SetExec
  <2>2. ThreadsOK'
    BY <1>6, MoveThread, MovedThread DEF BodyStart, GoTo, Typed, ThreadPcs
  <2>3. RequestsOK'
    BY <1>6 DEF BodyStart, rows, Untouched, Typed, RequestsOK
  <2>4. HistoryOK'
    BY ChainParts, <1>6 DEF BodyStart, rows, Untouched, Typed, HistoryOK
  <2> QED BY <2>1, <2>2, <2>3, <2>4 DEF Typed
<1>7. ASSUME NEW id \in Threads, BodyCompleted(id) PROVE Typed'
  <2>1. RowsOK'
    BY ChainParts, <1>7 DEF BodyCompleted, rows, Untouched, Typed, RowsOK, IterationStatus, ExecutionStatus, SetExec
  <2>2. ThreadsOK'
    BY <1>7, MoveThread, MovedThread DEF BodyCompleted, GoTo, Typed, ThreadPcs
  <2>3. RequestsOK'
    BY <1>7 DEF BodyCompleted, rows, Untouched, Typed, RequestsOK
  <2>4. HistoryOK'
    BY ChainParts, <1>7 DEF BodyCompleted, rows, Untouched, Typed, HistoryOK, Disturbances, ClearClaims, RequestsOK
  <2> QED BY <2>1, <2>2, <2>3, <2>4 DEF Typed
<1>8. ASSUME NEW id \in Threads, BodyFailed(id) PROVE Typed'
  <2>1. RowsOK'
    BY ChainParts, <1>8 DEF BodyFailed, rows, Untouched, Typed, RowsOK, IterationStatus, ExecutionStatus, SetExec
  <2>2. ThreadsOK'
    BY <1>8, MoveThread, MovedThread DEF BodyFailed, GoTo, Typed, ThreadPcs
  <2>3. RequestsOK'
    BY <1>8 DEF BodyFailed, rows, Untouched, Typed, RequestsOK
  <2>4. HistoryOK'
    BY ChainParts, <1>8 DEF BodyFailed, rows, Untouched, Typed, HistoryOK
  <2> QED BY <2>1, <2>2, <2>3, <2>4 DEF Typed
<1>9. ASSUME NEW id \in Threads, Scan(id) PROVE Typed'
  <2>1. RowsOK'
    BY <1>9 DEF Scan, rows, Untouched, Typed, RowsOK
  <2>a. thr[id] \in ThreadType
    BY <1>9 DEF Typed, ThreadsOK
  <2>b. [thr[id] EXCEPT !.pc = "unblock", !.todo = Unblockable(id[1]), !.slots = FreeSlots(id[1])] \in ThreadType
    BY <2>a, ChainParts, <1>9, FreeSlotsInRange DEF ThreadType, ThreadPcs, Unblockable
  <2>2. ThreadsOK'
    BY <2>b, <1>9, MoveThread, MovedThread DEF Scan, GoTo, Typed, ThreadPcs
  <2>3. RequestsOK'
    BY <1>9 DEF Scan, rows, Untouched, Typed, RequestsOK
  <2>4. HistoryOK'
    BY ChainParts, <1>9 DEF Scan, rows, Untouched, Typed, HistoryOK
  <2> QED BY <2>1, <2>2, <2>3, <2>4 DEF Typed
<1>10. ASSUME NEW id \in Threads, Unblock(id) PROVE Typed'
  <2>1. RowsOK'
    BY ChainParts, <1>10 DEF Unblock, rows, Untouched, Typed, RowsOK, ThreadsOK, ThreadType, IterationStatus, ExecutionStatus, SetExec
  <2>a. thr[id] \in ThreadType
    BY <1>10 DEF Typed, ThreadsOK
  <2>b. ASSUME NEW t \in thr[id].todo
        PROVE  [thr[id] EXCEPT !.todo = @ \ {t}, !.ready = @ \cup {t},
                               !.pc = IF thr[id].todo = {t} THEN "launch" ELSE "unblock"] \in ThreadType
    BY <2>a, <2>b DEF ThreadType, ThreadPcs
  <2>2. ThreadsOK'
    BY <2>b, <1>10, MoveThread DEF Unblock, Typed
  <2>3. RequestsOK'
    BY <1>10 DEF Unblock, rows, Untouched, Typed, RequestsOK
  <2>4. HistoryOK'
    BY ChainParts, <1>10 DEF Unblock, rows, Untouched, Typed, HistoryOK
  <2> QED BY <2>1, <2>2, <2>3, <2>4 DEF Typed
<1>11. ASSUME NEW id \in Threads, LaunchReady(id) PROVE Typed'
  <2>1. RowsOK'
    BY ChainParts, <1>11 DEF LaunchReady, rows, Untouched, Typed, RowsOK, ThreadsOK, ThreadType, IterationStatus, ExecutionStatus, SetExec, Claimed
  <2>2. ThreadsOK'
    BY ChainParts, <1>11, AfterLaunchType DEF LaunchReady, Typed, ThreadsOK, Claimed, RequestsOK, ThreadType
  <2>3. RequestsOK'
    BY <1>11 DEF LaunchReady, rows, Untouched, Typed, RequestsOK
  <2>4. HistoryOK'
    BY ChainParts, <1>11 DEF LaunchReady, rows, Untouched, Typed, HistoryOK
  <2> QED BY <2>1, <2>2, <2>3, <2>4 DEF Typed
<1>12. ASSUME NEW id \in Threads, BatchSettled(id) PROVE Typed'
  <2>1. RowsOK'
    BY <1>12 DEF BatchSettled, rows, Untouched, Typed, RowsOK
  <2>a. thr[id] \in ThreadType
    BY <1>12 DEF Typed, ThreadsOK
  <2>b. [thr[id] EXCEPT !.pc = "check", !.batch = {}] \in ThreadType
    BY <2>a DEF ThreadType, ThreadPcs, Unreachable
  <2>2. ThreadsOK'
    BY <2>b, <1>12, MoveThread DEF BatchSettled, Typed
  <2>3. RequestsOK'
    BY <1>12 DEF BatchSettled, rows, Untouched, Typed, RequestsOK
  <2>4. HistoryOK'
    BY ChainParts, <1>12 DEF BatchSettled, rows, Untouched, Typed, HistoryOK
  <2> QED BY <2>1, <2>2, <2>3, <2>4 DEF Typed
<1>13. ASSUME NEW id \in Threads, Check(id) PROVE Typed'
  <2>1. RowsOK'
    BY <1>13 DEF Check, rows, Untouched, Typed, RowsOK
  <2>2. ThreadsOK'
    BY <1>13, MoveThread, MovedThread DEF Check, GoTo, Typed, ThreadPcs
  <2>3. RequestsOK'
    BY <1>13 DEF Check, rows, Untouched, Typed, RequestsOK
  <2>4. HistoryOK'
    BY ChainParts, <1>13 DEF Check, rows, Untouched, Typed, HistoryOK
  <2> QED BY <2>1, <2>2, <2>3, <2>4 DEF Typed
<1>14. ASSUME NEW id \in Threads, IterationDone(id) PROVE Typed'
  <2>1. RowsOK'
    BY ChainParts, <1>14 DEF IterationDone, rows, Untouched, Typed, RowsOK, IterationStatus, ExecutionStatus, SetExec
  <2>2. ThreadsOK'
    BY <1>14, MoveThread, MovedThread DEF IterationDone, GoTo, Typed, ThreadPcs
  <2>3. RequestsOK'
    BY <1>14 DEF IterationDone, rows, Untouched, Typed, RequestsOK
  <2>4. HistoryOK'
    BY ChainParts, <1>14 DEF IterationDone, rows, Untouched, Typed, HistoryOK
  <2> QED BY <2>1, <2>2, <2>3, <2>4 DEF Typed
<1>15. ASSUME NEW id \in Threads, GroupDone(id) PROVE Typed'
  <2>1. RowsOK'
    BY ChainParts, <1>15 DEF GroupDone, rows, Untouched, Typed, RowsOK, IterationStatus, ExecutionStatus, SetExec, ClearClaims
  <2>2. ThreadsOK'
    BY <1>15, MoveThread, MovedThread DEF GroupDone, GoTo, Typed, ThreadPcs
  <2>3. RequestsOK'
    BY <1>15 DEF GroupDone, rows, Untouched, Typed, RequestsOK
  <2>4. HistoryOK'
    BY ChainParts, <1>15 DEF GroupDone, rows, Untouched, Typed, HistoryOK, Disturbances, ClearClaims, RequestsOK
  <2> QED BY <2>1, <2>2, <2>3, <2>4 DEF Typed
<1>16. ASSUME NEW id \in Threads, Reach(id) PROVE Typed'
  <2>1. RowsOK'
    BY <1>16 DEF Reach, rows, Untouched, Typed, RowsOK
  <2>a. thr[id] \in ThreadType
    BY <1>16 DEF Typed, ThreadsOK
  <2>b. [thr[id] EXCEPT !.todo = Unreachable(id[1]),
                        !.pc = IF Unreachable(id[1]) = {} THEN "iterFail" ELSE "prune"] \in ThreadType
    BY <2>a DEF ThreadType, ThreadPcs, Unreachable
  <2>2. ThreadsOK'
    BY <2>b, <1>16, MoveThread DEF Reach, Typed
  <2>3. RequestsOK'
    BY <1>16 DEF Reach, rows, Untouched, Typed, RequestsOK
  <2>4. HistoryOK'
    BY ChainParts, <1>16 DEF Reach, rows, Untouched, Typed, HistoryOK
  <2> QED BY <2>1, <2>2, <2>3, <2>4 DEF Typed
<1>17. ASSUME NEW id \in Threads, Prune(id) PROVE Typed'
  <2>1. RowsOK'
    BY ChainParts, <1>17 DEF Prune, rows, Untouched, Typed, RowsOK, ThreadsOK, ThreadType, IterationStatus, ExecutionStatus, SetExec
  <2>a. thr[id] \in ThreadType
    BY <1>17 DEF Typed, ThreadsOK
  <2>b. ASSUME NEW t \in thr[id].todo
        PROVE  [thr[id] EXCEPT !.todo = @ \ {t},
                               !.pc = IF thr[id].todo = {t} THEN "iterFail" ELSE "prune"] \in ThreadType
    BY <2>a, <2>b DEF ThreadType, ThreadPcs
  <2>2. ThreadsOK'
    BY <2>b, <1>17, MoveThread DEF Prune, Typed
  <2>3. RequestsOK'
    BY <1>17 DEF Prune, rows, Untouched, Typed, RequestsOK
  <2>4. HistoryOK'
    BY ChainParts, <1>17 DEF Prune, rows, Untouched, Typed, HistoryOK
  <2> QED BY <2>1, <2>2, <2>3, <2>4 DEF Typed
<1>18. ASSUME NEW id \in Threads, IterationFail(id) PROVE Typed'
  <2>1. RowsOK'
    BY ChainParts, <1>18 DEF IterationFail, rows, Untouched, Typed, RowsOK, IterationStatus, ExecutionStatus, SetExec
  <2>2. ThreadsOK'
    BY <1>18, MoveThread, MovedThread DEF IterationFail, GoTo, Typed, ThreadPcs
  <2>3. RequestsOK'
    BY <1>18 DEF IterationFail, rows, Untouched, Typed, RequestsOK
  <2>4. HistoryOK'
    BY ChainParts, <1>18 DEF IterationFail, rows, Untouched, Typed, HistoryOK
  <2> QED BY <2>1, <2>2, <2>3, <2>4 DEF Typed
<1>19. ASSUME NEW id \in Threads, GroupFail(id) PROVE Typed'
  <2>1. RowsOK'
    BY ChainParts, <1>19 DEF GroupFail, rows, Untouched, Typed, RowsOK, IterationStatus, ExecutionStatus, SetExec, ClearClaims
  <2>2. ThreadsOK'
    BY <1>19, MoveThread, MovedThread DEF GroupFail, GoTo, Typed, ThreadPcs
  <2>3. RequestsOK'
    BY <1>19 DEF GroupFail, rows, Untouched, Typed, RequestsOK
  <2>4. HistoryOK'
    BY ChainParts, <1>19 DEF GroupFail, rows, Untouched, Typed, HistoryOK, Disturbances, ClearClaims, RequestsOK
  <2> QED BY <2>1, <2>2, <2>3, <2>4 DEF Typed
<1>20. ASSUME NEW id \in Threads, StorageFault(id) PROVE Typed'
  <2>1. RowsOK'
    BY <1>20 DEF StorageFault, rows, Untouched, Typed, RowsOK
  <2>2. ThreadsOK'
    BY <1>20, MoveThread, NoThreadType DEF StorageFault, Typed, ThreadPcs
  <2>3. RequestsOK'
    BY <1>20 DEF StorageFault, rows, Untouched, Typed, RequestsOK
  <2>4. HistoryOK'
    BY ChainParts, <1>20 DEF StorageFault, rows, Untouched, Typed, HistoryOK, Disturbances, ClearClaims, RequestsOK
  <2> QED BY <2>1, <2>2, <2>3, <2>4 DEF Typed
<1>21. CASE CancelRead
  <2>1. RowsOK'
    BY <1>21 DEF CancelRead, rows, Untouched, Typed, RowsOK
  <2>2. ThreadsOK'
    BY <1>21 DEF CancelRead, rows, Untouched, Typed, ThreadsOK
  <2>3. RequestsOK'
    BY <1>21 DEF CancelRead, rows, Untouched, Typed, RequestsOK, StartType, CancelType, RetryType, NoStart, NoCancel, NoRetry, Unfinished, Iterations
  <2>4. HistoryOK'
    BY <1>21 DEF CancelRead, rows, Untouched, Typed, HistoryOK, Disturbances, ClearClaims, RequestsOK
  <2> QED BY <2>1, <2>2, <2>3, <2>4 DEF Typed
<1>22. CASE CancelRow
  <2>1. RowsOK'
    BY <1>22 DEF CancelRow, rows, Untouched, Typed, RowsOK, RequestsOK, CancelType, IterationStatus, ExecutionStatus, SetExec
  <2>2. ThreadsOK'
    BY <1>22 DEF CancelRow, rows, Untouched, Typed, ThreadsOK
  <2>3. RequestsOK'
    BY <1>22 DEF CancelRow, rows, Untouched, Typed, RequestsOK, StartType, CancelType, RetryType, NoStart, NoCancel, NoRetry, Unfinished, Iterations
  <2>4. HistoryOK'
    BY <1>22 DEF CancelRow, rows, Untouched, Typed, HistoryOK
  <2> QED BY <2>1, <2>2, <2>3, <2>4 DEF Typed
<1>23. CASE CancelIteration
  <2>1. RowsOK'
    BY <1>23 DEF CancelIteration, rows, Untouched, Typed, RowsOK, RequestsOK, CancelType, IterationStatus, ExecutionStatus, SetExec, ClearClaims
  <2>2. ThreadsOK'
    BY <1>23 DEF CancelIteration, rows, Untouched, Typed, ThreadsOK
  <2>3. RequestsOK'
    BY <1>23 DEF CancelIteration, rows, Untouched, Typed, RequestsOK, StartType, CancelType, RetryType, NoStart, NoCancel, NoRetry, Unfinished, Iterations
  <2>4. HistoryOK'
    BY <1>23 DEF CancelIteration, rows, Untouched, Typed, HistoryOK, Disturbances, ClearClaims, RequestsOK
  <2> QED BY <2>1, <2>2, <2>3, <2>4 DEF Typed
<1>24. CASE CancelGroup
  <2>1. RowsOK'
    BY <1>24 DEF CancelGroup, rows, Untouched, Typed, RowsOK, RequestsOK, CancelType, IterationStatus, ExecutionStatus, SetExec
  <2>2. ThreadsOK'
    BY <1>24 DEF CancelGroup, rows, Untouched, Typed, ThreadsOK
  <2>3. RequestsOK'
    BY <1>24 DEF CancelGroup, rows, Untouched, Typed, RequestsOK, StartType, CancelType, RetryType, NoStart, NoCancel, NoRetry, Unfinished, Iterations
  <2>4. HistoryOK'
    BY <1>24 DEF CancelGroup, rows, Untouched, Typed, HistoryOK
  <2> QED BY <2>1, <2>2, <2>3, <2>4 DEF Typed
<1>25. ASSUME NEW t \in Tasks, RetryRead(t) PROVE Typed'
  <2>1. RowsOK'
    BY <1>25 DEF RetryRead, rows, Untouched, Typed, RowsOK
  <2>2. ThreadsOK'
    BY <1>25 DEF RetryRead, rows, Untouched, Typed, ThreadsOK
  <2>3. RequestsOK'
    BY <1>25 DEF RetryRead, rows, Untouched, Typed, RequestsOK, StartType, CancelType, RetryType, NoStart, NoCancel, NoRetry, Unfinished, Iterations
  <2>4. HistoryOK'
    BY <1>25 DEF RetryRead, rows, Untouched, Typed, HistoryOK, Disturbances, ClearClaims, RequestsOK
  <2> QED BY <2>1, <2>2, <2>3, <2>4 DEF Typed
<1>26. CASE RetryIteration
  <2>1. RowsOK'
    BY <1>26 DEF RetryIteration, rows, Untouched, Typed, RowsOK, RequestsOK, IterationStatus, ExecutionStatus, SetExec
  <2>2. ThreadsOK'
    BY <1>26 DEF RetryIteration, rows, Untouched, Typed, ThreadsOK
  <2>3. RequestsOK'
    BY <1>26 DEF RetryIteration, rows, Untouched, Typed, RequestsOK, StartType, CancelType, RetryType, NoStart, NoCancel, NoRetry, Unfinished, Iterations
  <2>4. HistoryOK'
    BY <1>26 DEF RetryIteration, rows, Untouched, Typed, HistoryOK
  <2> QED BY <2>1, <2>2, <2>3, <2>4 DEF Typed
<1>27. CASE RetryGroup
  <2>1. RowsOK'
    BY <1>27 DEF RetryGroup, rows, Untouched, Typed, RowsOK, RequestsOK, IterationStatus, ExecutionStatus, SetExec
  <2>2. ThreadsOK'
    BY <1>27 DEF RetryGroup, rows, Untouched, Typed, ThreadsOK
  <2>3. RequestsOK'
    BY <1>27 DEF RetryGroup, rows, Untouched, Typed, RequestsOK, StartType, CancelType, RetryType, NoStart, NoCancel, NoRetry, Unfinished, Iterations
  <2>4. HistoryOK'
    BY <1>27 DEF RetryGroup, rows, Untouched, Typed, HistoryOK
  <2> QED BY <2>1, <2>2, <2>3, <2>4 DEF Typed
<1>28. CASE RetryReset
  <2>1. RowsOK'
    BY <1>28 DEF RetryReset, rows, Untouched, Typed, RowsOK, RequestsOK, IterationStatus, ExecutionStatus, SetExec
  <2>2. ThreadsOK'
    BY <1>28 DEF RetryReset, rows, Untouched, Typed, ThreadsOK
  <2>3. RequestsOK'
    BY <1>28 DEF RetryReset, rows, Untouched, Typed, RequestsOK, StartType, CancelType, RetryType, NoStart, NoCancel, NoRetry, Unfinished, Iterations
  <2>4. HistoryOK'
    BY <1>28 DEF RetryReset, rows, Untouched, Typed, HistoryOK
  <2> QED BY <2>1, <2>2, <2>3, <2>4 DEF Typed
<1>29. CASE RetryLaunch
  <2>1. RowsOK'
    BY <1>29 DEF RetryLaunch, rows, Untouched, Typed, RowsOK, RequestsOK, IterationStatus, ExecutionStatus, SetExec, Claimed
  <2>2. ThreadsOK'
    BY <1>29, AfterLaunchType DEF RetryLaunch, Typed, ThreadsOK, Claimed, RequestsOK
  <2>3. RequestsOK'
    BY <1>29 DEF RetryLaunch, rows, Untouched, Typed, RequestsOK, StartType, CancelType, RetryType, NoStart, NoCancel, NoRetry, Unfinished, Iterations
  <2>4. HistoryOK'
    BY <1>29 DEF RetryLaunch, rows, Untouched, Typed, HistoryOK
  <2> QED BY <2>1, <2>2, <2>3, <2>4 DEF Typed
<1> QED
  BY <1>0, <1>1, <1>2, <1>3, <1>4, <1>5, <1>6, <1>7, <1>8, <1>9, <1>10, <1>11, <1>12, <1>13, <1>14, <1>15, <1>16, <1>17, <1>18, <1>19, <1>20, <1>21, <1>22, <1>23, <1>24, <1>25, <1>26, <1>27, <1>28, <1>29 DEF Next, StartStep, Chain, CancelStep, RetryStep

LEMMA TypedInit == Init => Typed
<1> SUFFICES ASSUME Init PROVE Typed
  OBVIOUS
<1>1. RowsOK
  BY DEF Init, RowsOK, IterationStatus, ExecutionStatus
<1>2. ThreadsOK
  BY BoundsAssumption DEF Init, ThreadsOK, ThreadType, NoThread, ThreadPcs
<1>3. RequestsOK
  BY BoundsAssumption DEF Init, RequestsOK, StartType, CancelType, RetryType, NoStart, NoCancel, NoRetry
<1>4. HistoryOK
  BY BoundsAssumption DEF Init, HistoryOK
<1> QED
  BY <1>1, <1>2, <1>3, <1>4 DEF Typed

(* TypeOK, for every group of tasks and every number of iterations, requests  *)
(* and launches.                                                              *)
THEOREM TypeCorrect == Spec => []TypeOK
<1>1. Typed /\ [Next]_vars => Typed'
  BY TypedStep
<1> QED
  BY TypedInit, <1>1, TypedIsTypeOK, PTL DEF Spec

-----------------------------------------------------------------------------
(* Dependencies first.  The rows alone do not show it: a row is overwritten   *)
(* by late writes.  What is inductive is that every place a launch can come   *)
(* from -- a reading of blocked rows held by a chain, the candidates it has   *)
(* collected, a failed row, a retry under way -- names only tasks whose       *)
(* dependencies have answered, and that a completed row has answered.         *)

Fed(n, t) == Deps[t] \subseteq answered[n]

CompletedAnswered ==
    \A n \in Iterations, t \in Tasks : exec[n][t] = "completed" => t \in answered[n]
FailedFed == \A n \in Iterations, t \in Tasks : exec[n][t] = "failed" => Fed(n, t)
CandidatesFed ==
    \A id \in Threads : /\ thr[id].pc = "unblock" => \A t \in thr[id].todo : Fed(id[1], t)
                        /\ \A t \in thr[id].ready : Fed(id[1], t)
RetryFed == retry.pc # "idle" => Fed(retry.n, retry.task)
FeedInv == DependenciesAnsweredFirst /\ CompletedAnswered /\ FailedFed /\ CandidatesFed /\ RetryFed

(* A batch whose tasks are fed leaves every chain fed.                        *)
LEMMA LaunchFed ==
    ASSUME Typed, FeedInv, NEW n \in Iterations, NEW S \in SUBSET Tasks, CanLaunch(n, S), NEW self,
           self \in Threads => thr[self].pc # "none", \A t \in S : Fed(n, t),
           thr' = AfterLaunch(n, S, self), answered' = answered
    PROVE  DependenciesAnsweredFirst' /\ CandidatesFed'
<1>1. ASSUME NEW id \in Threads
      PROVE  /\ thr'[id].pc # "none" => Deps[id[2]] \subseteq answered[id[1]]
             /\ thr'[id].pc = "unblock" => \A t \in thr'[id].todo : Fed(id[1], t)
             /\ \A t \in thr'[id].ready : Fed(id[1], t)
  <2>1. CASE id \in {NextLaunch(n, t) : t \in S}
    <3>1. id[1] = n /\ id[2] \in S
      BY <2>1 DEF NextLaunch
    <3>2. thr'[id] = [NoThread EXCEPT !.pc = "start"]
      BY <2>1 DEF AfterLaunch
    <3> QED
      BY <3>1, <3>2 DEF NoThread, Fed
  <2>2. CASE id \notin {NextLaunch(n, t) : t \in S} /\ id = self
    <3>1. thr[id] \in ThreadType
      BY DEF Typed, ThreadsOK
    <3>2. PICK new : thr'[id] = [thr[id] EXCEPT !.pc = "wait", !.ready = {}, !.slots = 0, !.batch = new]
      BY <2>2 DEF AfterLaunch
    <3>3. thr'[id].pc = "wait" /\ thr'[id].ready = {}
      BY <3>1, <3>2 DEF ThreadType
    <3>4. thr[id].pc # "none" => Deps[id[2]] \subseteq answered[id[1]]
      BY DEF FeedInv, DependenciesAnsweredFirst
    <3> QED
      BY <3>3, <3>4, <2>2
  <2>3. CASE id \notin {NextLaunch(n, t) : t \in S} /\ id # self
    <3>1. thr'[id] = thr[id]
      BY <2>3 DEF AfterLaunch
    <3> QED
      BY <3>1 DEF FeedInv, DependenciesAnsweredFirst, CandidatesFed
  <2> QED
    BY <2>1, <2>2, <2>3
<1> QED
  BY <1>1 DEF DependenciesAnsweredFirst, CandidatesFed, Fed

(* Moving one chain that holds only fed candidates leaves every chain fed.    *)
LEMMA MoveFed ==
    ASSUME Typed, FeedInv, NEW id \in Threads, NEW chain, Put(id, chain), answered' = answered,
           thr[id].pc # "none",
           chain.pc = "unblock" => \A t \in chain.todo : Fed(id[1], t),
           \A t \in chain.ready : Fed(id[1], t)
    PROVE  DependenciesAnsweredFirst' /\ CandidatesFed'
<1>1. \A i \in Threads : thr'[i] = IF i = id THEN chain ELSE thr[i]
  BY DEF Put, Typed, ThreadsOK
<1> QED
  BY <1>1 DEF FeedInv, DependenciesAnsweredFirst, CandidatesFed, Fed

LEMMA FeedInit == Init => FeedInv
BY DEF Init, FeedInv, DependenciesAnsweredFirst, CompletedAnswered, FailedFed, CandidatesFed,
       RetryFed, NoThread, NoRetry

LEMMA FeedStep ==
    ASSUME Typed, FeedInv, [Next]_vars
    PROVE  FeedInv'
<1>0. CASE UNCHANGED vars
  BY <1>0 DEF FeedInv, DependenciesAnsweredFirst, CompletedAnswered, FailedFed, CandidatesFed,
              RetryFed, Fed, vars, rows
<1>1. ASSUME NEW s \in Starters, StartRead(s) PROVE FeedInv'
  <2>1. DependenciesAnsweredFirst' /\ CandidatesFed'
    BY <1>1 DEF StartRead, rows, Untouched, FeedInv, DependenciesAnsweredFirst, CandidatesFed, Fed
  <2>2. CompletedAnswered' /\ FailedFed'
    BY <1>1 DEF StartRead, rows, Untouched, FeedInv, CompletedAnswered, FailedFed, DependenciesAnsweredFirst, Fed,
       SetExec, Typed, RowsOK, HistoryOK
  <2>3. RetryFed'
    BY <1>1 DEF StartRead, rows, Untouched, FeedInv, FailedFed, RetryFed, Fed, Typed, RequestsOK, RetryType, HistoryOK, NoRetry
  <2> QED BY <2>1, <2>2, <2>3 DEF FeedInv
<1>2. ASSUME NEW s \in Starters, StartConflict(s) PROVE FeedInv'
  <2>1. DependenciesAnsweredFirst' /\ CandidatesFed'
    BY <1>2 DEF StartConflict, rows, Untouched, FeedInv, DependenciesAnsweredFirst, CandidatesFed, Fed
  <2>2. CompletedAnswered' /\ FailedFed'
    BY <1>2 DEF StartConflict, rows, Untouched, FeedInv, CompletedAnswered, FailedFed, DependenciesAnsweredFirst, Fed,
       SetExec, Typed, RowsOK, HistoryOK
  <2>3. RetryFed'
    BY <1>2 DEF StartConflict, rows, Untouched, FeedInv, FailedFed, RetryFed, Fed, Typed, RequestsOK, RetryType, HistoryOK, NoRetry
  <2> QED BY <2>1, <2>2, <2>3 DEF FeedInv
<1>3. ASSUME NEW s \in Starters, StartCreate(s) PROVE FeedInv'
  <2>1. DependenciesAnsweredFirst' /\ CandidatesFed'
    BY <1>3 DEF StartCreate, rows, Untouched, FeedInv, DependenciesAnsweredFirst, CandidatesFed, Fed
  <2>2. CompletedAnswered' /\ FailedFed'
    BY <1>3 DEF StartCreate, rows, Untouched, FeedInv, CompletedAnswered, FailedFed, DependenciesAnsweredFirst, Fed,
       SetExec, Typed, RowsOK, HistoryOK
  <2>3. RetryFed'
    BY <1>3 DEF StartCreate, rows, Untouched, FeedInv, FailedFed, RetryFed, Fed, Typed, RequestsOK, RetryType, HistoryOK, NoRetry
  <2> QED BY <2>1, <2>2, <2>3 DEF FeedInv
<1>4. ASSUME NEW s \in Starters, StartMark(s) PROVE FeedInv'
  <2>1. DependenciesAnsweredFirst' /\ CandidatesFed'
    BY <1>4 DEF StartMark, rows, Untouched, FeedInv, DependenciesAnsweredFirst, CandidatesFed, Fed
  <2>2. CompletedAnswered' /\ FailedFed'
    BY <1>4 DEF StartMark, rows, Untouched, FeedInv, CompletedAnswered, FailedFed, DependenciesAnsweredFirst, Fed,
       SetExec, Typed, RowsOK, HistoryOK
  <2>3. RetryFed'
    BY <1>4 DEF StartMark, rows, Untouched, FeedInv, FailedFed, RetryFed, Fed, Typed, RequestsOK, RetryType, HistoryOK, NoRetry
  <2> QED BY <2>1, <2>2, <2>3 DEF FeedInv
<1>5. ASSUME NEW s \in Starters, StartLaunch(s) PROVE FeedInv'
  <2>1. DependenciesAnsweredFirst' /\ CandidatesFed'
    <3>1. starters[s].n \in Iterations
      BY <1>5 DEF StartLaunch, Typed, RequestsOK
    <3>2. NoLauncher \notin Threads
      BY DEF NoLauncher, Threads, Iterations
    <3> QED
      BY <1>5, <3>1, <3>2, LaunchFed DEF StartLaunch, Claimed, Fed
  <2>2. CompletedAnswered' /\ FailedFed'
    BY <1>5 DEF StartLaunch, rows, Untouched, FeedInv, CompletedAnswered, FailedFed, DependenciesAnsweredFirst, Fed,
       SetExec, Typed, RowsOK, HistoryOK
  <2>3. RetryFed'
    BY <1>5 DEF StartLaunch, rows, Untouched, FeedInv, FailedFed, RetryFed, Fed, Typed, RequestsOK, RetryType, HistoryOK, NoRetry
  <2> QED BY <2>1, <2>2, <2>3 DEF FeedInv
<1>6. ASSUME NEW id \in Threads, BodyStart(id) PROVE FeedInv'
  <2>1. DependenciesAnsweredFirst' /\ CandidatesFed'
    BY ChainParts, <1>6 DEF BodyStart, rows, Untouched, FeedInv, DependenciesAnsweredFirst, CandidatesFed, CompletedAnswered, Fed,
       GoTo, Put, Typed, ThreadsOK, ThreadType, NoThread
  <2>2. CompletedAnswered' /\ FailedFed'
    BY ChainParts, <1>6 DEF BodyStart, rows, Untouched, FeedInv, CompletedAnswered, FailedFed, DependenciesAnsweredFirst, Fed,
       SetExec, Typed, RowsOK, HistoryOK
  <2>3. RetryFed'
    BY <1>6 DEF BodyStart, rows, Untouched, FeedInv, FailedFed, RetryFed, Fed, Typed, RequestsOK, RetryType, HistoryOK, NoRetry
  <2> QED BY <2>1, <2>2, <2>3 DEF FeedInv
<1>7. ASSUME NEW id \in Threads, BodyCompleted(id) PROVE FeedInv'
  <2>1. DependenciesAnsweredFirst' /\ CandidatesFed'
    BY ChainParts, <1>7 DEF BodyCompleted, rows, Untouched, FeedInv, DependenciesAnsweredFirst, CandidatesFed, CompletedAnswered, Fed,
       GoTo, Put, Typed, ThreadsOK, ThreadType, NoThread, HistoryOK
  <2>2. CompletedAnswered' /\ FailedFed'
    BY ChainParts, <1>7 DEF BodyCompleted, rows, Untouched, FeedInv, CompletedAnswered, FailedFed, DependenciesAnsweredFirst, Fed,
       SetExec, Typed, RowsOK, HistoryOK
  <2>3. RetryFed'
    BY <1>7 DEF BodyCompleted, rows, Untouched, FeedInv, FailedFed, RetryFed, Fed, Typed, RequestsOK, RetryType, HistoryOK, NoRetry
  <2> QED BY <2>1, <2>2, <2>3 DEF FeedInv
<1>8. ASSUME NEW id \in Threads, BodyFailed(id) PROVE FeedInv'
  <2>1. DependenciesAnsweredFirst' /\ CandidatesFed'
    BY ChainParts, <1>8 DEF BodyFailed, rows, Untouched, FeedInv, DependenciesAnsweredFirst, CandidatesFed, CompletedAnswered, Fed,
       GoTo, Put, Typed, ThreadsOK, ThreadType, NoThread
  <2>2. CompletedAnswered' /\ FailedFed'
    BY ChainParts, <1>8 DEF BodyFailed, rows, Untouched, FeedInv, CompletedAnswered, FailedFed, DependenciesAnsweredFirst, Fed,
       SetExec, Typed, RowsOK, HistoryOK
  <2>3. RetryFed'
    BY <1>8 DEF BodyFailed, rows, Untouched, FeedInv, FailedFed, RetryFed, Fed, Typed, RequestsOK, RetryType, HistoryOK, NoRetry
  <2> QED BY <2>1, <2>2, <2>3 DEF FeedInv
<1>9. ASSUME NEW id \in Threads, Scan(id) PROVE FeedInv'
  <2>1. DependenciesAnsweredFirst' /\ CandidatesFed'
    <3>0. thr[id] \in ThreadType /\ thr[id].pc # "none" /\ answered' = answered
      BY <1>9 DEF Scan, Typed, ThreadsOK
    <3>1. CASE Unblockable(id[1]) = {}
      <4> DEFINE chain == [thr[id] EXCEPT !.pc = "check"]
      <4>1. chain.pc = "check" /\ chain.ready = thr[id].ready
        BY <3>0 DEF ThreadType
      <4>2. Put(id, chain)
        BY <1>9, <3>1 DEF Scan, GoTo
      <4> HIDE DEF chain
      <4> QED
        BY <3>0, <4>1, <4>2, MoveFed DEF FeedInv, CandidatesFed
    <3>2. CASE Unblockable(id[1]) # {}
      <4> DEFINE chain == [thr[id] EXCEPT !.pc = "unblock", !.todo = Unblockable(id[1]),
                                          !.slots = FreeSlots(id[1])]
      <4>1. chain.todo = Unblockable(id[1]) /\ chain.ready = thr[id].ready
        BY <3>0 DEF ThreadType
      <4>2. Put(id, chain)
        BY <1>9, <3>2 DEF Scan
      <4>3. \A t \in Unblockable(id[1]) : Fed(id[1], t)
        BY ChainParts DEF Unblockable, Completed, Fed, FeedInv, CompletedAnswered
      <4> HIDE DEF chain
      <4> QED
        BY <3>0, <4>1, <4>2, <4>3, MoveFed DEF FeedInv, CandidatesFed
    <3> QED
      BY <3>1, <3>2
  <2>2. CompletedAnswered' /\ FailedFed'
    BY ChainParts, <1>9 DEF Scan, rows, Untouched, FeedInv, CompletedAnswered, FailedFed, DependenciesAnsweredFirst, Fed,
       SetExec, Typed, RowsOK, HistoryOK
  <2>3. RetryFed'
    BY <1>9 DEF Scan, rows, Untouched, FeedInv, FailedFed, RetryFed, Fed, Typed, RequestsOK, RetryType, HistoryOK, NoRetry
  <2> QED BY <2>1, <2>2, <2>3 DEF FeedInv
<1>10. ASSUME NEW id \in Threads, Unblock(id) PROVE FeedInv'
  <2>1. DependenciesAnsweredFirst' /\ CandidatesFed'
    <3>1. thr[id] \in ThreadType /\ thr[id].pc = "unblock" /\ answered' = answered
      BY <1>10 DEF Unblock, Typed, ThreadsOK
    <3>2. PICK t \in thr[id].todo :
             Put(id, [thr[id] EXCEPT !.todo = @ \ {t}, !.ready = @ \cup {t},
                                     !.pc = IF thr[id].todo = {t} THEN "launch" ELSE "unblock"])
      BY <1>10 DEF Unblock
    <3> DEFINE chain == [thr[id] EXCEPT !.todo = @ \ {t}, !.ready = @ \cup {t},
                                        !.pc = IF thr[id].todo = {t} THEN "launch" ELSE "unblock"]
    <3>3. chain.todo \subseteq thr[id].todo /\ chain.ready = thr[id].ready \cup {t}
      BY <3>1 DEF ThreadType
    <3>4. Put(id, chain)
      BY <3>2
    <3>5. \A u \in thr[id].todo \cup thr[id].ready : Fed(id[1], u)
      BY <3>1 DEF FeedInv, CandidatesFed
    <3> HIDE DEF chain
    <3> QED
      BY <3>1, <3>3, <3>4, <3>5, MoveFed
  <2>2. CompletedAnswered' /\ FailedFed'
    BY ChainParts, <1>10 DEF Unblock, rows, Untouched, FeedInv, CompletedAnswered, FailedFed, DependenciesAnsweredFirst, Fed,
       SetExec, Typed, RowsOK, HistoryOK
  <2>3. RetryFed'
    BY <1>10 DEF Unblock, rows, Untouched, FeedInv, FailedFed, RetryFed, Fed, Typed, RequestsOK, RetryType, HistoryOK, NoRetry
  <2> QED BY <2>1, <2>2, <2>3 DEF FeedInv
<1>11. ASSUME NEW id \in Threads, LaunchReady(id) PROVE FeedInv'
  <2>1. DependenciesAnsweredFirst' /\ CandidatesFed'
    <3>1. \A t \in thr[id].ready : Fed(id[1], t) /\ t \in Tasks
      BY DEF FeedInv, CandidatesFed, Typed, ThreadsOK, ThreadType
    <3> QED
      BY <1>11, <3>1, ChainParts, LaunchFed DEF LaunchReady, Claimed
  <2>2. CompletedAnswered' /\ FailedFed'
    BY ChainParts, <1>11 DEF LaunchReady, rows, Untouched, FeedInv, CompletedAnswered, FailedFed, DependenciesAnsweredFirst, Fed,
       SetExec, Typed, RowsOK, HistoryOK
  <2>3. RetryFed'
    BY <1>11 DEF LaunchReady, rows, Untouched, FeedInv, FailedFed, RetryFed, Fed, Typed, RequestsOK, RetryType, HistoryOK, NoRetry
  <2> QED BY <2>1, <2>2, <2>3 DEF FeedInv
<1>12. ASSUME NEW id \in Threads, BatchSettled(id) PROVE FeedInv'
  <2>1. DependenciesAnsweredFirst' /\ CandidatesFed'
    BY ChainParts, <1>12 DEF BatchSettled, rows, Untouched, FeedInv, DependenciesAnsweredFirst, CandidatesFed, CompletedAnswered, Fed,
       GoTo, Put, Typed, ThreadsOK, ThreadType, NoThread
  <2>2. CompletedAnswered' /\ FailedFed'
    BY ChainParts, <1>12 DEF BatchSettled, rows, Untouched, FeedInv, CompletedAnswered, FailedFed, DependenciesAnsweredFirst, Fed,
       SetExec, Typed, RowsOK, HistoryOK
  <2>3. RetryFed'
    BY <1>12 DEF BatchSettled, rows, Untouched, FeedInv, FailedFed, RetryFed, Fed, Typed, RequestsOK, RetryType, HistoryOK, NoRetry
  <2> QED BY <2>1, <2>2, <2>3 DEF FeedInv
<1>13. ASSUME NEW id \in Threads, Check(id) PROVE FeedInv'
  <2>1. DependenciesAnsweredFirst' /\ CandidatesFed'
    BY ChainParts, <1>13 DEF Check, rows, Untouched, FeedInv, DependenciesAnsweredFirst, CandidatesFed, CompletedAnswered, Fed,
       GoTo, Put, Typed, ThreadsOK, ThreadType, NoThread
  <2>2. CompletedAnswered' /\ FailedFed'
    BY ChainParts, <1>13 DEF Check, rows, Untouched, FeedInv, CompletedAnswered, FailedFed, DependenciesAnsweredFirst, Fed,
       SetExec, Typed, RowsOK, HistoryOK
  <2>3. RetryFed'
    BY <1>13 DEF Check, rows, Untouched, FeedInv, FailedFed, RetryFed, Fed, Typed, RequestsOK, RetryType, HistoryOK, NoRetry
  <2> QED BY <2>1, <2>2, <2>3 DEF FeedInv
<1>14. ASSUME NEW id \in Threads, IterationDone(id) PROVE FeedInv'
  <2>1. DependenciesAnsweredFirst' /\ CandidatesFed'
    BY ChainParts, <1>14 DEF IterationDone, rows, Untouched, FeedInv, DependenciesAnsweredFirst, CandidatesFed, CompletedAnswered, Fed,
       GoTo, Put, Typed, ThreadsOK, ThreadType, NoThread
  <2>2. CompletedAnswered' /\ FailedFed'
    BY ChainParts, <1>14 DEF IterationDone, rows, Untouched, FeedInv, CompletedAnswered, FailedFed, DependenciesAnsweredFirst, Fed,
       SetExec, Typed, RowsOK, HistoryOK
  <2>3. RetryFed'
    BY <1>14 DEF IterationDone, rows, Untouched, FeedInv, FailedFed, RetryFed, Fed, Typed, RequestsOK, RetryType, HistoryOK, NoRetry
  <2> QED BY <2>1, <2>2, <2>3 DEF FeedInv
<1>15. ASSUME NEW id \in Threads, GroupDone(id) PROVE FeedInv'
  <2>1. DependenciesAnsweredFirst' /\ CandidatesFed'
    BY ChainParts, <1>15 DEF GroupDone, rows, Untouched, FeedInv, DependenciesAnsweredFirst, CandidatesFed, CompletedAnswered, Fed,
       GoTo, Put, Typed, ThreadsOK, ThreadType, NoThread
  <2>2. CompletedAnswered' /\ FailedFed'
    BY ChainParts, <1>15 DEF GroupDone, rows, Untouched, FeedInv, CompletedAnswered, FailedFed, DependenciesAnsweredFirst, Fed,
       SetExec, Typed, RowsOK, HistoryOK
  <2>3. RetryFed'
    BY <1>15 DEF GroupDone, rows, Untouched, FeedInv, FailedFed, RetryFed, Fed, Typed, RequestsOK, RetryType, HistoryOK, NoRetry
  <2> QED BY <2>1, <2>2, <2>3 DEF FeedInv
<1>16. ASSUME NEW id \in Threads, Reach(id) PROVE FeedInv'
  <2>1. DependenciesAnsweredFirst' /\ CandidatesFed'
    BY ChainParts, <1>16 DEF Reach, rows, Untouched, FeedInv, DependenciesAnsweredFirst, CandidatesFed, CompletedAnswered, Fed,
       GoTo, Put, Typed, ThreadsOK, ThreadType, NoThread
  <2>2. CompletedAnswered' /\ FailedFed'
    BY ChainParts, <1>16 DEF Reach, rows, Untouched, FeedInv, CompletedAnswered, FailedFed, DependenciesAnsweredFirst, Fed,
       SetExec, Typed, RowsOK, HistoryOK
  <2>3. RetryFed'
    BY <1>16 DEF Reach, rows, Untouched, FeedInv, FailedFed, RetryFed, Fed, Typed, RequestsOK, RetryType, HistoryOK, NoRetry
  <2> QED BY <2>1, <2>2, <2>3 DEF FeedInv
<1>17. ASSUME NEW id \in Threads, Prune(id) PROVE FeedInv'
  <2>1. DependenciesAnsweredFirst' /\ CandidatesFed'
    BY ChainParts, <1>17 DEF Prune, rows, Untouched, FeedInv, DependenciesAnsweredFirst, CandidatesFed, CompletedAnswered, Fed,
       GoTo, Put, Typed, ThreadsOK, ThreadType, NoThread
  <2>2. CompletedAnswered' /\ FailedFed'
    BY ChainParts, <1>17 DEF Prune, rows, Untouched, FeedInv, CompletedAnswered, FailedFed, DependenciesAnsweredFirst, Fed,
       SetExec, Typed, RowsOK, HistoryOK
  <2>3. RetryFed'
    BY <1>17 DEF Prune, rows, Untouched, FeedInv, FailedFed, RetryFed, Fed, Typed, RequestsOK, RetryType, HistoryOK, NoRetry
  <2> QED BY <2>1, <2>2, <2>3 DEF FeedInv
<1>18. ASSUME NEW id \in Threads, IterationFail(id) PROVE FeedInv'
  <2>1. DependenciesAnsweredFirst' /\ CandidatesFed'
    <3> DEFINE chain == [thr[id] EXCEPT !.pc = "groupFail"]
    <3>1. chain.pc = "groupFail" /\ chain.ready = thr[id].ready
      BY DEF Typed, ThreadsOK, ThreadType
    <3>2. Put(id, chain) /\ answered' = answered /\ thr[id].pc # "none"
      BY <1>18 DEF IterationFail, GoTo
    <3> HIDE DEF chain
    <3> QED
      BY <3>1, <3>2, MoveFed DEF FeedInv, CandidatesFed
  <2>2. CompletedAnswered' /\ FailedFed'
    BY ChainParts, <1>18 DEF IterationFail, rows, Untouched, FeedInv, CompletedAnswered, FailedFed, DependenciesAnsweredFirst, Fed,
       SetExec, Typed, RowsOK, HistoryOK
  <2>3. RetryFed'
    BY <1>18 DEF IterationFail, rows, Untouched, FeedInv, FailedFed, RetryFed, Fed, Typed, RequestsOK, RetryType, HistoryOK, NoRetry
  <2> QED BY <2>1, <2>2, <2>3 DEF FeedInv
<1>19. ASSUME NEW id \in Threads, GroupFail(id) PROVE FeedInv'
  <2>1. DependenciesAnsweredFirst' /\ CandidatesFed'
    BY ChainParts, <1>19 DEF GroupFail, rows, Untouched, FeedInv, DependenciesAnsweredFirst, CandidatesFed, CompletedAnswered, Fed,
       GoTo, Put, Typed, ThreadsOK, ThreadType, NoThread
  <2>2. CompletedAnswered' /\ FailedFed'
    BY ChainParts, <1>19 DEF GroupFail, rows, Untouched, FeedInv, CompletedAnswered, FailedFed, DependenciesAnsweredFirst, Fed,
       SetExec, Typed, RowsOK, HistoryOK
  <2>3. RetryFed'
    BY <1>19 DEF GroupFail, rows, Untouched, FeedInv, FailedFed, RetryFed, Fed, Typed, RequestsOK, RetryType, HistoryOK, NoRetry
  <2> QED BY <2>1, <2>2, <2>3 DEF FeedInv
<1>20. ASSUME NEW id \in Threads, StorageFault(id) PROVE FeedInv'
  <2>1. DependenciesAnsweredFirst' /\ CandidatesFed'
    <3> DEFINE chain == [NoThread EXCEPT !.pc = IF thr[id].pc \in InTry THEN "fail" ELSE "done"]
    <3>1. chain.pc # "unblock" /\ chain.ready = {}
      BY DEF NoThread
    <3>2. Put(id, chain) /\ answered' = answered /\ thr[id].pc # "none"
      BY <1>20 DEF StorageFault, InTry, OutsideTry
    <3> HIDE DEF chain
    <3> QED
      BY <3>1, <3>2, MoveFed
  <2>2. CompletedAnswered' /\ FailedFed'
    BY ChainParts, <1>20 DEF StorageFault, rows, Untouched, FeedInv, CompletedAnswered, FailedFed, DependenciesAnsweredFirst, Fed,
       SetExec, Typed, RowsOK, HistoryOK
  <2>3. RetryFed'
    BY <1>20 DEF StorageFault, rows, Untouched, FeedInv, FailedFed, RetryFed, Fed, Typed, RequestsOK, RetryType, HistoryOK, NoRetry
  <2> QED BY <2>1, <2>2, <2>3 DEF FeedInv
<1>21. CASE CancelRead
  <2>1. DependenciesAnsweredFirst' /\ CandidatesFed'
    BY <1>21 DEF CancelRead, rows, Untouched, FeedInv, DependenciesAnsweredFirst, CandidatesFed, Fed
  <2>2. CompletedAnswered' /\ FailedFed'
    BY <1>21 DEF CancelRead, rows, Untouched, FeedInv, CompletedAnswered, FailedFed, DependenciesAnsweredFirst, Fed,
       SetExec, Typed, RowsOK, HistoryOK
  <2>3. RetryFed'
    BY <1>21 DEF CancelRead, rows, Untouched, FeedInv, FailedFed, RetryFed, Fed, Typed, RequestsOK, RetryType, HistoryOK, NoRetry
  <2> QED BY <2>1, <2>2, <2>3 DEF FeedInv
<1>22. CASE CancelRow
  <2>1. DependenciesAnsweredFirst' /\ CandidatesFed'
    BY <1>22 DEF CancelRow, rows, Untouched, FeedInv, DependenciesAnsweredFirst, CandidatesFed, Fed
  <2>2. CompletedAnswered' /\ FailedFed'
    BY <1>22 DEF CancelRow, rows, Untouched, FeedInv, CompletedAnswered, FailedFed, DependenciesAnsweredFirst, Fed,
       SetExec, Typed, RowsOK, HistoryOK
  <2>3. RetryFed'
    BY <1>22 DEF CancelRow, rows, Untouched, FeedInv, FailedFed, RetryFed, Fed, Typed, RequestsOK, RetryType, HistoryOK, NoRetry
  <2> QED BY <2>1, <2>2, <2>3 DEF FeedInv
<1>23. CASE CancelIteration
  <2>1. DependenciesAnsweredFirst' /\ CandidatesFed'
    BY <1>23 DEF CancelIteration, rows, Untouched, FeedInv, DependenciesAnsweredFirst, CandidatesFed, Fed
  <2>2. CompletedAnswered' /\ FailedFed'
    BY <1>23 DEF CancelIteration, rows, Untouched, FeedInv, CompletedAnswered, FailedFed, DependenciesAnsweredFirst, Fed,
       SetExec, Typed, RowsOK, HistoryOK
  <2>3. RetryFed'
    BY <1>23 DEF CancelIteration, rows, Untouched, FeedInv, FailedFed, RetryFed, Fed, Typed, RequestsOK, RetryType, HistoryOK, NoRetry
  <2> QED BY <2>1, <2>2, <2>3 DEF FeedInv
<1>24. CASE CancelGroup
  <2>1. DependenciesAnsweredFirst' /\ CandidatesFed'
    BY <1>24 DEF CancelGroup, rows, Untouched, FeedInv, DependenciesAnsweredFirst, CandidatesFed, Fed
  <2>2. CompletedAnswered' /\ FailedFed'
    BY <1>24 DEF CancelGroup, rows, Untouched, FeedInv, CompletedAnswered, FailedFed, DependenciesAnsweredFirst, Fed,
       SetExec, Typed, RowsOK, HistoryOK
  <2>3. RetryFed'
    BY <1>24 DEF CancelGroup, rows, Untouched, FeedInv, FailedFed, RetryFed, Fed, Typed, RequestsOK, RetryType, HistoryOK, NoRetry
  <2> QED BY <2>1, <2>2, <2>3 DEF FeedInv
<1>25. ASSUME NEW t \in Tasks, RetryRead(t) PROVE FeedInv'
  <2>1. DependenciesAnsweredFirst' /\ CandidatesFed'
    BY <1>25 DEF RetryRead, rows, Untouched, FeedInv, DependenciesAnsweredFirst, CandidatesFed, Fed
  <2>2. CompletedAnswered' /\ FailedFed'
    BY <1>25 DEF RetryRead, rows, Untouched, FeedInv, CompletedAnswered, FailedFed, DependenciesAnsweredFirst, Fed,
       SetExec, Typed, RowsOK, HistoryOK
  <2>3. RetryFed'
    BY <1>25 DEF RetryRead, rows, Untouched, FeedInv, FailedFed, RetryFed, Fed, Typed, RequestsOK, RetryType, HistoryOK, NoRetry
  <2> QED BY <2>1, <2>2, <2>3 DEF FeedInv
<1>26. CASE RetryIteration
  <2>1. DependenciesAnsweredFirst' /\ CandidatesFed'
    BY <1>26 DEF RetryIteration, rows, Untouched, FeedInv, DependenciesAnsweredFirst, CandidatesFed, Fed
  <2>2. CompletedAnswered' /\ FailedFed'
    BY <1>26 DEF RetryIteration, rows, Untouched, FeedInv, CompletedAnswered, FailedFed, DependenciesAnsweredFirst, Fed,
       SetExec, Typed, RowsOK, HistoryOK
  <2>3. RetryFed'
    BY <1>26 DEF RetryIteration, rows, Untouched, FeedInv, FailedFed, RetryFed, Fed, Typed, RequestsOK, RetryType, HistoryOK, NoRetry
  <2> QED BY <2>1, <2>2, <2>3 DEF FeedInv
<1>27. CASE RetryGroup
  <2>1. DependenciesAnsweredFirst' /\ CandidatesFed'
    BY <1>27 DEF RetryGroup, rows, Untouched, FeedInv, DependenciesAnsweredFirst, CandidatesFed, Fed
  <2>2. CompletedAnswered' /\ FailedFed'
    BY <1>27 DEF RetryGroup, rows, Untouched, FeedInv, CompletedAnswered, FailedFed, DependenciesAnsweredFirst, Fed,
       SetExec, Typed, RowsOK, HistoryOK
  <2>3. RetryFed'
    BY <1>27 DEF RetryGroup, rows, Untouched, FeedInv, FailedFed, RetryFed, Fed, Typed, RequestsOK, RetryType, HistoryOK, NoRetry
  <2> QED BY <2>1, <2>2, <2>3 DEF FeedInv
<1>28. CASE RetryReset
  <2>1. DependenciesAnsweredFirst' /\ CandidatesFed'
    BY <1>28 DEF RetryReset, rows, Untouched, FeedInv, DependenciesAnsweredFirst, CandidatesFed, Fed
  <2>2. CompletedAnswered' /\ FailedFed'
    BY <1>28 DEF RetryReset, rows, Untouched, FeedInv, CompletedAnswered, FailedFed, DependenciesAnsweredFirst, Fed,
       SetExec, Typed, RowsOK, HistoryOK
  <2>3. RetryFed'
    BY <1>28 DEF RetryReset, rows, Untouched, FeedInv, FailedFed, RetryFed, Fed, Typed, RequestsOK, RetryType, HistoryOK, NoRetry
  <2> QED BY <2>1, <2>2, <2>3 DEF FeedInv
<1>29. CASE RetryLaunch
  <2>1. DependenciesAnsweredFirst' /\ CandidatesFed'
    <3>1. retry.n \in Iterations /\ retry.task \in Tasks /\ Fed(retry.n, retry.task)
      BY <1>29 DEF RetryLaunch, Typed, RequestsOK, FeedInv, RetryFed
    <3>2. NoLauncher \notin Threads
      BY DEF NoLauncher, Threads, Iterations
    <3>3. CASE retry.task \in claims[retry.n]
      BY <1>29, <3>3 DEF RetryLaunch, FeedInv, DependenciesAnsweredFirst, CandidatesFed, Fed
    <3>4. CASE retry.task \notin claims[retry.n]
      <4> DEFINE S == {retry.task}
      <4>1. CanLaunch(retry.n, S) /\ thr' = AfterLaunch(retry.n, S, NoLauncher) /\ answered' = answered
        BY <1>29, <3>4 DEF RetryLaunch
      <4>2. S \in SUBSET Tasks /\ \A t \in S : Fed(retry.n, t)
        BY <3>1
      <4> HIDE DEF S
      <4> QED
        BY <3>1, <3>2, <4>1, <4>2, LaunchFed
    <3> QED
      BY <3>3, <3>4
  <2>2. CompletedAnswered' /\ FailedFed'
    BY <1>29 DEF RetryLaunch, rows, Untouched, FeedInv, CompletedAnswered, FailedFed, DependenciesAnsweredFirst, Fed,
       SetExec, Typed, RowsOK, HistoryOK
  <2>3. RetryFed'
    BY <1>29 DEF RetryLaunch, rows, Untouched, FeedInv, FailedFed, RetryFed, Fed, Typed, RequestsOK, RetryType, HistoryOK, NoRetry
  <2> QED BY <2>1, <2>2, <2>3 DEF FeedInv
<1> QED
  BY <1>0, <1>1, <1>2, <1>3, <1>4, <1>5, <1>6, <1>7, <1>8, <1>9, <1>10, <1>11, <1>12, <1>13, <1>14, <1>15, <1>16, <1>17, <1>18, <1>19, <1>20, <1>21, <1>22, <1>23, <1>24, <1>25, <1>26, <1>27, <1>28, <1>29 DEF Next, StartStep, Chain, CancelStep, RetryStep

(* DependenciesAnsweredFirst, for every acyclic or cyclic graph and every     *)
(* interleaving of chains, starts, cancels, retries and storage faults.       *)
THEOREM NeverAheadOfDependencies == Spec => []DependenciesAnsweredFirst
<1>1. Typed /\ FeedInv /\ [Next]_vars => Typed' /\ FeedInv'
  BY TypedStep, FeedStep
<1>2. FeedInv => DependenciesAnsweredFirst
  BY DEF FeedInv
<1> QED
  BY TypedInit, FeedInit, <1>1, <1>2, PTL DEF Spec

-----------------------------------------------------------------------------
(* One running iteration.  The rows of a group are numbered without a gap,    *)
(* and below a row, or a number a start is about to create, no iteration runs *)
(* unless a retry reopened it.                                                *)

Quiet(n) == iter[n] # "running" \/ "retry" \in disturbed[n]
Settled(n) == iter[n] # "none" /\ Quiet(n)
BelowRows == \A n \in Iterations : iter[n] # "none" => \A m \in 1 .. n - 1 : Settled(m)
BelowStarts ==
    \A s \in Starters : starters[s].pc = "create" =>
        \A m \in 1 .. starters[s].n - 1 : Settled(m)
(* Whoever writes an iteration's status works on a row that exists.           *)
RowsExist ==
    /\ \A id \in Threads : thr[id].pc # "none" => iter[id[1]] # "none"
    /\ \A s \in Starters : starters[s].pc \in {"mark", "launch"} => iter[starters[s].n] # "none"
    /\ cancel.pc # "idle" => iter[cancel.n] # "none"
    /\ retry.pc # "idle" => iter[retry.n] # "none" /\ "retry" \in disturbed[retry.n]
OrderInv == BelowRows /\ BelowStarts /\ RowsExist

LEMMA OrderInit == Init => OrderInv
BY DEF Init, OrderInv, BelowRows, BelowStarts, RowsExist, NoThread, NoStart, NoCancel, NoRetry

(* The order survives a step under which rows stay rows and quiet iterations  *)
(* stay quiet, provided no row is created.                                    *)
RowsKept ==
    \A n \in Iterations : /\ iter'[n] # "none" <=> iter[n] # "none"
                          /\ Settled(n) => Settled(n)'
StartsKept ==
    \A s \in Starters : starters'[s].pc = "create" => starters'[s] = starters[s]

LEMMA OrderKept ==
    ASSUME Typed, BelowRows, BelowStarts, RowsKept, StartsKept
    PROVE  BelowRows' /\ BelowStarts'
<1>1. \A n \in Iterations : \A m \in 1 .. n - 1 : m \in Iterations
  BY BoundsAssumption DEF Iterations
<1>2. \A s \in Starters : starters[s].pc = "create" => starters[s].n \in Iterations
  BY DEF Typed, RequestsOK
<1>3. BelowRows'
  BY <1>1 DEF BelowRows, RowsKept
<1>4. BelowStarts'
  BY <1>1, <1>2 DEF BelowStarts, RowsKept, StartsKept
<1> QED
  BY <1>3, <1>4

LEMMA OrderStep ==
    ASSUME Typed, OrderInv, [Next]_vars
    PROVE  OrderInv'
<1>0. CASE UNCHANGED vars
  BY <1>0 DEF OrderInv, BelowRows, BelowStarts, RowsExist, Settled, Quiet, vars, rows
<1>1. ASSUME NEW s \in Starters, StartRead(s) PROVE OrderInv'
  <2>1. PICK n \in 0 .. MaxIterations - 1 :
          /\ Latest(n) /\ (n # 0 => iter[n] # "running")
          /\ starters' = [starters EXCEPT ![s] = [pc |-> "create", n |-> n + 1]]
    BY <1>1 DEF StartRead
  <2>2. \A m \in 1 .. n : Settled(m)
    <3>1. CASE n = 0
      BY <3>1
    <3>2. CASE n # 0
      <4>1. n \in Iterations
        BY <3>2, BoundsAssumption DEF Iterations
      <4>2. Settled(n)
        BY <2>1, <3>2 DEF Latest, Settled, Quiet
      <4>3. \A m \in 1 .. n - 1 : Settled(m)
        BY <4>1, <4>2 DEF OrderInv, BelowRows, Settled
      <4> QED
        BY <4>2, <4>3, <4>1 DEF Iterations
    <3> QED
      BY <3>1, <3>2
  <2>3. UNCHANGED <<iter, thr, cancel, retry, disturbed>>
    BY <1>1 DEF StartRead, rows
  <2>4. \A r \in Starters : starters'[r] = IF r = s THEN [pc |-> "create", n |-> n + 1] ELSE starters[r]
    BY <2>1 DEF Typed, RequestsOK
  <2>5. BelowStarts'
    <3>1. \A m \in 1 .. (n + 1) - 1 : Settled(m)
      BY <2>2
    <3> QED
      BY <2>3, <2>4, <3>1 DEF BelowStarts, OrderInv, Settled, Quiet
  <2>6. BelowRows' /\ RowsExist'
    BY <2>3, <2>4 DEF OrderInv, BelowRows, RowsExist, Settled, Quiet
  <2> QED
    BY <2>5, <2>6 DEF OrderInv
<1>2. ASSUME NEW s \in Starters, StartConflict(s) PROVE OrderInv'
  <2>1. BelowRows' /\ BelowStarts'
    <3>1. RowsKept
      BY <1>2 DEF StartConflict, rows, Untouched, OrderInv, RowsExist, RowsKept, Settled, Quiet, Typed, RowsOK, RequestsOK, HistoryOK
    <3>2. StartsKept
      BY <1>2 DEF StartConflict, StartsKept, rows, Untouched, Typed, RequestsOK, StartType, NoStart
    <3> QED
      BY <3>1, <3>2, OrderKept DEF OrderInv
  <2>2. RowsExist'
    BY ChainParts, <1>2 DEF StartConflict, rows, Untouched, OrderInv, RowsExist, Typed, RowsOK, RequestsOK, HistoryOK, StartType,
       CancelType, RetryType, NoStart, NoCancel, NoRetry, Latest
  <2> QED
    BY <2>1, <2>2 DEF OrderInv
<1>3. ASSUME NEW s \in Starters, StartCreate(s) PROVE OrderInv'
  <2> DEFINE n == starters[s].n
  <2>1. n \in Iterations /\ iter[n] = "none" /\ starters[s].pc = "create"
    BY <1>3 DEF StartCreate, Typed, RequestsOK
  <2>2. /\ \A m \in Iterations : iter'[m] = IF m = n THEN "running" ELSE iter[m]
        /\ \A r \in Starters : /\ r # s => starters'[r] = starters[r]
                               /\ starters'[s].pc = "mark" /\ starters'[s].n = n
        /\ UNCHANGED <<thr, cancel, retry, disturbed>>
    BY <1>3 DEF StartCreate, Typed, RowsOK, RequestsOK, StartType
  <2>3. \A m \in 1 .. n - 1 : m \in Iterations /\ m # n /\ Settled(m)
    BY <2>1, BoundsAssumption DEF Iterations, OrderInv, BelowStarts
  <2>4. \A m \in Iterations : m > n => iter[m] = "none"
    <3> SUFFICES ASSUME NEW m \in Iterations, m > n, iter[m] # "none" PROVE FALSE
      OBVIOUS
    <3>1. n \in 1 .. m - 1
      BY <2>1 DEF Iterations
    <3> QED
      BY <3>1, <2>1 DEF OrderInv, BelowRows, Settled
  <2>5. \A m \in Iterations : Settled(m) => Settled(m)' /\ m # n
    BY <2>1, <2>2 DEF Settled, Quiet
  <2> HIDE DEF n
  <2>6. BelowRows'
    <3> SUFFICES ASSUME NEW k \in Iterations, iter'[k] # "none", NEW m \in 1 .. k - 1
                 PROVE  Settled(m)'
      BY DEF BelowRows
    <3>1. m \in Iterations
      BY BoundsAssumption DEF Iterations
    <3>2. CASE k = n
      BY <3>1, <3>2, <2>3, <2>5
    <3>3. CASE k # n
      BY <3>1, <3>3, <2>2, <2>5 DEF OrderInv, BelowRows
    <3> QED
      BY <3>2, <3>3
  <2>7. BelowStarts'
    <3> SUFFICES ASSUME NEW r \in Starters, starters'[r].pc = "create",
                        NEW m \in 1 .. starters'[r].n - 1
                 PROVE  Settled(m)'
      BY DEF BelowStarts
    <3>1. r # s /\ starters'[r] = starters[r]
      BY <2>2
    <3>2. starters[r].n \in Iterations
      BY <3>1 DEF Typed, RequestsOK
    <3>3. m \in Iterations /\ m \in 1 .. starters[r].n - 1
      BY <3>1, <3>2, BoundsAssumption DEF Iterations
    <3>4. Settled(m)
      BY <3>1, <3>3 DEF OrderInv, BelowStarts
    <3> QED
      BY <3>3, <3>4, <2>5
  <2>8. RowsExist'
    BY <2>1, <2>2, ChainParts DEF OrderInv, RowsExist, Typed, RequestsOK
  <2> QED
    BY <2>6, <2>7, <2>8 DEF OrderInv
<1>4. ASSUME NEW s \in Starters, StartMark(s) PROVE OrderInv'
  <2>1. BelowRows' /\ BelowStarts'
    <3>1. RowsKept
      BY <1>4 DEF StartMark, rows, Untouched, OrderInv, RowsExist, RowsKept, Settled, Quiet, Typed, RowsOK, RequestsOK, HistoryOK
    <3>2. StartsKept
      BY <1>4 DEF StartMark, StartsKept, rows, Untouched, Typed, RequestsOK, StartType, NoStart
    <3> QED
      BY <3>1, <3>2, OrderKept DEF OrderInv
  <2>2. RowsExist'
    BY ChainParts, <1>4 DEF StartMark, rows, Untouched, OrderInv, RowsExist, Typed, RowsOK, RequestsOK, HistoryOK, StartType,
       CancelType, RetryType, NoStart, NoCancel, NoRetry, Latest
  <2> QED
    BY <2>1, <2>2 DEF OrderInv
<1>5. ASSUME NEW s \in Starters, StartLaunch(s) PROVE OrderInv'
  <2>1. BelowRows' /\ BelowStarts'
    <3>1. RowsKept
      BY <1>5 DEF StartLaunch, rows, Untouched, OrderInv, RowsExist, RowsKept, Settled, Quiet, Typed, RowsOK, RequestsOK, HistoryOK
    <3>2. StartsKept
      BY <1>5 DEF StartLaunch, StartsKept, rows, Untouched, Typed, RequestsOK, StartType, NoStart
    <3> QED
      BY <3>1, <3>2, OrderKept DEF OrderInv
  <2>2. starters[s].n \in Iterations /\ iter[starters[s].n] # "none"
    BY <1>5 DEF StartLaunch, OrderInv, RowsExist, Typed, RequestsOK
  <2>3. (\E S \in SUBSET Tasks : thr' = AfterLaunch(starters[s].n, S, NoLauncher))
    BY <1>5, <2>2 DEF StartLaunch, Typed, RequestsOK, ThreadsOK, ThreadType
  <2>4. \A id_1 \in Threads : thr'[id_1].pc # "none" => thr[id_1].pc # "none" \/ id_1[1] = starters[s].n
    <3>1. ASSUME NEW S \in SUBSET Tasks, thr' = AfterLaunch(starters[s].n, S, NoLauncher), NEW id_1 \in Threads
          PROVE  thr'[id_1].pc # "none" => thr[id_1].pc # "none" \/ id_1[1] = starters[s].n
      <4>1. CASE id_1 \in {NextLaunch(starters[s].n, t) : t \in S}
        BY <4>1 DEF NextLaunch
      <4>2. CASE id_1 \notin {NextLaunch(starters[s].n, t) : t \in S} /\ id_1 = NoLauncher
        BY <4>2, <1>5 DEF StartLaunch, NoLauncher, Threads, Iterations
      <4>3. CASE id_1 \notin {NextLaunch(starters[s].n, t) : t \in S} /\ id_1 # NoLauncher
        BY <4>3, <3>1 DEF AfterLaunch
      <4> QED
        BY <4>1, <4>2, <4>3
    <3> QED
      BY <2>3, <3>1
  <2>5. RowsExist'
    BY <1>5, <2>2, <2>4, ChainParts DEF StartLaunch, rows, Untouched, OrderInv, RowsExist, Typed, RequestsOK, StartType, RetryType, NoStart, NoRetry
  <2> QED
    BY <2>1, <2>5 DEF OrderInv
<1>6. ASSUME NEW id \in Threads, BodyStart(id) PROVE OrderInv'
  <2>1. BelowRows' /\ BelowStarts'
    <3>1. RowsKept
      BY ChainParts, <1>6 DEF BodyStart, rows, Untouched, OrderInv, RowsExist, RowsKept, Settled, Quiet, Typed, RowsOK, RequestsOK, HistoryOK
    <3>2. StartsKept
      BY <1>6 DEF BodyStart, StartsKept, rows, Untouched, Typed, RequestsOK, StartType, NoStart
    <3> QED
      BY <3>1, <3>2, OrderKept DEF OrderInv
  <2>2. RowsExist'
    BY ChainParts, <1>6 DEF BodyStart, rows, Untouched, OrderInv, RowsExist, Typed, RowsOK, RequestsOK, HistoryOK, StartType,
       CancelType, RetryType, NoStart, NoCancel, NoRetry, Latest, GoTo, Put, NoThread, InTry, OutsideTry, ThreadsOK, ThreadType, ThreadPcs
  <2> QED
    BY <2>1, <2>2 DEF OrderInv
<1>7. ASSUME NEW id \in Threads, BodyCompleted(id) PROVE OrderInv'
  <2>1. BelowRows' /\ BelowStarts'
    <3>1. RowsKept
      BY ChainParts, <1>7 DEF BodyCompleted, rows, Untouched, OrderInv, RowsExist, RowsKept, Settled, Quiet, Typed, RowsOK, RequestsOK, HistoryOK
    <3>2. StartsKept
      BY <1>7 DEF BodyCompleted, StartsKept, rows, Untouched, Typed, RequestsOK, StartType, NoStart
    <3> QED
      BY <3>1, <3>2, OrderKept DEF OrderInv
  <2>2. RowsExist'
    BY ChainParts, <1>7 DEF BodyCompleted, rows, Untouched, OrderInv, RowsExist, Typed, RowsOK, RequestsOK, HistoryOK, StartType,
       CancelType, RetryType, NoStart, NoCancel, NoRetry, Latest, GoTo, Put, NoThread, InTry, OutsideTry, ThreadsOK, ThreadType, ThreadPcs
  <2> QED
    BY <2>1, <2>2 DEF OrderInv
<1>8. ASSUME NEW id \in Threads, BodyFailed(id) PROVE OrderInv'
  <2>1. BelowRows' /\ BelowStarts'
    <3>1. RowsKept
      BY ChainParts, <1>8 DEF BodyFailed, rows, Untouched, OrderInv, RowsExist, RowsKept, Settled, Quiet, Typed, RowsOK, RequestsOK, HistoryOK
    <3>2. StartsKept
      BY <1>8 DEF BodyFailed, StartsKept, rows, Untouched, Typed, RequestsOK, StartType, NoStart
    <3> QED
      BY <3>1, <3>2, OrderKept DEF OrderInv
  <2>2. RowsExist'
    BY ChainParts, <1>8 DEF BodyFailed, rows, Untouched, OrderInv, RowsExist, Typed, RowsOK, RequestsOK, HistoryOK, StartType,
       CancelType, RetryType, NoStart, NoCancel, NoRetry, Latest, GoTo, Put, NoThread, InTry, OutsideTry, ThreadsOK, ThreadType, ThreadPcs
  <2> QED
    BY <2>1, <2>2 DEF OrderInv
<1>9. ASSUME NEW id \in Threads, Scan(id) PROVE OrderInv'
  <2>1. BelowRows' /\ BelowStarts'
    <3>1. RowsKept
      BY ChainParts, <1>9 DEF Scan, rows, Untouched, OrderInv, RowsExist, RowsKept, Settled, Quiet, Typed, RowsOK, RequestsOK, HistoryOK
    <3>2. StartsKept
      BY <1>9 DEF Scan, StartsKept, rows, Untouched, Typed, RequestsOK, StartType, NoStart
    <3> QED
      BY <3>1, <3>2, OrderKept DEF OrderInv
  <2>2. RowsExist'
    BY ChainParts, <1>9 DEF Scan, rows, Untouched, OrderInv, RowsExist, Typed, RowsOK, RequestsOK, HistoryOK, StartType,
       CancelType, RetryType, NoStart, NoCancel, NoRetry, Latest, GoTo, Put, NoThread, InTry, OutsideTry, ThreadsOK, ThreadType, ThreadPcs
  <2> QED
    BY <2>1, <2>2 DEF OrderInv
<1>10. ASSUME NEW id \in Threads, Unblock(id) PROVE OrderInv'
  <2>1. BelowRows' /\ BelowStarts'
    <3>1. RowsKept
      BY ChainParts, <1>10 DEF Unblock, rows, Untouched, OrderInv, RowsExist, RowsKept, Settled, Quiet, Typed, RowsOK, RequestsOK, HistoryOK
    <3>2. StartsKept
      BY <1>10 DEF Unblock, StartsKept, rows, Untouched, Typed, RequestsOK, StartType, NoStart
    <3> QED
      BY <3>1, <3>2, OrderKept DEF OrderInv
  <2>2. RowsExist'
    BY ChainParts, <1>10 DEF Unblock, rows, Untouched, OrderInv, RowsExist, Typed, RowsOK, RequestsOK, HistoryOK, StartType,
       CancelType, RetryType, NoStart, NoCancel, NoRetry, Latest, GoTo, Put, NoThread, InTry, OutsideTry, ThreadsOK, ThreadType, ThreadPcs
  <2> QED
    BY <2>1, <2>2 DEF OrderInv
<1>11. ASSUME NEW id \in Threads, LaunchReady(id) PROVE OrderInv'
  <2>1. BelowRows' /\ BelowStarts'
    <3>1. RowsKept
      BY ChainParts, <1>11 DEF LaunchReady, rows, Untouched, OrderInv, RowsExist, RowsKept, Settled, Quiet, Typed, RowsOK, RequestsOK, HistoryOK
    <3>2. StartsKept
      BY <1>11 DEF LaunchReady, StartsKept, rows, Untouched, Typed, RequestsOK, StartType, NoStart
    <3> QED
      BY <3>1, <3>2, OrderKept DEF OrderInv
  <2>2. id[1] \in Iterations /\ iter[id[1]] # "none"
    BY <1>11, ChainParts DEF LaunchReady, OrderInv, RowsExist
  <2>3. (\E S \in SUBSET Tasks : thr' = AfterLaunch(id[1], S, id))
    BY <1>11, <2>2 DEF LaunchReady, Typed, RequestsOK, ThreadsOK, ThreadType
  <2>4. \A id_1 \in Threads : thr'[id_1].pc # "none" => thr[id_1].pc # "none" \/ id_1[1] = id[1]
    <3>1. ASSUME NEW S \in SUBSET Tasks, thr' = AfterLaunch(id[1], S, id), NEW id_1 \in Threads
          PROVE  thr'[id_1].pc # "none" => thr[id_1].pc # "none" \/ id_1[1] = id[1]
      <4>1. CASE id_1 \in {NextLaunch(id[1], t) : t \in S}
        BY <4>1 DEF NextLaunch
      <4>2. CASE id_1 \notin {NextLaunch(id[1], t) : t \in S} /\ id_1 = id
        BY <4>2, <1>11 DEF LaunchReady, NoLauncher, Threads, Iterations
      <4>3. CASE id_1 \notin {NextLaunch(id[1], t) : t \in S} /\ id_1 # id
        BY <4>3, <3>1 DEF AfterLaunch
      <4> QED
        BY <4>1, <4>2, <4>3
    <3> QED
      BY <2>3, <3>1
  <2>5. RowsExist'
    BY <1>11, <2>2, <2>4, ChainParts DEF LaunchReady, rows, Untouched, OrderInv, RowsExist, Typed, RequestsOK, StartType, RetryType, NoStart, NoRetry
  <2> QED
    BY <2>1, <2>5 DEF OrderInv
<1>12. ASSUME NEW id \in Threads, BatchSettled(id) PROVE OrderInv'
  <2>1. BelowRows' /\ BelowStarts'
    <3>1. RowsKept
      BY ChainParts, <1>12 DEF BatchSettled, rows, Untouched, OrderInv, RowsExist, RowsKept, Settled, Quiet, Typed, RowsOK, RequestsOK, HistoryOK
    <3>2. StartsKept
      BY <1>12 DEF BatchSettled, StartsKept, rows, Untouched, Typed, RequestsOK, StartType, NoStart
    <3> QED
      BY <3>1, <3>2, OrderKept DEF OrderInv
  <2>2. RowsExist'
    BY ChainParts, <1>12 DEF BatchSettled, rows, Untouched, OrderInv, RowsExist, Typed, RowsOK, RequestsOK, HistoryOK, StartType,
       CancelType, RetryType, NoStart, NoCancel, NoRetry, Latest, GoTo, Put, NoThread, InTry, OutsideTry, ThreadsOK, ThreadType, ThreadPcs
  <2> QED
    BY <2>1, <2>2 DEF OrderInv
<1>13. ASSUME NEW id \in Threads, Check(id) PROVE OrderInv'
  <2>1. BelowRows' /\ BelowStarts'
    <3>1. RowsKept
      BY ChainParts, <1>13 DEF Check, rows, Untouched, OrderInv, RowsExist, RowsKept, Settled, Quiet, Typed, RowsOK, RequestsOK, HistoryOK
    <3>2. StartsKept
      BY <1>13 DEF Check, StartsKept, rows, Untouched, Typed, RequestsOK, StartType, NoStart
    <3> QED
      BY <3>1, <3>2, OrderKept DEF OrderInv
  <2>2. RowsExist'
    BY ChainParts, <1>13 DEF Check, rows, Untouched, OrderInv, RowsExist, Typed, RowsOK, RequestsOK, HistoryOK, StartType,
       CancelType, RetryType, NoStart, NoCancel, NoRetry, Latest, GoTo, Put, NoThread, InTry, OutsideTry, ThreadsOK, ThreadType, ThreadPcs
  <2> QED
    BY <2>1, <2>2 DEF OrderInv
<1>14. ASSUME NEW id \in Threads, IterationDone(id) PROVE OrderInv'
  <2>1. BelowRows' /\ BelowStarts'
    <3>1. RowsKept
      BY ChainParts, <1>14 DEF IterationDone, rows, Untouched, OrderInv, RowsExist, RowsKept, Settled, Quiet, Typed, RowsOK, RequestsOK, HistoryOK
    <3>2. StartsKept
      BY <1>14 DEF IterationDone, StartsKept, rows, Untouched, Typed, RequestsOK, StartType, NoStart
    <3> QED
      BY <3>1, <3>2, OrderKept DEF OrderInv
  <2>2. RowsExist'
    BY ChainParts, <1>14 DEF IterationDone, rows, Untouched, OrderInv, RowsExist, Typed, RowsOK, RequestsOK, HistoryOK, StartType,
       CancelType, RetryType, NoStart, NoCancel, NoRetry, Latest, GoTo, Put, NoThread, InTry, OutsideTry, ThreadsOK, ThreadType, ThreadPcs
  <2> QED
    BY <2>1, <2>2 DEF OrderInv
<1>15. ASSUME NEW id \in Threads, GroupDone(id) PROVE OrderInv'
  <2>1. BelowRows' /\ BelowStarts'
    <3>1. RowsKept
      BY ChainParts, <1>15 DEF GroupDone, rows, Untouched, OrderInv, RowsExist, RowsKept, Settled, Quiet, Typed, RowsOK, RequestsOK, HistoryOK
    <3>2. StartsKept
      BY <1>15 DEF GroupDone, StartsKept, rows, Untouched, Typed, RequestsOK, StartType, NoStart
    <3> QED
      BY <3>1, <3>2, OrderKept DEF OrderInv
  <2>2. RowsExist'
    BY ChainParts, <1>15 DEF GroupDone, rows, Untouched, OrderInv, RowsExist, Typed, RowsOK, RequestsOK, HistoryOK, StartType,
       CancelType, RetryType, NoStart, NoCancel, NoRetry, Latest, GoTo, Put, NoThread, InTry, OutsideTry, ThreadsOK, ThreadType, ThreadPcs
  <2> QED
    BY <2>1, <2>2 DEF OrderInv
<1>16. ASSUME NEW id \in Threads, Reach(id) PROVE OrderInv'
  <2>1. BelowRows' /\ BelowStarts'
    <3>1. RowsKept
      BY ChainParts, <1>16 DEF Reach, rows, Untouched, OrderInv, RowsExist, RowsKept, Settled, Quiet, Typed, RowsOK, RequestsOK, HistoryOK
    <3>2. StartsKept
      BY <1>16 DEF Reach, StartsKept, rows, Untouched, Typed, RequestsOK, StartType, NoStart
    <3> QED
      BY <3>1, <3>2, OrderKept DEF OrderInv
  <2>2. RowsExist'
    BY ChainParts, <1>16 DEF Reach, rows, Untouched, OrderInv, RowsExist, Typed, RowsOK, RequestsOK, HistoryOK, StartType,
       CancelType, RetryType, NoStart, NoCancel, NoRetry, Latest, GoTo, Put, NoThread, InTry, OutsideTry, ThreadsOK, ThreadType, ThreadPcs
  <2> QED
    BY <2>1, <2>2 DEF OrderInv
<1>17. ASSUME NEW id \in Threads, Prune(id) PROVE OrderInv'
  <2>1. BelowRows' /\ BelowStarts'
    <3>1. RowsKept
      BY ChainParts, <1>17 DEF Prune, rows, Untouched, OrderInv, RowsExist, RowsKept, Settled, Quiet, Typed, RowsOK, RequestsOK, HistoryOK
    <3>2. StartsKept
      BY <1>17 DEF Prune, StartsKept, rows, Untouched, Typed, RequestsOK, StartType, NoStart
    <3> QED
      BY <3>1, <3>2, OrderKept DEF OrderInv
  <2>2. RowsExist'
    BY ChainParts, <1>17 DEF Prune, rows, Untouched, OrderInv, RowsExist, Typed, RowsOK, RequestsOK, HistoryOK, StartType,
       CancelType, RetryType, NoStart, NoCancel, NoRetry, Latest, GoTo, Put, NoThread, InTry, OutsideTry, ThreadsOK, ThreadType, ThreadPcs
  <2> QED
    BY <2>1, <2>2 DEF OrderInv
<1>18. ASSUME NEW id \in Threads, IterationFail(id) PROVE OrderInv'
  <2>1. BelowRows' /\ BelowStarts'
    <3>1. RowsKept
      BY ChainParts, <1>18 DEF IterationFail, rows, Untouched, OrderInv, RowsExist, RowsKept, Settled, Quiet, Typed, RowsOK, RequestsOK, HistoryOK
    <3>2. StartsKept
      BY <1>18 DEF IterationFail, StartsKept, rows, Untouched, Typed, RequestsOK, StartType, NoStart
    <3> QED
      BY <3>1, <3>2, OrderKept DEF OrderInv
  <2>2. RowsExist'
    BY ChainParts, <1>18 DEF IterationFail, rows, Untouched, OrderInv, RowsExist, Typed, RowsOK, RequestsOK, HistoryOK, StartType,
       CancelType, RetryType, NoStart, NoCancel, NoRetry, Latest, GoTo, Put, NoThread, InTry, OutsideTry, ThreadsOK, ThreadType, ThreadPcs
  <2> QED
    BY <2>1, <2>2 DEF OrderInv
<1>19. ASSUME NEW id \in Threads, GroupFail(id) PROVE OrderInv'
  <2>1. BelowRows' /\ BelowStarts'
    <3>1. RowsKept
      BY ChainParts, <1>19 DEF GroupFail, rows, Untouched, OrderInv, RowsExist, RowsKept, Settled, Quiet, Typed, RowsOK, RequestsOK, HistoryOK
    <3>2. StartsKept
      BY <1>19 DEF GroupFail, StartsKept, rows, Untouched, Typed, RequestsOK, StartType, NoStart
    <3> QED
      BY <3>1, <3>2, OrderKept DEF OrderInv
  <2>2. RowsExist'
    BY ChainParts, <1>19 DEF GroupFail, rows, Untouched, OrderInv, RowsExist, Typed, RowsOK, RequestsOK, HistoryOK, StartType,
       CancelType, RetryType, NoStart, NoCancel, NoRetry, Latest, GoTo, Put, NoThread, InTry, OutsideTry, ThreadsOK, ThreadType, ThreadPcs
  <2> QED
    BY <2>1, <2>2 DEF OrderInv
<1>20. ASSUME NEW id \in Threads, StorageFault(id) PROVE OrderInv'
  <2>1. BelowRows' /\ BelowStarts'
    <3>1. RowsKept
      BY ChainParts, <1>20 DEF StorageFault, rows, Untouched, OrderInv, RowsExist, RowsKept, Settled, Quiet, Typed, RowsOK, RequestsOK, HistoryOK
    <3>2. StartsKept
      BY <1>20 DEF StorageFault, StartsKept, rows, Untouched, Typed, RequestsOK, StartType, NoStart
    <3> QED
      BY <3>1, <3>2, OrderKept DEF OrderInv
  <2>2. RowsExist'
    BY ChainParts, <1>20 DEF StorageFault, rows, Untouched, OrderInv, RowsExist, Typed, RowsOK, RequestsOK, HistoryOK, StartType,
       CancelType, RetryType, NoStart, NoCancel, NoRetry, Latest, GoTo, Put, NoThread, InTry, OutsideTry, ThreadsOK, ThreadType, ThreadPcs
  <2> QED
    BY <2>1, <2>2 DEF OrderInv
<1>21. CASE CancelRead
  <2>1. BelowRows' /\ BelowStarts'
    <3>1. RowsKept
      BY <1>21 DEF CancelRead, rows, Untouched, OrderInv, RowsExist, RowsKept, Settled, Quiet, Typed, RowsOK, RequestsOK, HistoryOK
    <3>2. StartsKept
      BY <1>21 DEF CancelRead, StartsKept, rows, Untouched, Typed, RequestsOK, StartType, NoStart
    <3> QED
      BY <3>1, <3>2, OrderKept DEF OrderInv
  <2>a. PICK n \in Iterations : Latest(n) /\ cancel'.n = n
    BY <1>21 DEF CancelRead, Typed, HistoryOK
  <2>b. iter[n] # "none"
    BY <2>a, BoundsAssumption DEF Latest, Iterations
  <2>c. \A m \in Iterations : disturbed[m] \subseteq disturbed'[m]
    BY <1>21 DEF CancelRead, Typed, HistoryOK
  <2>d. UNCHANGED <<iter, thr, starters, retry>>
    BY <1>21 DEF CancelRead, rows
  <2>2. RowsExist'
    BY <2>a, <2>b, <2>c, <2>d DEF OrderInv, RowsExist, Typed, RequestsOK
  <2> QED
    BY <2>1, <2>2 DEF OrderInv
<1>22. CASE CancelRow
  <2>1. BelowRows' /\ BelowStarts'
    <3>1. RowsKept
      BY <1>22 DEF CancelRow, rows, Untouched, OrderInv, RowsExist, RowsKept, Settled, Quiet, Typed, RowsOK, RequestsOK, HistoryOK
    <3>2. StartsKept
      BY <1>22 DEF CancelRow, StartsKept, rows, Untouched, Typed, RequestsOK, StartType, NoStart
    <3> QED
      BY <3>1, <3>2, OrderKept DEF OrderInv
  <2>2. RowsExist'
    BY ChainParts, <1>22 DEF CancelRow, rows, Untouched, OrderInv, RowsExist, Typed, RowsOK, RequestsOK, HistoryOK, StartType,
       CancelType, RetryType, NoStart, NoCancel, NoRetry, Latest
  <2> QED
    BY <2>1, <2>2 DEF OrderInv
<1>23. CASE CancelIteration
  <2>1. BelowRows' /\ BelowStarts'
    <3>1. RowsKept
      BY <1>23 DEF CancelIteration, rows, Untouched, OrderInv, RowsExist, RowsKept, Settled, Quiet, Typed, RowsOK, RequestsOK, HistoryOK
    <3>2. StartsKept
      BY <1>23 DEF CancelIteration, StartsKept, rows, Untouched, Typed, RequestsOK, StartType, NoStart
    <3> QED
      BY <3>1, <3>2, OrderKept DEF OrderInv
  <2>2. RowsExist'
    BY ChainParts, <1>23 DEF CancelIteration, rows, Untouched, OrderInv, RowsExist, Typed, RowsOK, RequestsOK, HistoryOK, StartType,
       CancelType, RetryType, NoStart, NoCancel, NoRetry, Latest
  <2> QED
    BY <2>1, <2>2 DEF OrderInv
<1>24. CASE CancelGroup
  <2>1. BelowRows' /\ BelowStarts'
    <3>1. RowsKept
      BY <1>24 DEF CancelGroup, rows, Untouched, OrderInv, RowsExist, RowsKept, Settled, Quiet, Typed, RowsOK, RequestsOK, HistoryOK
    <3>2. StartsKept
      BY <1>24 DEF CancelGroup, StartsKept, rows, Untouched, Typed, RequestsOK, StartType, NoStart
    <3> QED
      BY <3>1, <3>2, OrderKept DEF OrderInv
  <2>2. RowsExist'
    BY ChainParts, <1>24 DEF CancelGroup, rows, Untouched, OrderInv, RowsExist, Typed, RowsOK, RequestsOK, HistoryOK, StartType,
       CancelType, RetryType, NoStart, NoCancel, NoRetry, Latest
  <2> QED
    BY <2>1, <2>2 DEF OrderInv
<1>25. ASSUME NEW t \in Tasks, RetryRead(t) PROVE OrderInv'
  <2>1. BelowRows' /\ BelowStarts'
    <3>1. RowsKept
      BY <1>25 DEF RetryRead, rows, Untouched, OrderInv, RowsExist, RowsKept, Settled, Quiet, Typed, RowsOK, RequestsOK, HistoryOK
    <3>2. StartsKept
      BY <1>25 DEF RetryRead, StartsKept, rows, Untouched, Typed, RequestsOK, StartType, NoStart
    <3> QED
      BY <3>1, <3>2, OrderKept DEF OrderInv
  <2>a. PICK n \in Iterations : Latest(n) /\ retry'.n = n /\ "retry" \in disturbed'[n]
    BY <1>25 DEF RetryRead, Typed, HistoryOK
  <2>b. iter[n] # "none"
    BY <2>a, BoundsAssumption DEF Latest, Iterations
  <2>c. \A m \in Iterations : disturbed[m] \subseteq disturbed'[m]
    BY <1>25 DEF RetryRead, Typed, HistoryOK
  <2>d. UNCHANGED <<iter, thr, starters, cancel>>
    BY <1>25 DEF RetryRead, rows
  <2>2. RowsExist'
    BY <2>a, <2>b, <2>c, <2>d DEF OrderInv, RowsExist, Typed, RequestsOK
  <2> QED
    BY <2>1, <2>2 DEF OrderInv
<1>26. CASE RetryIteration
  <2>1. BelowRows' /\ BelowStarts'
    <3>1. RowsKept
      BY <1>26 DEF RetryIteration, rows, Untouched, OrderInv, RowsExist, RowsKept, Settled, Quiet, Typed, RowsOK, RequestsOK, HistoryOK
    <3>2. StartsKept
      BY <1>26 DEF RetryIteration, StartsKept, rows, Untouched, Typed, RequestsOK, StartType, NoStart
    <3> QED
      BY <3>1, <3>2, OrderKept DEF OrderInv
  <2>2. RowsExist'
    BY ChainParts, <1>26 DEF RetryIteration, rows, Untouched, OrderInv, RowsExist, Typed, RowsOK, RequestsOK, HistoryOK, StartType,
       CancelType, RetryType, NoStart, NoCancel, NoRetry, Latest
  <2> QED
    BY <2>1, <2>2 DEF OrderInv
<1>27. CASE RetryGroup
  <2>1. BelowRows' /\ BelowStarts'
    <3>1. RowsKept
      BY <1>27 DEF RetryGroup, rows, Untouched, OrderInv, RowsExist, RowsKept, Settled, Quiet, Typed, RowsOK, RequestsOK, HistoryOK
    <3>2. StartsKept
      BY <1>27 DEF RetryGroup, StartsKept, rows, Untouched, Typed, RequestsOK, StartType, NoStart
    <3> QED
      BY <3>1, <3>2, OrderKept DEF OrderInv
  <2>2. RowsExist'
    BY ChainParts, <1>27 DEF RetryGroup, rows, Untouched, OrderInv, RowsExist, Typed, RowsOK, RequestsOK, HistoryOK, StartType,
       CancelType, RetryType, NoStart, NoCancel, NoRetry, Latest
  <2> QED
    BY <2>1, <2>2 DEF OrderInv
<1>28. CASE RetryReset
  <2>1. BelowRows' /\ BelowStarts'
    <3>1. RowsKept
      BY <1>28 DEF RetryReset, rows, Untouched, OrderInv, RowsExist, RowsKept, Settled, Quiet, Typed, RowsOK, RequestsOK, HistoryOK
    <3>2. StartsKept
      BY <1>28 DEF RetryReset, StartsKept, rows, Untouched, Typed, RequestsOK, StartType, NoStart
    <3> QED
      BY <3>1, <3>2, OrderKept DEF OrderInv
  <2>2. RowsExist'
    BY ChainParts, <1>28 DEF RetryReset, rows, Untouched, OrderInv, RowsExist, Typed, RowsOK, RequestsOK, HistoryOK, StartType,
       CancelType, RetryType, NoStart, NoCancel, NoRetry, Latest
  <2> QED
    BY <2>1, <2>2 DEF OrderInv
<1>29. CASE RetryLaunch
  <2>1. BelowRows' /\ BelowStarts'
    <3>1. RowsKept
      BY <1>29 DEF RetryLaunch, rows, Untouched, OrderInv, RowsExist, RowsKept, Settled, Quiet, Typed, RowsOK, RequestsOK, HistoryOK
    <3>2. StartsKept
      BY <1>29 DEF RetryLaunch, StartsKept, rows, Untouched, Typed, RequestsOK, StartType, NoStart
    <3> QED
      BY <3>1, <3>2, OrderKept DEF OrderInv
  <2>2. retry.n \in Iterations /\ iter[retry.n] # "none"
    BY <1>29 DEF RetryLaunch, OrderInv, RowsExist, Typed, RequestsOK
  <2>3. (\E S \in SUBSET Tasks : thr' = AfterLaunch(retry.n, S, NoLauncher)) \/ thr' = thr
    BY <1>29, <2>2 DEF RetryLaunch, Typed, RequestsOK, ThreadsOK, ThreadType
  <2>4. \A id_1 \in Threads : thr'[id_1].pc # "none" => thr[id_1].pc # "none" \/ id_1[1] = retry.n
    <3>1. ASSUME NEW S \in SUBSET Tasks, thr' = AfterLaunch(retry.n, S, NoLauncher), NEW id_1 \in Threads
          PROVE  thr'[id_1].pc # "none" => thr[id_1].pc # "none" \/ id_1[1] = retry.n
      <4>1. CASE id_1 \in {NextLaunch(retry.n, t) : t \in S}
        BY <4>1 DEF NextLaunch
      <4>2. CASE id_1 \notin {NextLaunch(retry.n, t) : t \in S} /\ id_1 = NoLauncher
        BY <4>2, <1>29 DEF RetryLaunch, NoLauncher, Threads, Iterations
      <4>3. CASE id_1 \notin {NextLaunch(retry.n, t) : t \in S} /\ id_1 # NoLauncher
        BY <4>3, <3>1 DEF AfterLaunch
      <4> QED
        BY <4>1, <4>2, <4>3
    <3> QED
      BY <2>3, <3>1
  <2>5. RowsExist'
    BY <1>29, <2>2, <2>4, ChainParts DEF RetryLaunch, rows, Untouched, OrderInv, RowsExist, Typed, RequestsOK, StartType, RetryType, NoStart, NoRetry
  <2> QED
    BY <2>1, <2>5 DEF OrderInv
<1> QED
  BY <1>0, <1>1, <1>2, <1>3, <1>4, <1>5, <1>6, <1>7, <1>8, <1>9, <1>10, <1>11, <1>12, <1>13, <1>14, <1>15, <1>16, <1>17, <1>18, <1>19, <1>20, <1>21, <1>22, <1>23, <1>24, <1>25, <1>26, <1>27, <1>28, <1>29 DEF Next, StartStep, Chain, CancelStep, RetryStep

LEMMA OrderIsOneRunning == OrderInv => OneRunningIteration
<1> SUFFICES ASSUME OrderInv, NEW m \in Iterations, NEW n \in Iterations,
                    iter[m] = "running", iter[n] = "running", m # n
             PROVE  "retry" \in disturbed[m] \cup disturbed[n]
  BY DEF OneRunningIteration
<1>1. m \in 1 .. n - 1 \/ n \in 1 .. m - 1
  BY DEF Iterations
<1> QED
  BY <1>1 DEF OrderInv, BelowRows, Settled, Quiet

(* Whatever starts race, no group has two running iterations unless a retry   *)
(* reopened one of them.                                                      *)
THEOREM OneIterationRuns == Spec => []OneRunningIteration
<1>1. Typed /\ OrderInv /\ [Next]_vars => Typed' /\ OrderInv'
  BY TypedStep, OrderStep
<1> QED
  BY TypedInit, OrderInit, <1>1, OrderIsOneRunning, PTL DEF Spec

-----------------------------------------------------------------------------
(* Launched once.  While the claims of an iteration are kept and nobody       *)
(* retries in it, every launch of an execution finds none before it: a        *)
(* blocked row has not been launched, a candidate a chain holds that has been *)
(* launched is claimed, and a start that is still to launch is the only one   *)
(* of its iteration, none of whose roots runs.                                *)

Candidates(id) ==
    CASE thr[id].pc = "unblock" -> thr[id].todo \cup thr[id].ready
      [] thr[id].pc = "launch" -> thr[id].ready
      [] OTHER -> {}
Starting(s, n) == starters[s].pc \in {"mark", "launch"} /\ starters[s].n = n
Kept(n) == n \notin cleared /\ "retry" \notin disturbed[n]

FirstLaunchOnly(n) == \A t \in Tasks : Launched(n, t) \subseteq {1}
BlockedNotLaunched(n) ==
    \A t \in Tasks : exec[n][t] = "blocked" => Launched(n, t) = {} /\ Deps[t] # {}
CandidatesClaimed(n) ==
    \A id \in Threads : id[1] = n =>
        \A t \in Candidates(id) : Deps[t] # {} /\ (Launched(n, t) # {} => t \in claims[n])
RootsNotLaunched(n) ==
    \A s \in Starters : Starting(s, n) =>
        \A t \in Tasks : Deps[t] = {} => Launched(n, t) = {}
Once(n) ==
    FirstLaunchOnly(n) /\ BlockedNotLaunched(n) /\ CandidatesClaimed(n) /\ RootsNotLaunched(n)

ReadyHeld ==
    \A id \in Threads : /\ thr[id].pc \notin {"unblock", "launch"} => thr[id].ready = {}
                        /\ \A t \in thr[id].ready : exec[id[1]][t] # "blocked"
OneStarter ==
    \A n \in Iterations, s, r \in Starters : Starting(s, n) /\ Starting(r, n) => s = r
LaunchInv == ReadyHeld /\ OneStarter /\ \A n \in Iterations : Kept(n) => Once(n)

LEMMA LaunchInit == Init => LaunchInv
<1> SUFFICES ASSUME Init PROVE LaunchInv
  OBVIOUS
<1>1. \A id \in Threads : thr[id].pc = "none" /\ thr[id].ready = {}
  BY DEF Init, NoThread
<1>2. \A n \in Iterations, t \in Tasks : Launched(n, t) = {} /\ exec[n][t] = "none"
  BY <1>1 DEF Launched, Threads, Init
<1>3. \A s \in Starters, n \in Iterations : ~Starting(s, n)
  BY DEF Init, Starting, NoStart
<1>4. \A id \in Threads : Candidates(id) = {}
  BY <1>1 DEF Candidates
<1>5. ASSUME NEW n \in Iterations PROVE Once(n)
  BY <1>2, <1>3, <1>4 DEF Once, FirstLaunchOnly, BlockedNotLaunched, CandidatesClaimed, RootsNotLaunched
<1>6. ReadyHeld
  BY <1>1 DEF ReadyHeld
<1>7. OneStarter
  BY <1>3 DEF OneStarter
<1> QED
  BY <1>5, <1>6, <1>7 DEF LaunchInv

(* What starting a batch does to the launches and to the chains.              *)
LEMMA LaunchedAfter ==
    ASSUME Typed, NEW n \in Iterations, NEW S \in SUBSET Tasks, NEW self,
           self \in Threads => thr[self].pc # "none",
           CanLaunch(n, S), thr' = AfterLaunch(n, S, self)
    PROVE  \A m \in Iterations, t \in Tasks :
              Launched(m, t)' = IF m = n /\ t \in S
                                THEN Launched(m, t) \cup {Cardinality(Launched(m, t)) + 1}
                                ELSE Launched(m, t)
<1> SUFFICES ASSUME NEW m \in Iterations, NEW t \in Tasks
             PROVE  Launched(m, t)' = IF m = n /\ t \in S
                                      THEN Launched(m, t) \cup {Cardinality(Launched(m, t)) + 1}
                                      ELSE Launched(m, t)
  OBVIOUS
<1> DEFINE new == {NextLaunch(n, u) : u \in S}
<1>1. ASSUME NEW a \in 1 .. MaxLaunches
      PROVE  thr'[<<m, t, a>>].pc # "none" <=> thr[<<m, t, a>>].pc # "none" \/ <<m, t, a>> \in new
  <2> DEFINE id == <<m, t, a>>
  <2>1. id \in Threads
    BY DEF Threads
  <2>2. thr[id] \in ThreadType
    BY <2>1 DEF Typed, ThreadsOK
  <2>3. CASE id \in new
    <3>1. thr'[id] = [NoThread EXCEPT !.pc = "start"]
      BY <2>1, <2>3 DEF AfterLaunch
    <3> QED
      BY <3>1, <2>3 DEF NoThread
  <2>4. CASE id \notin new /\ id = self
    <3>1. thr'[id] = [thr[id] EXCEPT !.pc = "wait", !.ready = {}, !.slots = 0, !.batch = new]
      BY <2>1, <2>4 DEF AfterLaunch
    <3>2. thr'[id].pc = "wait"
      BY <3>1, <2>2 DEF ThreadType
    <3>3. thr[id].pc # "none"
      BY <2>4, <2>1
    <3> HIDE DEF new
    <3> QED
      BY <3>2, <3>3
  <2>5. CASE id \notin new /\ id # self
    <3>1. thr'[id] = thr[id]
      BY <2>1, <2>5 DEF AfterLaunch
    <3> QED
      BY <3>1, <2>5
  <2> QED
    BY <2>3, <2>4, <2>5
<1>2. ASSUME NEW a \in 1 .. MaxLaunches
      PROVE  <<m, t, a>> \in new <=> m = n /\ t \in S /\ a = Cardinality(Launched(m, t)) + 1
  BY DEF NextLaunch
<1>3. t \in S /\ m = n => Cardinality(Launched(m, t)) + 1 \in 1 .. MaxLaunches
  <2> SUFFICES ASSUME t \in S, m = n PROVE Cardinality(Launched(m, t)) + 1 \in 1 .. MaxLaunches
    OBVIOUS
  <2>1. Cardinality(Launched(m, t)) \in Nat
    BY CountLaunches DEF Launched
  <2>2. Cardinality(Launched(m, t)) < MaxLaunches
    BY DEF CanLaunch
  <2> QED
    BY <2>1, <2>2, BoundsAssumption
<1> HIDE DEF new
<1> DEFINE c == Cardinality(Launched(m, t)) + 1
<1>4. Launched(m, t)' = {a \in 1 .. MaxLaunches : thr[<<m, t, a>>].pc # "none" \/ (m = n /\ t \in S /\ a = c)}
  BY <1>1, <1>2 DEF Launched
<1>5. Launched(m, t) = {a \in 1 .. MaxLaunches : thr[<<m, t, a>>].pc # "none"}
  BY DEF Launched
<1> HIDE DEF c
<1>6. CASE m = n /\ t \in S
  BY <1>3, <1>4, <1>5, <1>6 DEF c
<1>7. CASE ~(m = n /\ t \in S)
  BY <1>4, <1>5, <1>7
<1> QED
  BY <1>6, <1>7

LEMMA ChainsAfter ==
    ASSUME Typed, NEW n \in Iterations, NEW S \in SUBSET Tasks, NEW self,
           thr' = AfterLaunch(n, S, self)
    PROVE  \A id \in Threads :
              \/ thr'[id] = thr[id]
              \/ /\ id \in {NextLaunch(n, t) : t \in S}
                 /\ thr'[id].pc = "start" /\ thr'[id].ready = {}
              \/ id = self /\ thr'[id].pc = "wait" /\ thr'[id].ready = {}
<1> SUFFICES ASSUME NEW id \in Threads
             PROVE  \/ thr'[id] = thr[id]
                    \/ /\ id \in {NextLaunch(n, t) : t \in S}
                       /\ thr'[id].pc = "start" /\ thr'[id].ready = {}
                    \/ id = self /\ thr'[id].pc = "wait" /\ thr'[id].ready = {}
  OBVIOUS
<1> DEFINE new == {NextLaunch(n, u) : u \in S}
<1>0. thr[id] \in ThreadType
  BY DEF Typed, ThreadsOK
<1>1. CASE id \in new
  <2>1. thr'[id] = [NoThread EXCEPT !.pc = "start"]
    BY <1>1 DEF AfterLaunch
  <2> QED
    BY <1>1, <2>1 DEF NoThread
<1>2. CASE id \notin new /\ id = self
  <2>1. thr'[id] = [thr[id] EXCEPT !.pc = "wait", !.ready = {}, !.slots = 0, !.batch = new]
    BY <1>2 DEF AfterLaunch
  <2>2. thr'[id].pc = "wait" /\ thr'[id].ready = {}
    BY <2>1, <1>0 DEF ThreadType
  <2> HIDE DEF new
  <2> QED
    BY <2>2, <1>2
<1>3. CASE id \notin new /\ id # self
  BY <1>3 DEF AfterLaunch
<1> QED
  BY <1>1, <1>2, <1>3

LEMMA CandidatesAfter ==
    ASSUME Typed, NEW n \in Iterations, NEW S \in SUBSET Tasks, NEW self,
           thr' = AfterLaunch(n, S, self)
    PROVE  \A id \in Threads : Candidates(id)' \subseteq Candidates(id)
BY ChainsAfter DEF Candidates

(* Moving one chain keeps the launches.                                       *)
LEMMA LaunchedMove ==
    ASSUME Typed, NEW id \in Threads, NEW chain, Put(id, chain),
           thr[id].pc # "none", chain.pc # "none"
    PROVE  \A m \in Iterations, t \in Tasks : Launched(m, t)' = Launched(m, t)
<1>1. \A i \in Threads : thr'[i] = IF i = id THEN chain ELSE thr[i]
  BY DEF Put, Typed, ThreadsOK
<1>2. \A i \in Threads : thr'[i].pc # "none" <=> thr[i].pc # "none"
  BY <1>1
<1> QED
  BY <1>2 DEF Launched, Threads

LEMMA CandidatesType ==
    ASSUME Typed, NEW id \in Threads
    PROVE  Candidates(id) \subseteq Tasks
BY DEF Candidates, Typed, ThreadsOK, ThreadType

(* Once(n) survives a step that launches nothing in n, blocks nothing, adds   *)
(* only blocked rows to what a chain holds and forgets no claim of a          *)
(* candidate.                                                                 *)
LEMMA OnceKept ==
    ASSUME Typed, NEW n \in Iterations, Once(n),
           \A t \in Tasks : Launched(n, t)' = Launched(n, t),
           \A t \in Tasks : exec'[n][t] = "blocked" => exec[n][t] = "blocked",
           \A id \in Threads : id[1] = n =>
              \A t \in Candidates(id)' :
                 t \in Candidates(id) \/ (t \in Tasks /\ exec[n][t] = "blocked"),
           claims[n] \subseteq claims'[n] \/ \A id \in Threads : id[1] = n => Candidates(id)' = {},
           \A s \in Starters : Starting(s, n)' => Starting(s, n)
    PROVE  Once(n)'
<1>1. FirstLaunchOnly(n)' /\ BlockedNotLaunched(n)' /\ RootsNotLaunched(n)'
  BY DEF Once, FirstLaunchOnly, BlockedNotLaunched, RootsNotLaunched
<1>2. ASSUME NEW id \in Threads, id[1] = n, NEW t \in Candidates(id)'
      PROVE  Deps[t] # {} /\ (Launched(n, t)' # {} => t \in claims'[n])
  <2>1. CASE t \in Tasks /\ exec[n][t] = "blocked"
    BY <2>1 DEF Once, BlockedNotLaunched
  <2>2. CASE t \in Candidates(id)
    <3>1. t \in Tasks
      BY <2>2, CandidatesType
    <3>2. CASE claims[n] \subseteq claims'[n]
      BY <1>2, <2>2, <3>1, <3>2 DEF Once, CandidatesClaimed
    <3>3. CASE \A i \in Threads : i[1] = n => Candidates(i)' = {}
      BY <1>2, <3>3
    <3> QED
      BY <3>2, <3>3
  <2> QED
    BY <1>2, <2>1, <2>2
<1>3. CandidatesClaimed(n)'
  BY <1>2 DEF CandidatesClaimed
<1> QED
  BY <1>1, <1>3 DEF Once
LEMMA OnceSame ==
    ASSUME Typed, NEW n \in Iterations, Once(n), thr' = thr, exec' = exec,
           claims[n] \subseteq claims'[n] \/ \A id \in Threads : id[1] = n => Candidates(id)' = {},
           \A s \in Starters : Starting(s, n)' => Starting(s, n)
    PROVE  Once(n)'
<1>1. \A t \in Tasks : Launched(n, t)' = Launched(n, t)
  BY DEF Launched
<1>2. \A id \in Threads : Candidates(id)' = Candidates(id)
  BY DEF Candidates
<1> QED
  BY <1>1, <1>2, OnceKept

(* The same for a step that moves one chain.                                  *)
LEMMA OnceMoved ==
    ASSUME Typed, NEW n \in Iterations, Once(n), NEW id \in Threads, NEW chain, Put(id, chain),
           thr[id].pc # "none", chain.pc # "none",
           \A t \in Tasks : exec'[n][t] = "blocked" => exec[n][t] = "blocked",
           chain.pc = "unblock" => \A t \in chain.todo \cup chain.ready :
              t \in Candidates(id) \/ (t \in Tasks /\ exec[id[1]][t] = "blocked"),
           chain.pc = "launch" => chain.ready \subseteq Candidates(id),
           claims[n] \subseteq claims'[n] \/ \A i \in Threads : i[1] = n => Candidates(i)' = {},
           starters' = starters
    PROVE  Once(n)'
<1>1. \A i \in Threads : thr'[i] = IF i = id THEN chain ELSE thr[i]
  BY DEF Put, Typed, ThreadsOK
<1>2. \A t \in Tasks : Launched(n, t)' = Launched(n, t)
  BY LaunchedMove
<1>3. ASSUME NEW i \in Threads, i[1] = n, NEW t \in Candidates(i)'
      PROVE  t \in Candidates(i) \/ (t \in Tasks /\ exec[n][t] = "blocked")
  <2>1. CASE i # id
    BY <1>1, <1>3, <2>1 DEF Candidates
  <2>2. CASE i = id
    BY <1>1, <1>3, <2>2 DEF Candidates
  <2> QED
    BY <2>1, <2>2
<1>4. \A s \in Starters : Starting(s, n)' => Starting(s, n)
  BY DEF Starting
<1> QED
  BY <1>2, <1>3, <1>4, OnceKept

(* The step that launches: every execution of the batch for the first time.   *)
LEMMA OnceLaunched ==
    ASSUME Typed, NEW n \in Iterations, Once(n), NEW S \in SUBSET Tasks, NEW self,
           self \in Threads => thr[self].pc # "none",
           CanLaunch(n, S), thr' = AfterLaunch(n, S, self), exec' = exec,
           \A t \in S : Launched(n, t) = {} /\ exec[n][t] # "blocked",
           claims'[n] = claims[n] \cup S,
           \A s \in Starters : Starting(s, n)' => Starting(s, n) /\ \A t \in S : Deps[t] # {}
    PROVE  Once(n)'
<1>1. \A t \in Tasks : Launched(n, t)' = IF t \in S THEN {1} ELSE Launched(n, t)
  <2>1. \A t \in Tasks : Launched(n, t)' = IF t \in S
                                           THEN Launched(n, t) \cup {Cardinality(Launched(n, t)) + 1}
                                           ELSE Launched(n, t)
    BY LaunchedAfter
  <2>2. Cardinality({}) = 0
    BY FS_EmptySet
  <2> QED
    BY <2>1, <2>2
<1>2. FirstLaunchOnly(n)'
  BY <1>1 DEF Once, FirstLaunchOnly
<1>3. BlockedNotLaunched(n)'
  BY <1>1 DEF Once, BlockedNotLaunched
<1>4. CandidatesClaimed(n)'
  <2> SUFFICES ASSUME NEW id \in Threads, id[1] = n, NEW t \in Candidates(id)'
               PROVE  Deps[t] # {} /\ (Launched(n, t)' # {} => t \in claims'[n])
    BY DEF CandidatesClaimed
  <2>1. t \in Candidates(id) /\ t \in Tasks
    BY CandidatesAfter, CandidatesType
  <2> QED
    BY <2>1, <1>1 DEF Once, CandidatesClaimed
<1>5. RootsNotLaunched(n)'
  BY <1>1 DEF Once, RootsNotLaunched
<1> QED
  BY <1>2, <1>3, <1>4, <1>5 DEF Once

(* A launch in another iteration.                                             *)
LEMMA OnceElsewhere ==
    ASSUME Typed, NEW n \in Iterations, Once(n), NEW m \in Iterations, m # n,
           NEW S \in SUBSET Tasks, NEW self, self \in Threads => thr[self].pc # "none",
           CanLaunch(m, S), thr' = AfterLaunch(m, S, self), exec' = exec,
           claims'[n] = claims[n],
           \A s \in Starters : Starting(s, n)' => Starting(s, n)
    PROVE  Once(n)'
<1>1. \A t \in Tasks : Launched(n, t)' = Launched(n, t)
  BY LaunchedAfter
<1>2. \A id \in Threads : Candidates(id)' \subseteq Candidates(id)
  BY CandidatesAfter
<1> QED
  BY <1>1, <1>2, OnceKept

(* No execution is blocked anew in an iteration that exists.                  *)
LEMMA ChainBlocksNothing ==
    ASSUME Typed, NEW id \in Threads, Chain(id) \/ StorageFault(id)
    PROVE  \A n \in Iterations, t \in Tasks :
              exec'[n][t] = "blocked" => exec[n][t] = "blocked"
<1> SUFFICES ASSUME NEW n \in Iterations, NEW t \in Tasks, exec'[n][t] = "blocked"
             PROVE  exec[n][t] = "blocked"
  OBVIOUS
<1>1. CASE exec' = exec
  BY <1>1
<1>2. CASE BodyStart(id) \/ BodyCompleted(id) \/ BodyFailed(id)
  BY <1>2, ChainParts DEF BodyStart, BodyCompleted, BodyFailed, SetExec, Typed, RowsOK
<1>3. CASE Unblock(id) \/ Prune(id)
  <2>1. PICK m \in Iterations, u \in Tasks : \/ exec' = [exec EXCEPT ![m][u] = "ready"]
                                             \/ exec' = [exec EXCEPT ![m][u] = "cancelled"]
    BY <1>3, ChainParts DEF Unblock, Prune, Typed, ThreadsOK, ThreadType
  <2> QED
    BY <2>1 DEF Typed, RowsOK
<1> QED
  BY <1>1, <1>2, <1>3 DEF Chain, Scan, LaunchReady, BatchSettled, Check, IterationDone,
     GroupDone, Reach, IterationFail, GroupFail, StorageFault, rows

LEMMA RequestBlocksNothing ==
    ASSUME Typed, CancelRow \/ RetryReset
    PROVE  \A n \in Iterations, t \in Tasks :
              exec'[n][t] = "blocked" => exec[n][t] = "blocked"
<1>1. PICK m \in Iterations, u \in Tasks : \/ exec' = [exec EXCEPT ![m][u] = "ready"]
                                           \/ exec' = [exec EXCEPT ![m][u] = "cancelled"]
  BY DEF CancelRow, RetryReset, Typed, RequestsOK, CancelType
<1> QED
  BY <1>1 DEF Typed, RowsOK

LEMMA NotBlockedAgain ==
    ASSUME Typed, [Next]_vars
    PROVE  \A n \in Iterations, t \in Tasks :
              exec'[n][t] = "blocked" => exec[n][t] = "blocked" \/ iter[n] = "none"
<1>1. CASE exec' = exec
  BY <1>1
<1>2. ASSUME NEW s \in Starters, StartStep(s), NEW n \in Iterations, NEW t \in Tasks,
             exec'[n][t] = "blocked"
      PROVE  exec[n][t] = "blocked" \/ iter[n] = "none"
  <2>1. CASE StartCreate(s)
    BY <1>2, <2>1 DEF StartCreate, Typed, RowsOK
  <2> QED
    BY <1>1, <1>2, <2>1 DEF StartStep, StartRead, StartConflict, StartMark, StartLaunch, rows
<1>3. CASE CancelRead \/ CancelStep \/ RetryStep \/ (\E u \in Tasks : RetryRead(u)) \/ UNCHANGED vars
  BY <1>1, <1>3, RequestBlocksNothing DEF CancelRead, CancelStep, CancelIteration, CancelGroup,
     RetryStep, RetryIteration, RetryGroup, RetryLaunch, RetryRead, vars, rows
<1> QED
  BY <1>2, <1>3, ChainBlocksNothing DEF Next

LEMMA ReadyKept ==
    ASSUME Typed, RowsExist, ReadyHeld, [Next]_vars,
           \A id \in Threads :
              \/ thr'[id] = thr[id]
              \/ thr'[id].ready = {}
              \/ /\ thr'[id].pc \in {"unblock", "launch"} /\ thr[id].pc # "none"
                 /\ \A t \in thr'[id].ready : t \in thr[id].ready \/ exec'[id[1]][t] = "ready"
    PROVE  ReadyHeld'
<1> SUFFICES ASSUME NEW id \in Threads
             PROVE  /\ thr'[id].pc \notin {"unblock", "launch"} => thr'[id].ready = {}
                    /\ \A t \in thr'[id].ready : exec'[id[1]][t] # "blocked"
  BY DEF ReadyHeld
<1>1. thr[id].pc # "none" => iter[id[1]] # "none"
  BY DEF RowsExist
<1>2. id[1] \in Iterations /\ thr[id].ready \subseteq Tasks
  BY ChainParts DEF Typed, ThreadsOK, ThreadType
<1>3. \A t \in thr[id].ready : thr[id].pc # "none" /\ exec[id[1]][t] # "blocked"
  BY DEF ReadyHeld
<1>4. \A t \in thr[id].ready : exec'[id[1]][t] # "blocked"
  BY <1>1, <1>2, <1>3, NotBlockedAgain
<1>5. CASE thr'[id] = thr[id]
  BY <1>4, <1>5 DEF ReadyHeld
<1>6. CASE thr'[id] # thr[id]
  BY <1>4, <1>6
<1> QED
  BY <1>5, <1>6

LEMMA ReadyStep ==
    ASSUME Typed, RowsExist, ReadyHeld, [Next]_vars
    PROVE  ReadyHeld'
<1> DEFINE Fits(id) == \/ thr'[id] = thr[id]
                       \/ thr'[id].ready = {}
                       \/ /\ thr'[id].pc \in {"unblock", "launch"} /\ thr[id].pc # "none"
                          /\ \A t \in thr'[id].ready : t \in thr[id].ready \/ exec'[id[1]][t] = "ready"
<1>0. \A id \in Threads : thr[id] \in ThreadType /\ (thr[id].pc \notin {"unblock", "launch"} => thr[id].ready = {})
  BY DEF Typed, ThreadsOK, ReadyHeld
<1>1. CASE thr' = thr
  BY <1>1, ReadyKept
<1>2. ASSUME NEW n \in Iterations, NEW S \in SUBSET Tasks, NEW self, thr' = AfterLaunch(n, S, self)
      PROVE  ReadyHeld'
  <2>1. \A id \in Threads : thr'[id] = thr[id] \/ thr'[id].ready = {}
    BY <1>2, ChainsAfter
  <2> QED
    BY <2>1, ReadyKept
<1>3. ASSUME NEW id \in Threads, NEW chain, Put(id, chain),
             \/ chain.ready = {}
             \/ /\ chain.pc \in {"unblock", "launch"} /\ thr[id].pc # "none"
                /\ \A t \in chain.ready : t \in thr[id].ready \/ exec'[id[1]][t] = "ready"
      PROVE  ReadyHeld'
  <2>1. \A i \in Threads : thr'[i] = IF i = id THEN chain ELSE thr[i]
    BY <1>3 DEF Put, Typed, ThreadsOK
  <2> QED
    BY <1>3, <2>1, ReadyKept
<1>4. ASSUME NEW id \in Threads, NEW pc, GoTo(id, pc), thr[id].pc \notin {"unblock", "launch"}
      PROVE  ReadyHeld'
  <2> DEFINE chain == [thr[id] EXCEPT !.pc = pc]
  <2>1. chain.ready = {}
    BY <1>0, <1>4 DEF ThreadType
  <2>2. Put(id, chain)
    BY <1>4 DEF GoTo
  <2> HIDE DEF chain
  <2> QED
    BY <1>3, <2>1, <2>2
<1>5. ASSUME NEW id \in Threads, BodyStart(id) \/ BodyCompleted(id) \/ BodyFailed(id) \/ Check(id)
                                 \/ IterationDone(id) \/ GroupDone(id) \/ IterationFail(id) \/ GroupFail(id)
      PROVE  ReadyHeld'
  <2>1. thr[id].pc \notin {"unblock", "launch"} /\ \E pc \in ThreadPcs : GoTo(id, pc)
    BY <1>5 DEF BodyStart, BodyCompleted, BodyFailed, Check, IterationDone, GroupDone, IterationFail,
       GroupFail, ThreadPcs
  <2> QED
    BY <1>4, <2>1
<1>6. ASSUME NEW id \in Threads, Scan(id) \/ Reach(id) \/ Prune(id) \/ BatchSettled(id) PROVE ReadyHeld'
  <2>1. thr[id] \in ThreadType /\ thr[id].ready = {}
    BY <1>0, <1>6 DEF Scan, Reach, Prune, BatchSettled
  <2>2. thr'[id].ready = {}
    <3>1. CASE Scan(id)
      <4>1. CASE Unblockable(id[1]) = {}
        BY <2>1, <3>1, <4>1 DEF Scan, GoTo, Put, ThreadType, Typed, ThreadsOK
      <4>2. CASE Unblockable(id[1]) # {}
        <5> DEFINE chain == [thr[id] EXCEPT !.pc = "unblock", !.todo = Unblockable(id[1]),
                                            !.slots = FreeSlots(id[1])]
        <5>1. chain.ready = {}
          BY <2>1 DEF ThreadType
        <5>2. Put(id, chain)
          BY <3>1, <4>2 DEF Scan
        <5> HIDE DEF chain
        <5> QED
          BY <5>1, <5>2 DEF Put, Typed, ThreadsOK
      <4> QED
        BY <4>1, <4>2
    <3>2. CASE Reach(id)
      <4>1. PICK todo, pc : thr'[id] = [thr[id] EXCEPT !.todo = todo, !.pc = pc]
        BY <3>2 DEF Reach, Put, Typed, ThreadsOK
      <4> QED
        BY <2>1, <4>1 DEF ThreadType
    <3>3. CASE Prune(id)
      <4>1. PICK t \in thr[id].todo :
               Put(id, [thr[id] EXCEPT !.todo = @ \ {t},
                                       !.pc = IF thr[id].todo = {t} THEN "iterFail" ELSE "prune"])
        BY <3>3 DEF Prune
      <4> QED
        BY <2>1, <4>1 DEF Put, ThreadType, Typed, ThreadsOK
    <3>4. CASE BatchSettled(id)
      BY <2>1, <3>4 DEF BatchSettled, Put, ThreadType, Typed, ThreadsOK
    <3> QED
      BY <1>6, <3>1, <3>2, <3>3, <3>4
  <2>3. \A i \in Threads : i # id => thr'[i] = thr[i]
    BY <1>6 DEF Scan, Reach, Prune, BatchSettled, GoTo, Put, Typed, ThreadsOK
  <2> QED
    BY <2>2, <2>3, ReadyKept
<1>7. ASSUME NEW id \in Threads, Unblock(id) PROVE ReadyHeld'
  <2>1. PICK t \in thr[id].todo :
          /\ exec' = [exec EXCEPT ![id[1]][t] = "ready"]
          /\ Put(id, [thr[id] EXCEPT !.todo = @ \ {t}, !.ready = @ \cup {t},
                                     !.pc = IF thr[id].todo = {t} THEN "launch" ELSE "unblock"])
    BY <1>7 DEF Unblock
  <2> DEFINE chain == [thr[id] EXCEPT !.todo = @ \ {t}, !.ready = @ \cup {t},
                                      !.pc = IF thr[id].todo = {t} THEN "launch" ELSE "unblock"]
  <2>2. chain.pc \in {"unblock", "launch"} /\ chain.ready = thr[id].ready \cup {t}
    BY <1>0 DEF ThreadType
  <2>3. Put(id, chain)
    BY <2>1
  <2>4. exec'[id[1]][t] = "ready"
    BY <1>0, <2>1, ChainParts DEF Typed, RowsOK, ThreadType
  <2>5. thr[id].pc # "none"
    BY <1>7 DEF Unblock
  <2> HIDE DEF chain
  <2> QED
    BY <1>3, <2>2, <2>3, <2>4, <2>5
<1>8. ASSUME NEW id \in Threads, LaunchReady(id) PROVE ReadyHeld'
  <2>1. \E S \in SUBSET Tasks : thr' = AfterLaunch(id[1], S, id)
    BY <1>0, <1>8 DEF LaunchReady, ThreadType
  <2> QED
    BY <1>2, <2>1, ChainParts
<1>9. ASSUME NEW id \in Threads, StorageFault(id) PROVE ReadyHeld'
  <2>1. PICK pc : Put(id, [NoThread EXCEPT !.pc = pc])
    BY <1>9 DEF StorageFault
  <2>2. [NoThread EXCEPT !.pc = pc].ready = {}
    BY DEF NoThread
  <2> QED
    BY <1>3, <2>1, <2>2
<1>10. ASSUME NEW s \in Starters, StartStep(s) PROVE ReadyHeld'
  <2>1. CASE StartLaunch(s)
    <3>1. PICK n \in Iterations : n = starters[s].n
      BY <2>1 DEF StartLaunch, Typed, RequestsOK
    <3>2. \E S \in SUBSET Tasks : thr' = AfterLaunch(n, S, NoLauncher)
      BY <2>1, <3>1 DEF StartLaunch
    <3> QED
      BY <1>2, <3>2
  <2>2. CASE thr' = thr
    BY <1>1, <2>2
  <2> QED
    BY <1>10, <2>1, <2>2 DEF StartStep, StartRead, StartConflict, StartCreate, StartMark
<1>11. CASE RetryLaunch
  <2>1. PICK n \in Iterations : n = retry.n
    BY <1>11 DEF RetryLaunch, Typed, RequestsOK
  <2>2. thr' = thr \/ \E S \in SUBSET Tasks : thr' = AfterLaunch(n, S, NoLauncher)
    BY <1>11, <2>1 DEF RetryLaunch, Typed, RequestsOK
  <2> QED
    BY <1>1, <1>2, <2>2
<1>12. CASE CancelRead \/ CancelStep \/ (RetryStep /\ ~RetryLaunch) \/ (\E u \in Tasks : RetryRead(u)) \/ UNCHANGED vars
  BY <1>1, <1>12 DEF CancelRead, CancelStep, CancelRow, CancelIteration, CancelGroup, RetryStep,
     RetryIteration, RetryGroup, RetryReset, RetryRead, vars
<1>13. ASSUME NEW id \in Threads, Chain(id) PROVE ReadyHeld'
  BY <1>5, <1>6, <1>7, <1>8, <1>13 DEF Chain
<1> QED
  BY <1>9, <1>10, <1>11, <1>12, <1>13 DEF Next

LEMMA StarterStep ==
    ASSUME Typed, RowsExist, OneStarter, [Next]_vars
    PROVE  OneStarter'
<1>1. CASE \A s \in Starters, n \in Iterations : Starting(s, n)' => Starting(s, n)
  BY <1>1 DEF OneStarter
<1>2. ASSUME NEW s \in Starters, StartStep(s) PROVE OneStarter'
  <2>1. ASSUME NEW r \in Starters, r # s PROVE starters'[r] = starters[r]
    BY <1>2, <2>1 DEF StartStep, StartRead, StartConflict, StartCreate, StartMark, StartLaunch,
       Typed, RequestsOK
  <2>2. CASE StartRead(s) \/ StartConflict(s) \/ StartMark(s) \/ StartLaunch(s)
    <3>1. \A n \in Iterations : Starting(s, n)' => Starting(s, n)
      BY <2>2 DEF StartRead, StartConflict, StartMark, StartLaunch, Starting, NoStart,
         Typed, RequestsOK, StartType
    <3>2. \A r \in Starters, n \in Iterations : Starting(r, n)' => Starting(r, n)
      BY <2>1, <3>1 DEF Starting
    <3> QED
      BY <1>1, <3>2
  <2>3. CASE StartCreate(s)
    <3>1. PICK n \in Iterations : n = starters[s].n /\ iter[n] = "none"
      BY <2>3 DEF StartCreate, Typed, RequestsOK
    <3>2. starters'[s].n = n
      BY <2>3, <3>1 DEF StartCreate, Typed, RequestsOK, StartType
    <3>3. \A r \in Starters : ~Starting(r, n)
      BY <3>1 DEF RowsExist, Starting
    <3>4. \A r \in Starters : Starting(r, n)' => r = s
      BY <2>1, <3>3 DEF Starting
    <3>5. \A r \in Starters, m \in Iterations : m # n /\ Starting(r, m)' => Starting(r, m)
      BY <2>1, <3>2 DEF Starting
    <3> QED
      BY <3>4, <3>5 DEF OneStarter
  <2> QED
    BY <1>2, <2>2, <2>3 DEF StartStep
<1>3. CASE starters' = starters
  BY <1>1, <1>3 DEF Starting
<1>4. (\E s \in Starters : StartStep(s)) \/ starters' = starters
  BY DEF Next, Chain, BodyStart, BodyCompleted, BodyFailed, Scan, Unblock, LaunchReady, BatchSettled,
     Check, IterationDone, GroupDone, Reach, Prune, IterationFail, GroupFail, StorageFault, Untouched,
     CancelRead, CancelStep, CancelRow, CancelIteration, CancelGroup, RetryRead, RetryStep,
     RetryIteration, RetryGroup, RetryReset, RetryLaunch, vars
<1> QED
  BY <1>2, <1>3, <1>4

(* What was disturbed or cleared stays so.                                    *)
LEMMA HistoryGrows ==
    ASSUME Typed, [Next]_vars
    PROVE  /\ \A n \in Iterations : disturbed[n] \subseteq disturbed'[n]
           /\ cleared \subseteq cleared'
<1>1. \A n \in Iterations : disturbed[n] \subseteq disturbed'[n]
  <2>1. disturbed \in [Iterations -> SUBSET Disturbances]
    BY DEF Typed, HistoryOK
  <2>2. disturbed' = disturbed \/ \E m \in Iterations, d \in Disturbances :
                                  disturbed' = [disturbed EXCEPT ![m] = disturbed[m] \cup {d}]
    <3>1. ASSUME NEW id \in Threads, Chain(id) PROVE disturbed' = disturbed
      BY <3>1 DEF Chain, BodyStart, BodyCompleted, BodyFailed, Scan, Unblock, LaunchReady, BatchSettled, Check,
         IterationDone, GroupDone, Reach, Prune, IterationFail, GroupFail, Untouched
    <3>2. ASSUME NEW id \in Threads, StorageFault(id)
          PROVE  disturbed' = [disturbed EXCEPT ![id[1]] = disturbed[id[1]] \cup {"fault"}]
                 /\ id[1] \in Iterations /\ "fault" \in Disturbances
      BY <3>2 DEF StorageFault, Threads, Disturbances
    <3>3. ASSUME NEW s \in Starters, StartStep(s) PROVE disturbed' = disturbed
      BY <3>3 DEF StartStep, StartRead, StartConflict, StartCreate, StartMark, StartLaunch
    <3>4. CancelStep \/ RetryStep => disturbed' = disturbed
      BY DEF CancelStep, CancelRow, CancelIteration, CancelGroup, RetryStep, RetryIteration, RetryGroup,
         RetryReset, RetryLaunch
    <3>5. CancelRead => \E m \in Iterations : disturbed' = [disturbed EXCEPT ![m] = disturbed[m] \cup {"cancel"}]
      BY DEF CancelRead
    <3>6. ASSUME NEW t \in Tasks, RetryRead(t)
          PROVE  \E m \in Iterations : disturbed' = [disturbed EXCEPT ![m] = disturbed[m] \cup {"retry"}]
      BY <3>6 DEF RetryRead
    <3>7. {"cancel", "retry"} \subseteq Disturbances
      BY DEF Disturbances
    <3> QED
      BY <3>1, <3>2, <3>3, <3>4, <3>5, <3>6, <3>7 DEF Next, vars
  <2> QED
    BY <2>1, <2>2
<1>2. cleared \subseteq cleared'
  BY DEF Next, StartStep, StartRead, StartConflict, StartCreate, StartMark, StartLaunch, Chain,
     BodyStart, BodyCompleted, BodyFailed, Scan, Unblock, LaunchReady, BatchSettled, Check,
     IterationDone, GroupDone, Reach, Prune, IterationFail, GroupFail, StorageFault, ClearClaims,
     CancelRead, CancelStep, CancelRow, CancelIteration, CancelGroup, RetryRead, RetryStep,
     RetryIteration, RetryGroup, RetryReset, RetryLaunch, vars
<1> QED
  BY <1>1, <1>2

LEMMA OnceStep ==
    ASSUME Typed, RowsExist, LaunchInv, [Next]_vars, NEW n \in Iterations, Kept(n)'
    PROVE  Once(n)'
<1>1. Kept(n)
  <2>1. disturbed[n] \subseteq disturbed'[n] /\ cleared \subseteq cleared'
    BY HistoryGrows
  <2> QED
    BY <2>1 DEF Kept
<1>2. Once(n)
  BY <1>1 DEF LaunchInv
<1>3. \A id \in Threads : /\ thr[id] \in ThreadType
                          /\ thr[id].pc \notin {"unblock", "launch"} => thr[id].ready = {}
  BY DEF Typed, ThreadsOK, LaunchInv, ReadyHeld
<1>4. \A id \in Threads : id[1] \in Iterations
  BY ChainParts
<1>5. NoLauncher \notin Threads
  BY DEF NoLauncher, Threads, Iterations
<1>6. starters' = starters => \A s \in Starters : Starting(s, n)' => Starting(s, n)
  BY DEF Starting
(* Requests that write no claim and launch nothing.                           *)
<1>7. CASE UNCHANGED <<thr, exec, claims>> /\ \A s \in Starters : Starting(s, n)' => Starting(s, n)
  BY <1>2, <1>7, OnceSame
<1>8. ASSUME NEW s \in Starters, StartRead(s) \/ StartConflict(s) \/ StartMark(s) PROVE Once(n)'
  <2>1. \A r \in Starters : Starting(r, n)' => Starting(r, n)
    BY <1>8 DEF StartRead, StartConflict, StartMark, Starting, NoStart, Typed, RequestsOK, StartType
  <2> QED
    BY <1>7, <1>8, <2>1 DEF StartRead, StartConflict, StartMark, rows
<1>9. ASSUME NEW s \in Starters, StartCreate(s) PROVE Once(n)'
  <2>1. PICK m \in Iterations : m = starters[s].n /\ iter[m] = "none"
    BY <1>9 DEF StartCreate, Typed, RequestsOK
  <2>2. thr' = thr /\ claims' = claims
    BY <1>9 DEF StartCreate
  <2>3. \A r \in Starters : starters'[r].pc \in {"mark", "launch"} =>
          starters'[r].n = m \/ starters'[r] = starters[r]
    BY <1>9, <2>1 DEF StartCreate, Typed, RequestsOK, StartType
  <2>4. CASE n = m
    <3>1. \A id \in Threads : id[1] = n => thr[id].pc = "none"
      BY <2>1, <2>4 DEF RowsExist
    <3>2. \A t \in Tasks : Launched(n, t)' = {}
      BY <2>2, <3>1 DEF Launched, Threads
    <3>3. \A id \in Threads : id[1] = n => Candidates(id)' = {}
      BY <2>2, <3>1 DEF Candidates
    <3>4. exec'[n] = [t \in Tasks |-> IF Deps[t] = {} THEN "ready" ELSE "blocked"]
      BY <1>9, <2>1, <2>4 DEF StartCreate, Typed, RowsOK
    <3> QED
      BY <3>2, <3>3, <3>4 DEF Once, FirstLaunchOnly, BlockedNotLaunched, CandidatesClaimed, RootsNotLaunched
  <2>5. CASE n # m
    <3>1. exec'[n] = exec[n]
      BY <1>9, <2>1, <2>5 DEF StartCreate, Typed, RowsOK
    <3>2. \A t \in Tasks : Launched(n, t)' = Launched(n, t)
      BY <2>2 DEF Launched
    <3>3. \A id \in Threads : Candidates(id)' = Candidates(id)
      BY <2>2 DEF Candidates
    <3>4. \A r \in Starters : Starting(r, n)' => Starting(r, n)
      BY <2>3, <2>5 DEF Starting
    <3> QED
      BY <1>2, <2>2, <3>1, <3>2, <3>3, <3>4, OnceKept
  <2> QED
    BY <2>4, <2>5
<1>10. ASSUME NEW s \in Starters, StartLaunch(s) PROVE Once(n)'
  <2>1. PICK m \in Iterations : m = starters[s].n
    BY <1>10 DEF StartLaunch, Typed, RequestsOK
  <2>2. PICK S \in SUBSET Tasks :
          /\ Claimed(m, {t \in Tasks : Deps[t] = {}}, MaxConcurrent, S)
          /\ claims' = [claims EXCEPT ![m] = @ \cup S]
          /\ thr' = AfterLaunch(m, S, NoLauncher)
    BY <1>10, <2>1 DEF StartLaunch
  <2>3. CanLaunch(m, S) /\ \A t \in S : Deps[t] = {}
    BY <2>2 DEF Claimed
  <2>4. \A r \in Starters : Starting(r, n)' => Starting(r, n) /\ r # s
    BY <1>10 DEF StartLaunch, Starting, NoStart, Typed, RequestsOK
  <2>5. exec' = exec
    BY <1>10 DEF StartLaunch
  <2>6. CASE n = m
    <3>1. Starting(s, n)
      BY <1>10, <2>1, <2>6 DEF StartLaunch, Starting
    <3>2. \A t \in S : Launched(n, t) = {} /\ exec[n][t] # "blocked"
      BY <1>2, <2>3, <3>1 DEF Once, RootsNotLaunched, BlockedNotLaunched
    <3>3. \A r \in Starters : ~Starting(r, n)'
      BY <2>4, <3>1 DEF LaunchInv, OneStarter
    <3>4. claims'[n] = claims[n] \cup S
      BY <2>2, <2>6 DEF Typed, RowsOK
    <3> QED
      BY <1>2, <1>5, <2>2, <2>3, <2>5, <2>6, <3>2, <3>3, <3>4, OnceLaunched
  <2>7. CASE n # m
    <3>1. claims'[n] = claims[n]
      BY <2>2, <2>7 DEF Typed, RowsOK
    <3> QED
      BY <1>2, <1>5, <2>2, <2>3, <2>4, <2>5, <2>7, <3>1, OnceElsewhere
  <2> QED
    BY <2>6, <2>7
(* The chains.                                                                *)
<1>11. ASSUME NEW id \in Threads, LaunchReady(id) PROVE Once(n)'
  <2>1. PICK m \in Iterations : m = id[1]
    BY <1>4
  <2>2. thr[id].pc = "launch" /\ exec' = exec /\ starters' = starters
    BY <1>11 DEF LaunchReady, Untouched
  <2>3. PICK S \in SUBSET thr[id].ready :
          /\ Claimed(m, thr[id].ready, thr[id].slots, S)
          /\ claims' = [claims EXCEPT ![m] = @ \cup S]
          /\ thr' = AfterLaunch(m, S, id)
    BY <1>11, <2>1 DEF LaunchReady
  <2>4. S \in SUBSET Tasks /\ CanLaunch(m, S) /\ S \cap claims[m] = {}
    BY <1>3, <2>3 DEF Claimed, ThreadType
  <2>5. CASE n = m
    <3>1. S \subseteq Candidates(id)
      BY <2>2 DEF Candidates
    <3>2. \A t \in S : Launched(n, t) = {} /\ Deps[t] # {}
      BY <1>2, <2>1, <2>4, <2>5, <3>1 DEF Once, CandidatesClaimed
    <3>3. \A t \in S : exec[n][t] # "blocked"
      BY <2>1, <2>5 DEF LaunchInv, ReadyHeld
    <3>4. claims'[n] = claims[n] \cup S
      BY <2>3, <2>5 DEF Typed, RowsOK
    <3> QED
      BY <1>2, <1>6, <2>2, <2>3, <2>4, <2>5, <3>2, <3>3, <3>4, OnceLaunched
  <2>6. CASE n # m
    <3>1. claims'[n] = claims[n]
      BY <2>3, <2>6 DEF Typed, RowsOK
    <3> QED
      BY <1>2, <1>6, <2>2, <2>3, <2>4, <2>6, <3>1, OnceElsewhere
  <2> QED
    BY <2>5, <2>6
<1>12. ASSUME NEW id \in Threads, Chain(id) \/ StorageFault(id), NEW pc \in ThreadPcs,
              GoTo(id, pc), thr[id].pc # "none", pc \notin {"none", "unblock", "launch"},
              claims' = claims, starters' = starters
       PROVE  Once(n)'
  <2> DEFINE chain == [thr[id] EXCEPT !.pc = pc]
  <2>1. chain.pc = pc
    BY <1>3 DEF ThreadType
  <2>2. Put(id, chain)
    BY <1>12 DEF GoTo
  <2>3. \A t \in Tasks : exec'[n][t] = "blocked" => exec[n][t] = "blocked"
    BY <1>12, ChainBlocksNothing
  <2> HIDE DEF chain
  <2> QED
    BY <1>2, <1>12, <2>1, <2>2, <2>3, OnceMoved
<1>13. ASSUME NEW id \in Threads, BodyStart(id) \/ BodyCompleted(id) \/ BodyFailed(id) \/ Check(id)
                                  \/ IterationDone(id) \/ IterationFail(id)
       PROVE  Once(n)'
  <2>1. \E pc \in ThreadPcs : GoTo(id, pc) /\ pc \notin {"none", "unblock", "launch"}
    BY <1>13 DEF BodyStart, BodyCompleted, BodyFailed, Check, IterationDone, IterationFail, ThreadPcs
  <2>2. thr[id].pc # "none" /\ claims' = claims /\ starters' = starters
    BY <1>13 DEF BodyStart, BodyCompleted, BodyFailed, Check, IterationDone, IterationFail, Untouched, rows
  <2> QED
    BY <1>12, <1>13, <2>1, <2>2 DEF Chain
<1>14. ASSUME NEW id \in Threads, Scan(id) PROVE Once(n)'
  <2>1. thr[id].pc = "scan" /\ exec' = exec /\ claims' = claims /\ starters' = starters
    BY <1>14 DEF Scan, Untouched, rows
  <2>2. CASE Unblockable(id[1]) = {}
    <3>1. GoTo(id, "check")
      BY <1>14, <2>2 DEF Scan
    <3> QED
      BY <1>12, <1>14, <2>1, <3>1 DEF Chain, ThreadPcs
  <2>3. CASE Unblockable(id[1]) # {}
    <3> DEFINE chain == [thr[id] EXCEPT !.pc = "unblock", !.todo = Unblockable(id[1]),
                                        !.slots = FreeSlots(id[1])]
    <3>1. chain.pc = "unblock" /\ chain.todo = Unblockable(id[1]) /\ chain.ready = {}
      BY <1>3, <2>1 DEF ThreadType
    <3>2. Put(id, chain)
      BY <1>14, <2>3 DEF Scan
    <3>3. \A t \in Unblockable(id[1]) : t \in Tasks /\ exec[id[1]][t] = "blocked"
      BY DEF Unblockable
    <3> HIDE DEF chain
    <3> QED
      BY <1>2, <2>1, <3>1, <3>2, <3>3, OnceMoved
  <2> QED
    BY <2>2, <2>3
<1>15. ASSUME NEW id \in Threads, Unblock(id) PROVE Once(n)'
  <2>1. thr[id].pc = "unblock" /\ claims' = claims /\ starters' = starters
    BY <1>15 DEF Unblock, Untouched
  <2>2. PICK t \in thr[id].todo :
          Put(id, [thr[id] EXCEPT !.todo = @ \ {t}, !.ready = @ \cup {t},
                                  !.pc = IF thr[id].todo = {t} THEN "launch" ELSE "unblock"])
    BY <1>15 DEF Unblock
  <2> DEFINE chain == [thr[id] EXCEPT !.todo = @ \ {t}, !.ready = @ \cup {t},
                                      !.pc = IF thr[id].todo = {t} THEN "launch" ELSE "unblock"]
  <2>3. /\ chain.pc \in {"unblock", "launch"}
        /\ chain.todo \subseteq thr[id].todo /\ chain.ready = thr[id].ready \cup {t}
    BY <1>3 DEF ThreadType
  <2>4. Put(id, chain)
    BY <2>2
  <2>5. Candidates(id) = thr[id].todo \cup thr[id].ready
    BY <2>1 DEF Candidates
  <2>6. \A u \in Tasks : exec'[n][u] = "blocked" => exec[n][u] = "blocked"
    BY <1>15, ChainBlocksNothing DEF Chain
  <2> HIDE DEF chain
  <2> QED
    BY <1>2, <2>1, <2>3, <2>4, <2>5, <2>6, OnceMoved
<1>16. ASSUME NEW id \in Threads, BatchSettled(id) \/ Reach(id) \/ Prune(id) \/ StorageFault(id)
       PROVE  Once(n)'
  <2>1. thr[id].pc # "none" /\ claims' = claims /\ starters' = starters
    BY <1>16 DEF BatchSettled, Reach, Prune, StorageFault, InTry, OutsideTry, Untouched, rows
  <2>2. \A i \in Threads : i # id => thr'[i] = thr[i]
    BY <1>16 DEF BatchSettled, Reach, Prune, StorageFault, Put, Typed, ThreadsOK
  <2>3. thr'[id].pc \notin {"none", "unblock", "launch"}
    <3>1. CASE BatchSettled(id)
      BY <1>3, <3>1 DEF BatchSettled, Put, ThreadType, Typed, ThreadsOK
    <3>2. CASE Reach(id)
      BY <1>3, <3>2 DEF Reach, Put, ThreadType, Typed, ThreadsOK
    <3>3. CASE Prune(id)
      <4>1. PICK t \in thr[id].todo :
               Put(id, [thr[id] EXCEPT !.todo = @ \ {t},
                                       !.pc = IF thr[id].todo = {t} THEN "iterFail" ELSE "prune"])
        BY <3>3 DEF Prune
      <4> QED
        BY <1>3, <4>1 DEF Put, ThreadType, Typed, ThreadsOK
    <3>4. CASE StorageFault(id)
      BY <3>4 DEF StorageFault, Put, NoThread, Typed, ThreadsOK
    <3> QED
      BY <1>16, <3>1, <3>2, <3>3, <3>4
  <2>4. \A t \in Tasks : exec'[n][t] = "blocked" => exec[n][t] = "blocked"
    BY <1>16, ChainBlocksNothing DEF Chain
  <2>5. \A i \in Threads : thr'[i].pc # "none" <=> thr[i].pc # "none"
    BY <2>1, <2>2, <2>3
  <2>6. \A t \in Tasks : Launched(n, t)' = Launched(n, t)
    BY <2>5 DEF Launched, Threads
  <2>7. \A i \in Threads : Candidates(i)' \subseteq Candidates(i)
    BY <2>2, <2>3 DEF Candidates
  <2> QED
    BY <1>2, <1>6, <2>1, <2>4, <2>6, <2>7, OnceKept
(* What forgets claims.                                                       *)
<1>17. ASSUME NEW m \in Iterations, ClearClaims(m), \A id \in Threads : Candidates(id)' \subseteq Candidates(id)
       PROVE  claims[n] \subseteq claims'[n] \/ \A id \in Threads : id[1] = n => Candidates(id)' = {}
  <2>1. CASE n # m
    BY <1>17, <2>1 DEF ClearClaims, Typed, RowsOK
  <2>2. CASE n = m
    <3>1. ~Unblocking(n)
      BY <1>17, <2>2 DEF ClearClaims, Kept
    <3>2. \A id \in Threads : id[1] = n => Candidates(id) = {}
      BY <3>1 DEF Unblocking, Candidates
    <3> QED
      BY <1>17, <3>2
  <2> QED
    BY <2>1, <2>2
<1>18. ASSUME NEW id \in Threads, GroupDone(id) \/ GroupFail(id) PROVE Once(n)'
  <2>1. GoTo(id, "done") /\ thr[id].pc # "none" /\ exec' = exec /\ starters' = starters /\ ClearClaims(id[1])
    BY <1>18 DEF GroupDone, GroupFail, Untouched
  <2> DEFINE chain == [thr[id] EXCEPT !.pc = "done"]
  <2>2. chain.pc = "done"
    BY <1>3 DEF ThreadType
  <2>3. Put(id, chain)
    BY <2>1 DEF GoTo
  <2> HIDE DEF chain
  <2>4. \A i \in Threads : Candidates(i)' \subseteq Candidates(i)
    BY <2>2, <2>3 DEF Put, Candidates, Typed, ThreadsOK
  <2>5. claims[n] \subseteq claims'[n] \/ \A i \in Threads : i[1] = n => Candidates(i)' = {}
    <3>1. PICK m \in Iterations : m = id[1]
      BY <1>4
    <3>2. ClearClaims(m)
      BY <2>1, <3>1
    <3> QED
      BY <1>17, <2>4, <3>2
  <2> QED
    BY <1>2, <2>1, <2>2, <2>3, <2>5, OnceMoved
<1>19. CASE CancelIteration
  <2>1. PICK m \in Iterations : m = cancel.n
    BY <1>19 DEF CancelIteration, Typed, RequestsOK
  <2>2. ClearClaims(m) /\ thr' = thr /\ exec' = exec /\ starters' = starters
    BY <1>19, <2>1 DEF CancelIteration
  <2>3. \A i \in Threads : Candidates(i)' \subseteq Candidates(i)
    BY <2>2 DEF Candidates
  <2> QED
    BY <1>2, <1>6, <1>17, <2>2, <2>3, OnceSame
<1>20. CASE CancelRow
  <2>1. UNCHANGED <<thr, claims, starters>>
    BY <1>20 DEF CancelRow
  <2>2. \A t \in Tasks : exec'[n][t] = "blocked" => exec[n][t] = "blocked"
    BY <1>20, RequestBlocksNothing
  <2>3. \A t \in Tasks : Launched(n, t)' = Launched(n, t)
    BY <2>1 DEF Launched
  <2>4. \A id \in Threads : Candidates(id)' = Candidates(id)
    BY <2>1 DEF Candidates
  <2> QED
    BY <1>2, <1>6, <2>1, <2>2, <2>3, <2>4, OnceKept
<1>21. CASE CancelRead \/ CancelGroup \/ RetryIteration \/ RetryGroup
            \/ (\E u \in Tasks : RetryRead(u)) \/ UNCHANGED vars
  BY <1>6, <1>7, <1>21 DEF CancelRead, CancelGroup, RetryIteration, RetryGroup, RetryRead, vars, rows
(* A retry works in an iteration it has disturbed.                            *)
<1>22. CASE RetryReset
  <2>1. n # retry.n
    BY <1>1, <1>22 DEF RetryReset, RowsExist, Kept
  <2>2. exec'[n] = exec[n] /\ claims'[n] = claims[n] /\ thr' = thr /\ starters' = starters
    BY <1>22, <2>1 DEF RetryReset, Typed, RowsOK
  <2>3. \A t \in Tasks : Launched(n, t)' = Launched(n, t)
    BY <2>2 DEF Launched
  <2>4. \A id \in Threads : Candidates(id)' = Candidates(id)
    BY <2>2 DEF Candidates
  <2> QED
    BY <1>2, <1>6, <2>2, <2>3, <2>4, OnceKept
<1>23. CASE RetryLaunch
  <2>1. PICK m \in Iterations : m = retry.n /\ m # n
    BY <1>1, <1>23 DEF RetryLaunch, RowsExist, Kept, Typed, RequestsOK
  <2>2. exec' = exec /\ starters' = starters
    BY <1>23 DEF RetryLaunch
  <2>3. CASE retry.task \in claims[retry.n]
    BY <1>6, <1>7, <1>23, <2>2, <2>3 DEF RetryLaunch
  <2>4. CASE retry.task \notin claims[retry.n]
    <3>1. PICK S \in SUBSET Tasks : CanLaunch(m, S) /\ thr' = AfterLaunch(m, S, NoLauncher)
      BY <1>23, <2>1, <2>4 DEF RetryLaunch, Typed, RequestsOK
    <3>2. claims'[n] = claims[n]
      BY <1>23, <2>1, <2>4 DEF RetryLaunch, Typed, RowsOK
    <3> QED
      BY <1>2, <1>5, <1>6, <2>1, <2>2, <3>1, <3>2, OnceElsewhere
  <2> QED
    BY <2>3, <2>4
<1>24. ASSUME NEW id \in Threads, Chain(id) \/ StorageFault(id) PROVE Once(n)'
  BY <1>11, <1>13, <1>14, <1>15, <1>16, <1>18, <1>24 DEF Chain
<1>25. ASSUME NEW s \in Starters, StartStep(s) PROVE Once(n)'
  BY <1>8, <1>9, <1>10, <1>25 DEF StartStep
<1> QED
  BY <1>19, <1>20, <1>21, <1>22, <1>23, <1>24, <1>25 DEF Next, CancelStep, RetryStep

LEMMA LaunchStep ==
    ASSUME Typed, OrderInv, LaunchInv, [Next]_vars
    PROVE  LaunchInv'
<1>1. RowsExist /\ ReadyHeld /\ OneStarter
  BY DEF OrderInv, LaunchInv
<1>2. \A n \in Iterations : Kept(n)' => Once(n)'
  BY <1>1, OnceStep
<1> QED
  BY <1>1, <1>2, ReadyStep, StarterStep DEF LaunchInv

LEMMA OnceIsLaunchedOnce ==
    ASSUME LaunchInv PROVE LaunchedOnceUntilCleared
<1> SUFFICES ASSUME NEW n \in Iterations \ cleared, "retry" \notin disturbed[n], NEW t \in Tasks
             PROVE  Cardinality(Launched(n, t)) <= 1
  BY DEF LaunchedOnceUntilCleared
<1>1. Launched(n, t) \subseteq {1}
  BY DEF LaunchInv, Kept, Once, FirstLaunchOnly
<1>2. Launched(n, t) = {} \/ Launched(n, t) = {1}
  BY <1>1
<1>3. Cardinality({1}) = 1
  BY FS_Singleton
<1>4. Cardinality({}) = 0
  BY FS_EmptySet
<1> QED
  BY <1>2, <1>3, <1>4

(* However many completions race to a join, and whatever starts and cancels   *)
(* interleave with them, an execution that nobody retries is launched at most *)
(* once while its iteration's claims are kept.                                *)
THEOREM OneLaunch == Spec => []LaunchedOnceUntilCleared
<1>1. Typed /\ OrderInv /\ LaunchInv /\ [Next]_vars => Typed' /\ OrderInv' /\ LaunchInv'
  BY TypedStep, OrderStep, LaunchStep
<1> QED
  BY TypedInit, OrderInit, LaunchInit, <1>1, OnceIsLaunchedOnce, PTL DEF Spec
-----------------------------------------------------------------------------
(* What a settled status says.  In an iteration left to its executions a      *)
(* failed row, and a chain on its failure path, belongs to a task that ran    *)
(* and never answers; what is pruned, or about to be, lies behind such a task *)
(* or behind another pruned one, so it never runs; and a chain that writes    *)
(* `completed` has seen every task answer.                                    *)

Past(pc) == pc \notin {"none", "start", "body"}
Ran(n, t) == \E a \in 1 .. MaxLaunches : Past(thr[<<n, t, a>>].pc)
Lost(n) == {t \in Tasks : Ran(n, t) /\ t \notin answered[n]}
Pruned(n) ==
    {t \in Tasks : \/ exec[n][t] = "cancelled"
                   \/ \E id \in Threads : id[1] = n /\ thr[id].pc = "prune" /\ t \in thr[id].todo}
FailingPcs == {"reach", "prune", "iterFail", "groupFail"}
DonePcs == {"iterDone", "groupDone"}

AnswersRan(n) == \A t \in answered[n] : Ran(n, t)
FailedLost(n) == \A t \in Tasks : exec[n][t] = "failed" => t \in Lost(n)
FailingLost(n) ==
    \A id \in Threads : id[1] = n /\ thr[id].pc \in FailingPcs => id[2] \notin answered[n]
PrunedBehindLost(n) ==
    \A t \in Pruned(n) : t \notin answered[n] /\ Deps[t] \cap (Pruned(n) \cup Lost(n)) # {}
DoneAnswered(n) ==
    (iter[n] = "completed" \/ \E id \in Threads : id[1] = n /\ thr[id].pc \in DonePcs)
    => answered[n] = Tasks
FailedTells(n) == iter[n] = "failed" => Lost(n) # {}
Answers(n) ==
    /\ AnswersRan(n) /\ FailedLost(n) /\ FailingLost(n) /\ PrunedBehindLost(n)
    /\ DoneAnswered(n) /\ FailedTells(n) /\ iter[n] # "cancelled"

Blamed ==
    /\ \A id \in Threads : thr[id].pc = "fail" => "fault" \in disturbed[id[1]]
    /\ cancel.pc # "idle" => "cancel" \in disturbed[cancel.n]
Left(n) == disturbed[n] = {} /\ n \notin cleared
AnswerInv == Blamed /\ \A n \in Iterations : Left(n) => Answers(n)

LEMMA AnswerInit == Init => AnswerInv
<1> SUFFICES ASSUME Init PROVE AnswerInv
  OBVIOUS
<1>1. \A id \in Threads : thr[id].pc = "none"
  BY DEF Init, NoThread
<1>2. ASSUME NEW n \in Iterations PROVE Answers(n)
  <2>1. Pruned(n) = {}
    BY <1>1 DEF Pruned, Init
  <2>2. answered[n] = {} /\ iter[n] = "none" /\ \A t \in Tasks : exec[n][t] = "none"
    BY DEF Init
  <2>3. \A id \in Threads : thr[id].pc \notin FailingPcs \cup DonePcs
    BY <1>1 DEF FailingPcs, DonePcs
  <2> QED
    BY <2>1, <2>2, <2>3 DEF Answers, AnswersRan, FailedLost, FailingLost, PrunedBehindLost,
       DoneAnswered, FailedTells
<1>3. Blamed
  BY <1>1 DEF Blamed, Init, NoCancel
<1> QED
  BY <1>2, <1>3 DEF AnswerInv

(* An execution launched at most once has one chain.                          *)
LEMMA OneChain ==
    ASSUME NEW n \in Iterations, Once(n), NEW id \in Threads, NEW i \in Threads,
           id[1] = n, i[1] = n, id[2] = i[2], thr[id].pc # "none", thr[i].pc # "none"
    PROVE  i = id
<1>1. PICK t \in Tasks, a \in 1 .. MaxLaunches, b \in 1 .. MaxLaunches : id = <<n, t, a>> /\ i = <<n, t, b>>
  BY DEF Threads
<1>2. a \in Launched(n, t) /\ b \in Launched(n, t)
  BY <1>1 DEF Launched
<1>3. a = 1 /\ b = 1
  BY <1>2 DEF Once, FirstLaunchOnly
<1> QED
  BY <1>1, <1>3

LEMMA PastRan ==
    ASSUME NEW id \in Threads, Past(thr[id].pc)
    PROVE  Ran(id[1], id[2])
<1>1. PICK n \in Iterations, t \in Tasks, a \in 1 .. MaxLaunches : id = <<n, t, a>>
  BY DEF Threads
<1> QED
  BY <1>1 DEF Ran

LEMMA RanChain ==
    ASSUME NEW n \in Iterations, NEW t \in Tasks, Ran(n, t)
    PROVE  \E id \in Threads : id[1] = n /\ id[2] = t /\ Past(thr[id].pc)
<1>1. PICK a \in 1 .. MaxLaunches : Past(thr[<<n, t, a>>].pc)
  BY DEF Ran
<1>2. <<n, t, a>> \in Threads
  BY DEF Threads
<1> QED
  BY <1>1, <1>2

(* A chain that has not come past its model call: its task has not run.       *)
LEMMA BodyNotRan ==
    ASSUME NEW n \in Iterations, Once(n), NEW id \in Threads, id[1] = n,
           thr[id].pc \in {"start", "body"}
    PROVE  ~Ran(n, id[2])
<1> SUFFICES ASSUME Ran(n, id[2]) PROVE FALSE
  OBVIOUS
<1>1. PICK i \in Threads : i[1] = n /\ i[2] = id[2] /\ Past(thr[i].pc)
  BY ChainParts, RanChain
<1>2. i = id
  BY <1>1, OneChain DEF Past
<1> QED
  BY <1>1, <1>2 DEF Past

(* What has its dependencies answered is neither pruned nor about to be.      *)
LEMMA FedNotPruned ==
    ASSUME NEW n \in Iterations, Answers(n), NEW t \in Tasks, Deps[t] \subseteq answered[n]
    PROVE  t \notin Pruned(n)
<1>1. \A d \in Pruned(n) \cup Lost(n) : d \notin answered[n]
  BY DEF Answers, PrunedBehindLost, Lost
<1> QED
  BY <1>1 DEF Answers, PrunedBehindLost

LEMMA ChainNotPruned ==
    ASSUME DependenciesAnsweredFirst, NEW n \in Iterations, Answers(n), NEW id \in Threads,
           id[1] = n, thr[id].pc # "none"
    PROVE  id[2] \notin Pruned(n)
BY ChainParts, FedNotPruned DEF DependenciesAnsweredFirst

(* Answers(n) survives a step that writes neither the iteration nor an        *)
(* answer, no failed or cancelled row, and moves no chain into, or within,    *)
(* the places the invariant speaks of.                                        *)
LEMMA AnswersKept ==
    ASSUME Typed, NEW n \in Iterations, Answers(n), iter'[n] = iter[n], answered'[n] = answered[n],
           \A id \in Threads : id[1] = n =>
              \/ thr'[id] = thr[id]
              \/ /\ thr[id].pc # "prune" /\ thr'[id].pc \notin FailingPcs \cup DonePcs
                 /\ Past(thr[id].pc) => Past(thr'[id].pc),
           \A t \in Tasks :
              exec'[n][t] = exec[n][t] \/ (t \notin Pruned(n) /\ exec'[n][t] \notin {"failed", "cancelled"})
    PROVE  Answers(n)'
<1>1. \A t \in Tasks : Ran(n, t) => Ran(n, t)'
  BY DEF Ran, Threads
<1>2. Lost(n) \subseteq Lost(n)'
  BY <1>1 DEF Lost
<1>3. Pruned(n)' = Pruned(n)
  <2>1. \A id \in Threads : id[1] = n =>
           (thr'[id].pc = "prune" => thr'[id] = thr[id]) /\ (thr[id].pc = "prune" => thr'[id] = thr[id])
    BY DEF FailingPcs
  <2>2. \A t \in Tasks : exec'[n][t] = "cancelled" => exec[n][t] = "cancelled"
    OBVIOUS
  <2>3. \A t \in Tasks : exec[n][t] = "cancelled" => exec'[n][t] = "cancelled"
    BY DEF Pruned
  <2> QED
    BY <2>1, <2>2, <2>3 DEF Pruned
<1>4. AnswersRan(n)'
  <2>1. answered[n] \subseteq Tasks
    BY DEF Typed, HistoryOK
  <2> QED
    BY <1>1, <2>1 DEF Answers, AnswersRan
<1>5. FailedLost(n)'
  BY <1>2 DEF Answers, FailedLost
<1>6. FailingLost(n)'
  BY DEF Answers, FailingLost
<1>7. PrunedBehindLost(n)'
  BY <1>2, <1>3 DEF Answers, PrunedBehindLost
<1>8. DoneAnswered(n)'
  BY DEF Answers, DoneAnswered
<1>9. FailedTells(n)'
  BY <1>2 DEF Answers, FailedTells
<1> QED
  BY <1>4, <1>5, <1>6, <1>7, <1>8, <1>9 DEF Answers

LEMMA AnswersSame ==
    ASSUME Typed, NEW n \in Iterations, Answers(n), iter'[n] = iter[n], exec'[n] = exec[n],
           answered'[n] = answered[n], thr' = thr
    PROVE  Answers(n)'
BY AnswersKept

LEMMA AnswersLaunch ==
    ASSUME Typed, NEW n \in Iterations, Once(n), Answers(n), NEW m \in Iterations,
           NEW S \in SUBSET Tasks, NEW self, self \in Threads => thr[self].pc = "launch",
           CanLaunch(m, S), thr' = AfterLaunch(m, S, self),
           iter' = iter, exec' = exec, answered' = answered
    PROVE  Answers(n)'
<1>1. ASSUME NEW id \in Threads, id[1] = n, id \in {NextLaunch(m, t) : t \in S}
      PROVE  thr[id].pc = "none"
  <2>1. PICK t \in S : id = NextLaunch(m, t)
    BY <1>1
  <2>2. m = n /\ id = <<n, t, Cardinality(Launched(n, t)) + 1>>
    BY <1>1, <2>1 DEF NextLaunch
  <2>3. Cardinality(Launched(n, t)) + 1 \notin Launched(n, t)
    <3>1. CASE Launched(n, t) = {}
      BY <3>1
    <3>2. CASE Launched(n, t) = {1}
      <4>1. Cardinality({1}) = 1
        BY FS_Singleton
      <4> QED
        BY <3>2, <4>1
    <3> QED
      BY <3>1, <3>2 DEF Once, FirstLaunchOnly
  <2>4. Cardinality(Launched(n, t)) + 1 \in 1 .. MaxLaunches
    BY <2>2 DEF Threads
  <2> QED
    BY <2>2, <2>3, <2>4 DEF Launched
<1>2. ASSUME NEW id \in Threads, id[1] = n
      PROVE  \/ thr'[id] = thr[id]
             \/ /\ thr[id].pc # "prune" /\ thr'[id].pc \notin FailingPcs \cup DonePcs
                /\ Past(thr[id].pc) => Past(thr'[id].pc)
  <2>1. CASE id \in {NextLaunch(m, t) : t \in S} /\ thr'[id].pc = "start"
    <3>1. thr[id].pc = "none"
      BY <1>1, <1>2, <2>1
    <3> QED
      BY <2>1, <3>1 DEF Past, FailingPcs, DonePcs
  <2>2. CASE id = self /\ thr'[id].pc = "wait"
    BY <2>2 DEF Past, FailingPcs, DonePcs
  <2> QED
    BY <2>1, <2>2, ChainsAfter
<1> QED
  BY <1>2, AnswersKept
(* A chain of another iteration leaves Answers(n) alone.                      *)
LEMMA AnswersElsewhere ==
    ASSUME Typed, NEW n \in Iterations, Once(n), Answers(n), NEW id \in Threads, id[1] # n,
           Chain(id) \/ StorageFault(id)
    PROVE  Answers(n)'
<1>1. CASE LaunchReady(id)
  <2>1. PICK m \in Iterations : m = id[1]
    BY ChainParts
  <2>2. PICK S \in SUBSET thr[id].ready : CanLaunch(m, S) /\ thr' = AfterLaunch(m, S, id)
    BY <1>1, <2>1 DEF LaunchReady, Claimed
  <2>3. S \in SUBSET Tasks
    BY <2>2 DEF Typed, ThreadsOK, ThreadType
  <2> QED
    BY <1>1, <2>2, <2>3, AnswersLaunch DEF LaunchReady
<1>2. CASE ~LaunchReady(id)
  <2>1. \A i \in Threads : i[1] = n => thr'[i] = thr[i]
    BY <1>2 DEF Chain, BodyStart, BodyCompleted, BodyFailed, Scan, Unblock, BatchSettled, Check,
       IterationDone, GroupDone, Reach, Prune, IterationFail, GroupFail, StorageFault, GoTo, Put,
       Typed, ThreadsOK
  <2>2. iter'[n] = iter[n] /\ answered'[n] = answered[n]
    BY <1>2, ChainParts DEF Chain, BodyStart, BodyCompleted, BodyFailed, Scan, Unblock, BatchSettled,
       Check, IterationDone, GroupDone, Reach, Prune, IterationFail, GroupFail, StorageFault,
       rows, Typed, RowsOK, HistoryOK
  <2>3. exec'[n] = exec[n]
    BY <1>2, ChainParts DEF Chain, BodyStart, BodyCompleted, BodyFailed, Scan, Unblock, BatchSettled,
       Check, IterationDone, GroupDone, Reach, Prune, IterationFail, GroupFail, StorageFault,
       rows, SetExec, Typed, RowsOK
  <2> QED
    BY <2>1, <2>2, <2>3, AnswersKept
<1> QED
  BY <1>1, <1>2

(* The steps of a chain of n, one by one.                                     *)
LEMMA StartedAnswers ==
    ASSUME Typed, DependenciesAnsweredFirst, NEW n \in Iterations, Answers(n),
           NEW id \in Threads, id[1] = n, BodyStart(id)
    PROVE  Answers(n)'
<1>1. thr[id] \in ThreadType /\ thr[id].pc = "start" /\ id[2] \in Tasks
  BY ChainParts DEF BodyStart, Typed, ThreadsOK
<1>2. \A i \in Threads : thr'[i] = IF i = id THEN [thr[id] EXCEPT !.pc = "body"] ELSE thr[i]
  BY DEF BodyStart, GoTo, Put, Typed, ThreadsOK
<1>3. [thr[id] EXCEPT !.pc = "body"].pc = "body"
  BY <1>1 DEF ThreadType
<1>4. \A i \in Threads : \/ thr'[i] = thr[i]
                         \/ /\ thr[i].pc # "prune" /\ thr'[i].pc \notin FailingPcs \cup DonePcs
                            /\ Past(thr[i].pc) => Past(thr'[i].pc)
  BY <1>1, <1>2, <1>3 DEF Past, FailingPcs, DonePcs
<1>5. \A t \in Tasks : exec'[n][t] = IF t = id[2] THEN "running" ELSE exec[n][t]
  BY <1>1 DEF BodyStart, SetExec, Typed, RowsOK
<1>6. id[2] \notin Pruned(n)
  BY <1>1, ChainNotPruned
<1>7. iter' = iter /\ answered' = answered
  BY DEF BodyStart
<1> QED
  BY <1>4, <1>5, <1>6, <1>7, AnswersKept

LEMMA UnblockedAnswers ==
    ASSUME Typed, CandidatesFed, NEW n \in Iterations, Answers(n),
           NEW id \in Threads, id[1] = n, Unblock(id)
    PROVE  Answers(n)'
<1>1. thr[id] \in ThreadType /\ thr[id].pc = "unblock"
  BY DEF Unblock, Typed, ThreadsOK
<1>2. PICK t \in thr[id].todo :
         /\ exec' = [exec EXCEPT ![id[1]][t] = "ready"]
         /\ Put(id, [thr[id] EXCEPT !.todo = @ \ {t}, !.ready = @ \cup {t},
                                    !.pc = IF thr[id].todo = {t} THEN "launch" ELSE "unblock"])
  BY DEF Unblock
<1> DEFINE chain == [thr[id] EXCEPT !.todo = @ \ {t}, !.ready = @ \cup {t},
                                    !.pc = IF thr[id].todo = {t} THEN "launch" ELSE "unblock"]
<1>3. chain.pc \in {"launch", "unblock"}
  BY <1>1 DEF ThreadType
<1>4. Put(id, chain)
  BY <1>2
<1>5. t \in Tasks /\ t \notin Pruned(n)
  BY <1>1, FedNotPruned DEF CandidatesFed, Fed, ThreadType
<1>6. \A u \in Tasks : exec'[n][u] = IF u = t THEN "ready" ELSE exec[n][u]
  BY <1>2, <1>5 DEF Typed, RowsOK
<1> HIDE DEF chain
<1>7. \A i \in Threads : thr'[i] = IF i = id THEN chain ELSE thr[i]
  BY <1>4 DEF Put, Typed, ThreadsOK
<1>8. \A i \in Threads : \/ thr'[i] = thr[i]
                         \/ /\ thr[i].pc # "prune" /\ thr'[i].pc \notin FailingPcs \cup DonePcs
                            /\ Past(thr[i].pc) => Past(thr'[i].pc)
  BY <1>1, <1>3, <1>7 DEF Past, FailingPcs, DonePcs
<1>9. iter' = iter /\ answered' = answered
  BY DEF Unblock
<1> QED
  BY <1>5, <1>6, <1>8, <1>9, AnswersKept

(* The reads, the waits and the writes of the group's row.                    *)
LEMMA PassedAnswers ==
    ASSUME Typed, NEW n \in Iterations, Answers(n), NEW id \in Threads, id[1] = n,
           \/ Scan(id) \/ BatchSettled(id) \/ (Check(id) /\ ~AllDone(id[1]))
           \/ GroupDone(id) \/ GroupFail(id)
    PROVE  Answers(n)'
<1>1. thr[id] \in ThreadType /\ thr[id].pc \in {"scan", "wait", "check", "groupDone", "groupFail"}
  BY DEF Scan, BatchSettled, Check, GroupDone, GroupFail, Typed, ThreadsOK
<1>2. thr'[id].pc \in {"check", "unblock", "done"}
  <2>1. CASE Scan(id)
    <3>1. CASE Unblockable(id[1]) = {}
      BY <1>1, <2>1, <3>1 DEF Scan, GoTo, Put, ThreadType, Typed, ThreadsOK
    <3>2. CASE Unblockable(id[1]) # {}
      <4> DEFINE chain == [thr[id] EXCEPT !.pc = "unblock", !.todo = Unblockable(id[1]),
                                          !.slots = FreeSlots(id[1])]
      <4>1. chain.pc = "unblock"
        BY <1>1 DEF ThreadType
      <4>2. Put(id, chain)
        BY <2>1, <3>2 DEF Scan
      <4> HIDE DEF chain
      <4> QED
        BY <4>1, <4>2 DEF Put, Typed, ThreadsOK
    <3> QED
      BY <3>1, <3>2
  <2>2. CASE BatchSettled(id)
    BY <1>1, <2>2 DEF BatchSettled, Put, ThreadType, Typed, ThreadsOK
  <2>3. CASE (Check(id) /\ ~AllDone(id[1])) \/ GroupDone(id) \/ GroupFail(id)
    BY <1>1, <2>3 DEF Check, GroupDone, GroupFail, GoTo, Put, ThreadType, Typed, ThreadsOK
  <2> QED
    BY <2>1, <2>2, <2>3
<1>3. \A i \in Threads : i # id => thr'[i] = thr[i]
  BY DEF Scan, BatchSettled, Check, GroupDone, GroupFail, GoTo, Put, Typed, ThreadsOK
<1>4. \A i \in Threads : \/ thr'[i] = thr[i]
                         \/ /\ thr[i].pc # "prune" /\ thr'[i].pc \notin FailingPcs \cup DonePcs
                            /\ Past(thr[i].pc) => Past(thr'[i].pc)
  BY <1>1, <1>2, <1>3 DEF Past, FailingPcs, DonePcs
<1>5. iter' = iter /\ exec' = exec /\ answered' = answered
  BY DEF Scan, BatchSettled, Check, GroupDone, GroupFail, rows
<1> QED
  BY <1>4, <1>5, AnswersKept

(* An answer: its task was not lost, and nothing waits behind it.             *)
LEMMA CompletedAnswers ==
    ASSUME Typed, DependenciesAnsweredFirst, NEW n \in Iterations, Once(n), Answers(n),
           NEW id \in Threads, id[1] = n, BodyCompleted(id)
    PROVE  Answers(n)'
<1> DEFINE t == id[2]
<1>0. t \in Tasks
  BY ChainParts
<1>1. thr[id] \in ThreadType /\ thr[id].pc = "body"
  BY DEF BodyCompleted, Typed, ThreadsOK
<1>2. \A i \in Threads : thr'[i] = IF i = id THEN [thr[id] EXCEPT !.pc = "scan"] ELSE thr[i]
  BY DEF BodyCompleted, GoTo, Put, Typed, ThreadsOK
<1>3. thr'[id].pc = "scan"
  BY <1>1, <1>2 DEF ThreadType
<1>4. \A u \in Tasks : exec'[n][u] = IF u = t THEN "completed" ELSE exec[n][u]
  BY <1>0 DEF BodyCompleted, SetExec, Typed, RowsOK
<1>5. answered'[n] = answered[n] \cup {t} /\ answered[n] \subseteq Tasks /\ iter' = iter
  BY DEF BodyCompleted, Typed, HistoryOK
<1>6. ~Ran(n, t)
  BY <1>1, BodyNotRan
<1>7. t \notin Pruned(n)
  BY <1>1, ChainNotPruned
<1> HIDE DEF t
<1>8. \A u \in Tasks : Ran(n, u) => Ran(n, u)'
  <2>1. \A i \in Threads : Past(thr[i].pc) => Past(thr'[i].pc)
    BY <1>1, <1>2, <1>3 DEF Past
  <2> QED
    BY <2>1 DEF Ran, Threads
<1>9. Ran(n, t)'
  <2>1. PICK a \in 1 .. MaxLaunches : id = <<n, t, a>>
    BY DEF Threads, t
  <2> QED
    BY <2>1, <1>3 DEF Ran, Past
<1>10. Lost(n) \subseteq Lost(n)'
  BY <1>5, <1>6, <1>8 DEF Lost
<1>11. Pruned(n)' = Pruned(n)
  <2>1. \A i \in Threads : /\ thr'[i].pc = "prune" <=> thr[i].pc = "prune"
                           /\ thr'[i].pc = "prune" => thr'[i] = thr[i]
    BY <1>1, <1>2, <1>3
  <2>2. exec[n][t] # "cancelled"
    BY <1>0, <1>7 DEF Pruned
  <2>3. \A u \in Tasks : exec'[n][u] = "cancelled" <=> exec[n][u] = "cancelled"
    BY <1>4, <2>2
  <2> QED
    BY <2>1, <2>3 DEF Pruned
<1>12. AnswersRan(n)'
  BY <1>5, <1>8, <1>9 DEF Answers, AnswersRan
<1>13. FailedLost(n)'
  BY <1>4, <1>10 DEF Answers, FailedLost
<1>14. FailingLost(n)'
  <2> SUFFICES ASSUME NEW i \in Threads, i[1] = n, thr'[i].pc \in FailingPcs
               PROVE  i[2] \notin answered'[n]
    BY DEF FailingLost
  <2>1. i # id /\ thr[i].pc \in FailingPcs
    BY <1>2, <1>3 DEF FailingPcs
  <2>2. i[2] \notin answered[n]
    BY <2>1 DEF Answers, FailingLost
  <2>3. i[2] # t
    BY <1>1, <2>1, OneChain DEF FailingPcs, t
  <2> QED
    BY <1>5, <2>2, <2>3
<1>15. PrunedBehindLost(n)'
  BY <1>5, <1>7, <1>10, <1>11 DEF Answers, PrunedBehindLost
<1>16. DoneAnswered(n)'
  <2>1. \A i \in Threads : thr'[i].pc \in DonePcs => thr[i].pc \in DonePcs
    BY <1>2, <1>3 DEF DonePcs
  <2> QED
    BY <1>0, <1>5, <2>1 DEF Answers, DoneAnswered
<1>17. FailedTells(n)'
  BY <1>5, <1>10 DEF Answers, FailedTells
<1> QED
  BY <1>5, <1>12, <1>13, <1>14, <1>15, <1>16, <1>17 DEF Answers

(* A failure: the task is lost.                                               *)
LEMMA FailedAnswers ==
    ASSUME Typed, DependenciesAnsweredFirst, NEW n \in Iterations, Once(n), Answers(n),
           NEW id \in Threads, id[1] = n, BodyFailed(id), thr[id].pc = "body"
    PROVE  Answers(n)'
<1> DEFINE t == id[2]
<1>0. t \in Tasks
  BY ChainParts
<1>1. thr[id] \in ThreadType
  BY DEF Typed, ThreadsOK
<1>2. \A i \in Threads : thr'[i] = IF i = id THEN [thr[id] EXCEPT !.pc = "reach"] ELSE thr[i]
  BY DEF BodyFailed, GoTo, Put, Typed, ThreadsOK
<1>3. thr'[id].pc = "reach"
  BY <1>1, <1>2 DEF ThreadType
<1>4. \A u \in Tasks : exec'[n][u] = IF u = t THEN "failed" ELSE exec[n][u]
  BY <1>0 DEF BodyFailed, SetExec, Typed, RowsOK
<1>5. answered' = answered /\ answered[n] \subseteq Tasks /\ iter' = iter
  BY DEF BodyFailed, Typed, HistoryOK
<1>6. t \notin answered[n]
  <2>1. ~Ran(n, t)
    BY BodyNotRan
  <2> QED
    BY <2>1 DEF Answers, AnswersRan
<1>7. t \notin Pruned(n)
  BY ChainNotPruned
<1> HIDE DEF t
<1>8. \A u \in Tasks : Ran(n, u) => Ran(n, u)'
  <2>1. \A i \in Threads : Past(thr[i].pc) => Past(thr'[i].pc)
    BY <1>2, <1>3 DEF Past
  <2> QED
    BY <2>1 DEF Ran, Threads
<1>9. Ran(n, t)'
  <2>1. PICK a \in 1 .. MaxLaunches : id = <<n, t, a>>
    BY DEF Threads, t
  <2> QED
    BY <2>1, <1>3 DEF Ran, Past
<1>10. Lost(n) \subseteq Lost(n)' /\ t \in Lost(n)'
  BY <1>0, <1>5, <1>6, <1>8, <1>9 DEF Lost
<1>11. Pruned(n)' = Pruned(n)
  <2>1. \A i \in Threads : /\ thr'[i].pc = "prune" <=> thr[i].pc = "prune"
                           /\ thr'[i].pc = "prune" => thr'[i] = thr[i]
    BY <1>2, <1>3
  <2>2. exec[n][t] # "cancelled"
    BY <1>0, <1>7 DEF Pruned
  <2>3. \A u \in Tasks : exec'[n][u] = "cancelled" <=> exec[n][u] = "cancelled"
    BY <1>4, <2>2
  <2> QED
    BY <2>1, <2>3 DEF Pruned
<1>12. AnswersRan(n)'
  BY <1>5, <1>8 DEF Answers, AnswersRan
<1>13. FailedLost(n)'
  BY <1>4, <1>10 DEF Answers, FailedLost
<1>14. FailingLost(n)'
  <2>1. \A i \in Threads : i # id => thr'[i] = thr[i]
    BY <1>2
  <2> QED
    BY <1>5, <1>6, <2>1 DEF Answers, FailingLost, t
<1>15. PrunedBehindLost(n)'
  BY <1>5, <1>10, <1>11 DEF Answers, PrunedBehindLost
<1>16. DoneAnswered(n)'
  <2>1. \A i \in Threads : thr'[i].pc \in DonePcs => thr[i].pc \in DonePcs
    BY <1>2, <1>3 DEF DonePcs
  <2> QED
    BY <1>5, <2>1 DEF Answers, DoneAnswered
<1>17. FailedTells(n)'
  BY <1>5, <1>10 DEF Answers, FailedTells
<1> QED
  BY <1>5, <1>12, <1>13, <1>14, <1>15, <1>16, <1>17 DEF Answers
LEMMA LostKept ==
    ASSUME NEW n \in Iterations, answered'[n] = answered[n],
           \A i \in Threads : Past(thr[i].pc) => Past(thr'[i].pc)
    PROVE  (\A t \in Tasks : Ran(n, t) => Ran(n, t)') /\ Lost(n) \subseteq Lost(n)'
<1>1. \A t \in Tasks : Ran(n, t) => Ran(n, t)'
  BY DEF Ran, Threads
<1> QED
  BY <1>1 DEF Lost

(* Answers(n) survives a step that changes neither rows nor answers of n and  *)
(* keeps what is pruned, if what it adds to the other parts is right.         *)
LEMMA AnswersMoved ==
    ASSUME Typed, NEW n \in Iterations, Answers(n), exec'[n] = exec[n], answered'[n] = answered[n],
           \A i \in Threads : Past(thr[i].pc) => Past(thr'[i].pc),
           Pruned(n)' = Pruned(n), FailingLost(n)', DoneAnswered(n)', FailedTells(n)',
           iter'[n] # "cancelled"
    PROVE  Answers(n)'
<1>1. (\A t \in Tasks : Ran(n, t) => Ran(n, t)') /\ Lost(n) \subseteq Lost(n)'
  BY LostKept
<1>2. AnswersRan(n)'
  <2>1. answered[n] \subseteq Tasks
    BY DEF Typed, HistoryOK
  <2> QED
    BY <1>1, <2>1 DEF Answers, AnswersRan
<1>3. FailedLost(n)'
  BY <1>1 DEF Answers, FailedLost
<1>4. PrunedBehindLost(n)'
  BY <1>1 DEF Answers, PrunedBehindLost
<1> QED
  BY <1>2, <1>3, <1>4 DEF Answers

(* The rows of an iteration are all completed or cancelled only when no task  *)
(* is lost: the cancelled task that depends on no cancelled one would depend  *)
(* on a lost one, whose row is completed.                                     *)
LEMMA AllDoneAnswered ==
    ASSUME Typed, CompletedAnswered, NEW n \in Iterations, Answers(n), AllDone(n)
    PROVE  answered[n] = Tasks
<1> DEFINE C == {t \in Tasks : exec[n][t] = "cancelled"}
<1>1. \A t \in Tasks : t \in C \/ t \in answered[n]
  BY DEF AllDone, CompletedAnswered
<1>2. \A t \in Pruned(n) \cup Lost(n) : t \notin answered[n] /\ t \in Tasks
  BY DEF Answers, PrunedBehindLost, Lost, Pruned
<1>3. Pruned(n) \cup Lost(n) \subseteq C
  BY <1>1, <1>2
<1>4. C \subseteq Pruned(n)
  BY DEF Pruned
<1>5. \A t \in C : Deps[t] \cap C # {}
  BY <1>3, <1>4 DEF Answers, PrunedBehindLost
<1>6. C = {}
  <2>1. C \in SUBSET Tasks
    OBVIOUS
  <2> HIDE DEF C
  <2> QED
    BY <1>5, <2>1, TasksAssumption
<1>7. answered[n] \subseteq Tasks
  BY DEF Typed, HistoryOK
<1> QED
  BY <1>1, <1>6, <1>7

LEMMA CheckedAnswers ==
    ASSUME Typed, CompletedAnswered, NEW n \in Iterations, Answers(n), NEW id \in Threads,
           id[1] = n, (Check(id) /\ AllDone(id[1])) \/ IterationDone(id)
    PROVE  Answers(n)'
<1>1. thr[id] \in ThreadType /\ thr[id].pc \in {"check", "iterDone"}
  BY DEF Check, IterationDone, Typed, ThreadsOK
<1>2. thr'[id].pc \in DonePcs
  BY <1>1 DEF Check, IterationDone, GoTo, Put, ThreadType, DonePcs, Typed, ThreadsOK
<1>3. \A i \in Threads : i # id => thr'[i] = thr[i]
  BY DEF Check, IterationDone, GoTo, Put, Typed, ThreadsOK
<1>4. exec' = exec /\ answered' = answered
  BY DEF Check, IterationDone, rows
<1>5. iter'[n] = iter[n] \/ iter'[n] = "completed"
  BY DEF Check, IterationDone, rows, Typed, RowsOK
<1>6. answered[n] = Tasks
  <2>1. CASE Check(id) /\ AllDone(id[1])
    BY <2>1, AllDoneAnswered
  <2>2. CASE IterationDone(id)
    BY <2>2 DEF IterationDone, Answers, DoneAnswered, DonePcs
  <2> QED
    BY <2>1, <2>2
<1>7. \A i \in Threads : Past(thr[i].pc) => Past(thr'[i].pc)
  BY <1>2, <1>3 DEF Past, DonePcs
<1>8. Pruned(n)' = Pruned(n)
  BY <1>1, <1>2, <1>3, <1>4 DEF Pruned, DonePcs
<1>9. FailingLost(n)'
  BY <1>2, <1>3, <1>4 DEF Answers, FailingLost, FailingPcs, DonePcs
<1>10. DoneAnswered(n)'
  BY <1>4, <1>6 DEF DoneAnswered
<1>11. FailedTells(n)'
  BY <1>4, <1>5, <1>7, LostKept DEF Answers, FailedTells
<1>12. iter'[n] # "cancelled"
  BY <1>5 DEF Answers
<1> QED
  BY <1>4, <1>7, <1>8, <1>9, <1>10, <1>11, <1>12, AnswersMoved

LEMMA FailedIterationAnswers ==
    ASSUME Typed, NEW n \in Iterations, Answers(n), NEW id \in Threads, id[1] = n, IterationFail(id)
    PROVE  Answers(n)'
<1>1. thr[id] \in ThreadType /\ thr[id].pc = "iterFail" /\ id[2] \in Tasks
  BY ChainParts DEF IterationFail, Typed, ThreadsOK
<1>2. thr'[id].pc = "groupFail"
  BY <1>1 DEF IterationFail, GoTo, Put, ThreadType, Typed, ThreadsOK
<1>3. \A i \in Threads : i # id => thr'[i] = thr[i]
  BY DEF IterationFail, GoTo, Put, Typed, ThreadsOK
<1>4. exec' = exec /\ answered' = answered /\ iter'[n] = "failed"
  BY DEF IterationFail, Typed, RowsOK
<1>5. id[2] \in Lost(n)
  <2>1. id[2] \notin answered[n]
    BY <1>1 DEF Answers, FailingLost, FailingPcs
  <2>2. Ran(n, id[2])
    BY <1>1, PastRan DEF Past
  <2> QED
    BY <1>1, <2>1, <2>2 DEF Lost
<1>6. \A i \in Threads : Past(thr[i].pc) => Past(thr'[i].pc)
  BY <1>2, <1>3 DEF Past
<1>7. Pruned(n)' = Pruned(n)
  BY <1>1, <1>2, <1>3, <1>4 DEF Pruned
<1>8. FailingLost(n)'
  BY <1>1, <1>3, <1>4 DEF Answers, FailingLost, FailingPcs
<1>9. DoneAnswered(n)'
  BY <1>2, <1>3, <1>4 DEF Answers, DoneAnswered, DonePcs
<1>10. FailedTells(n)'
  BY <1>4, <1>5, <1>6, LostKept DEF FailedTells
<1> QED
  BY <1>4, <1>6, <1>7, <1>8, <1>9, <1>10, AnswersMoved

(* What a failure makes unreachable: each such task has not answered and      *)
(* depends on another one, on a failed or on a cancelled one.                 *)
LEMMA UnreachableBehindLost ==
    ASSUME Typed, DependenciesAnsweredFirst, NEW n \in Iterations, Answers(n)
    PROVE  \A t \in Unreachable(n) :
              t \notin answered[n] /\ Deps[t] \cap (Unreachable(n) \cup Pruned(n) \cup Lost(n)) # {}
<1> DEFINE Behind(t) == \E d \in Deps[t] : d \in Unreachable(n) \/ exec[n][d] \in {"failed", "cancelled"}
           S == {t \in Unreachable(n) : t \notin answered[n] /\ Behind(t)}
<1>0. Deps \in [Tasks -> SUBSET Tasks]
  BY TasksAssumption
<1>1. \A d \in Tasks : exec[n][d] \in {"failed", "cancelled"} => d \in Pruned(n) \cup Lost(n)
  BY DEF Pruned, Answers, FailedLost
<1>2. \A d \in Pruned(n) \cup Lost(n) : d \notin answered[n]
  BY DEF Answers, PrunedBehindLost, Lost
<1>3. ClosedUnder(n, S)
  <2> SUFFICES ASSUME NEW t \in Tasks, exec[n][t] \in {"blocked", "ready"}, NEW d \in Deps[t],
                      d \in S \/ exec[n][d] \in {"failed", "cancelled"}
               PROVE  t \in S
    BY DEF ClosedUnder
  <2>1. t \in Unreachable(n)
    <3> SUFFICES ASSUME NEW X \in SUBSET Tasks, ClosedUnder(n, X) PROVE t \in X
      BY DEF Unreachable
    <3>1. d \in X \/ exec[n][d] \in {"failed", "cancelled"}
      BY DEF Unreachable
    <3> QED
      BY <3>1 DEF ClosedUnder
  <2>2. d \notin answered[n]
    BY <1>0, <1>1, <1>2
  <2>3. t \notin answered[n]
    <3> SUFFICES ASSUME t \in answered[n] PROVE FALSE
      OBVIOUS
    <3>1. PICK id \in Threads : id[1] = n /\ id[2] = t /\ Past(thr[id].pc)
      BY RanChain DEF Answers, AnswersRan
    <3>2. Deps[t] \subseteq answered[n]
      BY <3>1 DEF DependenciesAnsweredFirst, Past
    <3> QED
      BY <2>2, <3>2
  <2> QED
    BY <2>1, <2>3
<1>4. S \in SUBSET Tasks
  BY DEF Unreachable
<1>5. Unreachable(n) \subseteq S
  <2> HIDE DEF S
  <2> QED
    BY <1>3, <1>4 DEF Unreachable
<1> SUFFICES ASSUME NEW t \in Unreachable(n)
             PROVE  t \notin answered[n] /\ Deps[t] \cap (Unreachable(n) \cup Pruned(n) \cup Lost(n)) # {}
  OBVIOUS
<1>6. t \notin answered[n] /\ Behind(t)
  BY <1>5
<1>7. t \in Tasks
  BY DEF Unreachable
<1> QED
  BY <1>0, <1>1, <1>6, <1>7

LEMMA ReachedAnswers ==
    ASSUME Typed, DependenciesAnsweredFirst, NEW n \in Iterations, Answers(n), NEW id \in Threads,
           id[1] = n, Reach(id)
    PROVE  Answers(n)'
<1>1. thr[id] \in ThreadType /\ thr[id].pc = "reach"
  BY DEF Reach, Typed, ThreadsOK
<1>2. thr'[id].pc \in {"iterFail", "prune"} /\ thr'[id].todo = Unreachable(n)
  <2> DEFINE chain == [thr[id] EXCEPT !.todo = Unreachable(id[1]),
                                      !.pc = IF Unreachable(id[1]) = {} THEN "iterFail" ELSE "prune"]
  <2>1. chain.pc \in {"iterFail", "prune"} /\ chain.todo = Unreachable(id[1])
    BY <1>1 DEF ThreadType
  <2>2. Put(id, chain)
    BY DEF Reach
  <2> HIDE DEF chain
  <2> QED
    BY <2>1, <2>2 DEF Put, Typed, ThreadsOK
<1>3. \A i \in Threads : i # id => thr'[i] = thr[i]
  BY DEF Reach, Put, Typed, ThreadsOK
<1>4. iter' = iter /\ exec' = exec /\ answered' = answered
  BY DEF Reach, rows
<1>5. (\A t \in Tasks : Ran(n, t) => Ran(n, t)') /\ Lost(n) \subseteq Lost(n)'
  <2>1. \A i \in Threads : Past(thr[i].pc) => Past(thr'[i].pc)
    BY <1>2, <1>3 DEF Past
  <2> QED
    BY <1>4, <2>1, LostKept
<1>6. Pruned(n)' \subseteq Pruned(n) \cup Unreachable(n)
  BY <1>2, <1>3, <1>4 DEF Pruned
<1>7. Pruned(n) \cup Unreachable(n) \subseteq Pruned(n)'
  <2>1. Pruned(n) \subseteq Pruned(n)'
    BY <1>1, <1>3, <1>4 DEF Pruned
  <2>2. ASSUME NEW t \in Unreachable(n) PROVE t \in Pruned(n)'
    <3>1. Unreachable(n) # {}
      BY <2>2
    <3>2. thr'[id].pc = "prune"
      BY <1>1, <3>1 DEF Reach, Put, ThreadType, Typed, ThreadsOK
    <3>3. t \in Tasks
      BY DEF Unreachable
    <3> QED
      BY <1>2, <3>2, <3>3 DEF Pruned
  <2> QED
    BY <2>1, <2>2
<1>8. PrunedBehindLost(n)'
  <2> SUFFICES ASSUME NEW t \in Pruned(n)'
               PROVE  t \notin answered'[n] /\ Deps[t] \cap (Pruned(n)' \cup Lost(n)') # {}
    BY DEF PrunedBehindLost
  <2>1. CASE t \in Pruned(n)
    BY <1>4, <1>5, <1>7, <2>1 DEF Answers, PrunedBehindLost
  <2>2. CASE t \in Unreachable(n)
    BY <1>4, <1>5, <1>7, <2>2, UnreachableBehindLost
  <2> QED
    BY <1>6, <2>1, <2>2
<1>9. AnswersRan(n)'
  <2>1. answered[n] \subseteq Tasks
    BY DEF Typed, HistoryOK
  <2> QED
    BY <1>4, <1>5, <2>1 DEF Answers, AnswersRan
<1>10. FailedLost(n)'
  BY <1>4, <1>5 DEF Answers, FailedLost
<1>11. FailingLost(n)'
  BY <1>1, <1>3, <1>4 DEF Answers, FailingLost, FailingPcs
<1>12. DoneAnswered(n)'
  BY <1>2, <1>3, <1>4 DEF Answers, DoneAnswered, DonePcs
<1>13. FailedTells(n)'
  BY <1>4, <1>5 DEF Answers, FailedTells
<1> QED
  BY <1>4, <1>8, <1>9, <1>10, <1>11, <1>12, <1>13 DEF Answers

LEMMA PrunedAnswers ==
    ASSUME Typed, NEW n \in Iterations, Answers(n), NEW id \in Threads, id[1] = n, Prune(id)
    PROVE  Answers(n)'
<1>1. thr[id] \in ThreadType /\ thr[id].pc = "prune"
  BY DEF Prune, Typed, ThreadsOK
<1>2. PICK t \in thr[id].todo :
         /\ exec' = [exec EXCEPT ![id[1]][t] = "cancelled"]
         /\ Put(id, [thr[id] EXCEPT !.todo = @ \ {t},
                                    !.pc = IF thr[id].todo = {t} THEN "iterFail" ELSE "prune"])
  BY DEF Prune
<1> DEFINE chain == [thr[id] EXCEPT !.todo = @ \ {t},
                                    !.pc = IF thr[id].todo = {t} THEN "iterFail" ELSE "prune"]
<1>3. /\ chain.pc \in {"iterFail", "prune"} /\ chain.todo = thr[id].todo \ {t}
      /\ chain.todo # {} => chain.pc = "prune"
  BY <1>1 DEF ThreadType
<1>4. \A i \in Threads : thr'[i] = IF i = id THEN chain ELSE thr[i]
  BY <1>2 DEF Put, Typed, ThreadsOK
<1> HIDE DEF chain
<1>5. t \in Tasks
  BY <1>1 DEF ThreadType
<1>6. \A u \in Tasks : exec'[n][u] = IF u = t THEN "cancelled" ELSE exec[n][u]
  BY <1>2, <1>5 DEF Typed, RowsOK
<1>7. iter' = iter /\ answered' = answered
  BY DEF Prune
<1>8. (\A u \in Tasks : Ran(n, u) => Ran(n, u)') /\ Lost(n) \subseteq Lost(n)'
  <2>1. \A i \in Threads : Past(thr[i].pc) => Past(thr'[i].pc)
    BY <1>3, <1>4 DEF Past
  <2> QED
    BY <1>7, <2>1, LostKept
<1>9. Pruned(n)' = Pruned(n)
  <2>1. t \in Pruned(n)
    BY <1>1, <1>5 DEF Pruned
  <2>2. \A u \in Tasks : u \in Pruned(n)' => u \in Pruned(n)
    BY <1>1, <1>3, <1>4, <1>6, <2>1 DEF Pruned
  <2>3. ASSUME NEW u \in Tasks, u \in Pruned(n) PROVE u \in Pruned(n)'
    <3>1. CASE u = t
      BY <1>5, <1>6, <3>1 DEF Pruned
    <3>2. CASE u # t /\ exec[n][u] = "cancelled"
      BY <1>6, <3>2 DEF Pruned
    <3>3. CASE u # t /\ exec[n][u] # "cancelled"
      <4>1. PICK i \in Threads : i[1] = n /\ thr[i].pc = "prune" /\ u \in thr[i].todo
        BY <2>3, <3>3 DEF Pruned
      <4>2. thr'[i].pc = "prune" /\ u \in thr'[i].todo
        BY <1>3, <1>4, <3>3, <4>1
      <4> QED
        BY <4>1, <4>2 DEF Pruned
    <3> QED
      BY <3>1, <3>2, <3>3
  <2>4. Pruned(n) \subseteq Tasks /\ Pruned(n)' \subseteq Tasks
    BY DEF Pruned
  <2> QED
    BY <2>2, <2>3, <2>4
<1>10. AnswersRan(n)'
  <2>1. answered[n] \subseteq Tasks
    BY DEF Typed, HistoryOK
  <2> QED
    BY <1>7, <1>8, <2>1 DEF Answers, AnswersRan
<1>11. FailedLost(n)'
  BY <1>6, <1>8 DEF Answers, FailedLost
<1>12. FailingLost(n)'
  BY <1>1, <1>4, <1>7 DEF Answers, FailingLost, FailingPcs
<1>13. PrunedBehindLost(n)'
  BY <1>7, <1>8, <1>9 DEF Answers, PrunedBehindLost
<1>14. DoneAnswered(n)'
  BY <1>3, <1>4, <1>7 DEF Answers, DoneAnswered, DonePcs
<1>15. FailedTells(n)'
  BY <1>7, <1>8 DEF Answers, FailedTells
<1> QED
  BY <1>7, <1>10, <1>11, <1>12, <1>13, <1>14, <1>15 DEF Answers
LEMMA BlamedStep ==
    ASSUME Typed, Blamed, [Next]_vars
    PROVE  Blamed'
<1>1. \A n \in Iterations : disturbed[n] \subseteq disturbed'[n]
  BY HistoryGrows
<1>2. ASSUME NEW id \in Threads, thr'[id].pc = "fail" PROVE "fault" \in disturbed'[id[1]]
  <2>0. id[1] \in Iterations /\ thr[id] \in ThreadType
    BY ChainParts DEF Typed, ThreadsOK
  <2>1. CASE thr[id].pc = "fail"
    BY <1>1, <2>0, <2>1 DEF Blamed
  <2>2. CASE thr' = thr
    BY <1>2, <2>1, <2>2
  <2>3. ASSUME NEW m \in Iterations, NEW S \in SUBSET Tasks, NEW self, thr' = AfterLaunch(m, S, self)
        PROVE  "fault" \in disturbed'[id[1]]
    BY <1>2, <2>1, <2>3, ChainsAfter
  <2>4. ASSUME NEW i \in Threads, Chain(i) PROVE "fault" \in disturbed'[id[1]]
    <3>1. CASE LaunchReady(i)
      <4>1. PICK m \in Iterations : m = i[1]
        BY ChainParts
      <4>2. \E S \in SUBSET Tasks : thr' = AfterLaunch(m, S, i)
        BY <3>1, <4>1 DEF LaunchReady, Typed, ThreadsOK, ThreadType
      <4> QED
        BY <2>3, <4>2
    <3>2. CASE ~LaunchReady(i)
      <4>1. thr'[id] = thr[id] \/ i = id
        BY <2>4, <3>2 DEF Chain, BodyStart, BodyCompleted, BodyFailed, Scan, Unblock, BatchSettled,
           Check, IterationDone, GroupDone, Reach, Prune, IterationFail, GroupFail, GoTo, Put,
           Typed, ThreadsOK
      <4>2. CASE i = id
        <5>1. thr'[id].pc # "fail"
          <6>1. CASE BodyStart(id) \/ BodyCompleted(id) \/ BodyFailed(id) \/ Check(id)
                     \/ IterationDone(id) \/ GroupDone(id) \/ IterationFail(id) \/ GroupFail(id)
            BY <2>0, <6>1 DEF BodyStart, BodyCompleted, BodyFailed, Check, IterationDone, GroupDone,
               IterationFail, GroupFail, GoTo, Put, ThreadType, Typed, ThreadsOK
          <6>2. CASE BatchSettled(id)
            BY <2>0, <6>2 DEF BatchSettled, Put, ThreadType, Typed, ThreadsOK
          <6>7. CASE Reach(id)
            <7> DEFINE chain == [thr[id] EXCEPT !.todo = Unreachable(id[1]),
                                                !.pc = IF Unreachable(id[1]) = {} THEN "iterFail" ELSE "prune"]
            <7>1. chain.pc \in {"iterFail", "prune"}
              BY <2>0 DEF ThreadType
            <7>2. Put(id, chain)
              BY <6>7 DEF Reach
            <7> HIDE DEF chain
            <7> QED
              BY <7>1, <7>2 DEF Put, Typed, ThreadsOK
          <6>3. CASE Prune(id)
            <7>1. PICK t \in thr[id].todo :
                     Put(id, [thr[id] EXCEPT !.todo = @ \ {t},
                                             !.pc = IF thr[id].todo = {t} THEN "iterFail" ELSE "prune"])
              BY <6>3 DEF Prune
            <7> QED
              BY <2>0, <7>1 DEF Put, ThreadType, Typed, ThreadsOK
          <6>4. CASE Unblock(id)
            <7>1. PICK t \in thr[id].todo :
                     Put(id, [thr[id] EXCEPT !.todo = @ \ {t}, !.ready = @ \cup {t},
                                             !.pc = IF thr[id].todo = {t} THEN "launch" ELSE "unblock"])
              BY <6>4 DEF Unblock
            <7> QED
              BY <2>0, <7>1 DEF Put, ThreadType, Typed, ThreadsOK
          <6>5. CASE Scan(id) /\ Unblockable(id[1]) = {}
            BY <2>0, <6>5 DEF Scan, GoTo, Put, ThreadType, Typed, ThreadsOK
          <6>6. CASE Scan(id) /\ Unblockable(id[1]) # {}
            <7> DEFINE chain == [thr[id] EXCEPT !.pc = "unblock", !.todo = Unblockable(id[1]),
                                                !.slots = FreeSlots(id[1])]
            <7>1. chain.pc = "unblock"
              BY <2>0 DEF ThreadType
            <7>2. Put(id, chain)
              BY <6>6 DEF Scan
            <7> HIDE DEF chain
            <7> QED
              BY <7>1, <7>2 DEF Put, Typed, ThreadsOK
          <6> QED
            BY <2>4, <3>2, <4>2, <6>1, <6>2, <6>3, <6>4, <6>5, <6>6, <6>7 DEF Chain
        <5> QED
          BY <1>2, <5>1
      <4> QED
        BY <1>2, <2>1, <4>1, <4>2
    <3> QED
      BY <3>1, <3>2
  <2>5. ASSUME NEW i \in Threads, StorageFault(i) PROVE "fault" \in disturbed'[id[1]]
    <3>1. CASE i = id
      BY <2>0, <2>5, <3>1 DEF StorageFault, Typed, HistoryOK
    <3>2. CASE i # id
      BY <1>2, <2>1, <2>5, <3>2 DEF StorageFault, Put, Typed, ThreadsOK
    <3> QED
      BY <3>1, <3>2
  <2>6. ASSUME NEW s \in Starters, StartStep(s) PROVE "fault" \in disturbed'[id[1]]
    <3>1. CASE StartLaunch(s)
      <4>1. PICK m \in Iterations : m = starters[s].n
        BY <3>1 DEF StartLaunch, Typed, RequestsOK
      <4>2. \E S \in SUBSET Tasks : thr' = AfterLaunch(m, S, NoLauncher)
        BY <3>1, <4>1 DEF StartLaunch
      <4> QED
        BY <2>3, <4>2
    <3> QED
      BY <2>2, <2>6, <3>1 DEF StartStep, StartRead, StartConflict, StartCreate, StartMark
  <2>7. CASE RetryLaunch
    <3>1. PICK m \in Iterations : m = retry.n
      BY <2>7 DEF RetryLaunch, Typed, RequestsOK
    <3>2. thr' = thr \/ \E S \in SUBSET Tasks : thr' = AfterLaunch(m, S, NoLauncher)
      BY <2>7, <3>1 DEF RetryLaunch, Typed, RequestsOK
    <3> QED
      BY <2>2, <2>3, <3>2
  <2>8. CASE CancelRead \/ CancelStep \/ (RetryStep /\ ~RetryLaunch) \/ (\E u \in Tasks : RetryRead(u))
             \/ UNCHANGED vars
    BY <2>2, <2>8 DEF CancelRead, CancelStep, CancelRow, CancelIteration, CancelGroup, RetryStep,
       RetryIteration, RetryGroup, RetryReset, RetryRead, vars
  <2> QED
    BY <2>4, <2>5, <2>6, <2>7, <2>8 DEF Next
<1>3. ASSUME cancel'.pc # "idle" PROVE "cancel" \in disturbed'[cancel'.n]
  <2>1. CASE CancelRead
    <3>1. PICK n \in Iterations : /\ cancel' = [pc |-> "rows", n |-> n, todo |-> Unfinished(n)]
                                  /\ disturbed' = [disturbed EXCEPT ![n] = @ \cup {"cancel"}]
      BY <2>1 DEF CancelRead
    <3> QED
      BY <3>1 DEF Typed, HistoryOK
  <2>2. CASE CancelRow \/ CancelIteration
    BY <2>2 DEF CancelRow, CancelIteration, Blamed, Typed, RequestsOK, CancelType
  <2>3. CASE CancelGroup
    BY <1>3, <2>3 DEF CancelGroup, NoCancel
  <2>4. CASE cancel' = cancel
    <3>1. cancel.n \in Iterations
      BY <1>3, <2>4 DEF Typed, RequestsOK
    <3> QED
      BY <1>1, <1>3, <2>4, <3>1 DEF Blamed
  <2> QED
    BY <2>1, <2>2, <2>3, <2>4 DEF Next, StartStep, StartRead, StartConflict, StartCreate, StartMark,
       StartLaunch, Chain, BodyStart, BodyCompleted, BodyFailed, Scan, Unblock, LaunchReady,
       BatchSettled, Check, IterationDone, GroupDone, Reach, Prune, IterationFail, GroupFail,
       StorageFault, Untouched, CancelStep, RetryRead, RetryStep, RetryIteration, RetryGroup,
       RetryReset, RetryLaunch, vars
<1> QED
  BY <1>2, <1>3 DEF Blamed

LEMMA CreatedAnswers ==
    ASSUME Typed, RowsExist, NEW n \in Iterations, Once(n), Answers(n),
           NEW s \in Starters, StartCreate(s)
    PROVE  Answers(n)'
<1>1. PICK m \in Iterations : m = starters[s].n /\ iter[m] = "none"
  BY DEF StartCreate, Typed, RequestsOK
<1>2. thr' = thr /\ answered' = answered
  BY DEF StartCreate
<1>3. CASE n # m
  <2>1. iter'[n] = iter[n] /\ exec'[n] = exec[n]
    BY <1>1, <1>3 DEF StartCreate, Typed, RowsOK
  <2> QED
    BY <1>2, <2>1, AnswersSame
<1>4. CASE n = m
  <2>1. \A id \in Threads : id[1] = n => thr[id].pc = "none"
    BY <1>1, <1>4 DEF RowsExist
  <2>2. \A t \in Tasks : ~Ran(n, t)
    BY <2>1 DEF Ran, Past, Threads
  <2>3. answered'[n] = {}
    BY <1>2, <2>2 DEF Answers, AnswersRan, Typed, HistoryOK
  <2>4. iter'[n] = "running" /\ \A t \in Tasks : exec'[n][t] \in {"ready", "blocked"}
    BY <1>1, <1>4 DEF StartCreate, Typed, RowsOK
  <2>5. Pruned(n)' = {}
    BY <1>2, <2>1, <2>4 DEF Pruned
  <2>6. \A id \in Threads : id[1] = n => thr'[id].pc \notin FailingPcs \cup DonePcs
    BY <1>2, <2>1 DEF FailingPcs, DonePcs
  <2> QED
    BY <2>3, <2>4, <2>5, <2>6 DEF Answers, AnswersRan, FailedLost, FailingLost, PrunedBehindLost,
       DoneAnswered, FailedTells
<1> QED
  BY <1>3, <1>4

LEMMA AnswersStep ==
    ASSUME Typed, FeedInv, OrderInv, LaunchInv, AnswerInv, [Next]_vars,
           NEW n \in Iterations, Left(n)'
    PROVE  Answers(n)'
<1>1. Left(n)
  <2>1. disturbed[n] \subseteq disturbed'[n] /\ cleared \subseteq cleared'
    BY HistoryGrows
  <2> QED
    BY <2>1 DEF Left
<1>2. Answers(n) /\ Once(n) /\ Blamed
  BY <1>1 DEF AnswerInv, LaunchInv, Left, Kept
<1>3. RowsExist /\ DependenciesAnsweredFirst /\ CandidatesFed /\ CompletedAnswered
  BY DEF OrderInv, FeedInv
<1>4. ASSUME NEW s \in Starters, StartStep(s) PROVE Answers(n)'
  <2>1. CASE StartCreate(s)
    BY <1>2, <1>3, <2>1, CreatedAnswers
  <2>2. CASE StartLaunch(s)
    <3>1. PICK m \in Iterations : m = starters[s].n
      BY <2>2 DEF StartLaunch, Typed, RequestsOK
    <3>2. PICK S \in SUBSET Tasks : CanLaunch(m, S) /\ thr' = AfterLaunch(m, S, NoLauncher)
      BY <2>2, <3>1 DEF StartLaunch, Claimed
    <3>3. NoLauncher \notin Threads
      BY DEF NoLauncher, Threads, Iterations
    <3> QED
      BY <1>2, <2>2, <3>2, <3>3, AnswersLaunch DEF StartLaunch
  <2> QED
    BY <1>2, <1>4, <2>1, <2>2, AnswersSame DEF StartStep, StartRead, StartConflict, StartMark, rows
<1>5. ASSUME NEW id \in Threads, id[1] = n, Chain(id) PROVE Answers(n)'
  <2>1. thr[id].pc # "fail"
    BY <1>1, <1>2, <1>5 DEF Blamed, Left
  <2>2. CASE LaunchReady(id)
    <3>1. PICK S \in SUBSET thr[id].ready : CanLaunch(n, S) /\ thr' = AfterLaunch(n, S, id)
      BY <1>5, <2>2 DEF LaunchReady, Claimed
    <3>2. S \in SUBSET Tasks
      BY DEF Typed, ThreadsOK, ThreadType
    <3> QED
      BY <1>2, <2>2, <3>1, <3>2, AnswersLaunch DEF LaunchReady
  <2>3. CASE BodyFailed(id)
    BY <1>2, <1>3, <1>5, <2>1, <2>3, FailedAnswers DEF BodyFailed
  <2>4. CASE Check(id)
    BY <1>2, <1>3, <1>5, <2>4, CheckedAnswers, PassedAnswers
  <2> QED
    BY <1>2, <1>3, <1>5, <2>2, <2>3, <2>4, StartedAnswers, UnblockedAnswers, PassedAnswers,
       CompletedAnswers, CheckedAnswers, FailedIterationAnswers, ReachedAnswers, PrunedAnswers DEF Chain
<1>6. ASSUME NEW id \in Threads, id[1] = n, StorageFault(id) PROVE FALSE
  BY <1>6 DEF StorageFault, Left, Typed, HistoryOK
<1>7. ASSUME NEW id \in Threads, Chain(id) \/ StorageFault(id) PROVE Answers(n)'
  BY <1>2, <1>5, <1>6, <1>7, AnswersElsewhere
<1>8. CASE CancelStep
  <2>1. cancel.pc # "idle"
    BY <1>8 DEF CancelStep, CancelRow, CancelIteration, CancelGroup
  <2>2. n # cancel.n
    BY <1>1, <1>2, <2>1 DEF Blamed, Left
  <2>3. exec'[n] = exec[n] /\ iter'[n] = iter[n]
    BY <1>8, <2>2 DEF CancelStep, CancelRow, CancelIteration, CancelGroup, Typed, RowsOK
  <2>4. thr' = thr /\ answered' = answered
    BY <1>8 DEF CancelStep, CancelRow, CancelIteration, CancelGroup
  <2> QED
    BY <1>2, <2>3, <2>4, AnswersSame
<1>9. CASE RetryStep
  <2>1. retry.pc # "idle"
    BY <1>9 DEF RetryStep, RetryIteration, RetryGroup, RetryReset, RetryLaunch
  <2>2. n # retry.n
    BY <1>1, <1>3, <2>1 DEF RowsExist, Left
  <2>3. exec'[n] = exec[n] /\ iter'[n] = iter[n]
    BY <1>9, <2>2 DEF RetryStep, RetryIteration, RetryGroup, RetryReset, RetryLaunch, Typed, RowsOK
  <2>4. answered' = answered
    BY <1>9 DEF RetryStep, RetryIteration, RetryGroup, RetryReset, RetryLaunch
  <2>5. CASE thr' = thr
    BY <1>2, <2>3, <2>4, <2>5, AnswersSame
  <2>6. CASE thr' # thr
    <3>1. PICK m \in Iterations : m = retry.n
      BY <2>1 DEF Typed, RequestsOK
    <3>2. RetryLaunch
      BY <1>9, <2>6 DEF RetryStep, RetryIteration, RetryGroup, RetryReset
    <3>3. PICK S \in SUBSET Tasks : CanLaunch(m, S) /\ thr' = AfterLaunch(m, S, NoLauncher)
      BY <2>6, <3>1, <3>2 DEF RetryLaunch, Typed, RequestsOK
    <3>4. NoLauncher \notin Threads
      BY DEF NoLauncher, Threads, Iterations
    <3> QED
      BY <1>2, <3>2, <3>3, <3>4, AnswersLaunch DEF RetryLaunch
  <2> QED
    BY <2>5, <2>6
<1>10. CASE CancelRead \/ (\E u \in Tasks : RetryRead(u)) \/ UNCHANGED vars
  BY <1>2, <1>10, AnswersSame DEF CancelRead, RetryRead, vars, rows
<1> QED
  BY <1>4, <1>7, <1>8, <1>9, <1>10 DEF Next

LEMMA AnswerStep ==
    ASSUME Typed, FeedInv, OrderInv, LaunchInv, AnswerInv, [Next]_vars
    PROVE  AnswerInv'
<1>1. \A n \in Iterations : Left(n)' => Answers(n)'
  BY AnswersStep
<1>2. Blamed'
  BY BlamedStep DEF AnswerInv
<1> QED
  BY <1>1, <1>2 DEF AnswerInv

LEMMA AnswerIsCompleted == AnswerInv => CompletedMeansAnswered
BY DEF AnswerInv, CompletedMeansAnswered, Left, Answers, DoneAnswered

AllInv == Typed /\ FeedInv /\ OrderInv /\ LaunchInv /\ AnswerInv

LEMMA AllInit == Init => AllInv
BY TypedInit, FeedInit, OrderInit, LaunchInit, AnswerInit DEF AllInv

LEMMA AllStep == AllInv /\ [Next]_vars => AllInv'
BY TypedStep, FeedStep, OrderStep, LaunchStep, AnswerStep DEF AllInv

(* An iteration left to its executions is marked completed only when every    *)
(* task of the group has answered: no failure, and nothing that was pruned    *)
(* behind one, hides under the status.                                        *)
THEOREM CompletedAfterAnswers == Spec => []CompletedMeansAnswered
<1>1. AllInv => CompletedMeansAnswered
  BY AnswerIsCompleted DEF AllInv
<1> QED
  BY AllInit, AllStep, <1>1, PTL DEF Spec

(* A settled status is final: completed says that all have answered, failed   *)
(* that one never will, so no late check and no late failure writes the other.*)
LEMMA SettledStep ==
    ASSUME AllInv, [Next]_vars, NEW n \in Iterations, iter[n] \notin {"none", "running"},
           disturbed'[n] = {}, n \notin cleared
    PROVE  iter'[n] = iter[n]
<1>1. Typed /\ RowsExist /\ AnswerInv
  BY DEF AllInv, OrderInv
<1>2. disturbed[n] = {}
  BY <1>1, HistoryGrows
<1>3. Answers(n) /\ Blamed
  BY <1>1, <1>2 DEF AnswerInv, Left
<1>4. iter[n] \in {"completed", "failed"}
  BY <1>1, <1>3 DEF Typed, RowsOK, IterationStatus, Answers
<1>5. Lost(n) \cap answered[n] = {} /\ Lost(n) \subseteq Tasks
  BY DEF Lost
<1>6. ASSUME NEW id \in Threads, IterationDone(id) PROVE iter'[n] = iter[n]
  <2>1. CASE id[1] = n
    <3>1. answered[n] = Tasks
      BY <1>3, <1>6, <2>1 DEF IterationDone, Answers, DoneAnswered, DonePcs
    <3>2. iter[n] # "failed"
      BY <1>3, <1>5, <3>1 DEF Answers, FailedTells
    <3>3. iter'[n] = "completed"
      BY <1>1, <1>6, <2>1 DEF IterationDone, Typed, RowsOK
    <3> QED
      BY <1>4, <3>2, <3>3
  <2>2. CASE id[1] # n
    BY <1>1, <1>6, <2>2 DEF IterationDone, Typed, RowsOK
  <2> QED
    BY <2>1, <2>2
<1>7. ASSUME NEW id \in Threads, IterationFail(id) PROVE iter'[n] = iter[n]
  <2>1. CASE id[1] = n
    <3>1. id[2] \in Tasks /\ id[2] \notin answered[n]
      BY <1>3, <1>7, <2>1, ChainParts DEF IterationFail, Answers, FailingLost, FailingPcs
    <3>2. iter[n] # "completed"
      BY <1>3, <3>1 DEF Answers, DoneAnswered
    <3>3. iter'[n] = "failed"
      BY <1>1, <1>7, <2>1 DEF IterationFail, Typed, RowsOK
    <3> QED
      BY <1>4, <3>2, <3>3
  <2>2. CASE id[1] # n
    BY <1>1, <1>7, <2>2 DEF IterationFail, Typed, RowsOK
  <2> QED
    BY <2>1, <2>2
<1>8. ASSUME NEW s \in Starters, StartCreate(s) PROVE iter'[n] = iter[n]
  BY <1>1, <1>8 DEF StartCreate, Typed, RowsOK
<1>9. CASE CancelIteration
  <2>1. n # cancel.n
    BY <1>2, <1>3, <1>9 DEF CancelIteration, Blamed
  <2> QED
    BY <1>1, <1>9, <2>1 DEF CancelIteration, Typed, RowsOK
<1>10. CASE RetryIteration
  <2>1. n # retry.n
    BY <1>1, <1>2, <1>10 DEF RetryIteration, RowsExist
  <2> QED
    BY <1>1, <1>10, <2>1 DEF RetryIteration, Typed, RowsOK
<1>11. ASSUME NEW s \in Starters, StartStep(s) PROVE iter'[n] = iter[n]
  BY <1>8, <1>11 DEF StartStep, StartRead, StartConflict, StartMark, StartLaunch, rows
<1>12. ASSUME NEW id \in Threads, Chain(id) \/ StorageFault(id) PROVE iter'[n] = iter[n]
  BY <1>6, <1>7, <1>12 DEF Chain, BodyStart, BodyCompleted, BodyFailed, Scan, Unblock, LaunchReady,
     BatchSettled, Check, GroupDone, Reach, Prune, GroupFail, StorageFault, rows
<1>13. CASE CancelRead \/ CancelStep \/ RetryStep \/ (\E u \in Tasks : RetryRead(u)) \/ UNCHANGED vars
  BY <1>9, <1>10, <1>13 DEF CancelRead, CancelStep, CancelRow, CancelGroup, RetryStep, RetryGroup,
     RetryReset, RetryLaunch, RetryRead, vars, rows
<1> QED
  BY <1>11, <1>12, <1>13 DEF Next

(* A settled iteration keeps its status unless a cancel, a retry or a fault   *)
(* touches it, or its claims were forgotten under a chain about to launch.    *)
THEOREM SettledStays == Spec => SettledIsFinal
<1>1. ASSUME AllInv, [Next]_vars
      PROVE  [\A n \in Iterations :
                iter[n] \notin {"none", "running"} /\ disturbed'[n] = {} /\ n \notin cleared
                => iter'[n] = iter[n]]_vars
  BY <1>1, SettledStep
<1> QED
  BY AllInit, AllStep, <1>1, PTL DEF Spec, SettledIsFinal
=============================================================================
