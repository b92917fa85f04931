--------------------------- MODULE TaskOrchestrator ---------------------------
(* The task orchestrator (server/services/task-orchestrator.ts) running one   *)
(* task group.  A start creates an iteration with one execution row per task, *)
(* launches the ready ones, and every execution is an asynchronous call chain *)
(* that writes its own row, reads the rows of its siblings, unblocks and      *)
(* launches them, waits for those it launched, and checks whether the         *)
(* iteration is done.  One process; every storage call is an `await`, so the  *)
(* chains of one iteration, of the one before it, of a start, of a cancel and *)
(* of a retry interleave at every read and write of a row.                    *)
EXTENDS Integers, FiniteSets

CONSTANTS
    Tasks,           \* the task definitions of the group
    Deps,            \* a task -> the tasks it depends on (an acyclic graph)
    MaxConcurrent,   \* MAX_CONCURRENT_TASKS
    Starters,        \* requests that start the group (routes, loop controllers)
    MaxIterations,   \* maxIterationsPerGroup, and the bound on iterations
    MaxLaunches,     \* bound: launches of one execution
    MaxDisturbances  \* bound: cancels, retries and throwing storage calls together

ASSUME TasksAssumption ==
    /\ IsFiniteSet(Tasks)
    /\ Deps \in [Tasks -> SUBSET Tasks]
    /\ Tasks # {}
    /\ \A S \in SUBSET Tasks : S # {} => \E t \in S : Deps[t] \cap S = {}
ASSUME BoundsAssumption ==
    /\ MaxConcurrent \in Nat \ {0} /\ MaxIterations \in Nat \ {0} /\ MaxLaunches \in Nat
    /\ MaxDisturbances \in Nat

Iterations == 1 .. MaxIterations
Threads == Iterations \X Tasks \X (1 .. MaxLaunches)

IterationStatus == {"none", "running", "completed", "failed", "cancelled"}
ExecutionStatus == {"none", "blocked", "ready", "running", "completed", "failed", "cancelled"}
Disturbances == {"cancel", "retry", "fault"}

VARIABLES
    iter,      \* iteration -> its row's status ("none": no such row)
    exec,      \* iteration -> task -> its execution row's status
    group,     \* the group row's status
    live,      \* the group is in activeGroupIds
    claims,    \* iteration -> the executions ExecutionClaims holds
    thr,       \* a launch of an execution -> where its call chain stands
    starters,  \* a start request -> where it stands
    cancel,    \* the cancel request
    retry,     \* the retry request
    used,      \* cancels, retries and faults so far
    answered,  \* history: iteration -> tasks whose model call ever answered
    disturbed, \* history: iteration -> what other than its executions touched it
    cleared    \* history: iterations whose claims were forgotten while a chain was
               \* between reading the rows and claiming what it read as blocked

rows == <<iter, exec, group, live, claims>>
vars == <<iter, exec, group, live, claims, thr, starters, cancel, retry, used,
          answered, disturbed, cleared>>

ThreadPcs == {"none", "start", "body", "scan", "unblock", "launch", "wait", "check",
              "iterDone", "groupDone", "fail", "reach", "prune", "iterFail", "groupFail", "done"}
NoThread == [pc |-> "none", todo |-> {}, ready |-> {}, batch |-> {}, slots |-> 0]
NoStart == [pc |-> "idle", n |-> 0]
NoCancel == [pc |-> "idle", n |-> 0, todo |-> {}]
NoRetry == [pc |-> "idle", n |-> 0, task |-> "none"]

(* getLatestIteration: the row of the highest number, 0 when there is none.   *)
Latest(n) ==
    /\ n # 0 => iter[n] # "none"
    /\ \A m \in Iterations : m > n => iter[m] = "none"

Init ==
    /\ iter = [n \in Iterations |-> "none"]
    /\ exec = [n \in Iterations |-> [t \in Tasks |-> "none"]]
    /\ group = "pending"
    /\ live = FALSE
    /\ claims = [n \in Iterations |-> {}]
    /\ thr = [id \in Threads |-> NoThread]
    /\ starters = [s \in Starters |-> NoStart]
    /\ cancel = NoCancel
    /\ retry = NoRetry
    /\ used = 0
    /\ answered = [n \in Iterations |-> {}]
    /\ disturbed = [n \in Iterations |-> {}]
    /\ cleared = {}

-----------------------------------------------------------------------------
(* Launching: launchBatch claims up to `slots` of the candidates in one       *)
(* synchronous stretch and starts a call chain for each claimed one.          *)

Launched(n, t) == {a \in 1 .. MaxLaunches : thr[<<n, t, a>>].pc # "none"}
NextLaunch(n, t) == <<n, t, Cardinality(Launched(n, t)) + 1>>
CanLaunch(n, S) == \A t \in S : Cardinality(Launched(n, t)) < MaxLaunches

(* Mutant: a candidate that is claimed already is launched again.             *)
ClaimedAnyway(n, candidates, slots, S) ==
    /\ S \subseteq candidates
    /\ Cardinality(S) <= slots
    /\ Cardinality(S) = slots \/ S = candidates
    /\ CanLaunch(n, S)

Claimed(n, candidates, slots, S) ==
    /\ S \subseteq candidates \ claims[n]
    /\ Cardinality(S) <= slots
    /\ Cardinality(S) = slots \/ S = candidates \ claims[n]
    /\ CanLaunch(n, S)

(* The chains after launching S in iteration n; `self` is the chain that      *)
(* launches and waits for them, or NoLauncher for a request.                  *)
NoLauncher == <<0, "none", 0>>
AfterLaunch(n, S, self) ==
    LET new == {NextLaunch(n, t) : t \in S}
    IN [id \in Threads |->
          IF id \in new THEN [NoThread EXCEPT !.pc = "start"]
          ELSE IF id = self THEN [thr[id] EXCEPT !.pc = "wait", !.ready = {}, !.slots = 0, !.batch = new]
          ELSE thr[id]]

-----------------------------------------------------------------------------
(* startGroup / startGroupAsync                                               *)

(* Mutant: the cap on the iterations of a group is left out.                  *)
StartReadUncapped(s) ==
    /\ starters[s].pc = "idle"
    /\ \E n \in 0 .. MaxIterations :
          /\ Latest(n)
          /\ n # 0 => iter[n] # "running"
          /\ starters' = [starters EXCEPT ![s] = [pc |-> "create", n |-> n + 1]]
    /\ UNCHANGED <<rows, thr, cancel, retry, used, answered, disturbed, cleared>>

(* Read the latest iteration: none may be running, and the cap holds.         *)
StartRead(s) ==
    /\ starters[s].pc = "idle"
    /\ \E n \in 0 .. MaxIterations - 1 :
          /\ Latest(n)
          /\ n # 0 => iter[n] # "running"
          /\ starters' = [starters EXCEPT ![s] = [pc |-> "create", n |-> n + 1]]
    /\ UNCHANGED <<rows, thr, cancel, retry, used, answered, disturbed, cleared>>

(* createIterationWithExecutions: one transaction; a second start of the same *)
(* number conflicts and throws.                                               *)
StartConflict(s) ==
    /\ starters[s].pc = "create" /\ iter[starters[s].n] # "none"
    /\ starters' = [starters EXCEPT ![s] = NoStart]
    /\ UNCHANGED <<rows, thr, cancel, retry, used, answered, disturbed, cleared>>

StartCreate(s) ==
    LET n == starters[s].n IN
    /\ starters[s].pc = "create" /\ iter[n] = "none"
    /\ iter' = [iter EXCEPT ![n] = "running"]
    /\ exec' = [exec EXCEPT ![n] = [t \in Tasks |-> IF Deps[t] = {} THEN "ready" ELSE "blocked"]]
    /\ live' = TRUE
    /\ starters' = [starters EXCEPT ![s].pc = "mark"]
    /\ UNCHANGED <<group, claims, thr, cancel, retry, used, answered, disturbed, cleared>>

StartMark(s) ==
    /\ starters[s].pc = "mark"
    /\ group' = "running"
    /\ starters' = [starters EXCEPT ![s].pc = "launch"]
    /\ UNCHANGED <<iter, exec, live, claims, thr, cancel, retry, used, answered, disturbed, cleared>>

StartLaunch(s) ==
    LET n == starters[s].n IN
    /\ starters[s].pc = "launch"
    /\ \E S \in SUBSET Tasks :
          /\ Claimed(n, {t \in Tasks : Deps[t] = {}}, MaxConcurrent, S)
          /\ claims' = [claims EXCEPT ![n] = @ \cup S]
          /\ thr' = AfterLaunch(n, S, NoLauncher)
    /\ starters' = [starters EXCEPT ![s] = NoStart]
    /\ UNCHANGED <<iter, exec, group, live, cancel, retry, used, answered, disturbed, cleared>>

-----------------------------------------------------------------------------
(* executeExecution                                                           *)

Put(id, chain) == thr' = [thr EXCEPT ![id] = chain]
GoTo(id, pc) == Put(id, [thr[id] EXCEPT !.pc = pc])
SetExec(id, status) == exec' = [exec EXCEPT ![id[1]][id[2]] = status]
Untouched == UNCHANGED <<starters, cancel, retry, used, disturbed>>

BodyStart(id) ==
    /\ thr[id].pc = "start"
    /\ SetExec(id, "running") /\ GoTo(id, "body")
    /\ Untouched /\ UNCHANGED <<iter, group, live, claims, answered, cleared>>

(* The model call, with its one bounded retry on a timeout or an empty answer *)
(* (completeDirectLlm), answers or throws; the answer is written at once.     *)
BodyCompleted(id) ==
    /\ thr[id].pc = "body"
    /\ SetExec(id, "completed") /\ GoTo(id, "scan")
    /\ answered' = [answered EXCEPT ![id[1]] = @ \cup {id[2]}]
    /\ Untouched /\ UNCHANGED <<iter, group, live, claims, cleared>>

(* A thrown model call: onTaskFailed writes the row.                          *)
BodyFailed(id) ==
    /\ thr[id].pc \in {"body", "fail"}
    /\ SetExec(id, "failed") /\ GoTo(id, "reach")
    /\ Untouched /\ UNCHANGED <<iter, group, live, claims, answered, cleared>>

(* onTaskCompleted: one read of the rows decides which blocked executions are *)
(* unblocked and how many slots there are; the writes and the launch follow.  *)
Completed(n) == {t \in Tasks : exec[n][t] = "completed"}
(* Mutant: one answered dependency is enough.                                 *)
UnblockableEarly(n) == {t \in Tasks : exec[n][t] = "blocked" /\ Deps[t] \cap Completed(n) # {}}
Unblockable(n) == {t \in Tasks : exec[n][t] = "blocked" /\ Deps[t] \subseteq Completed(n)}
FreeSlots(n) ==
    LET running == Cardinality({t \in Tasks : exec[n][t] = "running"})
    IN IF running < MaxConcurrent THEN MaxConcurrent - running ELSE 0

(* Mutant: a completion that unblocks nothing does not check the iteration.   *)
ScanUnchecked(id) ==
    LET n == id[1] IN
    /\ thr[id].pc = "scan"
    /\ IF Unblockable(n) = {}
       THEN GoTo(id, "done")
       ELSE Put(id, [thr[id] EXCEPT !.pc = "unblock", !.todo = Unblockable(n), !.slots = FreeSlots(n)])
    /\ Untouched /\ UNCHANGED <<rows, answered, cleared>>

Scan(id) ==
    LET n == id[1] IN
    /\ thr[id].pc = "scan"
    /\ IF Unblockable(n) = {}
       THEN GoTo(id, "check")
       ELSE Put(id, [thr[id] EXCEPT !.pc = "unblock", !.todo = Unblockable(n), !.slots = FreeSlots(n)])
    /\ Untouched /\ UNCHANGED <<rows, answered, cleared>>

(* The `ready` writes, one await each.                                        *)
Unblock(id) ==
    /\ thr[id].pc = "unblock"
    /\ \E t \in thr[id].todo :
          /\ exec' = [exec EXCEPT ![id[1]][t] = "ready"]
          /\ Put(id, [thr[id] EXCEPT !.todo = @ \ {t}, !.ready = @ \cup {t},
                                     !.pc = IF thr[id].todo = {t} THEN "launch" ELSE "unblock"])
    /\ Untouched /\ UNCHANGED <<iter, group, live, claims, answered, cleared>>

LaunchReady(id) ==
    LET n == id[1] IN
    /\ thr[id].pc = "launch"
    /\ \E S \in SUBSET thr[id].ready :
          /\ Claimed(n, thr[id].ready, thr[id].slots, S)
          /\ claims' = [claims EXCEPT ![n] = @ \cup S]
          /\ thr' = AfterLaunch(n, S, id)
    /\ Untouched /\ UNCHANGED <<iter, exec, group, live, answered, cleared>>

(* Promise.allSettled: every launched chain has ended, whatever its outcome.  *)
BatchSettled(id) ==
    /\ thr[id].pc = "wait"
    /\ \A child \in thr[id].batch : thr[child].pc = "done"
    /\ Put(id, [thr[id] EXCEPT !.pc = "check", !.batch = {}])
    /\ Untouched /\ UNCHANGED <<rows, answered, cleared>>

(* checkGroupCompletion: read the rows, then write the iteration, the group   *)
(* and forget the claims.                                                     *)
(* Mutant: a failed execution counts as done.                                 *)
AllDoneFailed(n) == \A t \in Tasks : exec[n][t] \in {"completed", "cancelled", "failed"}
AllDone(n) == \A t \in Tasks : exec[n][t] \in {"completed", "cancelled"}

Check(id) ==
    /\ thr[id].pc = "check"
    /\ GoTo(id, IF AllDone(id[1]) THEN "iterDone" ELSE "done")
    /\ Untouched /\ UNCHANGED <<rows, answered, cleared>>

Unblocking(n) == \E id \in Threads : id[1] = n /\ thr[id].pc \in {"unblock", "launch"}
ClearClaims(n) ==
    /\ claims' = [claims EXCEPT ![n] = {}]
    /\ cleared' = IF Unblocking(n) THEN cleared \cup {n} ELSE cleared

IterationDone(id) ==
    /\ thr[id].pc = "iterDone"
    /\ iter' = [iter EXCEPT ![id[1]] = "completed"]
    /\ GoTo(id, "groupDone")
    /\ Untouched /\ UNCHANGED <<exec, group, live, claims, answered, cleared>>

GroupDone(id) ==
    /\ thr[id].pc = "groupDone"
    /\ group' = "completed" /\ live' = FALSE
    /\ ClearClaims(id[1]) /\ GoTo(id, "done")
    /\ Untouched /\ UNCHANGED <<iter, exec, answered>>

(* onTaskFailed: cancel what the failure makes unreachable, from one read of  *)
(* the rows, then fail the iteration and the group.                           *)
ClosedUnder(n, S) ==
    \A t \in Tasks :
        /\ exec[n][t] \in {"blocked", "ready"}
        /\ \E d \in Deps[t] : d \in S \/ exec[n][d] \in {"failed", "cancelled"}
        => t \in S
Unreachable(n) == {t \in Tasks : \A S \in SUBSET Tasks : ClosedUnder(n, S) => t \in S}

Reach(id) ==
    /\ thr[id].pc = "reach"
    /\ Put(id, [thr[id] EXCEPT !.todo = Unreachable(id[1]),
                               !.pc = IF Unreachable(id[1]) = {} THEN "iterFail" ELSE "prune"])
    /\ Untouched /\ UNCHANGED <<rows, answered, cleared>>

Prune(id) ==
    /\ thr[id].pc = "prune"
    /\ \E t \in thr[id].todo :
          /\ exec' = [exec EXCEPT ![id[1]][t] = "cancelled"]
          /\ Put(id, [thr[id] EXCEPT !.todo = @ \ {t},
                                     !.pc = IF thr[id].todo = {t} THEN "iterFail" ELSE "prune"])
    /\ Untouched /\ UNCHANGED <<iter, group, live, claims, answered, cleared>>

IterationFail(id) ==
    /\ thr[id].pc = "iterFail"
    /\ iter' = [iter EXCEPT ![id[1]] = "failed"]
    /\ GoTo(id, "groupFail")
    /\ Untouched /\ UNCHANGED <<exec, group, live, claims, answered, cleared>>

GroupFail(id) ==
    /\ thr[id].pc = "groupFail"
    /\ group' = "failed" /\ live' = FALSE
    /\ ClearClaims(id[1]) /\ GoTo(id, "done")
    /\ Untouched /\ UNCHANGED <<iter, exec, answered>>

(* A storage call throws.  Inside the try of executeExecution the catch runs  *)
(* onTaskFailed, even after the execution completed; before the try, or in    *)
(* the catch, the chain rejects and allSettled drops the rejection.           *)
InTry == {"scan", "unblock", "check", "iterDone", "groupDone"}
OutsideTry == {"start", "fail", "reach", "prune", "iterFail", "groupFail"}

StorageFault(id) ==
    /\ used < MaxDisturbances
    /\ thr[id].pc \in InTry \cup OutsideTry
    /\ Put(id, [NoThread EXCEPT !.pc = IF thr[id].pc \in InTry THEN "fail" ELSE "done"])
    /\ used' = used + 1
    /\ disturbed' = [disturbed EXCEPT ![id[1]] = @ \cup {"fault"}]
    /\ UNCHANGED <<rows, starters, cancel, retry, answered, cleared>>

Chain(id) ==
    \/ BodyStart(id) \/ BodyCompleted(id) \/ BodyFailed(id)
    \/ Scan(id) \/ Unblock(id) \/ LaunchReady(id) \/ BatchSettled(id)
    \/ Check(id) \/ IterationDone(id) \/ GroupDone(id)
    \/ Reach(id) \/ Prune(id) \/ IterationFail(id) \/ GroupFail(id)

-----------------------------------------------------------------------------
(* cancelGroup: the latest iteration, whatever its status; the rows of one    *)
(* read are cancelled one by one, then the iteration, then the group.         *)

Unfinished(n) == {t \in Tasks : exec[n][t] \in {"running", "ready", "blocked"}}

CancelRead ==
    /\ cancel.pc = "idle" /\ used < MaxDisturbances
    /\ \E n \in Iterations :
          /\ Latest(n)
          /\ cancel' = [pc |-> "rows", n |-> n, todo |-> Unfinished(n)]
          /\ disturbed' = [disturbed EXCEPT ![n] = @ \cup {"cancel"}]
    /\ used' = used + 1
    /\ UNCHANGED <<rows, thr, starters, retry, answered, cleared>>

CancelRow ==
    /\ cancel.pc = "rows"
    /\ \E t \in cancel.todo :
          /\ exec' = [exec EXCEPT ![cancel.n][t] = "cancelled"]
          /\ cancel' = [cancel EXCEPT !.todo = @ \ {t}]
    /\ UNCHANGED <<iter, group, live, claims, thr, starters, retry, used, answered, disturbed, cleared>>

CancelIteration ==
    /\ cancel.pc = "rows" /\ cancel.todo = {}
    /\ iter' = [iter EXCEPT ![cancel.n] = "cancelled"]
    /\ ClearClaims(cancel.n)
    /\ cancel' = [cancel EXCEPT !.pc = "group"]
    /\ UNCHANGED <<exec, group, live, thr, starters, retry, used, answered, disturbed>>

CancelGroup ==
    /\ cancel.pc = "group"
    /\ group' = "cancelled" /\ live' = FALSE
    /\ cancel' = NoCancel
    /\ UNCHANGED <<iter, exec, claims, thr, starters, retry, used, answered, disturbed, cleared>>

-----------------------------------------------------------------------------
(* retryTask: a failed execution of the latest iteration.                     *)

RetryRead(t) ==
    /\ retry.pc = "idle" /\ used < MaxDisturbances
    /\ \E n \in Iterations :
          /\ Latest(n) /\ exec[n][t] = "failed"
          /\ retry' = [pc |-> IF iter[n] = "failed" THEN "iter" ELSE "reset", n |-> n, task |-> t]
          /\ disturbed' = [disturbed EXCEPT ![n] = @ \cup {"retry"}]
    /\ used' = used + 1
    /\ UNCHANGED <<rows, thr, starters, cancel, answered, cleared>>

RetryIteration ==
    /\ retry.pc = "iter"
    /\ iter' = [iter EXCEPT ![retry.n] = "running"]
    /\ retry' = [retry EXCEPT !.pc = "group"]
    /\ UNCHANGED <<exec, group, live, claims, thr, starters, cancel, used, answered, disturbed, cleared>>

RetryGroup ==
    /\ retry.pc = "group"
    /\ group' = "running"
    /\ retry' = [retry EXCEPT !.pc = "reset"]
    /\ UNCHANGED <<iter, exec, live, claims, thr, starters, cancel, used, answered, disturbed, cleared>>

RetryReset ==
    /\ retry.pc = "reset"
    /\ live' = TRUE
    /\ claims' = [claims EXCEPT ![retry.n] = @ \ {retry.task}]
    /\ exec' = [exec EXCEPT ![retry.n][retry.task] = "ready"]
    /\ retry' = [retry EXCEPT !.pc = "launch"]
    /\ UNCHANGED <<iter, group, thr, starters, cancel, used, answered, disturbed, cleared>>

RetryLaunch ==
    /\ retry.pc = "launch"
    /\ IF retry.task \in claims[retry.n]
       THEN UNCHANGED <<claims, thr>>
       ELSE /\ CanLaunch(retry.n, {retry.task})
            /\ claims' = [claims EXCEPT ![retry.n] = @ \cup {retry.task}]
            /\ thr' = AfterLaunch(retry.n, {retry.task}, NoLauncher)
    /\ retry' = NoRetry
    /\ UNCHANGED <<iter, exec, group, live, starters, cancel, used, answered, disturbed, cleared>>

-----------------------------------------------------------------------------
StartStep(s) ==
    StartRead(s) \/ StartConflict(s) \/ StartCreate(s) \/ StartMark(s) \/ StartLaunch(s)
CancelStep == CancelRow \/ CancelIteration \/ CancelGroup
RetryStep == RetryIteration \/ RetryGroup \/ RetryReset \/ RetryLaunch

Next ==
    \/ \E s \in Starters : StartStep(s)
    \/ \E id \in Threads : Chain(id) \/ StorageFault(id)
    \/ CancelRead \/ CancelStep
    \/ \E t \in Tasks : RetryRead(t)
    \/ RetryStep

(* Promises are run to their end: a storage or model call resolves or throws  *)
(* (the call has an overall timeout), so every chain and every request that   *)
(* was begun goes on.  Nobody is obliged to start, cancel or retry, and a     *)
(* model answer may always be a failure.                                      *)
Fairness ==
    /\ \A id \in Threads : WF_vars(Chain(id))
    /\ \A s \in Starters :
          WF_vars(StartConflict(s) \/ StartCreate(s) \/ StartMark(s) \/ StartLaunch(s))
    /\ WF_vars(CancelStep) /\ WF_vars(RetryStep)

Spec == Init /\ [][Next]_vars
FairSpec == Spec /\ Fairness

-----------------------------------------------------------------------------
(* Properties                                                                 *)

TypeOK ==
    /\ iter \in [Iterations -> IterationStatus]
    /\ exec \in [Iterations -> [Tasks -> ExecutionStatus]]
    /\ group \in {"pending", "running", "completed", "failed", "cancelled"}
    /\ live \in BOOLEAN
    /\ claims \in [Iterations -> SUBSET Tasks]
    /\ thr \in [Threads -> [pc : ThreadPcs, todo : SUBSET Tasks, ready : SUBSET Tasks,
                            batch : SUBSET Threads, slots : 0 .. MaxConcurrent]]
    /\ starters \in [Starters -> [pc : {"idle", "create", "mark", "launch"},
                                  n : 0 .. MaxIterations]]
    /\ cancel \in [pc : {"idle", "rows", "group"}, n : 0 .. MaxIterations, todo : SUBSET Tasks]
    /\ retry \in [pc : {"idle", "iter", "group", "reset", "launch"}, n : 0 .. MaxIterations,
                  task : Tasks \cup {"none"}]
    /\ used \in 0 .. MaxDisturbances
    /\ answered \in [Iterations -> SUBSET Tasks]
    /\ disturbed \in [Iterations -> SUBSET Disturbances]
    /\ cleared \in SUBSET Iterations

(* An execution is launched only after each task it depends on has answered   *)
(* in the same iteration: whatever rows are overwritten by racing chains,     *)
(* cancels and retries, no task runs on the output of one that never ran.     *)
DependenciesAnsweredFirst ==
    \A id \in Threads : thr[id].pc # "none" => Deps[id[2]] \subseteq answered[id[1]]

(* ExecutionClaims: while an iteration has not been settled under its running *)
(* chains, an execution nobody retried is launched at most once, however many *)
(* completions unblock it.                                                    *)
LaunchedOnceUntilCleared ==
    \A n \in Iterations \ cleared : "retry" \notin disturbed[n] =>
        \A t \in Tasks : Cardinality(Launched(n, t)) <= 1

(* The doc of ExecutionClaims and of `claims`: each execution is launched     *)
(* exactly once, even when two completions race to unblock the same join.     *)
(* Not so when the claims are cleared in between (see the README).            *)
LaunchedOnce ==
    \A n \in Iterations : "retry" \notin disturbed[n] =>
        \A t \in Tasks : Cardinality(Launched(n, t)) <= 1

(* Two starts never leave two iterations of a group running: the guard and    *)
(* the unique iteration number together exclude it, unless a retry reopens    *)
(* an iteration.                                                              *)
OneRunningIteration ==
    \A m, n \in Iterations :
        iter[m] = "running" /\ iter[n] = "running" /\ m # n
        => "retry" \in disturbed[m] \cup disturbed[n]

(* An iteration left to its executions is completed only when every task has  *)
(* answered -- unless its claims were forgotten under a chain that was about  *)
(* to launch: then a join can fail, prune what follows it, run once more and  *)
(* complete, and the iteration completes without the pruned tasks.            *)
CompletedMeansAnswered ==
    \A n \in Iterations \ cleared :
        iter[n] = "completed" /\ disturbed[n] = {} => answered[n] = Tasks

(* A settled iteration that no cancel, retry or storage fault touches keeps   *)
(* its status: late completion checks and late failures do not rewrite it.    *)
SettledIsFinal ==
    [][\A n \in Iterations :
          iter[n] \notin {"none", "running"} /\ disturbed'[n] = {} /\ n \notin cleared
          => iter'[n] = iter[n]]_vars

(* Every iteration that runs stops running, unless a storage call threw or a  *)
(* row is left that no chain will take up: ready (not launched for want of    *)
(* slots, or overwritten by a late write), or failed in an iteration a retry  *)
(* reopened.                                                                  *)
Owned(n, t) == \E a \in 1 .. MaxLaunches : thr[<<n, t, a>>].pc \notin {"none", "done"}
Stranded(n) ==
    \/ "fault" \in disturbed[n]
    \/ \E t \in Tasks :
          /\ ~Owned(n, t)
          /\ \/ exec[n][t] = "ready"
             \/ exec[n][t] = "failed" /\ "retry" \in disturbed[n]
SettlesUnlessStranded ==
    \A n \in Iterations : iter[n] = "running" ~> (iter[n] # "running" \/ Stranded(n))

(* The header of startGroup: never a perpetual `running`.                     *)
EveryIterationSettles ==
    \A n \in Iterations : iter[n] = "running" ~> iter[n] # "running"
=============================================================================
