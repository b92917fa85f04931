---------------------------- MODULE ConsiliumLoop ----------------------------
(***************************************************************************)
(* The consilium loop controller and its poller                            *)
(* (server/services/consilium/consilium-loop-controller.ts), run by        *)
(* several server instances over one database.                             *)
(*                                                                         *)
(* Database: the loop rows, the recorded rounds and, for reviews run by    *)
(* the task orchestrator, the iterations of the loop's task group.  One    *)
(* action per storage call: casLoopState, claimRedrive and                 *)
(* claimReviewRedrive are atomic, updateLoop writes unconditionally.       *)
(*                                                                         *)
(* Instance: the registries of background coder and review runs, the       *)
(* inFlight lock set, the poller's tick and the operators' requests.       *)
(* A thread is one asynchronous method call; it keeps the row it read, and *)
(* other threads run between its awaits.  A crash loses all of it.         *)
(***************************************************************************)
EXTENDS LoopFSM

CONSTANTS
  Loops,             \* ids of loop rows
  GroupOf,           \* the task group of each loop
  Gated,             \* the loops created with reviewGate
  Created,           \* the loops that exist, pending, when the servers start
  Instances,         \* server processes that share the database
  Requests,          \* request handlers per instance, concurrent with the poller
  RunnerMode,        \* directReview.enabled: reviews run in process, not by the orchestrator
  Vbm,               \* verifyBeforeMerge
  AutoResume,        \* throttle.autoResume
  MaxAutoResume,     \* throttle.maxAutoResumeAttempts
  MaxRounds,         \* the loops' maxRounds
  MaxDevRuns,        \* MAX_CONCURRENT_DEV_HANDOFFS
  MaxReviewRedrives, \* reviewMaxRedrives
  Verdicts,          \* verdicts a review can end with
  GraceCovers,       \* no row ages past the re-drive grace while a side effect for it is alive
  Commands,          \* operator commands that occur
  MaxCommands,       \* how many of them
  Faults,            \* faults that occur
  MaxFaults          \* how many of them

ASSUME LoopAssumption ==
  /\ Loops # {} /\ GroupOf \in [Loops -> Nat]
  /\ Gated \subseteq Loops /\ Created \subseteq Loops
  /\ \A l, m \in Created : GroupOf[l] = GroupOf[m] => l = m
  /\ RunnerMode \in BOOLEAN /\ Vbm \in BOOLEAN /\ AutoResume \in BOOLEAN /\ GraceCovers \in BOOLEAN
  /\ MaxAutoResume \in Nat /\ MaxRounds \in Nat \ {0} /\ MaxDevRuns \in Nat /\ MaxReviewRedrives \in Nat
  /\ MaxCommands \in Nat /\ MaxFaults \in Nat
  /\ Verdicts \subseteq [conv : BOOLEAN, p0 : Nat]
  /\ "poller" \notin Requests

VARIABLES
  loop,     \* consilium_loops, one row per loop id
  rounds,   \* consilium_loop_rounds: the verdict recorded for a loop's round
  iters,    \* task_group_iterations of each group, in order of creation
  sdlc,     \* sdlcRuns of each instance: the coder run registered for a loop
  review,   \* reviewRuns of each instance
  stray,    \* coders alive at an instance without an entry, started by a command or not
  lock,     \* inFlight of each instance
  th,       \* the threads
  left      \* how many commands and faults are still to come

vars == <<loop, rounds, iters, sdlc, review, stray, lock, th, left>>
db == <<loop, rounds, iters>>
registry == <<sdlc, review, stray>>

Threads == Instances \X ({"poller"} \union Requests)
Pollers == Instances \X {"poller"}
Groups == {GroupOf[l] : l \in Loops}

NoVerdict == [conv |-> FALSE, p0 |-> -1]

(* How a close-out ends: without an error; with one, such as an            *)
(* integration conflict or a refused push, and then without a PR; or at a  *)
(* usage limit.                                                            *)
CoderResults == {"clean", "broken", "limited"}

(* iter is currentIterationNumber (0: null), phase throttledPhase, tries    *)
(* resumeAttempts, redrives the count of reviewRedrive, gate how the last   *)
(* close-out ended, and old says that updatedAt is behind the re-drive      *)
(* grace, or throttledUntil in the past.                                    *)
NoRow == [state |-> "none", round |-> 0, iter |-> 0, phase |-> "none", tries |-> 0,
          gate |-> "none", redrives |-> 0, old |-> FALSE]

(* A registry entry; round 0 stands for the absence of one. *)
NoCoder == [round |-> 0, done |-> FALSE, via |-> FALSE, res |-> "none"]
NoStray == [command \in BOOLEAN |-> 0]
NoReview == [round |-> 0, done |-> FALSE, res |-> "none", verdict |-> NoVerdict]

Idle == [pc |-> "idle", op |-> "none", on |-> CHOOSE l \in Loops : TRUE, row |-> NoRow,
         job |-> "none", held |-> FALSE, slot |-> FALSE]

Init ==
  /\ loop = [l \in Loops |-> IF l \in Created THEN [NoRow EXCEPT !.state = "pending"] ELSE NoRow]
  /\ rounds = [l \in Loops |-> {}]
  /\ iters = [g \in Groups |-> << >>]
  /\ sdlc = [i \in Instances |-> [l \in Loops |-> NoCoder]]
  /\ review = [i \in Instances |-> [l \in Loops |-> NoReview]]
  /\ stray = [i \in Instances |-> [l \in Loops |-> NoStray]]
  /\ lock = [i \in Instances |-> {}]
  /\ th = [t \in Threads |-> Idle]
  /\ left = [commands |-> MaxCommands, faults |-> MaxFaults]

Command(c) ==
  /\ c \in Commands /\ left.commands > 0
  /\ left' = [left EXCEPT !.commands = @ - 1]

Fault(f) ==
  /\ f \in Faults /\ left.faults > 0
  /\ left' = [left EXCEPT !.faults = @ - 1]

-----------------------------------------------------------------------------
(* The database.                                                           *)

ActiveInGroup(g) == {l \in Loops : GroupOf[l] = g /\ loop[l].state \in Active}

(* Mutant: the index is missing. *)
IndexedNowhere(g) == {}

(* The rows the partial unique index counts for a group.  Its predicate    *)
(* lists every terminal state except `stopped`.                            *)
Indexed(g) == {l \in Loops : GroupOf[l] = g /\ loop[l].state \in Active \union {"stopped"}}

(* Mutant: re-opening a loop resets its round. *)
MovedResetting(row, on, to, res) ==
  [row EXCEPT !.state = to, !.old = FALSE, !.round = IF on = "develop_requested" THEN 0 ELSE @]

(* The row a won compare-and-swap leaves: `reduce`'s extra columns for the *)
(* event, the close-out's outcome res, and a fresh updatedAt.              *)
Moved(row, on, to, res) ==
  [row EXCEPT !.state = to,
              !.old = FALSE,
              !.phase = CASE on = "review_throttled" -> "review"
                          [] on = "dev_limited" -> "develop"
                          [] on \in {"retry_review", "retry_develop"} -> "none"
                          [] OTHER -> @,
              !.tries = IF on \in {"retry_review", "retry_develop"} THEN 0 ELSE @,
              !.gate = IF on \in {"dev_clean", "dev_broken"} THEN res ELSE @]

(* Mutant: the update does not pin the expected state. *)
CasAlways(l, from) == TRUE

(* casLoopState: the row is written only while it is in state `from`. *)
CasWins(l, from) == loop[l].state = from
Cas(l, on, to, res) == loop' = [loop EXCEPT ![l] = Moved(@, on, to, res)]

(* Mutants: the claims do not pin the grace window. *)
ClaimsRedriveAnytime(l, row) ==
  loop[l].state = row.state /\ (row.state = "reviewing" => loop[l].iter = 0)
ClaimsStalledAnytime(l, row) ==
  loop[l].state = "reviewing" /\ loop[l].iter = row.iter

(* claimRedrive and claimReviewRedrive: the row is still the one the tick   *)
(* read, and still past the grace window; winning it ends that.             *)
ClaimsRedrive(l, row) ==
  /\ loop[l].state = row.state /\ loop[l].old
  /\ row.state = "reviewing" => loop[l].iter = 0
ClaimsStalled(l, row) ==
  loop[l].state = "reviewing" /\ loop[l].iter = row.iter /\ loop[l].old

(* The last iteration decides whether startGroupAsync may create another. *)
GroupBusy(g) == iters[g] # << >> /\ iters[g][Len(iters[g])].status = "running"

(* appendLoopRound: a second row for the round is a no-op.  An audit write *)
(* that fails otherwise is swallowed.                                      *)
Recorded(l, r) == \E x \in rounds[l] : x.round = r
VerdictOf(l, r) == (CHOOSE x \in rounds[l] : x.round = r).verdict
RecordRound(l, r, v) ==
  rounds' = IF Recorded(l, r) THEN rounds
            ELSE [rounds EXCEPT ![l] = @ \union {[round |-> r, verdict |-> v]}]
Audit(l, r, v) ==
  \/ RecordRound(l, r, v) /\ UNCHANGED left
  \/ ~Recorded(l, r) /\ Fault("auditLoss") /\ UNCHANGED rounds

(* The convergence verdict of the row's round: the recorded one when the   *)
(* runner reviewed it, the one of the row's iteration otherwise.           *)
Resolve(l, row) ==
  IF row.iter = 0
    THEN IF RunnerMode /\ Recorded(l, row.round) THEN VerdictOf(l, row.round) ELSE NoVerdict
    ELSE iters[GroupOf[l]][row.iter].verdict

(* The verdict of a hand-off: its action points, to be implemented. *)
Unconverged(v) == [conv |-> FALSE, p0 |-> v.p0]

(* The open P0s of the rounds recorded before r, oldest first, and v's. *)
Series(l, r, v) ==
  LET earlier == {x \in rounds[l] : x.round < r}
      nth(k) == CHOOSE x \in earlier : Cardinality({y \in earlier : y.round <= x.round}) = k
  IN  Append([k \in 1..Cardinality(earlier) |-> nth(k).verdict.p0], v.p0)

-----------------------------------------------------------------------------
(* The threads of an instance.                                             *)

Goto(t, pc) == th' = [th EXCEPT ![t].pc = pc]

(* The thread goes on with the row it won and the side effect job. *)
Run(t, pc, job) ==
  th' = [th EXCEPT ![t] = [@ EXCEPT !.pc = pc, !.job = job, !.row = loop'[th[t].on]]]

(* Mutant: the lock entry is never deleted. *)
ReturnLocked(t) == th' = [th EXCEPT ![t] = Idle] /\ UNCHANGED lock

(* A method returns; its `finally` deletes the lock entry and the          *)
(* reservation it took.                                                    *)
Return(t) ==
  /\ th' = [th EXCEPT ![t] = Idle]
  /\ lock' = IF th[t].held THEN [lock EXCEPT ![t[1]] = @ \ {th[t].on}] ELSE lock

Call(t, op, l, pc) ==
  th' = [th EXCEPT ![t] = [Idle EXCEPT !.pc = pc, !.op = op, !.on = l, !.row = loop[l]]]

At(t, pc) == th[t].pc = pc

(* Mutant: inFlight is not consulted. *)
LockedNever(i, l) == FALSE

Locked(i, l) == l \in lock[i]


ReleaseForResume(t) == lock' = [lock EXCEPT ![t[1]] = @ \ {th[t].on}]

(* inFlightDevCommandCount and devCommandReservations *)
CommandRuns(i) == {l \in Loops : sdlc[i][l].round > 0 /\ sdlc[i][l].via /\ ~sdlc[i][l].done}
Reservations(i) == {t \in Threads : t[1] = i /\ th[t].slot}

(* Mutant: a claim that has not registered its run yet is not counted. *)
DevBusyUnreserved(i) == Cardinality(CommandRuns(i)) >= MaxDevRuns

DevBusy(i) == Cardinality(CommandRuns(i)) + Cardinality(Reservations(i)) >= MaxDevRuns

Live(run) == run.round > 0 /\ ~run.done

(* Deleting or replacing an entry does not stop the coder behind it. *)
SetCoder(i, l, run) ==
  /\ sdlc' = [sdlc EXCEPT ![i][l] = run]
  /\ stray' = IF Live(sdlc[i][l]) THEN [stray EXCEPT ![i][l][sdlc[i][l].via] = @ + 1] ELSE stray
DropCoder(i, l) == SetCoder(i, l, NoCoder)

RegisterCoder(t) ==
  SetCoder(t[1], th[t].on, [NoCoder EXCEPT !.round = th[t].row.round, !.via = th[t].op # "tick"])

(* Mutant: the settled entry stays. *)
DropReviewNever(i, l) == UNCHANGED review

DropReview(i, l) == review' = [review EXCEPT ![i][l] = NoReview]

StrayCoders(i, l) == stray[i][l][TRUE] + stray[i][l][FALSE]

-----------------------------------------------------------------------------
(* tick: what it derives from the row it read and the local registries.    *)

(* A run registered here for the row's round. *)
OwnReview(i, l, row) == row.round > 0 /\ review[i][l].round = row.round
OwnCoder(i, l, row) == row.round > 0 /\ sdlc[i][l].round = row.round

Stranded(i, l, row) ==
  \/ row.state = "reviewing" /\ row.iter = 0 /\ ~OwnReview(i, l, row)
  \/ row.state = "developing" /\ ~OwnCoder(i, l, row)

(* Mutant: a failed iteration is not settled. *)
ReviewEventUnfailing(i, l, row) ==
  IF OwnReview(i, l, row) THEN IF review[i][l].done THEN "review_completed" ELSE "none"
  ELSE IF row.iter > 0 /\ iters[GroupOf[l]][row.iter].status = "completed" THEN "review_completed" ELSE "none"

ReviewEvent(i, l, row) ==
  IF OwnReview(i, l, row)
    THEN IF ~review[i][l].done THEN "none"
         ELSE CASE review[i][l].res = "limited" -> "review_throttled"
                [] review[i][l].res = "error" -> "review_failed"
                [] OTHER -> "review_completed"
    ELSE IF row.iter = 0 THEN "none"
         ELSE CASE iters[GroupOf[l]][row.iter].status = "completed" -> "review_completed"
                [] iters[GroupOf[l]][row.iter].status = "running" -> "none"
                [] OTHER -> "review_failed"

(* Mutant: a run in flight is taken for one without a PR. *)
DevEventEarly(i, l, row) ==
  IF ~OwnCoder(i, l, row) THEN "none"
  ELSE CASE sdlc[i][l].res = "limited" -> "dev_limited"
         [] sdlc[i][l].res = "clean" -> "dev_clean"
         [] OTHER -> "dev_broken"

DevEvent(i, l, row) ==
  IF ~OwnCoder(i, l, row) \/ ~sdlc[i][l].done THEN "none"
  ELSE CASE sdlc[i][l].res = "limited" -> "dev_limited"
         [] sdlc[i][l].res = "clean" -> "dev_clean"
         [] OTHER -> "dev_broken"

Event(i, l, row) ==
  CASE row.state = "pending" -> "start"
    [] row.state = "building_context" -> "context_built"
    [] row.state = "reviewing" -> ReviewEvent(i, l, row)
    [] row.state = "deciding" -> IF Resolve(l, row) = NoVerdict THEN "none" ELSE "decided"
    [] row.state = "developing" -> DevEvent(i, l, row)
    [] OTHER -> "none"

(* Mutant: a state that the row's column does not have. *)
DecideToCapped(l, row) == IF row.round >= MaxRounds THEN "capped" ELSE "developing"

(* The cap outranks `decide`, except for a converged verdict. *)
DecideTo(l, row) ==
  LET v == Resolve(l, row)
  IN  IF ~v.conv /\ row.round >= MaxRounds THEN "stopped_cap"
      ELSE Decide(v, Series(l, row.round, v), Vbm)

-----------------------------------------------------------------------------
(* The poller.                                                             *)

Tick(t, l) ==
  /\ At(t, "idle")
  /\ ~Locked(t[1], l)
  /\ lock' = [lock EXCEPT ![t[1]] = @ \union {l}]
  /\ th' = [th EXCEPT ![t] = [Idle EXCEPT !.pc = "tick", !.op = "tick", !.on = l,
                                         !.row = loop[l], !.held = TRUE]]
  /\ UNCHANGED <<db, registry>>

(* A sweep ticks every non-terminal loop, one after the other. *)
Sweep(t, l) ==
  /\ t \in Pollers /\ loop[l].state \in Active
  /\ Tick(t, l) /\ UNCHANGED left

(* redriveStranded: a state claimed before its child ref was written, past *)
(* the grace window and with no run registered here, is claimed again.     *)
Redrive(t) ==
  LET l == th[t].on  row == th[t].row  i == t[1] IN
  /\ At(t, "tick") /\ Stranded(i, l, row) /\ row.old
  /\ IF ClaimsRedrive(l, row)
       THEN /\ loop' = [loop EXCEPT ![l].old = FALSE]
            /\ IF row.state = "reviewing" THEN Run(t, "effect", "review") /\ UNCHANGED lock
               ELSE IF Resolve(l, loop[l]) = NoVerdict THEN Return(t)
               ELSE Run(t, "effect", "handoff") /\ UNCHANGED lock
       ELSE Return(t) /\ UNCHANGED loop
  /\ UNCHANGED <<rounds, iters, registry, left>>

(* The bounded auto-resume of a throttled loop past its deadline: count    *)
(* the attempt, release the lock entry and call retryThrottled.            *)
Resumable(row) == AutoResume /\ row.state = "throttled" /\ row.old /\ row.tries < MaxAutoResume

AutoRetry(t) ==
  LET l == th[t].on  row == th[t].row IN
  /\ At(t, "tick") /\ Resumable(row)
  /\ IF CasWins(l, "throttled")
       THEN /\ loop' = [loop EXCEPT ![l].tries = row.tries + 1]
            /\ ReleaseForResume(t)
            /\ Goto(t, "resume")
       ELSE Return(t) /\ UNCHANGED loop
  /\ UNCHANGED <<rounds, iters, registry, left>>

(* What runs on the winner of a tick's compare-and-swap. *)
NextJob(t, on, to) ==
  IF to = "reviewing" THEN Run(t, "effect", "review") /\ UNCHANGED lock
  ELSE IF to = "developing" THEN Run(t, "effect", "handoff") /\ UNCHANGED lock
  ELSE IF th[t].row.state = "reviewing" /\ RunnerMode THEN Run(t, "effect", "settled") /\ UNCHANGED lock
  ELSE IF on = "decided" THEN Run(t, "effect", "audit") /\ UNCHANGED lock
  ELSE IF on = "dev_clean" /\ Vbm THEN Run(t, "touch", "none") /\ UNCHANGED lock
  ELSE Return(t)

(* An event other than `decided` moves the loop along the table. *)
TickAdvance(t) ==
  LET l == th[t].on  row == th[t].row  i == t[1]  on == Event(i, l, row) IN
  /\ At(t, "tick")
  /\ \E to \in Reduce(row.state, on, Vbm, FALSE) :
       /\ on # "decided"
       /\ IF CasWins(l, row.state)
            THEN /\ Cas(l, on, to, sdlc[i][l].res)
                 /\ IF to = "awaiting_merge" THEN DropCoder(i, l) ELSE UNCHANGED <<sdlc, stray>>
                 /\ NextJob(t, on, to)
            ELSE Return(t) /\ UNCHANGED <<loop, sdlc, stray>>
  /\ UNCHANGED <<rounds, iters, review, left>>

(* Mutant: the gate does not hold. *)
RestsNever(l, to) == FALSE

RestsAtGate(l, to) == l \in Gated /\ to = "developing"

(* A verdict is decided.  A gated loop records the round and rests instead *)
(* of going to developing.                                                 *)
TickDecide(t) ==
  LET l == th[t].on  row == th[t].row  i == t[1]  to == DecideTo(l, row) IN
  /\ At(t, "tick") /\ Event(i, l, row) = "decided"
  /\ IF RestsAtGate(l, to)
       THEN Audit(l, row.round, Resolve(l, row)) /\ Return(t) /\ UNCHANGED <<loop, sdlc, stray>>
       ELSE /\ UNCHANGED <<rounds, left>>
            /\ IF CasWins(l, "deciding")
                 THEN /\ Cas(l, "decided", to, "none")
                      /\ IF to = "awaiting_merge" THEN DropCoder(i, l) ELSE UNCHANGED <<sdlc, stray>>
                      /\ NextJob(t, "decided", to)
                 ELSE Return(t) /\ UNCHANGED <<loop, sdlc, stray>>
  /\ UNCHANGED <<iters, review>>

(* recoverStalledReview claims a review whose iteration shows no activity. *)
ClaimStalled(t) ==
  LET l == th[t].on  row == th[t].row IN
  /\ At(t, "tick") /\ row.state = "reviewing" /\ row.iter > 0 /\ row.old
  /\ Event(t[1], l, row) = "none"
  /\ IF ClaimsStalled(l, row)
       THEN loop' = [loop EXCEPT ![l].old = FALSE] /\ Run(t, "claimed", "none") /\ UNCHANGED lock
       ELSE Return(t) /\ UNCHANGED loop
  /\ UNCHANGED <<rounds, iters, registry, left>>

(* Nothing to do yet. *)
TickNothing(t) ==
  LET l == th[t].on  row == th[t].row IN
  /\ At(t, "tick") /\ Event(t[1], l, row) = "none"
  /\ ~(Stranded(t[1], l, row) /\ row.old)
  /\ ~(row.state = "reviewing" /\ row.iter > 0 /\ row.old) /\ ~Resumable(row)
  /\ Return(t)
  /\ UNCHANGED <<db, registry, left>>

(* The claimed stall: the iteration settled after all; the re-launch       *)
(* budget is spent; or the orphan is superseded, its ref first.            *)
Supersede(t) ==
  LET l == th[t].on  row == th[t].row IN
  /\ At(t, "claimed")
  /\ \/ /\ iters[GroupOf[l]][row.iter].status # "running"
        /\ Return(t) /\ UNCHANGED loop
     \/ /\ iters[GroupOf[l]][row.iter].status = "running"
        /\ row.redrives >= MaxReviewRedrives
        /\ IF CasWins(l, "reviewing") THEN Cas(l, "review_failed", "failed", "none") ELSE UNCHANGED loop
        /\ Return(t)
     \/ /\ iters[GroupOf[l]][row.iter].status = "running"
        /\ row.redrives < MaxReviewRedrives
        /\ loop' = [loop EXCEPT ![l].iter = 0, ![l].old = FALSE]
        /\ Goto(t, "orphan") /\ UNCHANGED lock
  /\ UNCHANGED <<rounds, iters, registry, left>>

CancelOrphan(t) ==
  LET l == th[t].on  row == th[t].row IN
  /\ At(t, "orphan")
  /\ iters' = [iters EXCEPT ![GroupOf[l]][row.iter].status = "cancelled"]
  /\ th' = [th EXCEPT ![t] = [@ EXCEPT !.pc = "effect", !.job = "relaunch",
                                      !.row = [row EXCEPT !.redrives = row.redrives + 1]]]
  /\ UNCHANGED <<loop, rounds, registry, lock, left>>

-----------------------------------------------------------------------------
(* The side effects that follow a won claim.                               *)

(* Mutant: only the first entry takes the next round. *)
NextRoundOnce(t) == 1

(* A re-launch and a resume keep the round; every other entry takes the    *)
(* next one.                                                               *)
NextRound(t) == IF th[t].job = "relaunch" THEN th[t].row.round ELSE th[t].row.round + 1

(* The thread will write this round and child ref with updateLoop. *)
Dispatched(t, iter) ==
  LET old == th[t].row
      row == [old EXCEPT !.round = NextRound(t), !.iter = iter,
                         !.redrives = IF th[t].job = "relaunch" THEN old.redrives ELSE 0]
  IN  th' = [th EXCEPT ![t] = [@ EXCEPT !.pc = "write", !.row = row]]

(* failUnresolvedReview: the diff's ref cannot be resolved. *)
UnresolvedRef(t) ==
  LET l == th[t].on IN
  /\ Fault("badRef")
  /\ IF CasWins(l, "reviewing") THEN Cas(l, "review_failed", "failed", "none") ELSE UNCHANGED loop
  /\ Return(t)
  /\ UNCHANGED <<iters, review>>

(* startReviewRound by the runner: register the run, then start it. *)
DispatchReview(t) ==
  /\ RunnerMode
  /\ review' = [review EXCEPT ![t[1]][th[t].on] = [NoReview EXCEPT !.round = NextRound(t)]]
  /\ Dispatched(t, 0)
  /\ UNCHANGED <<loop, iters, lock, left>>

(* startReviewRound by the orchestrator: a diff that cannot be built is    *)
(* recorded and returned, a group whose iteration still runs throws, and   *)
(* otherwise an iteration is created.                                      *)
StartIteration(t) ==
  LET g == GroupOf[th[t].on] IN
  /\ ~RunnerMode /\ UNCHANGED <<loop, review>>
  /\ \/ Fault("gitError") /\ Goto(t, "touch") /\ UNCHANGED <<iters, lock>>
     \/ GroupBusy(g) /\ Return(t) /\ UNCHANGED <<iters, left>>
     \/ /\ ~GroupBusy(g)
        /\ iters' = [iters EXCEPT ![g] = Append(@, [status |-> "running", worker |-> {t[1]},
                                                   verdict |-> NoVerdict])]
        /\ Dispatched(t, Len(iters[g]) + 1)
        /\ UNCHANGED <<lock, left>>

StartReviewRound(t) ==
  /\ At(t, "effect") /\ th[t].job \in {"review", "relaunch"}
  /\ UnresolvedRef(t) \/ DispatchReview(t) \/ StartIteration(t)
  /\ UNCHANGED <<rounds, sdlc, stray>>

(* A settled runner review: the round is recorded and the entry dropped. *)
SettleReviewing(t) ==
  LET l == th[t].on  i == t[1]  run == review[i][l] IN
  /\ At(t, "effect") /\ th[t].job = "settled"
  /\ IF OwnReview(i, l, th[t].row) /\ run.done
       THEN /\ IF th[t].row.state = "deciding" THEN Audit(l, th[t].row.round, run.verdict)
               ELSE UNCHANGED <<rounds, left>>
            /\ DropReview(i, l)
       ELSE UNCHANGED <<rounds, left, review>>
  /\ Return(t)
  /\ UNCHANGED <<loop, iters, sdlc, stray>>

(* A terminal exit and the ship gate leave deciding without developing. *)
AuditDecision(t) ==
  /\ At(t, "effect") /\ th[t].job = "audit"
  /\ Audit(th[t].on, th[t].row.round, Resolve(th[t].on, th[t].row))
  /\ Return(t)
  /\ UNCHANGED <<loop, iters, registry>>

(* startDevHandoff: record the round, wait for the planner, then register  *)
(* and start a coder.                                                      *)
StartDevHandoff(t) ==
  /\ At(t, "effect") /\ th[t].job = "handoff"
  /\ Audit(th[t].on, th[t].row.round, Unconverged(Resolve(th[t].on, th[t].row)))
  /\ Goto(t, "plan")
  /\ UNCHANGED <<loop, iters, registry, lock>>

DispatchSdlc(t) ==
  /\ At(t, "plan")
  /\ RegisterCoder(t)
  /\ Goto(t, "touch")
  /\ UNCHANGED <<db, review, lock, left>>

(* The unconditional updateLoop at the end of a command or tick. *)
WriteRound(t) ==
  LET l == th[t].on  row == th[t].row IN
  /\ At(t, "write")
  /\ loop' = [loop EXCEPT ![l] = [@ EXCEPT !.round = row.round, !.iter = row.iter,
                                          !.redrives = row.redrives, !.old = FALSE]]
  /\ Return(t)
  /\ UNCHANGED <<rounds, iters, registry, left>>

Touch(t) ==
  /\ At(t, "touch")
  /\ loop' = [loop EXCEPT ![th[t].on].old = FALSE]
  /\ Return(t)
  /\ UNCHANGED <<rounds, iters, registry, left>>

-----------------------------------------------------------------------------
(* The operators' commands.                                                *)

CreateAdmitted(l) == ActiveInGroup(GroupOf[l]) = {}

CreateRead(t, l) ==
  /\ At(t, "idle") /\ loop[l].state = "none" /\ CreateAdmitted(l)
  /\ Command("create")
  /\ Call(t, "create", l, "create")
  /\ UNCHANGED <<db, registry, lock>>

(* createLoop: the partial unique index rejects a second active row. *)
CreateInsert(t) ==
  LET l == th[t].on IN
  /\ At(t, "create")
  /\ loop' = IF Indexed(GroupOf[l]) = {} /\ loop[l].state = "none"
               THEN [loop EXCEPT ![l].state = "pending"] ELSE loop
  /\ Return(t)
  /\ UNCHANGED <<rounds, iters, registry, left>>

(* start is a tick of a pending loop that does not wait for the poller. *)
Start(t, l) ==
  /\ loop[l].state = "pending" /\ Command("start")
  /\ Tick(t, l)

(* develop: the guards that come before any side effect.  The verdict must *)
(* be readable and no loop of the group may be active, this one included.  *)
DevelopAdmitted(l) ==
  /\ loop[l].state \in DevelopPromotable(l \in Gated)
  /\ Resolve(l, loop[l]) # NoVerdict
  /\ ActiveInGroup(GroupOf[l]) = {}

DevelopRead(t, l) ==
  /\ At(t, "idle") /\ DevelopAdmitted(l)
  /\ Command("develop")
  /\ Call(t, "develop", l, "develop")
  /\ UNCHANGED <<db, registry, lock>>

(* develop and the resume of a throttled develop phase: the cap is checked *)
(* and a slot reserved, the lock taken, and the loop claimed.  Moving a    *)
(* terminal row back makes the database check the unique index again.      *)
ClaimDevelop(t, on) ==
  LET l == th[t].on  i == t[1] IN
  IF DevBusy(i) \/ Locked(i, l) THEN Return(t) /\ UNCHANGED loop
  ELSE IF CasWins(l, th[t].row.state) /\ Indexed(GroupOf[l]) \subseteq {l}
    THEN /\ Cas(l, on, "developing", "none")
         /\ lock' = [lock EXCEPT ![i] = @ \union {l}]
         /\ th' = [th EXCEPT ![t] = [@ EXCEPT !.pc = "effect", !.job = "handoff", !.row = loop'[l],
                                             !.held = TRUE, !.slot = TRUE]]
    ELSE Return(t) /\ UNCHANGED loop

Develop(t) ==
  /\ At(t, "develop")
  /\ ClaimDevelop(t, "develop_requested")
  /\ UNCHANGED <<rounds, iters, registry, left>>

(* retryThrottled, by an operator or by the auto-resume of a tick. *)
RetryRead(t, l) ==
  /\ At(t, "idle") /\ loop[l].state = "throttled"
  /\ Command("retry")
  /\ Call(t, "retry", l, "retry")
  /\ UNCHANGED <<db, registry, lock>>

ResumeRead(t) ==
  LET l == th[t].on IN
  /\ At(t, "resume")
  /\ IF loop[l].state = "throttled"
       THEN th' = [th EXCEPT ![t] = [@ EXCEPT !.pc = "retry", !.op = "retry", !.row = loop[l]]] /\ UNCHANGED lock
       ELSE Return(t)
  /\ UNCHANGED <<db, registry, left>>

RetryDevelop(t) ==
  /\ At(t, "retry") /\ th[t].row.phase = "develop"
  /\ IF Resolve(th[t].on, th[t].row) = NoVerdict THEN Return(t) /\ UNCHANGED loop
     ELSE ClaimDevelop(t, "retry_develop")
  /\ UNCHANGED <<rounds, iters, registry, left>>

(* The first compare-and-swap of a re-review and of a review's resume. *)
ClaimReview(t, on, job) ==
  LET l == th[t].on  i == t[1] IN
  IF Locked(i, l) \/ ~CasWins(l, th[t].row.state) THEN Return(t) /\ UNCHANGED loop
  ELSE /\ Cas(l, on, "building_context", "none")
       /\ lock' = [lock EXCEPT ![i] = @ \union {l}]
       /\ th' = [th EXCEPT ![t] = [@ EXCEPT !.pc = "reenter", !.job = job, !.row = loop'[l], !.held = TRUE]]

RetryReview(t) ==
  /\ At(t, "retry") /\ th[t].row.phase = "review"
  /\ ClaimReview(t, "retry_review", "relaunch")
  /\ UNCHANGED <<rounds, iters, registry, left>>

(* Mutant: the round cap is not checked. *)
ReReviewReadUncapped(t, l) ==
  /\ At(t, "idle") /\ l \in Gated /\ loop[l].state = "deciding"
  /\ Command("rereview")
  /\ Call(t, "rereview", l, "rereview")
  /\ UNCHANGED <<db, registry, lock>>

ReReviewRead(t, l) ==
  /\ At(t, "idle") /\ l \in Gated /\ loop[l].state = "deciding" /\ loop[l].round < MaxRounds
  /\ Command("rereview")
  /\ Call(t, "rereview", l, "rereview")
  /\ UNCHANGED <<db, registry, lock>>

ReReview(t) ==
  /\ At(t, "rereview")
  /\ ClaimReview(t, "rereview_requested", "review")
  /\ UNCHANGED <<rounds, iters, registry, left>>

Reenter(t) ==
  LET l == th[t].on IN
  /\ At(t, "reenter")
  /\ IF CasWins(l, "building_context")
       THEN /\ Cas(l, "context_built", "reviewing", "none")
            /\ Run(t, "effect", th[t].job) /\ UNCHANGED lock
       ELSE Return(t) /\ UNCHANGED loop
  /\ UNCHANGED <<rounds, iters, registry, left>>

(* The merge gate; the route refuses a gate without a PR. *)
MergeRead(t, l) ==
  /\ At(t, "idle") /\ loop[l].state = "awaiting_merge" /\ loop[l].gate # "broken"
  /\ Command("merge")
  /\ Call(t, "merge", l, "merge")
  /\ UNCHANGED <<db, registry, lock>>

OnMergeApproved(t) ==
  LET l == th[t].on IN
  /\ At(t, "merge")
  /\ IF CasWins(l, "awaiting_merge")
       THEN \E to \in Reduce("awaiting_merge", "merge_approved", Vbm, FALSE) :
              Cas(l, "merge_approved", to, "none")
       ELSE UNCHANGED loop
  /\ Return(t)
  /\ UNCHANGED <<rounds, iters, registry, left>>

(* cancel and stop: the group's last iteration is cancelled, the coder's   *)
(* handle dropped and only then the state the method first read swapped.   *)
AbortRead(t, l) ==
  /\ At(t, "idle") /\ loop[l].state \in Active
  /\ \E op \in {"cancel", "finish"} : Command(op) /\ Call(t, op, l, "abort")
  /\ UNCHANGED <<db, registry, lock>>

AbortGroup(t) ==
  LET g == GroupOf[th[t].on]  n == Len(iters[g]) IN
  /\ At(t, "abort")
  /\ iters' = IF n = 0 THEN iters ELSE [iters EXCEPT ![g][n].status = "cancelled"]
  /\ Goto(t, "aborted")
  /\ UNCHANGED <<loop, rounds, registry, lock, left>>

AbortCommit(t) ==
  LET l == th[t].on  from == th[t].row.state IN
  /\ At(t, "aborted")
  /\ DropCoder(t[1], l)
  /\ IF CasWins(l, from)
       THEN \E to \in Reduce(from, th[t].op, Vbm, FALSE) : Cas(l, th[t].op, to, "none")
       ELSE UNCHANGED loop
  /\ Return(t)
  /\ UNCHANGED <<rounds, iters, review, left>>

-----------------------------------------------------------------------------
(* The background runs, time and crashes.                                  *)

(* The coder registered for l ends. *)
CoderSettle(i, l) ==
  /\ Live(sdlc[i][l])
  /\ \E res \in CoderResults :
       /\ IF res = "clean" THEN UNCHANGED left ELSE Fault(res)
       /\ sdlc' = [sdlc EXCEPT ![i][l].done = TRUE, ![i][l].res = res]
  /\ UNCHANGED <<db, review, stray, lock, th>>

(* A coder without an entry settles a run nobody reads. *)
StraySettle(i, l) ==
  /\ \E command \in BOOLEAN :
       /\ stray[i][l][command] > 0
       /\ stray' = [stray EXCEPT ![i][l][command] = @ - 1]
  /\ UNCHANGED <<db, sdlc, review, lock, th, left>>

ReviewSettle(i, l) ==
  /\ Live(review[i][l])
  /\ \/ /\ UNCHANGED left
        /\ \E v \in Verdicts :
             review' = [review EXCEPT ![i][l].done = TRUE, ![i][l].res = "verdict", ![i][l].verdict = v]
     \/ \E res \in {"error", "limited"} :
           /\ Fault(res)
           /\ review' = [review EXCEPT ![i][l].done = TRUE, ![i][l].res = res]
  /\ UNCHANGED <<db, sdlc, stray, lock, th>>

(* The orchestrator settles an iteration whose worker lives, even one that *)
(* was cancelled under it.                                                 *)
IterationSettle(g, n) ==
  /\ n \in 1..Len(iters[g]) /\ iters[g][n].worker # {}
  /\ \/ /\ UNCHANGED left
        /\ \E v \in Verdicts :
             iters' = [iters EXCEPT ![g][n] = [status |-> "completed", worker |-> {}, verdict |-> v]]
     \/ /\ Fault("error")
        /\ iters' = [iters EXCEPT ![g][n].status = "failed", ![g][n].worker = {}]
  /\ UNCHANGED <<loop, rounds, registry, lock, th>>

(* Somebody still works for the loop: a thread between its claim and its   *)
(* write, a run registered for the row's round or a coder that heartbeats, *)
(* an iteration that is not a dead worker's.                               *)
Attended(l) ==
  \/ \E t \in Threads : /\ th[t].on = l
                        /\ th[t].pc \in {"effect", "plan", "write", "touch", "reenter", "claimed", "orphan"}
  \/ \E i \in Instances : OwnCoder(i, l, loop[l]) \/ StrayCoders(i, l) > 0 \/ OwnReview(i, l, loop[l])
  \/ /\ loop[l].state = "reviewing" /\ loop[l].iter > 0
     /\ \/ iters[GroupOf[l]][loop[l].iter].worker # {}
        \/ iters[GroupOf[l]][loop[l].iter].status # "running"

(* updatedAt falls behind the grace window, or a throttled loop's deadline *)
(* passes.                                                                 *)
Age(l) ==
  /\ loop[l].state \in {"reviewing", "developing", "throttled"} /\ ~loop[l].old
  /\ GraceCovers /\ loop[l].state # "throttled" => ~Attended(l)
  /\ loop' = [loop EXCEPT ![l].old = TRUE]
  /\ UNCHANGED <<rounds, iters, registry, lock, th, left>>

(* The process dies and comes back: threads, locks, registries, coders and *)
(* the workers of its iterations are gone.                                 *)
Crash(i) ==
  /\ Fault("crash")
  /\ sdlc' = [sdlc EXCEPT ![i] = [l \in Loops |-> NoCoder]]
  /\ review' = [review EXCEPT ![i] = [l \in Loops |-> NoReview]]
  /\ stray' = [stray EXCEPT ![i] = [l \in Loops |-> NoStray]]
  /\ lock' = [lock EXCEPT ![i] = {}]
  /\ th' = [t \in Threads |-> IF t[1] = i THEN Idle ELSE th[t]]
  /\ iters' = [g \in Groups |-> [n \in DOMAIN iters[g] |->
                                  [iters[g][n] EXCEPT !.worker = @ \ {i}]]]
  /\ UNCHANGED <<loop, rounds>>

-----------------------------------------------------------------------------

(* A step of a call in progress. *)
Continue(t) ==
  \/ Redrive(t) \/ AutoRetry(t) \/ TickAdvance(t) \/ TickDecide(t) \/ ClaimStalled(t) \/ TickNothing(t)
  \/ Supersede(t) \/ CancelOrphan(t)
  \/ StartReviewRound(t) \/ SettleReviewing(t) \/ AuditDecision(t) \/ StartDevHandoff(t)
  \/ DispatchSdlc(t) \/ WriteRound(t) \/ Touch(t)
  \/ CreateInsert(t) \/ Develop(t) \/ ResumeRead(t) \/ RetryDevelop(t) \/ RetryReview(t)
  \/ ReReview(t) \/ Reenter(t) \/ OnMergeApproved(t) \/ AbortGroup(t) \/ AbortCommit(t)

(* A request of an operator arrives. *)
Request(t, l) ==
  \/ CreateRead(t, l) \/ Start(t, l) \/ DevelopRead(t, l) \/ RetryRead(t, l) \/ ReReviewRead(t, l)
  \/ MergeRead(t, l) \/ AbortRead(t, l)

Background(i, l) == CoderSettle(i, l) \/ StraySettle(i, l) \/ ReviewSettle(i, l)

Next ==
  \/ \E t \in Threads : Continue(t)
  \/ \E t \in Threads, l \in Loops : Sweep(t, l)
  \/ \E t \in Threads \ Pollers, l \in Loops : Request(t, l)
  \/ \E i \in Instances, l \in Loops : Background(i, l)
  \/ \E g \in Groups : \E n \in 1..Len(iters[g]) : IterationSettle(g, n)
  \/ \E l \in Loops : Age(l)
  \/ \E i \in Instances : Crash(i)

Spec == Init /\ [][Next]_vars

(* The event loop resumes every call, the poller's timer fires for ever,   *)
(* every background run and iteration with a live worker ends, and time    *)
(* passes.                                                                 *)
Fairness ==
  /\ \A t \in Threads : WF_vars(Continue(t))
  /\ \A t \in Pollers, l \in Loops : SF_vars(Sweep(t, l))
  /\ \A i \in Instances, l \in Loops : WF_vars(Background(i, l))
  /\ \A g \in Groups : WF_vars(\E n \in 1..Len(iters[g]) : IterationSettle(g, n))
  /\ \A l \in Loops : WF_vars(Age(l))

FairSpec == Spec /\ Fairness

-----------------------------------------------------------------------------
(* Properties.                                                             *)

VerdictOrNone == [conv : BOOLEAN, p0 : Nat] \union {NoVerdict}

Row == [state : RowStates, round : Nat, iter : Nat, phase : {"none", "review", "develop"},
        tries : Nat, gate : CoderResults \union {"none"}, redrives : Nat, old : BOOLEAN]

Iteration == [status : {"running", "completed", "failed", "cancelled"},
              worker : SUBSET Instances, verdict : VerdictOrNone]

CoderRun == [round : Nat, done : BOOLEAN, via : BOOLEAN, res : CoderResults \union {"none"}]

ReviewRun == [round : Nat, done : BOOLEAN, res : {"none", "verdict", "error", "limited"},
              verdict : VerdictOrNone]

PCs == {"idle", "tick", "effect", "plan", "write", "touch", "claimed", "orphan", "resume",
        "create", "develop", "retry", "rereview", "reenter", "merge", "abort", "aborted"}

Ops == {"none", "tick", "create", "develop", "retry", "rereview", "merge", "cancel", "finish"}

Jobs == {"none", "review", "relaunch", "handoff", "settled", "audit"}

Thread == [pc : PCs, op : Ops, on : Loops, row : Row, job : Jobs, held : BOOLEAN, slot : BOOLEAN]

LoopsOK == loop \in [Loops -> Row]
RoundsOK == rounds \in [Loops -> SUBSET [round : Nat, verdict : VerdictOrNone]]
ItersOK == iters \in [Groups -> Seq(Iteration)]
RegistryOK ==
  /\ sdlc \in [Instances -> [Loops -> CoderRun]]
  /\ review \in [Instances -> [Loops -> ReviewRun]]
  /\ stray \in [Instances -> [Loops -> [BOOLEAN -> Nat]]]
ThreadsOK == lock \in [Instances -> SUBSET Loops] /\ th \in [Threads -> Thread]
LeftOK == left \in [commands : Nat, faults : Nat]

(* Each variable holds values of its table or registry, and a child ref    *)
(* names an iteration that exists.                                         *)
RefsOK ==
  /\ \A l \in Loops : loop[l].iter <= Len(iters[GroupOf[l]])
  /\ \A t \in Threads : th[t].row.iter <= Len(iters[GroupOf[th[t].on]])

TypeOK == LoopsOK /\ RoundsOK /\ ItersOK /\ RegistryOK /\ ThreadsOK /\ LeftOK /\ RefsOK

(* H-3: whatever create and develop race, a group never has two loops that *)
(* are not terminal.                                                       *)
OneActivePerGroup == \A l, m \in Loops :
  loop[l].state \in Active /\ loop[m].state \in Active /\ GroupOf[l] = GroupOf[m] => l = m

(* Terminal never transitions autonomously: the only way out is the        *)
(* develop command of an operator, from a state that carries a verdict.    *)
(* A tick, a resume or an abort that read the row earlier cannot do it.    *)
TerminalIsLeftByDevelop ==
  [][\A l \in Loops : loop[l].state \in Terminal /\ loop'[l].state # loop[l].state =>
       /\ loop'[l].state = "developing"
       /\ loop[l].state \in DevelopPromotable(FALSE)
       /\ \E t \in Threads : th[t].op = "develop" /\ th[t].on = l /\ th'[t].pc = "effect"]_vars

(* The close-out never double-fires: across all instances at most one      *)
(* coder works for a loop, whatever crashes, re-drives and aborts happen.  *)
Entered(l) == {i \in Instances : Live(sdlc[i][l])}
Abandoned(l) == {i \in Instances : StrayCoders(i, l) > 0}
OneCoderPerLoop == \A l \in Loops :
  /\ \A i, j \in Entered(l) \union Abandoned(l) : i = j
  /\ \A i \in Abandoned(l) : StrayCoders(i, l) = 1 /\ i \notin Entered(l)

(* A tick moves a loop out of developing only when no coder works for it:  *)
(* the result it consumes is that of the last coder started.               *)
DevelopingEndsAfterItsCoder ==
  [][\A l \in Loops : loop[l].state = "developing" /\ loop'[l].state \notin {"developing", "cancelled", "stopped"} =>
       Entered(l) = {}]_vars

(* A round is decided on once: a loop enters deciding with a round that    *)
(* has not been recorded, never with an earlier review's verdict.          *)
EachRoundDecidedOnce ==
  [][\A l \in Loops : loop[l].state = "reviewing" /\ loop'[l].state = "deciding" =>
       ~Recorded(l, loop'[l].round)]_vars

(* M-2: the cap binds the loop row's lifetime. *)
RoundWithinCap == \A l \in Loops : loop[l].round <= MaxRounds

(* M-2: the round only ever increments, one at a time, whichever instance  *)
(* writes it.                                                              *)
RoundOnlyIncrements ==
  [][\A l \in Loops : loop'[l].round \in {loop[l].round, loop[l].round + 1}]_vars

(* The side effects of a claim run on its winner only: across all          *)
(* instances one thread at a time starts a review or a coder for a loop.   *)
Dispatching(t) ==
  \/ At(t, "plan")
  \/ At(t, "effect") /\ th[t].job \in {"review", "relaunch", "handoff"}
OneDispatchPerLoop == \A s, t \in Threads :
  Dispatching(s) /\ Dispatching(t) /\ th[s].on = th[t].on => s = t

(* A superseded review is not decided on, even when its worker comes back: *)
(* a loop enters deciding with the latest iteration of its group.          *)
DecidesOnLatestReview ==
  [][\A l \in Loops : loop[l].state = "reviewing" /\ loop'[l].state = "deciding" =>
       loop'[l].iter = Len(iters[GroupOf[l]])]_vars

(* inFlight: at most one call per instance between the claim of a loop and *)
(* the end of its side effect.                                             *)
Holding(t, l) == th[t].on = l /\ th[t].pc \in {"tick", "effect", "plan", "write", "touch", "reenter", "claimed", "orphan"}
SingleFlight == \A s, t \in Threads, l \in Loops :
  s[1] = t[1] /\ Holding(s, l) /\ Holding(t, l) => s = t

(* R1: with any interleaving of commands, the coders of an instance that   *)
(* commands started and that the registry shows stay within the cap.       *)
DevRunsWithinCap == \A i \in Instances : Cardinality(CommandRuns(i)) <= MaxDevRuns

(* Two statements of comments that the code does not keep (README).  A     *)
(* review that hits its usage limit again and again is resumed at most     *)
(* MaxAutoResume times without an operator (:1925).                        *)
ResumesAreBounded == \A l \in Loops :
  loop[l].round = 1 /\ ~Recorded(l, 1) /\ Commands = {} /\ Faults = {"limited"}
  => MaxFaults - left.faults <= MaxAutoResume + 1

(* A gated loop that rests in deciding, alone in its group, can be         *)
(* promoted to developing by its operator (:1255).                         *)
GatedLoopIsPromotable == \A l \in Gated :
  /\ loop[l].state = "deciding" /\ Recorded(l, loop[l].round) /\ Resolve(l, loop[l]) # NoVerdict
  /\ ActiveInGroup(GroupOf[l]) = {l}
  => DevelopAdmitted(l)

(* With verifyBeforeMerge the human merge ships only what a confirmation   *)
(* review has converged on.                                                *)
ShippedWasConfirmed ==
  [][\A l \in Loops : Vbm /\ loop[l].state = "awaiting_merge" /\ loop'[l].state = "converged" =>
       Recorded(l, loop[l].round) /\ VerdictOf(l, loop[l].round).conv]_vars

(* The state column implements the lifecycle. *)
Lifecycle == INSTANCE LoopLifecycle WITH state <- [l \in Loops |-> loop[l].state]
LifecycleSpec == Lifecycle!Spec

(* A gated loop is developed because an operator asked for it: no decision *)
(* of a tick, however stale the row it read, starts a coder for it.        *)
GateHolds ==
  [][\A l \in Gated : loop[l].state # "developing" /\ loop'[l].state = "developing" =>
       \E t \in Threads : th[t].on = l /\ th[t].op \in {"develop", "retry"} /\ th'[t].slot]_vars


(* Every loop comes to rest: terminal, at a human gate, or paused by a     *)
(* limit.  Nothing the pollers, reviews and coders do leaves it half way.  *)
Resting(l) ==
  \/ loop[l].state \in Terminal \union {"none", "awaiting_merge", "throttled"}
  \/ l \in Gated /\ loop[l].state = "deciding" /\ Recorded(l, loop[l].round)
LoopsComeToRest == \A l \in Loops : ~Resting(l) ~> Resting(l)

=============================================================================
