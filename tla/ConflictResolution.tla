------------------------- MODULE ConflictResolution -------------------------
(* Disputes in a shared session (server/federation/conflict-resolution.ts):  *)
(* a conflict is raised with a strategy, collects proposals, votes, branch   *)
(* results or a judgement, and is closed by a quorum, a judge, its branches, *)
(* the owner or its timer.  A call is a thread that stops at each await of   *)
(* the storage sink; every conflict's timer is a thread too.  The service    *)
(* keeps a bounded number of conflicts and evicts the oldest.                *)
EXTENDS Naturals, FiniteSets, Sequences

CONSTANTS
    MaxConflicts,  \* conflicts that are raised, numbered in that order
    Capacity,      \* MAX_CONFLICTS_IN_MEMORY
    MaxProposals,  \* MAX_PROPOSALS_PER_CONFLICT
    Threshold,     \* quorumThreshold in percent
    Participants,  \* how many may vote
    Choices,       \* the strategies each conflict may be raised with
    Requests,      \* calls in progress at once
    SlowStorage,   \* there is a sink, and other calls run while it saves
    Observed,      \* somebody handles the promise of a raised conflict
    MaxFailures    \* saves that throw

Strategies == {"debate", "quorum", "experiment", "owner"}

ASSUME ConflictAssumption ==
    /\ Choices \in [1..MaxConflicts -> SUBSET Strategies]
    /\ MaxConflicts \in Nat /\ Capacity \in Nat \ {0} /\ MaxProposals \in Nat /\ Participants \in Nat
    /\ Threshold \in 1..100 /\ MaxFailures \in Nat
    /\ SlowStorage \in BOOLEAN /\ Observed \in BOOLEAN
    /\ Requests \cap (1..MaxConflicts) = {}

VARIABLES
    conflict,  \* the conflict objects
    memory,    \* the conflicts in the map
    listed,    \* those with an entry in the map of pending promises
    promise,   \* what became of the promise given to the raiser
    timer,     \* the timeout handle
    log,       \* the decision log, per conflict
    call,      \* the threads
    alive,     \* the server process
    failures   \* saves still to throw

vars == <<conflict, memory, listed, promise, timer, log, call, alive, failures>>

Conflicts == 1..MaxConflicts
Threads == Requests \cup Conflicts     \* a conflict's own thread is its timer
Proposals == 1..MaxProposals
None == 0                              \* no conflict, no proposal

(* decidedBy, told apart further by the reasoning that goes with it.  The    *)
(* winner is kept for votes only: the other ways take it from their caller.  *)
Outcomes == [by : {"nobody", "vote", "plurality", "judge", "branches", "force", "deferral"},
             winner : Proposals \cup {None}]
By(who, p) == [by |-> who, winner |-> p]
Undecided == By("nobody", None)        \* no outcome; in the log, an expiry

(* The statuses that say how an open conflict is argued are all "open".      *)
Unraised == [status |-> "unraised", strategy |-> "owner", proposals |-> 0,
             votes |-> <<>>, branches |-> <<>>, outcome |-> Undecided]
Open(c) == c \in memory /\ conflict[c].status = "open"

Places == {"idle", "raised", "voted", "answered", "resolving", "logging", "expiring", "expired"}

At(t, pc) == call[t].pc = pc
Goto(t, pc, c, out) == call' = [call EXCEPT ![t] = [pc |-> pc, on |-> c, out |-> out]]
Done(t) == Goto(t, "idle", None, Undecided)

(* Without a sink an await only yields to callbacks of the same call.        *)
Turn(t) ==
    /\ alive
    /\ SlowStorage \/ (\A u \in Threads \ {t} : At(u, "idle"))
Idle(r) == Turn(r) /\ At(r, "idle")

Init ==
    /\ conflict = [c \in Conflicts |-> Unraised]
    /\ memory = {} /\ listed = {}
    /\ promise = [c \in Conflicts |-> "none"]
    /\ timer = [c \in Conflicts |-> "unset"]
    /\ log = [c \in Conflicts |-> <<>>]
    /\ call = [t \in Threads |-> [pc |-> "idle", on |-> None, out |-> Undecided]]
    /\ alive = TRUE /\ failures = MaxFailures
-----------------------------------------------------------------------------
Cleared(c) == [timer EXCEPT ![c] = IF @ = "set" THEN "off" ELSE @]

Closed == {d \in memory : conflict[d].status \in {"resolved", "expired"}}
Oldest(D) == {c \in D : \A d \in D : c <= d}

(* Mutant: an eviction looks for closed conflicts only.                      *)
VictimsAmongClosed == IF Cardinality(memory) < Capacity THEN {None} ELSE Oldest(Closed) \cup {None}

(* enforceCapacityLimit: the oldest closed conflict goes, or else the oldest *)
(* with its promise's entry and its timer.                                   *)
Victims ==
    IF Cardinality(memory) < Capacity THEN {None}
    ELSE IF Closed # {} THEN Oldest(Closed) ELSE Oldest(memory)

(* raiseConflict up to the save.                                             *)
Raise(r, c, strategy) ==
    /\ Idle(r)
    /\ conflict[c].status = "unraised"
    /\ \A d \in Conflicts : d < c => conflict[d].status # "unraised"
    /\ conflict' = [conflict EXCEPT ![c] = [@ EXCEPT !.status = "open", !.strategy = strategy]]
    /\ \E v \in Victims :
           /\ memory' = (memory \ {v}) \cup {c}
           /\ listed' = IF v \in Closed THEN listed ELSE listed \ {v}
           /\ timer' = IF v = None \/ v \in Closed THEN timer ELSE Cleared(v)
    /\ Goto(r, "raised", c, Undecided)
    /\ UNCHANGED <<promise, log, alive, failures>>

(* The conflict object with its outcome.                                     *)
Decided(c, out) == [conflict EXCEPT ![c] = [@ EXCEPT !.status = "resolved", !.outcome = out]]

(* Mutant: a conflict that is resolved is resolved again.                    *)
ResolveAgain(t, c, out) ==
    IF c \in memory
    THEN /\ conflict' = Decided(c, out)
         /\ timer' = Cleared(c)
         /\ Goto(t, "resolving", c, out)
    ELSE Done(t) /\ UNCHANGED <<conflict, timer>>

(* resolveWithOutcome up to the save: nothing for a conflict that was        *)
(* evicted or is resolved.  One that has expired is resolved all the same.   *)
Resolve(t, c, out) ==
    IF c \in memory /\ conflict[c].status # "resolved"
    THEN /\ conflict' = Decided(c, out)
         /\ timer' = Cleared(c)
         /\ Goto(t, "resolving", c, out)
    ELSE Done(t) /\ UNCHANGED <<conflict, timer>>

(* raiseConflict after the save: the promise and the timer are set up, and a *)
(* conflict deferred to its owner is resolved at once.                       *)
Raised(r) ==
    /\ Turn(r) /\ At(r, "raised")
    /\ LET c == call[r].on IN
       /\ listed' = listed \cup {c}
       /\ promise' = [promise EXCEPT ![c] = "waiting"]
       /\ IF conflict[c].strategy = "owner" /\ c \in memory /\ conflict[c].status # "resolved"
          THEN /\ conflict' = Decided(c, By("deferral", None))
               /\ timer' = [timer EXCEPT ![c] = "off"]
               /\ Goto(r, "resolving", c, By("deferral", None))
          ELSE timer' = [timer EXCEPT ![c] = "set"] /\ Done(r) /\ UNCHANGED conflict
    /\ UNCHANGED <<memory, log, alive, failures>>

(* resolveWithOutcome: after the save the decision is logged, ...            *)
LogDecision(t) ==
    /\ Turn(t) /\ At(t, "resolving")
    /\ log' = [log EXCEPT ![call[t].on] = Append(@, call[t].out)]
    /\ Goto(t, "logging", call[t].on, call[t].out)
    /\ UNCHANGED <<conflict, memory, listed, promise, timer, alive, failures>>

(* ... and after that the raiser is told, unless the entry is gone.          *)
Settle(t) ==
    /\ Turn(t) /\ At(t, "logging")
    /\ LET c == call[t].on IN
       /\ listed' = listed \ {c}
       /\ promise' = IF c \in listed THEN [promise EXCEPT ![c] = "kept"] ELSE promise
    /\ Done(t)
    /\ UNCHANGED <<conflict, memory, timer, log, alive, failures>>
-----------------------------------------------------------------------------
(* addProposal; an experiment starts all its branches again.                 *)
AddProposal(r, c) ==
    /\ Idle(r) /\ Open(c) /\ conflict[c].proposals < MaxProposals
    /\ conflict' = [conflict EXCEPT ![c] =
           [@ EXCEPT !.proposals = conflict[c].proposals + 1,
                     !.branches = IF conflict[c].strategy # "experiment" THEN conflict[c].branches
                                  ELSE [p \in 1..(conflict[c].proposals + 1) |-> "pending"]]]
    /\ UNCHANGED <<memory, listed, promise, timer, log, call, alive, failures>>

(* castVote up to the save.  Each participant votes once, so the votes are    *)
(* kept as the proposals they are for, in the order they were cast.          *)
CastVote(r, c, p) ==
    /\ Idle(r) /\ Open(c) /\ conflict[c].strategy = "quorum"
    /\ Len(conflict[c].votes) < Participants
    /\ p <= conflict[c].proposals
    /\ conflict' = [conflict EXCEPT ![c] = [@ EXCEPT !.votes = Append(conflict[c].votes, p)]]
    /\ Goto(r, "voted", c, Undecided)
    /\ UNCHANGED <<memory, listed, promise, timer, log, alive, failures>>

Count(votes, p) == Cardinality({i \in DOMAIN votes : votes[i] = p})

(* The most voted proposal; of several, the one that was voted for first.    *)
Leads(votes, p) ==
    \A j \in DOMAIN votes :
        /\ Count(votes, votes[j]) <= Count(votes, p)
        /\ Count(votes, votes[j]) = Count(votes, p) => (\E i \in 1..j : votes[i] = p)

(* Mutant: one vote is a quorum.                                             *)
ReachesAlone(votes, p) == Leads(votes, p) /\ 100 * Count(votes, p) >= Threshold * Len(votes)

Reaches(votes, p) ==
    /\ Len(votes) >= 2
    /\ Leads(votes, p)
    /\ 100 * Count(votes, p) >= Threshold * Len(votes)

(* checkQuorum, over the votes there are after the save.                     *)
CheckQuorum(r) ==
    /\ Turn(r) /\ At(r, "voted")
    /\ LET c == call[r].on
           winners == {p \in Proposals : Reaches(conflict[c].votes, p)}
       IN IF winners = {} THEN Done(r) /\ UNCHANGED <<conflict, timer>>
          ELSE \E p \in winners : Resolve(r, c, By("vote", p))
    /\ UNCHANGED <<memory, listed, promise, log, alive, failures>>

(* submitDebateJudgement up to the save, also at the end of runDebateJudge.  *)
Judge(r, c) ==
    /\ Idle(r) /\ Open(c) /\ conflict[c].strategy = "debate"
    /\ Goto(r, "answered", c, By("judge", None))
    /\ UNCHANGED <<conflict, memory, listed, promise, timer, log, alive, failures>>

(* updateExperimentBranch up to the save.  Whether all branches are done is  *)
(* decided afterwards, on the results this call has written.                 *)
Branch(r, c, p, result) ==
    /\ Idle(r) /\ Open(c) /\ conflict[c].strategy = "experiment"
    /\ p <= conflict[c].proposals
    /\ LET updated == [conflict[c].branches EXCEPT ![p] = result] IN
       /\ conflict' = [conflict EXCEPT ![c] = [@ EXCEPT !.branches = updated]]
       /\ Goto(r, "answered", c, IF \E q \in DOMAIN updated : updated[q] = "pending" THEN Undecided
                                 ELSE By("branches", None))
    /\ UNCHANGED <<memory, listed, promise, timer, log, alive, failures>>

(* A judgement or a branch is saved: the conflict is resolved if it decides. *)
Answered(r) ==
    /\ Turn(r) /\ At(r, "answered")
    /\ IF call[r].out = Undecided THEN Done(r) /\ UNCHANGED <<conflict, timer>>
       ELSE Resolve(r, call[r].on, call[r].out)
    /\ UNCHANGED <<memory, listed, promise, log, alive, failures>>

(* forceResolve                                                              *)
ForceResolve(r, c) ==
    /\ Idle(r) /\ Open(c)
    /\ Resolve(r, c, By("force", None))
    /\ UNCHANGED <<memory, listed, promise, log, alive, failures>>
-----------------------------------------------------------------------------
(* Mutant: a vote without a quorum is left open when its time is up.         *)
FireQuietly(c) ==
    /\ Idle(c) /\ timer[c] = "set"
    /\ IF Open(c) /\ conflict[c].strategy # "quorum"
       THEN /\ conflict' = [conflict EXCEPT ![c] = [@ EXCEPT !.status = "expired"]]
            /\ timer' = [timer EXCEPT ![c] = "off"]
            /\ Goto(c, "expiring", c, Undecided)
       ELSE /\ timer' = [timer EXCEPT ![c] = "off"]
            /\ UNCHANGED <<conflict, call>>
    /\ UNCHANGED <<memory, listed, promise, log, alive, failures>>

(* handleTimeout up to its save.  A vote goes to the proposal that leads;    *)
(* anything else expires.                                                    *)
Fire(c) ==
    /\ Idle(c) /\ timer[c] = "set"
    /\ timer' = [timer EXCEPT ![c] = "off"]
    /\ IF ~Open(c) THEN UNCHANGED <<conflict, call>>
       ELSE IF conflict[c].votes # <<>>
       THEN \E p \in Proposals :
                /\ Leads(conflict[c].votes, p)
                /\ conflict' = Decided(c, By("plurality", p))
                /\ Goto(c, "resolving", c, By("plurality", p))
       ELSE /\ conflict' = [conflict EXCEPT ![c] = [@ EXCEPT !.status = "expired"]]
            /\ Goto(c, "expiring", c, Undecided)
    /\ UNCHANGED <<memory, listed, promise, log, alive, failures>>

(* The expiry is saved and logged ...                                        *)
LogExpiry(c) ==
    /\ Turn(c) /\ At(c, "expiring")
    /\ log' = [log EXCEPT ![c] = Append(@, Undecided)]
    /\ Goto(c, "expired", c, Undecided)
    /\ UNCHANGED <<conflict, memory, listed, promise, timer, alive, failures>>

(* ... and the promise rejected.  A rejection that nobody handles ends the   *)
(* process.                                                                  *)
Reject(c) ==
    /\ Turn(c) /\ At(c, "expired")
    /\ listed' = listed \ {c}
    /\ promise' = IF c \in listed THEN [promise EXCEPT ![c] = "broken"] ELSE promise
    /\ alive' = (c \in listed => Observed)
    /\ Done(c)
    /\ UNCHANGED <<conflict, memory, timer, log, failures>>

(* A save throws.  A request passes the error on; a timer's handler has      *)
(* nobody to pass it to, and the rejection ends the process.                 *)
SaveFails(t) ==
    /\ SlowStorage /\ alive /\ failures > 0 /\ ~At(t, "idle")
    /\ failures' = failures - 1
    /\ alive' = (t \in Requests)
    /\ Done(t)
    /\ UNCHANGED <<conflict, memory, listed, promise, timer, log>>

Continue(t) == LogDecision(t) \/ Settle(t)
Answer(r) == Raised(r) \/ CheckQuorum(r) \/ Answered(r) \/ Continue(r)
Expire(c) == Fire(c) \/ LogExpiry(c) \/ Reject(c) \/ Continue(c)

Next ==
    \/ \E r \in Requests, c \in Conflicts :
           \/ \E s \in Choices[c] : Raise(r, c, s)
           \/ AddProposal(r, c)
           \/ \E p \in Proposals : CastVote(r, c, p)
           \/ Judge(r, c)
           \/ \E p \in Proposals, result \in {"pending", "done"} : Branch(r, c, p, result)
           \/ ForceResolve(r, c)
    \/ \E r \in Requests : Answer(r)
    \/ \E c \in Conflicts : Expire(c)
    \/ \E t \in Threads : SaveFails(t)

Spec == Init /\ [][Next]_vars

(* The event loop resumes every call, and a timer that is set fires: it is   *)
(* disabled only while another call holds the loop.                          *)
FairSpec ==
    /\ Spec
    /\ \A r \in Requests : WF_vars(Answer(r))
    /\ \A c \in Conflicts : WF_vars(LogExpiry(c) \/ Reject(c) \/ Continue(c)) /\ SF_vars(Fire(c))
-----------------------------------------------------------------------------
ConflictOK ==
    conflict \in [Conflicts -> [status : {"unraised", "open", "resolved", "expired"},
                               strategy : Strategies,
                               proposals : 0..MaxProposals,
                               votes : Seq(Proposals),
                               branches : Seq({"pending", "done"}),
                               outcome : Outcomes]]

MemoryOK ==
    /\ memory \subseteq Conflicts /\ listed \subseteq Conflicts
    /\ Cardinality(memory) <= Capacity

CallOK ==
    call \in [Threads -> [pc : Places, on : Conflicts \cup {None}, out : Outcomes]]

(* Every variable has its type, and the map keeps to its capacity            *)
(* (enforceCapacityLimit).                                                   *)
TypeOK ==
    /\ ConflictOK /\ MemoryOK /\ CallOK
    /\ promise \in [Conflicts -> {"none", "waiting", "kept", "broken"}]
    /\ timer \in [Conflicts -> {"unset", "set", "off"}]
    /\ log \in [Conflicts -> Seq(Outcomes)]
    /\ alive \in BOOLEAN /\ failures \in 0..MaxFailures

(* A conflict decided by a quorum has at least two votes, and the winner's   *)
(* share of all of them reaches the threshold, whatever votes arrived while  *)
(* earlier ones were being saved; one decided by plurality has the leader of *)
(* all its votes (checkQuorum, handleTimeout).                               *)
QuorumDecides ==
    \A c \in Conflicts :
        LET v == conflict[c].votes
            w == conflict[c].outcome.winner
            backers == Cardinality({i \in DOMAIN v : v[i] = w})
        IN /\ conflict[c].outcome.by = "vote" =>
                 Len(v) >= 2 /\ 100 * backers >= Threshold * Len(v)
           /\ conflict[c].outcome.by = "plurality" =>
                 \A p \in Proposals : Cardinality({i \in DOMAIN v : v[i] = p}) <= backers

(* Quorum, judge, branches, owner and timer race, and saves fail: a conflict *)
(* is decided once.  The log has at most one decision of it, the one the     *)
(* conflict has, and a raiser who is told has it in the log                  *)
(* (resolveWithOutcome).                                                     *)
OneDecision ==
    \A c \in Conflicts :
        /\ \A i \in DOMAIN log[c] : log[c][i] \in {Undecided, conflict[c].outcome}
        /\ \A i, j \in DOMAIN log[c] : log[c][i] # Undecided /\ log[c][j] # Undecided => i = j
        /\ promise[c] = "kept" =>
               /\ conflict[c].status = "resolved"
               /\ \E i \in DOMAIN log[c] : log[c][i] = conflict[c].outcome

(* A raise whose save threw leaves a conflict without a timer.               *)
Unarmed(c) ==
    /\ timer[c] = "unset"
    /\ \A r \in Requests : ~(At(r, "raised") /\ call[r].on = c)

(* Every conflict is resolved or expires in the end, unless it was evicted,  *)
(* its raise failed, or the process ended (raiseConflict, handleTimeout).    *)
ClosesUnlessLost ==
    \A c \in Conflicts :
        conflict[c].status = "open"
            ~> (conflict[c].status # "open" \/ c \notin memory \/ Unarmed(c) \/ ~alive)

(* Every conflict closes that is not evicted, as the tests of the timer say  *)
(* (not kept by the code as it is wired: see the README).                    *)
EveryConflictCloses ==
    \A c \in Conflicts :
        conflict[c].status = "open" ~> (conflict[c].status # "open" \/ c \notin memory)
=============================================================================
