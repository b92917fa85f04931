-------------------------- MODULE SessionReplication --------------------------
(* CRDTSyncManager and CRDTPeerSyncService: instances of the server hold a    *)
(* document of one session each, change it, push whole states to their peers  *)
(* over a federation transport that loses, delays and reorders, merge what    *)
(* they receive unless their clock dominates it, acknowledge, and repeat the  *)
(* exchange periodically with the peers they have heard of (anti-entropy).    *)
EXTENDS SessionDocument, FiniteSets

CONSTANTS
    Times,          \* timestamps a write may carry (Date.now() or explicit)
    UniqueTimes,    \* no two writes carry the same timestamp
    Ticking,        \* whether callers may leave out tick() after a mutation
    MaxOps,         \* bound: mutations
    MaxInFlight,    \* bound: messages in flight
    MaxDisturbances \* bound: lost messages and switches back to single_writer

ASSUME ReplicationAssumption ==
    /\ Times \subseteq Nat \ {0} /\ UniqueTimes \in BOOLEAN
    /\ Ticking \in SUBSET BOOLEAN
    /\ MaxOps \in Nat /\ MaxInFlight \in Nat /\ MaxDisturbances \in Nat

VARIABLES
    mode,      \* instance -> sync mode of the session
    doc,       \* instance -> its document, or None
    known,     \* instance -> the peers in its peerClocks
    net,       \* messages in flight
    disturbed, \* messages lost and switches back so far
    ops,       \* mutations so far, numbering them
    usedTimes, \* timestamps of writes
    seen,      \* history: instance -> mutations its document reflects
    cast       \* history: instance -> votes cast on it

vars == <<mode, doc, known, net, disturbed, ops, usedTimes, seen, cast>>

None == [id |-> 0]
HasDoc(n) == doc[n] # None

Push(from, to, state) ==
    [type |-> "push", from |-> from, to |-> to, state |-> state, seen |-> seen[from]]
Ack(from, to) == [type |-> "ack", from |-> from, to |-> to]

Init ==
    /\ mode = [n \in Nodes |-> "single_writer"]
    /\ doc = [n \in Nodes |-> None]
    /\ known = [n \in Nodes |-> {}]
    /\ net = {} /\ disturbed = 0 /\ ops = 0 /\ usedTimes = {}
    /\ seen = [n \in Nodes |-> {}]
    /\ cast = [n \in Nodes |-> 0]

Send(messages) ==
    /\ Cardinality(net \cup messages) <= MaxInFlight
    /\ net' = net \cup messages

(* setSyncMode (POST crdt-mode): to crdt_p2p creates the document when there  *)
(* is none and pushes it to every connected peer (pushToAllPeers); back to    *)
(* single_writer only sets the mode.                                          *)
EnableSync(n) ==
    /\ mode' = [mode EXCEPT ![n] = "crdt_p2p"]
    /\ doc' = IF HasDoc(n) THEN doc ELSE [doc EXCEPT ![n] = NewDocument(n)]
    /\ Send({Push(n, p, doc'[n]) : p \in Nodes \ {n}})
    /\ UNCHANGED <<known, disturbed, ops, usedTimes, seen, cast>>

DisableSync(n) ==
    /\ mode[n] = "crdt_p2p" /\ disturbed < MaxDisturbances
    /\ mode' = [mode EXCEPT ![n] = "single_writer"]
    /\ disturbed' = disturbed + 1
    /\ UNCHANGED <<doc, known, net, ops, usedTimes, seen, cast>>

-----------------------------------------------------------------------------
(* Local mutations of the document of a session in crdt_p2p mode, with or     *)
(* without the tick() that should follow.                                     *)

Mutate(n, d) ==
    /\ mode[n] = "crdt_p2p" /\ ops < MaxOps
    /\ \E tick \in Ticking :
          doc' = [doc EXCEPT ![n] = IF tick THEN [d EXCEPT !.clock = Increment(@, d.id)] ELSE d]
    /\ ops' = ops + 1
    /\ seen' = [seen EXCEPT ![n] = @ \cup {ops + 1}]
    /\ UNCHANGED <<mode, known, net, disturbed>>

Vote(n) ==
    /\ HasDoc(n) /\ Mutate(n, [doc[n] EXCEPT !.votes = Increment(@, doc[n].id)])
    /\ cast' = [cast EXCEPT ![n] = @ + 1]
    /\ UNCHANGED <<usedTimes>>

Add(n) ==
    /\ HasDoc(n) /\ Mutate(n, [doc[n] EXCEPT !.set = AddTag(@, ops + 1)])
    /\ UNCHANGED <<usedTimes, cast>>

Remove(n) ==
    /\ HasDoc(n) /\ doc[n].set.live # {}
    /\ Mutate(n, [doc[n] EXCEPT !.set = RemoveTags(@)])
    /\ UNCHANGED <<usedTimes, cast>>

Write(n) ==
    \E time \in Times :
        /\ UniqueTimes => time \notin usedTimes
        /\ HasDoc(n) /\ Mutate(n, [doc[n] EXCEPT !.reg = SetRegister(@, ops + 1, time)])
        /\ usedTimes' = usedTimes \cup {time}
        /\ UNCHANGED <<cast>>

-----------------------------------------------------------------------------
(* Exchange of states                                                         *)

(* runAntiEntropy: to the peers it has a clock of, whatever the mode.         *)
AntiEntropy(n) ==
    /\ HasDoc(n) /\ known[n] # {}
    /\ Send({Push(n, p, doc[n]) : p \in known[n]})
    /\ UNCHANGED <<mode, doc, known, disturbed, ops, usedTimes, seen, cast>>

(* receive, called by handlePush whatever the session's mode: adopt the state *)
(* as the document when there is none, skip it when the local clock           *)
(* dominates, else merge.  What changed is acknowledged.                      *)
Take(n, m, d) ==
    /\ doc' = [doc EXCEPT ![n] = d]
    /\ seen' = [seen EXCEPT ![n] = @ \cup m.seen]
    /\ net' = (net \ {m}) \cup {Ack(n, m.from)}

ReceivePush(n, from) ==
    \E m \in net :
        /\ m.type = "push" /\ m.to = n /\ m.from = from
        /\ known' = [known EXCEPT ![n] = @ \cup {from}]
        /\ \/ /\ ~HasDoc(n)
              /\ Take(n, m, FromState(m.state))
           \/ /\ HasDoc(n) /\ Dominates(doc[n].clock, m.state.clock)
              /\ net' = net \ {m} /\ UNCHANGED <<doc, seen>>
           \/ /\ HasDoc(n) /\ ~Dominates(doc[n].clock, m.state.clock)
              /\ Take(n, m, Merge(doc[n], m.state))
        /\ UNCHANGED <<mode, disturbed, ops, usedTimes, cast>>

(* handleAck: the peer's clock is known from now on.                          *)
ReceiveAck(n, from) ==
    /\ Ack(from, n) \in net
    /\ net' = net \ {Ack(from, n)}
    /\ known' = [known EXCEPT ![n] = @ \cup {from}]
    /\ UNCHANGED <<mode, doc, disturbed, ops, usedTimes, seen, cast>>

(* POST /api/sessions/:id/crdt-merge: merge a state a client carried over     *)
(* from another instance; no clock comparison, no peer is noted.              *)
MergeRoute(n, from) ==
    /\ mode[n] = "crdt_p2p" /\ HasDoc(n) /\ HasDoc(from) /\ n # from
    /\ doc' = [doc EXCEPT ![n] = Merge(@, doc[from])]
    /\ seen' = [seen EXCEPT ![n] = @ \cup seen[from]]
    /\ UNCHANGED <<mode, known, net, disturbed, ops, usedTimes, cast>>

Lose ==
    /\ disturbed < MaxDisturbances
    /\ \E m \in net : net' = net \ {m}
    /\ disturbed' = disturbed + 1
    /\ UNCHANGED <<mode, doc, known, ops, usedTimes, seen, cast>>

-----------------------------------------------------------------------------
Next ==
    \/ \E n \in Nodes :
          EnableSync(n) \/ DisableSync(n) \/ Vote(n) \/ Add(n) \/ Remove(n) \/ Write(n)
          \/ AntiEntropy(n)
    \/ \E n, from \in Nodes : ReceivePush(n, from) \/ ReceiveAck(n, from) \/ MergeRoute(n, from)
    \/ Lose

(* The anti-entropy timer fires for ever (strongly fair because MaxInFlight   *)
(* may bar a step the timer would take) and what is not lost is delivered.    *)
Fairness ==
    /\ \A n \in Nodes : SF_vars(AntiEntropy(n))
    /\ \A n \in Nodes : \A from \in Nodes \ {n} : WF_vars(ReceivePush(n, from)) /\ WF_vars(ReceiveAck(n, from))

Spec == Init /\ [][Next]_vars
FairSpec == Spec /\ Fairness

-----------------------------------------------------------------------------
(* Properties                                                                 *)

States == [type : {"push"}, from : Nodes, to : Nodes, state : Documents, seen : SUBSET (1 .. MaxOps)]
Acks == [type : {"ack"}, from : Nodes, to : Nodes]

TypeOK ==
    /\ mode \in [Nodes -> {"single_writer", "crdt_p2p"}]
    /\ doc \in [Nodes -> Documents \cup {None}]
    /\ known \in [Nodes -> SUBSET Nodes]
    /\ net \subseteq States \cup Acks
    /\ disturbed \in 0 .. MaxDisturbances /\ ops \in 0 .. MaxOps
    /\ usedTimes \subseteq Times
    /\ seen \in [Nodes -> SUBSET (1 .. MaxOps)]
    /\ cast \in [Nodes -> Nat]

(* A replica only grows: no stale, repeated or reordered state, and no route  *)
(* merge, takes back a vote, a tombstone, an addition or a later write.       *)
ReplicasOnlyGrow ==
    [][\A n \in Nodes : HasDoc(n) => doc'[n] # None /\ Leq(doc[n], doc'[n])]_vars

(* Strong eventual consistency: two replicas that reflect the same mutations  *)
(* show the same votes, members and register, whatever way and order the      *)
(* states reached them.                                                       *)
SameMutationsSameValue ==
    \A m, n \in Nodes : HasDoc(m) /\ HasDoc(n) /\ seen[m] = seen[n]
                        => Value(doc[m]) = Value(doc[n])

(* No vote is lost or invented: unless another instance works under its id,   *)
(* an instance's slot holds what was cast on it, and elsewhere no more.       *)
Impersonated(n) == \E m \in Nodes \ {n} : doc[m].id = n
VotesAreCounted ==
    \A n \in Nodes : ~Impersonated(n) /\ HasDoc(n) /\ doc[n].id = n =>
        /\ doc[n].votes[n] = cast[n]
        /\ \A m \in Nodes : HasDoc(m) => doc[m].votes[n] <= cast[n]

(* G-Counter: each node keeps its own slot, the value is the sum -- so a      *)
(* replica that reflects every mutation counts every vote cast.  The code     *)
(* does not keep this, nor AllConverge below (see the README).                *)
AllVotesCounted ==
    \A n \in Nodes : HasDoc(n) /\ seen[n] = 1 .. ops =>
        \A m \in Nodes : doc[n].votes[m] = cast[m]

(* A removal is not undone: what a replica has removed never shows there      *)
(* again, however late an older state arrives.                                *)
RemovedStaysRemoved ==
    [][\A n \in Nodes : HasDoc(n) => doc[n].set.dead \cap doc'[n].set.live = {}]_vars

(* Anti-entropy: replicas that have heard of each other end up equal.         *)
Converged(m, n) == HasDoc(m) /\ HasDoc(n) => Value(doc[m]) = Value(doc[n])
PeersConverge == <>[](\A m, n \in Nodes : n \in known[m] => Converged(m, n))

(* The doc of sync.ts: anti-entropy guarantees eventual convergence even with *)
(* unreliable transports.                                                     *)
AllConverge == <>[](\A m, n \in Nodes : Converged(m, n))
=============================================================================
