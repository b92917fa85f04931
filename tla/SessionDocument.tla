--------------------------- MODULE SessionDocument ---------------------------
(* The replicated document of a shared session (server/federation/crdt): a    *)
(* grow-only counter of votes, observed-remove sets (participants, tags),     *)
(* last-writer-wins registers (metadata, the entries of the stage maps) and a *)
(* vector clock, with their local operations and merges as functions of the   *)
(* state.  One set element and one register stand for the collections: their  *)
(* keys never interact.  Node ids are numbers, ordered as the code orders the *)
(* strings.                                                                   *)
EXTENDS Integers

CONSTANT Nodes    \* node ids

ASSUME NodesAssumption == Nodes \subseteq Nat \ {0}

(* Tags of additions (UUIDs) and values of writes are the number of the       *)
(* mutation that brought them; 0 is a register's null.                        *)
Null == 0

Counters == [Nodes -> Nat]
Registers == [value : Nat, time : Nat, node : Nodes]
TagSets == [live : SUBSET Nat, dead : SUBSET Nat]
Documents == [id : Nodes, votes : Counters, set : TagSets, reg : Registers, clock : Counters]

NewDocument(n) ==
    [id |-> n,
     votes |-> [m \in Nodes |-> 0],
     set |-> [live |-> {}, dead |-> {}],
     reg |-> [value |-> Null, time |-> 0, node |-> n],
     clock |-> [m \in Nodes |-> 0]]

(* GCounter.increment and VectorClock.tick count in the slot of the document's *)
(* own id.                                                                    *)
Increment(c, n) == [c EXCEPT ![n] = @ + 1]

(* Mutation: a merge adds the counts up.                                      *)
MergeCountersAdding(c, d) == [n \in Nodes |-> c[n] + d[n]]

(* GCounter.merge, VectorClock.merge: the greater count of every slot.        *)
MergeCounters(c, d) == [n \in Nodes |-> IF d[n] > c[n] THEN d[n] ELSE c[n]]

(* ORSet: live are the tags not tombstoned, dead the tombstones.  A removal   *)
(* kills the observed tags; a merge takes the tombstones first.               *)
AddTag(s, tag) == [s EXCEPT !.live = @ \cup {tag}]
RemoveTags(s) == [live |-> {}, dead |-> s.dead \cup s.live]
(* Mutation: the local tombstones do not bar what arrives.                    *)
MergeSetsReviving(s, r) == [live |-> s.live \cup r.live, dead |-> s.dead \cup r.dead]
MergeSets(s, r) ==
    LET dead == s.dead \cup r.dead
    IN [live |-> (s.live \cup r.live) \ dead, dead |-> dead]

(* Mutation: the last call wins, whatever its time.                           *)
SetRegisterAnytime(reg, v, time) == [reg EXCEPT !.value = v, !.time = time]

(* LWWRegister.set: a later or equal time wins; the register keeps the node   *)
(* of whoever wrote before.                                                   *)
SetRegister(reg, v, time) ==
    IF time >= reg.time THEN [reg EXCEPT !.value = v, !.time = time] ELSE reg

(* LWWRegister.merge: the later stamp wins, ties by node.                     *)
Later(a, b) == a.time > b.time \/ (a.time = b.time /\ a.node > b.node)
MergeRegistersNever(reg, r) == reg    \* mutation: the register is not merged
MergeRegisters(reg, r) == IF Later(r, reg) THEN r ELSE reg

(* CRDTDocument.merge keeps the local id; fromState is a new document under   *)
(* the id found in the state, merged with it.                                 *)
Merge(d, r) ==
    [id |-> d.id,
     votes |-> MergeCounters(d.votes, r.votes),
     set |-> MergeSets(d.set, r.set),
     reg |-> MergeRegisters(d.reg, r.reg),
     clock |-> MergeCounters(d.clock, r.clock)]
FromStateNameless(r) == [Merge(NewDocument(r.id), r) EXCEPT !.id = 0]    \* mutation: the id is lost
FromState(r) == Merge(NewDocument(r.id), r)

(* VectorClock.compare(...) = "after": at least as great everywhere, and      *)
(* greater somewhere.                                                         *)
DominatesOrEquals(c, d) == \A n \in Nodes : c[n] >= d[n]    \* mutation: an equal clock counts too
Dominates(c, d) == (\A n \in Nodes : c[n] >= d[n]) /\ (\E n \in Nodes : c[n] > d[n])

(* What a reader of the document sees (snapshot), the id aside.               *)
Value(d) == [votes |-> d.votes, has |-> d.set.live, reg |-> d.reg.value]

(* The order a merge moves up in.                                             *)
CounterLeq(c, d) == \A n \in Nodes : c[n] <= d[n]
SetLeq(s, r) == s.dead \subseteq r.dead /\ s.live \subseteq r.live \cup r.dead
RegisterLeq(a, b) == a.time < b.time \/ (a.time = b.time /\ a.node <= b.node)
Leq(d, e) ==
    /\ CounterLeq(d.votes, e.votes) /\ CounterLeq(d.clock, e.clock)
    /\ SetLeq(d.set, e.set) /\ RegisterLeq(d.reg, e.reg)
=============================================================================
