---------------------- MODULE SessionReplicationProofs ----------------------
(* Theorems about SessionReplication: types, that replicas only grow, that    *)
(* removals last, that votes are counted, and that replicas which reflect the *)
(* same mutations agree.                                                      *)
EXTENDS SessionReplication, TLAPS

-----------------------------------------------------------------------------
(* Documents                                                                  *)

LEMMA NoneIsNoDocument == \A d \in Documents : d # None
  BY NodesAssumption DEF NodesAssumption, None, Documents

LEMMA NewDocumentType == \A n \in Nodes : NewDocument(n) \in Documents /\ NewDocument(n).id = n
  BY DEF NewDocument, Documents, Counters, Registers, TagSets, Null

LEMMA CountersMerge ==
  ASSUME NEW c \in Counters, NEW d \in Counters
  PROVE  /\ MergeCounters(c, d) \in Counters
         /\ CounterLeq(c, MergeCounters(c, d)) /\ CounterLeq(d, MergeCounters(c, d))
         /\ MergeCounters(c, d) = MergeCounters(d, c)
  BY DEF MergeCounters, Counters, CounterLeq

LEMMA SetsMerge ==
  ASSUME NEW s \in TagSets, NEW r \in TagSets
  PROVE  /\ MergeSets(s, r) \in TagSets
         /\ SetLeq(s, MergeSets(s, r)) /\ SetLeq(r, MergeSets(s, r))
         /\ MergeSets(s, r) = MergeSets(r, s)
  <1>1. MergeSets(s, r).live = (s.live \cup r.live) \ (s.dead \cup r.dead)
        /\ MergeSets(s, r).dead = s.dead \cup r.dead
    BY DEF MergeSets
  <1>2. MergeSets(s, r) \in TagSets
    BY DEF MergeSets, TagSets
  <1>3. MergeSets(s, r) = MergeSets(r, s)
    BY DEF MergeSets
  <1> QED
    BY <1>1, <1>2, <1>3 DEF SetLeq, TagSets

LEMMA RegisterFields ==
  \A a \in Registers : a.time \in Nat /\ a.node \in Nat
  <1>1. Nodes \subseteq Nat
    BY NodesAssumption DEF NodesAssumption
  <1> QED
    BY <1>1 DEF Registers

LEMMA RegistersMerge ==
  ASSUME NEW a \in Registers, NEW b \in Registers
  PROVE  /\ MergeRegisters(a, b) \in Registers
         /\ RegisterLeq(a, MergeRegisters(a, b)) /\ RegisterLeq(b, MergeRegisters(a, b))
  <1>1. CASE Later(b, a)
    BY <1>1, RegisterFields DEF MergeRegisters, RegisterLeq, Later
  <1>2. CASE ~Later(b, a)
    BY <1>2, RegisterFields DEF MergeRegisters, RegisterLeq, Later
  <1> QED
    BY <1>1, <1>2

(* A merge is typed, keeps the local id, and lies above both its arguments:   *)
(* CRDTDocument.merge loses nothing of either side.                           *)
THEOREM MergeIsUpperBound ==
  ASSUME NEW d \in Documents, NEW r \in Documents
  PROVE  /\ Merge(d, r) \in Documents /\ Merge(d, r).id = d.id
         /\ Leq(d, Merge(d, r)) /\ Leq(r, Merge(d, r))
  <1> DEFINE e == Merge(d, r)
  <1>1. /\ e.id = d.id /\ e.votes = MergeCounters(d.votes, r.votes)
        /\ e.set = MergeSets(d.set, r.set) /\ e.reg = MergeRegisters(d.reg, r.reg)
        /\ e.clock = MergeCounters(d.clock, r.clock)
    BY DEF Merge
  <1>2. /\ d.votes \in Counters /\ d.clock \in Counters /\ r.votes \in Counters /\ r.clock \in Counters
        /\ d.set \in TagSets /\ r.set \in TagSets /\ d.reg \in Registers /\ r.reg \in Registers
        /\ d.id \in Nodes
    BY DEF Documents
  <1>3. e \in Documents
    BY <1>2, CountersMerge, SetsMerge, RegistersMerge DEF Merge, Documents
  <1> HIDE DEF e
  <1>4. Leq(d, e) /\ Leq(r, e)
    BY <1>1, <1>2, CountersMerge, SetsMerge, RegistersMerge DEF Leq
  <1> QED
    BY <1>1, <1>3, <1>4 DEF e

(* Merging is commutative in all a reader sees, as long as two writes never   *)
(* carry the same time and node with different values -- which is what        *)
(* LWWRegister.set does not ensure.                                           *)
THEOREM MergeCommutes ==
  ASSUME NEW d \in Documents, NEW r \in Documents,
         d.reg.time = r.reg.time /\ d.reg.node = r.reg.node => d.reg = r.reg
  PROVE  Value(Merge(d, r)) = Value(Merge(r, d))
  <1>1. /\ d.votes \in Counters /\ r.votes \in Counters
        /\ d.set \in TagSets /\ r.set \in TagSets /\ d.reg \in Registers /\ r.reg \in Registers
    BY DEF Documents
  <1>2. MergeRegisters(d.reg, r.reg) = MergeRegisters(r.reg, d.reg)
    BY <1>1, RegisterFields DEF MergeRegisters, Later
  <1> QED
    BY <1>1, <1>2, CountersMerge, SetsMerge DEF Value, Merge

LEMMA LeqReflexive == \A d \in Documents : Leq(d, d)
  <1> TAKE d \in Documents
  <1>1. d.votes \in Counters /\ d.clock \in Counters /\ d.reg \in Registers
    BY DEF Documents
  <1>2. RegisterLeq(d.reg, d.reg)
    BY <1>1, RegisterFields DEF RegisterLeq
  <1>3. \A c \in Counters : CounterLeq(c, c)
    BY DEF CounterLeq, Counters
  <1>4. SetLeq(d.set, d.set)
    BY DEF SetLeq
  <1> QED
    BY <1>1, <1>2, <1>3, <1>4 DEF Leq

LEMMA FromStateType == \A r \in Documents : FromState(r) \in Documents /\ FromState(r).id = r.id
  <1>1. \A r \in Documents : r.id \in Nodes
    BY DEF Documents
  <1> QED
    BY <1>1, NewDocumentType, MergeIsUpperBound DEF FromState

-----------------------------------------------------------------------------
(* Mutations                                                                  *)

(* What a document may become: typed, of the same id, above what it was.      *)
Successor(d, e) == e \in Documents /\ e.id = d.id /\ Leq(d, e)

LEMMA IncrementGrows ==
  ASSUME NEW c \in Counters, NEW n \in Nodes
  PROVE  Increment(c, n) \in Counters /\ CounterLeq(c, Increment(c, n))
  BY DEF Increment, Counters, CounterLeq

LEMMA LeqParts ==
  ASSUME NEW d \in Documents, NEW e \in Documents,
         CounterLeq(d.votes, e.votes), CounterLeq(d.clock, e.clock), SetLeq(d.set, e.set),
         RegisterLeq(d.reg, e.reg)
  PROVE  Leq(d, e)
  BY DEF Leq

LEMMA VoteGrows ==
  ASSUME NEW d \in Documents
  PROVE  Successor(d, [d EXCEPT !.votes = Increment(@, d.id)])
  <1> DEFINE e == [d EXCEPT !.votes = Increment(@, d.id)]
  <1>1. d.id \in Nodes /\ d.votes \in Counters
    BY DEF Documents
  <1>2. Increment(d.votes, d.id) \in Counters /\ CounterLeq(d.votes, Increment(d.votes, d.id))
    BY <1>1, IncrementGrows
  <1>3. /\ e \in Documents /\ e.id = d.id /\ e.votes = Increment(d.votes, d.id)
        /\ e.clock = d.clock /\ e.set = d.set /\ e.reg = d.reg
    BY <1>2 DEF Documents
  <1> QED
    BY <1>2, <1>3, LeqReflexive DEF Leq, Successor

LEMMA TickGrows ==
  ASSUME NEW d \in Documents
  PROVE  Successor(d, [d EXCEPT !.clock = Increment(@, d.id)])
  <1> DEFINE e == [d EXCEPT !.clock = Increment(@, d.id)]
  <1>1. d.id \in Nodes /\ d.clock \in Counters
    BY DEF Documents
  <1>2. Increment(d.clock, d.id) \in Counters /\ CounterLeq(d.clock, Increment(d.clock, d.id))
    BY <1>1, IncrementGrows
  <1>3. /\ e \in Documents /\ e.id = d.id /\ e.clock = Increment(d.clock, d.id)
        /\ e.votes = d.votes /\ e.set = d.set /\ e.reg = d.reg
    BY <1>2 DEF Documents
  <1> QED
    BY <1>2, <1>3, LeqReflexive DEF Leq, Successor

LEMMA SetChangeGrows ==
  ASSUME NEW d \in Documents, NEW s \in TagSets, SetLeq(d.set, s)
  PROVE  Successor(d, [d EXCEPT !.set = s])
  <1> DEFINE e == [d EXCEPT !.set = s]
  <1>1. /\ e \in Documents /\ e.id = d.id /\ e.clock = d.clock
        /\ e.votes = d.votes /\ e.set = s /\ e.reg = d.reg
    BY DEF Documents
  <1> QED
    BY <1>1, LeqReflexive DEF Leq, Successor

LEMMA AddGrows ==
  ASSUME NEW d \in Documents, NEW tag \in Nat
  PROVE  Successor(d, [d EXCEPT !.set = AddTag(@, tag)])
  <1>1. d.set \in TagSets
    BY DEF Documents
  <1>2. AddTag(d.set, tag) \in TagSets /\ SetLeq(d.set, AddTag(d.set, tag))
    BY <1>1 DEF AddTag, TagSets, SetLeq
  <1> QED
    BY <1>2, SetChangeGrows

LEMMA RemoveGrows ==
  ASSUME NEW d \in Documents
  PROVE  Successor(d, [d EXCEPT !.set = RemoveTags(@)])
  <1>1. d.set \in TagSets
    BY DEF Documents
  <1>2. RemoveTags(d.set) \in TagSets /\ SetLeq(d.set, RemoveTags(d.set))
    BY <1>1 DEF RemoveTags, TagSets, SetLeq
  <1> QED
    BY <1>2, SetChangeGrows

LEMMA WriteGrows ==
  ASSUME NEW d \in Documents, NEW v \in Nat, NEW time \in Nat
  PROVE  Successor(d, [d EXCEPT !.reg = SetRegister(@, v, time)])
  <1> DEFINE e == [d EXCEPT !.reg = SetRegister(@, v, time)]
             r == SetRegister(d.reg, v, time)
  <1>1. d.reg \in Registers
    BY DEF Documents
  <1>2. r \in Registers
    BY <1>1 DEF SetRegister, Registers
  <1>3. RegisterLeq(d.reg, r)
    <2>1. CASE time >= d.reg.time
      <3>1. r.time = time /\ r.node = d.reg.node
        BY <1>1, <2>1 DEF SetRegister, Registers
      <3> QED
        BY <1>1, <2>1, <3>1, RegisterFields DEF RegisterLeq
    <2>2. CASE ~(time >= d.reg.time)
      BY <1>1, <2>2, RegisterFields DEF SetRegister, RegisterLeq
    <2> QED
      BY <2>1, <2>2
  <1>4. /\ e \in Documents /\ e.id = d.id /\ e.clock = d.clock
        /\ e.votes = d.votes /\ e.set = d.set /\ e.reg = r
    BY <1>2 DEF Documents
  <1> QED
    BY <1>3, <1>4, LeqReflexive DEF Leq, Successor

LEMMA LeqTransitive ==
  ASSUME NEW c \in Documents, NEW d \in Documents, NEW e \in Documents, Leq(c, d), Leq(d, e)
  PROVE  Leq(c, e)
  <1>1. /\ c.votes \in Counters /\ d.votes \in Counters /\ e.votes \in Counters
        /\ c.clock \in Counters /\ d.clock \in Counters /\ e.clock \in Counters
        /\ c.reg \in Registers /\ d.reg \in Registers /\ e.reg \in Registers
    BY DEF Documents
  <1>2. \A x, y, z \in Counters : CounterLeq(x, y) /\ CounterLeq(y, z) => CounterLeq(x, z)
    <2> TAKE x, y, z \in Counters
    <2> HAVE CounterLeq(x, y) /\ CounterLeq(y, z)
    <2>1. \A n \in Nodes : x[n] \in Nat /\ y[n] \in Nat /\ z[n] \in Nat
      BY DEF Counters
    <2>2. \A n \in Nodes : x[n] <= y[n] /\ y[n] <= z[n]
      BY DEF CounterLeq
    <2>3. \A i, j, k \in Nat : i <= j /\ j <= k => i <= k
      OBVIOUS
    <2> QED
      BY <2>1, <2>2, <2>3, Zenon DEF CounterLeq
  <1>3. RegisterLeq(c.reg, e.reg)
    BY <1>1, RegisterFields DEF RegisterLeq, Leq
  <1>4. SetLeq(c.set, e.set)
    BY DEF SetLeq, Leq
  <1> QED
    BY <1>1, <1>2, <1>3, <1>4 DEF Leq

-----------------------------------------------------------------------------
(* Steps.  The invariant adds to the types where the states in flight come    *)
(* from: another instance, whose document has the state's id.                 *)

Rest ==
    /\ mode \in [Nodes -> {"single_writer", "crdt_p2p"}]
    /\ disturbed \in 0 .. MaxDisturbances /\ ops \in 0 .. MaxOps
    /\ usedTimes \subseteq Times
    /\ seen \in [Nodes -> SUBSET (1 .. MaxOps)]
    /\ cast \in [Nodes -> Nat]
DocsOK == doc \in [Nodes -> Documents \cup {None}]
NetOK == net \subseteq States \cup Acks /\ known \in [Nodes -> SUBSET Nodes]

LEMMA TypeParts == TypeOK <=> Rest /\ DocsOK /\ NetOK
  BY DEF TypeOK, Rest, DocsOK, NetOK

LEMMA MutateEffect ==
  ASSUME TypeOK, NEW n \in Nodes, NEW d, HasDoc(n), Successor(doc[n], d), Mutate(n, d)
  PROVE  /\ \E e \in Documents :
               /\ Successor(doc[n], e) /\ e.votes = d.votes /\ e.set = d.set /\ e.reg = d.reg
               /\ doc' = [doc EXCEPT ![n] = e]
         /\ mode' = mode /\ net' = net /\ known' = known /\ disturbed' = disturbed
         /\ ops' \in 0 .. MaxOps /\ seen' \in [Nodes -> SUBSET (1 .. MaxOps)]
         /\ ops' = ops + 1
  <1>1. doc[n] \in Documents
    BY DEF TypeOK, HasDoc
  <1>2. PICK tick \in Ticking :
          doc' = [doc EXCEPT ![n] = IF tick THEN [d EXCEPT !.clock = Increment(@, d.id)] ELSE d]
    BY DEF Mutate
  <1> DEFINE t == [d EXCEPT !.clock = Increment(@, d.id)]
             e == IF tick THEN t ELSE d
  <1>3. d \in Documents
    BY DEF Successor
  <1>4. Successor(d, t) /\ t.votes = d.votes /\ t.set = d.set /\ t.reg = d.reg
    BY <1>3, TickGrows DEF Documents
  <1> HIDE DEF t
  <1>5. Successor(doc[n], t)
    BY <1>1, <1>3, <1>4, LeqTransitive DEF Successor
  <1>6. Successor(doc[n], e) /\ e.votes = d.votes /\ e.set = d.set /\ e.reg = d.reg /\ e \in Documents
    BY <1>4, <1>5 DEF Successor
  <1>7. doc' = [doc EXCEPT ![n] = e]
    BY <1>2 DEF t
  <1>8. ops \in 0 .. MaxOps /\ ops < MaxOps /\ MaxOps \in Nat /\ seen \in [Nodes -> SUBSET (1 .. MaxOps)]
    BY ReplicationAssumption DEF ReplicationAssumption, TypeOK, Mutate
  <1>9. ops' \in 0 .. MaxOps /\ ops' = ops + 1 /\ seen' \in [Nodes -> SUBSET (1 .. MaxOps)]
    BY <1>8 DEF Mutate
  <1> QED
    BY <1>6, <1>7, <1>9 DEF Mutate

(* What a mutation does: its document, and how votes and tags change.         *)
LEMMA VoteEffect ==
  ASSUME TypeOK, NEW n \in Nodes, Vote(n)
  PROVE  \E e \in Documents :
            /\ Successor(doc[n], e) /\ doc' = [doc EXCEPT ![n] = e]
            /\ e.votes = Increment(doc[n].votes, doc[n].id) /\ e.set = doc[n].set
  <1> DEFINE d == [doc[n] EXCEPT !.votes = Increment(@, doc[n].id)]
  <1>1. doc[n] \in Documents /\ HasDoc(n)
    BY DEF TypeOK, HasDoc, Vote
  <1>2. Successor(doc[n], d)
    BY <1>1, VoteGrows
  <1>3. d.votes = Increment(doc[n].votes, doc[n].id) /\ d.set = doc[n].set
    BY <1>1 DEF Documents
  <1>4. Mutate(n, d)
    BY DEF Vote
  <1> HIDE DEF d
  <1> QED
    BY <1>1, <1>2, <1>3, <1>4, MutateEffect

LEMMA AddEffect ==
  ASSUME TypeOK, NEW n \in Nodes, Add(n)
  PROVE  \E e \in Documents :
            /\ Successor(doc[n], e) /\ doc' = [doc EXCEPT ![n] = e]
            /\ e.votes = doc[n].votes /\ e.set = AddTag(doc[n].set, ops + 1)
  <1> DEFINE d == [doc[n] EXCEPT !.set = AddTag(@, ops + 1)]
  <1>1. doc[n] \in Documents /\ HasDoc(n)
    BY DEF TypeOK, HasDoc, Add
  <1>2. ops + 1 \in Nat
    BY DEF TypeOK
  <1>3. Successor(doc[n], d)
    BY <1>1, <1>2, AddGrows
  <1>4. d.votes = doc[n].votes /\ d.set = AddTag(doc[n].set, ops + 1)
    BY <1>1 DEF Documents
  <1>5. Mutate(n, d)
    BY DEF Add
  <1> HIDE DEF d
  <1> QED
    BY <1>1, <1>3, <1>4, <1>5, MutateEffect

LEMMA RemoveEffect ==
  ASSUME TypeOK, NEW n \in Nodes, Remove(n)
  PROVE  \E e \in Documents :
            /\ Successor(doc[n], e) /\ doc' = [doc EXCEPT ![n] = e]
            /\ e.votes = doc[n].votes /\ e.set = RemoveTags(doc[n].set)
  <1> DEFINE d == [doc[n] EXCEPT !.set = RemoveTags(@)]
  <1>1. doc[n] \in Documents /\ HasDoc(n)
    BY DEF TypeOK, HasDoc, Remove
  <1>2. Successor(doc[n], d)
    BY <1>1, RemoveGrows
  <1>3. d.votes = doc[n].votes /\ d.set = RemoveTags(doc[n].set)
    BY <1>1 DEF Documents
  <1>4. Mutate(n, d)
    BY DEF Remove
  <1> HIDE DEF d
  <1> QED
    BY <1>1, <1>2, <1>3, <1>4, MutateEffect

LEMMA WriteEffect ==
  ASSUME TypeOK, NEW n \in Nodes, Write(n)
  PROVE  \E e \in Documents :
            /\ Successor(doc[n], e) /\ doc' = [doc EXCEPT ![n] = e]
            /\ e.votes = doc[n].votes /\ e.set = doc[n].set
  <1>1. PICK time \in Times : Mutate(n, [doc[n] EXCEPT !.reg = SetRegister(@, ops + 1, time)])
    BY DEF Write
  <1> DEFINE d == [doc[n] EXCEPT !.reg = SetRegister(@, ops + 1, time)]
  <1>2. doc[n] \in Documents /\ HasDoc(n)
    BY DEF TypeOK, HasDoc, Write
  <1>3. ops + 1 \in Nat /\ time \in Nat
    BY ReplicationAssumption DEF ReplicationAssumption, TypeOK
  <1>4. Successor(doc[n], d)
    BY <1>2, <1>3, WriteGrows
  <1>5. d.votes = doc[n].votes /\ d.set = doc[n].set
    BY <1>2 DEF Documents
  <1>6. Mutate(n, d)
    BY <1>1
  <1> HIDE DEF d
  <1> QED
    BY <1>2, <1>4, <1>5, <1>6, MutateEffect

(* What the receipt of a state does to the document.                          *)
LEMMA ReceiveEffect ==
  ASSUME TypeOK, NEW n \in Nodes, NEW m \in net, m.type = "push", m.to = n
  PROVE  /\ m \in States
         /\ FromState(m.state) \in Documents /\ FromState(m.state).id = m.state.id
         /\ HasDoc(n) => /\ Successor(doc[n], Merge(doc[n], m.state))
                         /\ doc[n] \in Documents
  <1>1. m \in States
    BY DEF TypeOK, Acks
  <1>2. m.state \in Documents
    BY <1>1 DEF States
  <1> QED
    BY <1>1, <1>2, FromStateType, MergeIsUpperBound DEF TypeOK, HasDoc, Successor

-----------------------------------------------------------------------------
(* Every step leaves every document a successor of what it was, changed by a  *)
(* mutation or a merge, or creates it new or from a state received.           *)

Visible(r) ==
    \/ \E n \in Nodes : HasDoc(n) /\ r = doc[n]
    \/ \E m \in net : m.type = "push" /\ r = m.state

Changed(n, d, e) ==
    \/ /\ e.votes = d.votes /\ cast' = cast
       /\ \/ e.set = d.set
          \/ e.set = RemoveTags(d.set)
          \/ e.set = AddTag(d.set, ops + 1) /\ ops' = ops + 1
    \/ /\ e.votes = Increment(d.votes, d.id) /\ e.set = d.set
       /\ cast' = [cast EXCEPT ![n] = @ + 1]
    \/ /\ cast' = cast
       /\ \E r \in Documents : /\ Visible(r) /\ e.votes = MergeCounters(d.votes, r.votes)
                               /\ e.set = MergeSets(d.set, r.set)

Created(n, d) ==
    \/ d = NewDocument(n)
    \/ \E m \in net : m.type = "push" /\ m.to = n /\ d = FromState(m.state)

SameDocs == doc' = doc /\ cast' = cast
DocStep(n) ==
    \/ SameDocs
    \/ /\ HasDoc(n)
       /\ \E e \in Documents :
            Successor(doc[n], e) /\ doc' = [doc EXCEPT ![n] = e] /\ Changed(n, doc[n], e)
    \/ /\ ~HasDoc(n) /\ cast' = cast
       /\ \E e \in Documents : Created(n, e) /\ doc' = [doc EXCEPT ![n] = e]

LEMMA EveryStepIsADocStep ==
  ASSUME TypeOK, [Next]_vars
  PROVE  SameDocs \/ \E n \in Nodes : DocStep(n)
  <1>1. ASSUME NEW n \in Nodes, EnableSync(n) PROVE DocStep(n)
    BY <1>1, NewDocumentType DEF EnableSync, DocStep, Created, SameDocs
  <1>2. ASSUME NEW n \in Nodes, DisableSync(n) PROVE SameDocs
    BY <1>2 DEF DisableSync, SameDocs
  <1>3. ASSUME NEW n \in Nodes, Vote(n) PROVE DocStep(n)
    <2>1. HasDoc(n) /\ cast' = [cast EXCEPT ![n] = @ + 1]
      BY <1>3 DEF Vote
    <2> QED
      BY <1>3, <2>1, VoteEffect DEF DocStep, Changed
  <1>4. ASSUME NEW n \in Nodes, Add(n) PROVE DocStep(n)
    <2>1. HasDoc(n) /\ cast' = cast /\ ops' = ops + 1
      BY <1>4 DEF Add, Mutate
    <2> QED
      BY <1>4, <2>1, AddEffect DEF DocStep, Changed
  <1>5. ASSUME NEW n \in Nodes, Remove(n) PROVE DocStep(n)
    <2>1. HasDoc(n) /\ cast' = cast
      BY <1>5 DEF Remove
    <2> QED
      BY <1>5, <2>1, RemoveEffect DEF DocStep, Changed
  <1>6. ASSUME NEW n \in Nodes, Write(n) PROVE DocStep(n)
    <2>1. HasDoc(n) /\ cast' = cast
      BY <1>6 DEF Write
    <2> QED
      BY <1>6, <2>1, WriteEffect DEF DocStep, Changed
  <1>7. ASSUME NEW n \in Nodes, AntiEntropy(n) PROVE SameDocs
    BY <1>7 DEF AntiEntropy, SameDocs
  <1>8. ASSUME NEW n \in Nodes, NEW from \in Nodes, ReceivePush(n, from) PROVE DocStep(n)
    <2>1. PICK m \in net :
            /\ m.type = "push" /\ m.to = n /\ cast' = cast
            /\ \/ ~HasDoc(n) /\ doc' = [doc EXCEPT ![n] = FromState(m.state)]
               \/ doc' = doc
               \/ HasDoc(n) /\ doc' = [doc EXCEPT ![n] = Merge(doc[n], m.state)]
      BY <1>8 DEF ReceivePush, Take
    <2>2. /\ FromState(m.state) \in Documents
          /\ HasDoc(n) => Successor(doc[n], Merge(doc[n], m.state))
      BY <2>1, ReceiveEffect
    <2>3. m.state \in Documents /\ Visible(m.state)
      BY <2>1, ReceiveEffect DEF States, Visible
    <2>4. ASSUME HasDoc(n) PROVE Changed(n, doc[n], Merge(doc[n], m.state))
      BY <2>1, <2>3 DEF Changed, Merge
    <2>5. HasDoc(n) => Merge(doc[n], m.state) \in Documents
      BY <2>2 DEF Successor
    <2>6. ~HasDoc(n) => Created(n, FromState(m.state))
      BY <2>1 DEF Created
    <2> QED
      BY <2>1, <2>2, <2>4, <2>5, <2>6 DEF DocStep, SameDocs
  <1>9. ASSUME NEW n \in Nodes, NEW from \in Nodes, ReceiveAck(n, from) PROVE SameDocs
    BY <1>9 DEF ReceiveAck, SameDocs
  <1>10. ASSUME NEW n \in Nodes, NEW from \in Nodes, MergeRoute(n, from) PROVE DocStep(n)
    <2>1. doc[n] \in Documents /\ doc[from] \in Documents /\ HasDoc(n)
      BY <1>10 DEF MergeRoute, HasDoc, TypeOK
    <2>2. Successor(doc[n], Merge(doc[n], doc[from]))
      BY <2>1, MergeIsUpperBound DEF Successor
    <2>3. doc' = [doc EXCEPT ![n] = Merge(doc[n], doc[from])] /\ cast' = cast
      BY <1>10 DEF MergeRoute
    <2>4. Visible(doc[from])
      BY <1>10 DEF MergeRoute, Visible
    <2>5. Changed(n, doc[n], Merge(doc[n], doc[from]))
      BY <2>1, <2>3, <2>4 DEF Changed, Merge
    <2>6. Merge(doc[n], doc[from]) \in Documents
      BY <2>2 DEF Successor
    <2> QED
      BY <2>1, <2>2, <2>3, <2>5, <2>6 DEF DocStep
  <1>11. ASSUME Lose PROVE SameDocs
    BY <1>11 DEF Lose, SameDocs
  <1>12. ASSUME UNCHANGED vars PROVE SameDocs
    BY <1>12 DEF vars, SameDocs
  <1> QED
    BY <1>1, <1>2, <1>3, <1>4, <1>5, <1>6, <1>7, <1>8, <1>9, <1>10, <1>11, <1>12 DEF Next

LEMMA DocsStep ==
  ASSUME TypeOK, [Next]_vars
  PROVE  DocsOK'
  <1>1. CASE SameDocs
    BY <1>1 DEF SameDocs, DocsOK, TypeOK
  <1>2. ASSUME NEW n \in Nodes, DocStep(n) PROVE DocsOK'
    BY <1>2 DEF DocStep, SameDocs, DocsOK, TypeOK
  <1> QED
    BY <1>1, <1>2, EveryStepIsADocStep

LEMMA RestStep ==
  ASSUME TypeOK, [Next]_vars
  PROVE  Rest'
  <1> USE DEF TypeOK
  <1>0. MaxOps \in Nat /\ MaxDisturbances \in Nat
    BY ReplicationAssumption DEF ReplicationAssumption
  <1>1. ASSUME NEW n \in Nodes, EnableSync(n) PROVE Rest'
    BY <1>1 DEF EnableSync, Rest
  <1>2. ASSUME NEW n \in Nodes, DisableSync(n) PROVE Rest'
    BY <1>0, <1>2 DEF DisableSync, Rest
  <1>3. ASSUME NEW n \in Nodes, NEW d, Mutate(n, d), cast' \in [Nodes -> Nat], usedTimes' \subseteq Times
        PROVE  Rest'
    BY <1>0, <1>3 DEF Mutate, Rest
  <1>4. ASSUME NEW n \in Nodes, Vote(n) \/ Add(n) \/ Remove(n) \/ Write(n) PROVE Rest'
    <2>1. cast' = cast \/ cast' = [cast EXCEPT ![n] = @ + 1]
      BY <1>4 DEF Vote, Add, Remove, Write
    <2>2. usedTimes' = usedTimes \/ \E time \in Times : usedTimes' = usedTimes \cup {time}
      BY <1>4 DEF Vote, Add, Remove, Write
    <2>3. cast' \in [Nodes -> Nat] /\ usedTimes' \subseteq Times
      BY <2>1, <2>2
    <2>4. \E d : Mutate(n, d)
      BY <1>4 DEF Vote, Add, Remove, Write
    <2> QED
      BY <1>3, <2>3, <2>4
  <1>5. ASSUME NEW n \in Nodes, AntiEntropy(n) PROVE Rest'
    BY <1>5 DEF AntiEntropy, Rest
  <1>6. ASSUME NEW n \in Nodes, NEW from \in Nodes, ReceivePush(n, from) PROVE Rest'
    <2>1. PICK m \in net :
            /\ m.type = "push" /\ m.to = n
            /\ seen' = [seen EXCEPT ![n] = @ \cup m.seen] \/ seen' = seen
            /\ UNCHANGED <<mode, disturbed, ops, usedTimes, cast>>
      BY <1>6 DEF ReceivePush, Take
    <2>2. m.seen \in SUBSET (1 .. MaxOps)
      BY <2>1, ReceiveEffect DEF States
    <2> QED
      BY <2>1, <2>2 DEF Rest
  <1>7. ASSUME NEW n \in Nodes, NEW from \in Nodes, ReceiveAck(n, from) PROVE Rest'
    BY <1>7 DEF ReceiveAck, Rest
  <1>8. ASSUME NEW n \in Nodes, NEW from \in Nodes, MergeRoute(n, from) PROVE Rest'
    BY <1>8 DEF MergeRoute, Rest
  <1>9. ASSUME Lose PROVE Rest'
    BY <1>0, <1>9 DEF Lose, Rest
  <1>10. ASSUME UNCHANGED vars PROVE Rest'
    BY <1>10 DEF vars, Rest
  <1> QED
    BY <1>1, <1>2, <1>4, <1>5, <1>6, <1>7, <1>8, <1>9, <1>10 DEF Next

LEMMA NetStep ==
  ASSUME TypeOK, DocsOK', [Next]_vars
  PROVE  NetOK'
  <1> USE DEF TypeOK
  <1>0. ASSUME NEW n \in Nodes, NEW p \in Nodes, NEW d \in Documents
        PROVE  Push(n, p, d) \in States /\ Ack(n, p) \in Acks
    BY DEF Push, States, Ack, Acks
  <1>1. ASSUME NEW n \in Nodes, EnableSync(n) PROVE NetOK'
    <2>1. doc'[n] \in Documents
      BY <1>1, NewDocumentType DEF EnableSync, HasDoc
    <2>2. {Push(n, p, doc'[n]) : p \in Nodes \ {n}} \subseteq States
      BY <1>0, <2>1
    <2> QED
      BY <1>1, <2>2 DEF EnableSync, Send, NetOK
  <1>2. ASSUME NEW n \in Nodes, DisableSync(n) PROVE NetOK'
    BY <1>2 DEF DisableSync, NetOK
  <1>3. ASSUME NEW n \in Nodes, Vote(n) \/ Add(n) \/ Remove(n) \/ Write(n) PROVE NetOK'
    BY <1>3 DEF Vote, Add, Remove, Write, Mutate, NetOK
  <1>4. ASSUME NEW n \in Nodes, AntiEntropy(n) PROVE NetOK'
    <2>1. doc[n] \in Documents /\ known[n] \subseteq Nodes
      BY <1>4 DEF AntiEntropy, HasDoc
    <2>2. {Push(n, p, doc[n]) : p \in known[n]} \subseteq States
      BY <1>0, <2>1
    <2> QED
      BY <1>4, <2>2 DEF AntiEntropy, Send, NetOK
  <1>5. ASSUME NEW n \in Nodes, NEW from \in Nodes, ReceivePush(n, from) PROVE NetOK'
    <2>1. PICK m \in net :
            /\ m.type = "push" /\ m.to = n /\ m.from = from
            /\ known' = [known EXCEPT ![n] = @ \cup {from}]
            /\ net' \subseteq net \cup {Ack(n, from)}
      BY <1>5 DEF ReceivePush, Take
    <2>2. Ack(n, from) \in Acks
      BY DEF Ack, Acks
    <2> QED
      BY <2>1, <2>2 DEF NetOK
  <1>6. ASSUME NEW n \in Nodes, NEW from \in Nodes, ReceiveAck(n, from) PROVE NetOK'
    BY <1>6 DEF ReceiveAck, NetOK
  <1>7. ASSUME NEW n \in Nodes, NEW from \in Nodes, MergeRoute(n, from) PROVE NetOK'
    BY <1>7 DEF MergeRoute, NetOK
  <1>8. ASSUME Lose PROVE NetOK'
    BY <1>8 DEF Lose, NetOK
  <1>9. ASSUME UNCHANGED vars PROVE NetOK'
    BY <1>9 DEF vars, NetOK
  <1> QED
    BY <1>1, <1>2, <1>3, <1>4, <1>5, <1>6, <1>7, <1>8, <1>9 DEF Next

(* Type correctness.                                                          *)
THEOREM ReplicationTypes == Spec => []TypeOK
  <1>1. Init => TypeOK
    BY ReplicationAssumption DEF ReplicationAssumption, Init, TypeOK
  <1>2. TypeOK /\ [Next]_vars => TypeOK'
    <2>1. TypeOK' <=> Rest' /\ DocsOK' /\ NetOK'
      BY DEF TypeOK, Rest, DocsOK, NetOK
    <2> QED
      BY <2>1, DocsStep, RestStep, NetStep
  <1> QED
    BY <1>1, <1>2, PTL DEF Spec

(* A replica only grows: no stale, repeated or reordered state and no route   *)
(* merge takes back a vote, a tombstone, an addition or a later write --      *)
(* receive, handlePush, crdt-merge and the local operations.                  *)
THEOREM ReplicasGrow == Spec => ReplicasOnlyGrow
  <1>1. TypeOK /\ [Next]_vars =>
          [\A n \in Nodes : HasDoc(n) => doc'[n] # None /\ Leq(doc[n], doc'[n])]_vars
    <2> SUFFICES ASSUME TypeOK, [Next]_vars, NEW k \in Nodes, HasDoc(k)
                 PROVE  doc'[k] # None /\ Leq(doc[k], doc'[k])
      OBVIOUS
    <2>1. doc[k] \in Documents /\ Leq(doc[k], doc[k]) /\ doc[k] # None
      BY LeqReflexive DEF TypeOK, HasDoc
    <2>2. CASE SameDocs
      BY <2>1, <2>2 DEF SameDocs
    <2>3. ASSUME NEW n \in Nodes, DocStep(n) PROVE doc'[k] # None /\ Leq(doc[k], doc'[k])
      BY <2>1, <2>3, NoneIsNoDocument DEF DocStep, SameDocs, Successor, TypeOK
    <2> QED
      BY <2>2, <2>3, EveryStepIsADocStep
  <1> QED
    BY <1>1, ReplicationTypes, PTL DEF Spec, ReplicasOnlyGrow

-----------------------------------------------------------------------------
(* Removals last.  Tags in circulation were handed out by the mutations so    *)
(* far, and a set never holds a tag both live and dead.                       *)

Sane(d) == d.set.live \cap d.set.dead = {} /\ d.set.live \cup d.set.dead \subseteq 1 .. ops
SaneInv ==
    /\ \A n \in Nodes : HasDoc(n) => Sane(doc[n])
    /\ \A m \in net : m.type = "push" => Sane(m.state)

(* A state in flight after a step was in flight before or is what its sender  *)
(* holds.                                                                     *)
Fresh(m) == /\ m.from \in Nodes /\ HasDoc(m.from)' /\ m.state = doc'[m.from]
            /\ m.seen = seen'[m.from]
            /\ m.to \in Nodes \ {m.from} \/ m.to \in known[m.from]

LEMMA PushesStep ==
  ASSUME TypeOK, [Next]_vars, NEW m \in net', m.type = "push"
  PROVE  m \in net \/ Fresh(m)
  <1>1. ASSUME NEW n \in Nodes, EnableSync(n) PROVE m \in net \/ Fresh(m)
    <2>1. m \in net \/ \E p \in Nodes \ {n} : m = Push(n, p, doc'[n])
      BY <1>1 DEF EnableSync, Send
    <2>2. HasDoc(n)' /\ seen' = seen
      BY <1>1, NewDocumentType, NoneIsNoDocument DEF EnableSync, HasDoc, TypeOK
    <2> QED
      BY <2>1, <2>2 DEF Push, Fresh
  <1>2. ASSUME NEW n \in Nodes, AntiEntropy(n) PROVE m \in net \/ Fresh(m)
    <2>1. m \in net \/ \E p \in known[n] : m = Push(n, p, doc[n])
      BY <1>2 DEF AntiEntropy, Send
    <2>2. HasDoc(n)' /\ doc'[n] = doc[n] /\ seen' = seen
      BY <1>2 DEF AntiEntropy, HasDoc
    <2> QED
      BY <2>1, <2>2 DEF Push, Fresh
  <1>3. ASSUME NEW n \in Nodes, Vote(n) \/ Add(n) \/ Remove(n) \/ Write(n) PROVE m \in net
    BY <1>3 DEF Vote, Add, Remove, Write, Mutate
  <1>4. ASSUME NEW n \in Nodes, NEW from \in Nodes, ReceivePush(n, from) PROVE m \in net
    <2>1. m \in net \/ m = Ack(n, from)
      BY <1>4 DEF ReceivePush, Take
    <2> QED
      BY <2>1 DEF Ack
  <1>5. ASSUME NEW n \in Nodes, NEW from \in Nodes,
               DisableSync(n) \/ ReceiveAck(n, from) \/ MergeRoute(n, from)
        PROVE  m \in net
    BY <1>5 DEF DisableSync, ReceiveAck, MergeRoute
  <1>6. ASSUME Lose PROVE m \in net
    BY <1>6 DEF Lose
  <1>7. ASSUME UNCHANGED vars PROVE m \in net
    BY <1>7 DEF vars
  <1> QED
    BY <1>1, <1>2, <1>3, <1>4, <1>5, <1>6, <1>7 DEF Next

LEMMA OpsStep ==
  ASSUME TypeOK, [Next]_vars
  PROVE  ops \in Nat /\ ops' \in {ops, ops + 1}
  <1>1. ops \in Nat
    BY ReplicationAssumption DEF ReplicationAssumption, TypeOK
  <1>2. ASSUME NEW n \in Nodes, Vote(n) \/ Add(n) \/ Remove(n) \/ Write(n) PROVE ops' = ops + 1
    BY <1>2 DEF Vote, Add, Remove, Write, Mutate
  <1>3. ASSUME NEW n \in Nodes, EnableSync(n) \/ DisableSync(n) \/ AntiEntropy(n) PROVE ops' = ops
    BY <1>3 DEF EnableSync, DisableSync, AntiEntropy
  <1>4. ASSUME NEW n \in Nodes, NEW from \in Nodes,
               ReceivePush(n, from) \/ ReceiveAck(n, from) \/ MergeRoute(n, from)
        PROVE  ops' = ops
    BY <1>4 DEF ReceivePush, ReceiveAck, MergeRoute
  <1>5. Lose \/ UNCHANGED vars => ops' = ops
    BY DEF Lose, vars
  <1> QED
    BY <1>1, <1>2, <1>3, <1>4, <1>5 DEF Next

LEMMA SaneStep ==
  ASSUME TypeOK, SaneInv, [Next]_vars
  PROVE  SaneInv'
  <1>1. ops \in Nat /\ ops' \in {ops, ops + 1}
    BY OpsStep
  <1>2. \A x : x \in 1 .. ops => x \in 1 .. ops'
    BY <1>1
  <1> DEFINE Fit(s) == s.live \cap s.dead = {} /\ s.live \cup s.dead \subseteq 1 .. ops'
  <1>3. ASSUME NEW d, Sane(d) PROVE Fit(d.set)
    BY <1>2, <1>3 DEF Sane
  <1>4. ASSUME NEW r, Visible(r) PROVE Sane(r)
    BY <1>4 DEF SaneInv, Visible
  <1>5. \A s, r \in TagSets : Fit(s) /\ Fit(r) => Fit(MergeSets(s, r))
    BY DEF MergeSets
  <1>6. ASSUME NEW n \in Nodes, HasDoc(n), NEW e \in Documents, Changed(n, doc[n], e)
        PROVE  Fit(e.set)
    <2>1. Sane(doc[n]) /\ doc[n] \in Documents /\ doc[n].set \in TagSets
      BY <1>6 DEF SaneInv, TypeOK, HasDoc, Documents
    <2>2. CASE e.set = doc[n].set
      BY <1>3, <2>1, <2>2
    <2>3. CASE e.set = RemoveTags(doc[n].set)
      <3>1. e.set.live = {} /\ e.set.dead = doc[n].set.dead \cup doc[n].set.live
        BY <2>3 DEF RemoveTags
      <3> QED
        BY <1>3, <2>1, <3>1
    <2>4. CASE e.set = AddTag(doc[n].set, ops + 1) /\ ops' = ops + 1
      <3>1. e.set.live = doc[n].set.live \cup {ops + 1} /\ e.set.dead = doc[n].set.dead
        BY <2>1, <2>4 DEF AddTag, TagSets
      <3>2. ops + 1 \notin doc[n].set.dead /\ ops + 1 \in 1 .. ops'
        BY <1>1, <2>1, <2>4 DEF Sane
      <3>3. Fit(doc[n].set)
        BY <1>3, <2>1
      <3> QED
        BY <3>1, <3>2, <3>3
    <2>5. ASSUME NEW r \in Documents, Visible(r), e.set = MergeSets(doc[n].set, r.set)
          PROVE  Fit(e.set)
      <3>1. Fit(r.set) /\ Fit(doc[n].set) /\ r.set \in TagSets
        BY <1>3, <1>4, <2>1, <2>5 DEF Documents
      <3> QED
        BY <1>5, <2>1, <2>5, <3>1
    <2> HIDE DEF Fit
    <2> QED
      BY <1>6, <2>2, <2>3, <2>4, <2>5 DEF Changed
  <1>7. ASSUME NEW n \in Nodes, NEW e \in Documents, Created(n, e) PROVE Fit(e.set)
    <2>1. CASE e = NewDocument(n)
      BY <2>1 DEF NewDocument
    <2>2. ASSUME NEW m \in net, m.type = "push", m.to = n, e = FromState(m.state)
          PROVE  Fit(e.set)
      <3>1. m.state \in Documents /\ Fit(m.state.set)
        BY <1>3, <2>2, ReceiveEffect DEF SaneInv, States
      <3>2. e.set = MergeSets([live |-> {}, dead |-> {}], m.state.set)
        BY <2>2 DEF FromState, Merge, NewDocument
      <3>3. m.state.set \in TagSets /\ [live |-> {}, dead |-> {}] \in TagSets
        BY <3>1 DEF Documents, TagSets
      <3> QED
        BY <1>5, <3>1, <3>2, <3>3
    <2> HIDE DEF Fit
    <2> QED
      BY <1>7, <2>1, <2>2 DEF Created
  <1>8. \A n \in Nodes : HasDoc(n)' => Fit(doc'[n].set)
    <2>1. CASE SameDocs
      BY <1>3, <2>1 DEF SameDocs, SaneInv, HasDoc
    <2>2. ASSUME NEW n \in Nodes, DocStep(n), NEW k \in Nodes, HasDoc(k)'
          PROVE  Fit(doc'[k].set)
      <3> HIDE DEF Fit
      <3>1. CASE k # n
        <4>1. doc'[k] = doc[k]
          BY <2>2, <3>1 DEF DocStep, SameDocs, TypeOK
        <4> QED
          BY <1>3, <2>2, <4>1 DEF SaneInv, HasDoc
      <3>2. CASE k = n /\ ~SameDocs
        BY <1>6, <1>7, <2>2, <3>2 DEF DocStep, TypeOK
      <3> QED
        BY <2>1, <2>2, <3>1, <3>2
    <2> HIDE DEF Fit
    <2> QED
      BY <2>1, <2>2, EveryStepIsADocStep
  <1>9. \A m \in net' : m.type = "push" => Fit(m.state.set)
    <2> SUFFICES ASSUME NEW m \in net', m.type = "push" PROVE Fit(m.state.set)
      OBVIOUS
    <2> HIDE DEF Fit
    <2>1. CASE m \in net
      BY <1>3, <2>1 DEF SaneInv
    <2>2. CASE Fresh(m)
      BY <1>8, <2>2 DEF Fresh
    <2> QED
      BY <2>1, <2>2, PushesStep
  <1> QED
    BY <1>8, <1>9 DEF SaneInv, Sane

(* What a replica has removed never shows there again, however late an older  *)
(* state arrives -- ORSet.remove and ORSet.merge's tombstones.                *)
THEOREM RemovalsLast == Spec => RemovedStaysRemoved
  <1>1. Init => SaneInv
    BY DEF Init, SaneInv, HasDoc
  <1>2. TypeOK /\ SaneInv /\ [Next]_vars => SaneInv'
    BY SaneStep
  <1>3. TypeOK /\ SaneInv /\ SaneInv' /\ [Next]_vars =>
          [\A n \in Nodes : HasDoc(n) => doc[n].set.dead \cap doc'[n].set.live = {}]_vars
    <2> SUFFICES ASSUME TypeOK, SaneInv, SaneInv', [Next]_vars, NEW k \in Nodes, HasDoc(k)
                 PROVE  doc[k].set.dead \cap doc'[k].set.live = {}
      OBVIOUS
    <2>1. doc[k] \in Documents
      BY DEF TypeOK, HasDoc
    <2>2. doc'[k] # None /\ SetLeq(doc[k].set, doc'[k].set)
      <3>1. CASE SameDocs
        BY <2>1, <3>1, LeqReflexive DEF SameDocs, HasDoc, Leq
      <3>2. ASSUME NEW n \in Nodes, DocStep(n)
            PROVE  doc'[k] # None /\ SetLeq(doc[k].set, doc'[k].set)
        BY <2>1, <3>2, LeqReflexive, NoneIsNoDocument DEF DocStep, SameDocs, Successor, TypeOK, HasDoc, Leq
      <3> QED
        BY <3>1, <3>2, EveryStepIsADocStep
    <2>3. Sane(doc[k])'
      BY <2>2 DEF SaneInv, HasDoc
    <2> QED
      BY <2>2, <2>3 DEF Sane, SetLeq
  <1> QED
    BY <1>1, <1>2, <1>3, ReplicationTypes, PTL DEF Spec, RemovedStaysRemoved

-----------------------------------------------------------------------------
(* Votes are counted.  A state in flight comes from another instance and      *)
(* bears the id of that instance's document; an instance without a document   *)
(* has had no vote cast on it; nobody holds more votes in the slot of an      *)
(* instance nobody else counts for than were cast there.                      *)

OriginInv ==
    /\ \A n \in Nodes : n \notin known[n] /\ (~HasDoc(n) => cast[n] = 0)
    /\ \A m \in net : m.from # m.to
    /\ \A m \in net : m.type = "push" => HasDoc(m.from) /\ m.state.id = doc[m.from].id
CountInv ==
    \A n \in Nodes : ~Impersonated(n) =>
        /\ HasDoc(n) /\ doc[n].id = n => doc[n].votes[n] = cast[n]
        /\ \A r : Visible(r) => r.votes[n] <= cast[n]

LEMMA IdsStay ==
  ASSUME TypeOK, [Next]_vars, NEW k \in Nodes, HasDoc(k)
  PROVE  HasDoc(k)' /\ doc'[k].id = doc[k].id /\ doc[k] \in Documents /\ doc'[k] \in Documents
  <1>1. doc[k] \in Documents
    BY DEF TypeOK, HasDoc
  <1>2. CASE SameDocs
    BY <1>1, <1>2 DEF SameDocs, HasDoc
  <1>3. ASSUME NEW n \in Nodes, DocStep(n)
        PROVE  HasDoc(k)' /\ doc'[k].id = doc[k].id /\ doc'[k] \in Documents
    BY <1>1, <1>3, NoneIsNoDocument DEF DocStep, SameDocs, Successor, TypeOK, HasDoc
  <1> QED
    BY <1>1, <1>2, <1>3, EveryStepIsADocStep

LEMMA MessagesStep ==
  ASSUME TypeOK, [Next]_vars, NEW m \in net', m.type # "push"
  PROVE  m \in net \/ \E n \in Nodes : \E p \in net : p.to = n /\ p.type = "push" /\ m = Ack(n, p.from)
  <1>1. ASSUME NEW n \in Nodes, EnableSync(n) \/ AntiEntropy(n) PROVE m \in net
    BY <1>1 DEF EnableSync, AntiEntropy, Send, Push
  <1>2. ASSUME NEW n \in Nodes, Vote(n) \/ Add(n) \/ Remove(n) \/ Write(n) \/ DisableSync(n)
        PROVE  m \in net
    BY <1>2 DEF Vote, Add, Remove, Write, Mutate, DisableSync
  <1>3. ASSUME NEW n \in Nodes, NEW from \in Nodes, ReceivePush(n, from)
        PROVE  m \in net \/ \E p \in net : p.to = n /\ p.type = "push" /\ m = Ack(n, p.from)
    BY <1>3 DEF ReceivePush, Take
  <1>4. ASSUME NEW n \in Nodes, NEW from \in Nodes, ReceiveAck(n, from) \/ MergeRoute(n, from)
        PROVE  m \in net
    BY <1>4 DEF ReceiveAck, MergeRoute
  <1>5. Lose \/ UNCHANGED vars => m \in net
    BY DEF Lose, vars
  <1> QED
    BY <1>1, <1>2, <1>3, <1>4, <1>5 DEF Next

LEMMA KnownStep ==
  ASSUME TypeOK, OriginInv, [Next]_vars, NEW k \in Nodes
  PROVE  k \notin known'[k]
  <1>1. ASSUME NEW n \in Nodes, NEW from \in Nodes, ReceivePush(n, from) PROVE k \notin known'[k]
    <2>1. from # n /\ known' = [known EXCEPT ![n] = @ \cup {from}]
      BY <1>1 DEF ReceivePush, OriginInv
    <2> QED
      BY <2>1 DEF OriginInv, TypeOK
  <1>2. ASSUME NEW n \in Nodes, NEW from \in Nodes, ReceiveAck(n, from) PROVE k \notin known'[k]
    <2>1. from # n /\ known' = [known EXCEPT ![n] = @ \cup {from}]
      BY <1>2 DEF ReceiveAck, OriginInv, Ack
    <2> QED
      BY <2>1 DEF OriginInv, TypeOK
  <1>3. ASSUME NEW n \in Nodes, NEW from \in Nodes,
               EnableSync(n) \/ DisableSync(n) \/ AntiEntropy(n) \/ MergeRoute(n, from)
        PROVE  known' = known
    BY <1>3 DEF EnableSync, DisableSync, AntiEntropy, MergeRoute
  <1>4. ASSUME NEW n \in Nodes, Vote(n) \/ Add(n) \/ Remove(n) \/ Write(n) PROVE known' = known
    BY <1>4 DEF Vote, Add, Remove, Write, Mutate
  <1>5. Lose \/ UNCHANGED vars => known' = known
    BY DEF Lose, vars
  <1> QED
    BY <1>1, <1>2, <1>3, <1>4, <1>5 DEF Next, OriginInv

LEMMA OriginStep ==
  ASSUME TypeOK, OriginInv, [Next]_vars
  PROVE  OriginInv'
  <1>1. ASSUME NEW m \in net'
        PROVE  /\ m.from # m.to
               /\ m.type = "push" => HasDoc(m.from)' /\ m.state.id = doc'[m.from].id
    <2>1. CASE m \in net
      <3>1. m.from # m.to /\ (m.type = "push" => HasDoc(m.from) /\ m.state.id = doc[m.from].id)
        BY <2>1 DEF OriginInv
      <3>2. m.from \in Nodes
        BY <2>1 DEF TypeOK, States, Acks
      <3> QED
        BY <3>1, <3>2, IdsStay
    <2>2. CASE m \notin net /\ m.type = "push"
      <3>1. Fresh(m)
        BY <2>2, PushesStep
      <3> QED
        BY <3>1 DEF Fresh, OriginInv
    <2>3. CASE m \notin net /\ m.type # "push"
      <3>1. PICK n \in Nodes, p \in net : p.to = n /\ p.type = "push" /\ m = Ack(n, p.from)
        BY <2>3, MessagesStep
      <3> QED
        BY <2>3, <3>1 DEF Ack, OriginInv
    <2> QED
      BY <2>1, <2>2, <2>3
  <1>2. ASSUME NEW k \in Nodes, ~HasDoc(k)' PROVE cast'[k] = 0
    <2>1. ~HasDoc(k) /\ cast[k] = 0 /\ cast \in [Nodes -> Nat]
      BY <1>2, IdsStay DEF OriginInv, TypeOK
    <2>2. ASSUME NEW n \in Nodes, DocStep(n), ~SameDocs PROVE cast'[k] = 0
      <3>1. CASE HasDoc(n)
        <4>1. n # k
          BY <2>1, <3>1
        <4>2. cast' = cast \/ cast' = [cast EXCEPT ![n] = @ + 1]
          BY <2>2, <3>1 DEF DocStep, Changed
        <4> QED
          BY <2>1, <4>1, <4>2
      <3>2. CASE ~HasDoc(n)
        BY <2>1, <2>2, <3>2 DEF DocStep
      <3> QED
        BY <3>1, <3>2
    <2> QED
      BY <2>1, <2>2, EveryStepIsADocStep DEF SameDocs
  <1> QED
    BY <1>1, <1>2, KnownStep DEF OriginInv

LEMMA CountStep ==
  ASSUME TypeOK, OriginInv, CountInv, [Next]_vars
  PROVE  CountInv'
  <1> SUFFICES ASSUME NEW k \in Nodes, ~Impersonated(k)'
               PROVE  /\ HasDoc(k)' /\ doc'[k].id = k => doc'[k].votes[k] = cast'[k]
                      /\ \A r : Visible(r)' => r.votes[k] <= cast'[k]
    BY DEF CountInv
  <1>0. \A n \in Nodes : HasDoc(n) => doc[n] \in Documents
    BY DEF TypeOK, HasDoc
  <1>1. ~Impersonated(k)
    <2> SUFFICES ASSUME NEW n \in Nodes \ {k}, doc[n].id = k PROVE doc'[n].id = k
      BY DEF Impersonated
    <2>1. HasDoc(n)
      BY NodesAssumption DEF NodesAssumption, HasDoc, None
    <2> QED
      BY <2>1, IdsStay
  <1>2. /\ HasDoc(k) /\ doc[k].id = k => doc[k].votes[k] = cast[k]
        /\ \A r : Visible(r) => r.votes[k] <= cast[k]
    BY <1>1 DEF CountInv
  <1>3. cast \in [Nodes -> Nat] /\ cast[k] \in Nat
    BY DEF TypeOK
  <1>4. \A n \in Nodes : HasDoc(n) => doc[n].votes[k] <= cast[k] /\ doc[n].votes \in Counters
    BY <1>0, <1>2 DEF Visible, Documents
  <1>5. \A c, d \in Counters : c[k] <= cast[k] /\ d[k] <= cast[k] => MergeCounters(c, d)[k] <= cast[k]
    BY DEF MergeCounters
  <1> DEFINE Goal(n) == /\ doc'[n].id = k /\ n = k => doc'[n].votes[k] = cast'[k]
                        /\ doc'[n].votes[k] <= cast'[k] /\ cast[k] <= cast'[k]
  (* One document is changed or created.                                      *)
  <1>6. ASSUME NEW n \in Nodes, HasDoc(n), NEW e \in Documents, Successor(doc[n], e),
               doc' = [doc EXCEPT ![n] = e], Changed(n, doc[n], e)
        PROVE  cast[k] <= cast'[k] /\ \A j \in Nodes : HasDoc(j)' => Goal(j)
    <2>1. doc[n] \in Documents /\ doc[n].votes \in Counters /\ doc[n].id \in Nodes /\ doc'[n] = e
          /\ e.id = doc[n].id
      BY <1>0, <1>6 DEF Documents, TypeOK, Successor
    <2>2. \A j \in Nodes \ {n} : doc'[j] = doc[j]
      BY <1>6 DEF TypeOK
    <2>3. \A c \in Counters : c[k] \in Nat
      BY DEF Counters
    <2>4. CASE e.votes = doc[n].votes /\ cast' = cast
      BY <1>2, <1>3, <1>4, <1>6, <2>1, <2>2, <2>4 DEF HasDoc
    <2>5. CASE e.votes = Increment(doc[n].votes, doc[n].id) /\ cast' = [cast EXCEPT ![n] = @ + 1]
      <3>1. CASE n = k
        <4>1. cast'[k] = cast[k] + 1
          BY <1>3, <2>5, <3>1
        <4>2. doc[n].id = k => e.votes[k] = doc[n].votes[k] + 1
          BY <2>1, <2>5 DEF Increment, Counters
        <4>3. doc[n].id # k => e.votes[k] = doc[n].votes[k]
          BY <2>1, <2>5 DEF Increment, Counters
        <4> QED
          BY <1>2, <1>3, <1>4, <1>6, <2>1, <2>2, <2>3, <3>1, <4>1, <4>2, <4>3 DEF HasDoc
      <3>2. CASE n # k
        <4>1. doc[n].id # k
          BY <1>1, <3>2 DEF Impersonated
        <4>2. e.votes[k] = doc[n].votes[k]
          BY <2>1, <2>5, <4>1 DEF Increment, Counters
        <4>3. cast'[k] = cast[k]
          BY <1>3, <2>5, <3>2
        <4> QED
          BY <1>2, <1>3, <1>4, <1>6, <2>1, <2>2, <3>2, <4>2, <4>3 DEF HasDoc
      <3> QED
        BY <3>1, <3>2
    <2>6. ASSUME NEW r \in Documents, Visible(r), cast' = cast,
                 e.votes = MergeCounters(doc[n].votes, r.votes)
          PROVE  cast[k] <= cast'[k] /\ \A j \in Nodes : HasDoc(j)' => Goal(j)
      <3>1. r.votes \in Counters /\ r.votes[k] <= cast[k]
        BY <1>2, <2>6 DEF Documents
      <3>2. e.votes[k] <= cast[k]
        BY <1>4, <1>5, <1>6, <2>1, <2>6, <3>1
      <3>3. doc[n].votes[k] <= e.votes[k] /\ e.votes[k] \in Nat
        BY <2>1, <2>3, <2>6, <3>1, CountersMerge DEF CounterLeq
      <3>4. doc[n].id = k /\ n = k => e.votes[k] = cast[k]
        BY <1>2, <1>3, <1>6, <2>1, <2>3, <3>2, <3>3
      <3> QED
        BY <1>2, <1>3, <1>4, <2>1, <2>2, <2>6, <3>2, <3>4 DEF HasDoc
    <2> HIDE DEF Goal
    <2> QED
      BY <1>6, <2>4, <2>5, <2>6, <1>3 DEF Changed
  <1>7. ASSUME NEW n \in Nodes, ~HasDoc(n), cast' = cast, NEW e \in Documents, Created(n, e),
               doc' = [doc EXCEPT ![n] = e]
        PROVE  cast[k] <= cast'[k] /\ \A j \in Nodes : HasDoc(j)' => Goal(j)
    <2>1. doc'[n] = e /\ (\A j \in Nodes \ {n} : doc'[j] = doc[j]) /\ cast[n] = 0
      BY <1>7 DEF TypeOK, OriginInv
    <2>2. CASE e = NewDocument(n)
      <3>1. e.votes[k] = 0
        BY <2>2 DEF NewDocument
      <3> QED
        BY <1>2, <1>3, <1>4, <1>7, <2>1, <3>1 DEF HasDoc
    <2>3. ASSUME NEW m \in net, m.type = "push", m.to = n, e = FromState(m.state)
          PROVE  cast[k] <= cast'[k] /\ \A j \in Nodes : HasDoc(j)' => Goal(j)
      <3>1. /\ m.state \in Documents /\ e.id = m.state.id /\ m.from \in Nodes \ {n}
            /\ doc[m.from].id = m.state.id
        BY <2>3, ReceiveEffect DEF States, OriginInv
      <3>2. n = k => e.id # k
        BY <1>1, <3>1 DEF Impersonated
      <3>3. m.state.votes \in Counters /\ m.state.votes[k] <= cast[k]
        BY <1>2, <2>3, <3>1 DEF Visible, Documents
      <3>4. e.votes = MergeCounters([j \in Nodes |-> 0], m.state.votes)
        BY <2>3 DEF FromState, Merge, NewDocument
      <3>5. e.votes[k] <= cast[k]
        BY <1>3, <3>3, <3>4 DEF MergeCounters, Counters
      <3> QED
        BY <1>2, <1>3, <1>4, <1>7, <2>1, <3>2, <3>5 DEF HasDoc
    <2> HIDE DEF Goal
    <2> QED
      BY <1>7, <2>2, <2>3 DEF Created
  <1>8. cast[k] <= cast'[k] /\ \A j \in Nodes : HasDoc(j)' => Goal(j)
    <2>1. CASE SameDocs
      BY <1>2, <1>3, <1>4, <2>1 DEF SameDocs, HasDoc
    <2> HIDE DEF Goal
    <2>2. ASSUME NEW n \in Nodes, DocStep(n)
          PROVE  cast[k] <= cast'[k] /\ \A j \in Nodes : HasDoc(j)' => Goal(j)
      BY <1>6, <1>7, <2>1, <2>2 DEF DocStep
    <2> QED
      BY <2>1, <2>2, EveryStepIsADocStep
  <1>9. ASSUME NEW r, Visible(r)' PROVE r.votes[k] <= cast'[k]
    <2>1. CASE \E n \in Nodes : HasDoc(n)' /\ r = doc'[n]
      BY <1>8, <2>1
    <2>2. ASSUME NEW m \in net', m.type = "push", r = m.state PROVE r.votes[k] <= cast'[k]
      <3>1. CASE Fresh(m)
        BY <1>8, <2>2, <3>1 DEF Fresh
      <3>2. CASE m \in net
        <4>1. r.votes[k] <= cast[k] /\ m \in States
          BY <1>2, <2>2, <3>2 DEF Visible, TypeOK, Acks
        <4>2. r.votes[k] \in Nat
          BY <2>2, <4>1 DEF States, Documents, Counters
        <4>3. cast'[k] \in Nat
          BY RestStep DEF Rest
        <4> QED
          BY <1>3, <1>8, <4>1, <4>2, <4>3
      <3> QED
        BY <2>2, <3>1, <3>2, PushesStep
    <2> QED
      BY <1>9, <2>1, <2>2 DEF Visible
  <1> QED
    BY <1>8, <1>9

(* No vote is lost or invented as long as nobody counts in another's slot --  *)
(* GCounter.increment, merge, and the document's own id.                      *)
THEOREM VotesCounted == Spec => []VotesAreCounted
  <1>1. Init => OriginInv /\ CountInv
    BY DEF Init, OriginInv, CountInv, HasDoc, Visible
  <1>2. TypeOK /\ OriginInv /\ CountInv /\ [Next]_vars => OriginInv' /\ CountInv'
    BY OriginStep, CountStep
  <1>3. TypeOK /\ CountInv => VotesAreCounted
    BY DEF CountInv, VotesAreCounted, Visible
  <1> QED
    BY <1>1, <1>2, <1>3, ReplicationTypes, PTL DEF Spec
-----------------------------------------------------------------------------
(* Convergence.  Every document and every state in flight is the join of what *)
(* the mutations it reflects made: greatest counts, all tombstones, all tags  *)
(* without one, the register of the latest write.  Two of the same mutations  *)
(* are then equal to a reader.  Only a unique time makes the latest write     *)
(* well defined (LWWRegister breaks ties by a node id that two writes of one  *)
(* time may share), hence the hypothesis.                                     *)

Held(S, d) ==
    \/ \E n \in Nodes : HasDoc(n) /\ S = seen[n] /\ d = doc[n]
    \/ \E m \in net : m.type = "push" /\ S = m.seen /\ d = m.state
SeenInv ==
    /\ \A n \in Nodes : ~HasDoc(n) => seen[n] = {}
    /\ \A S, d : Held(S, d) => S \subseteq 1 .. ops

(* c[o] is the document mutation o made.                                      *)
VotesOf(c, S, votes) ==
    \A k \in Nodes : /\ \A o \in S : c[o].votes[k] <= votes[k]
                     /\ votes[k] = 0 \/ \E o \in S : c[o].votes[k] = votes[k]
TagsOf(c, S, s) ==
    /\ \A x \in Nat : x \in s.dead <=> \E o \in S : x \in c[o].set.dead
    /\ \A x \in Nat : x \in s.live <=> x \notin s.dead /\ \E o \in S : x \in c[o].set.live
RegOf(c, S, reg) ==
    /\ \A o \in S : c[o].reg.time <= reg.time
    /\ \/ reg.time = 0 /\ reg.value = Null
       \/ \E o \in S : c[o].reg.time = reg.time /\ c[o].reg.value = reg.value
JoinOf(c, S, d) == VotesOf(c, S, d.votes) /\ TagsOf(c, S, d.set) /\ RegOf(c, S, d.reg)

(* One time, one value.                                                       *)
OneValue(c, O) ==
    \A o, p \in O : /\ c[o].reg.time = c[p].reg.time => c[o].reg.value = c[p].reg.value
                    /\ c[o].reg.time = 0 => c[o].reg.value = Null
Stamped(c) == \A o \in 1 .. ops : c[o].reg.time \in usedTimes \cup {0}
Joins(c) ==
    /\ OneValue(c, 1 .. ops) /\ Stamped(c)
    /\ \A S, d : Held(S, d) => JoinOf(c, S, d)
JoinInv == \E c \in [1 .. ops -> Documents] : Joins(c)

LEMMA HeldTypes ==
  ASSUME TypeOK, NEW S, NEW d, Held(S, d)
  PROVE  d \in Documents /\ S \subseteq Nat
  <1>1. CASE \E n \in Nodes : HasDoc(n) /\ S = seen[n] /\ d = doc[n]
    <2>1. S \in SUBSET (1 .. MaxOps) /\ d \in Documents
      BY <1>1 DEF TypeOK, HasDoc
    <2> QED
      BY <2>1, ReplicationAssumption DEF ReplicationAssumption
  <1>2. ASSUME NEW m \in net, m.type = "push", S = m.seen, d = m.state
        PROVE  d \in Documents /\ S \subseteq Nat
    <2>1. m \in States
      BY <1>2 DEF TypeOK, Acks
    <2>2. S \in SUBSET (1 .. MaxOps) /\ d \in Documents
      BY <1>2, <2>1 DEF States
    <2> QED
      BY <2>2, ReplicationAssumption DEF ReplicationAssumption
  <1> QED
    BY <1>1, <1>2 DEF Held

(* Joins of two joins, and of nothing.                                        *)

LEMMA NothingJoins ==
  ASSUME NEW c, NEW n \in Nodes
  PROVE  JoinOf(c, {}, NewDocument(n))
  BY DEF JoinOf, VotesOf, TagsOf, RegOf, NewDocument

LEMMA VotesJoin ==
  ASSUME NEW O, NEW c \in [O -> Documents], NEW S \in SUBSET O, NEW T \in SUBSET O,
         NEW v \in Counters, NEW w \in Counters, VotesOf(c, S, v), VotesOf(c, T, w)
  PROVE  VotesOf(c, S \cup T, MergeCounters(v, w))
  <1> SUFFICES ASSUME NEW k \in Nodes
               PROVE  /\ \A o \in S \cup T : c[o].votes[k] <= MergeCounters(v, w)[k]
                      /\ \/ MergeCounters(v, w)[k] = 0
                         \/ \E o \in S \cup T : c[o].votes[k] = MergeCounters(v, w)[k]
    BY DEF VotesOf
  <1>1. v[k] \in Nat /\ w[k] \in Nat
    BY DEF Counters
  <1>2. MergeCounters(v, w)[k] = IF w[k] > v[k] THEN w[k] ELSE v[k]
    BY DEF MergeCounters
  <1>3. \A o \in O : c[o].votes[k] \in Nat
    BY DEF Documents, Counters
  <1>4. /\ \A o \in S : c[o].votes[k] <= v[k]
        /\ \A o \in T : c[o].votes[k] <= w[k]
        /\ v[k] = 0 \/ \E o \in S : c[o].votes[k] = v[k]
        /\ w[k] = 0 \/ \E o \in T : c[o].votes[k] = w[k]
    BY DEF VotesOf
  <1>5. CASE w[k] > v[k]
    BY <1>1, <1>2, <1>3, <1>4, <1>5
  <1>6. CASE ~(w[k] > v[k])
    BY <1>1, <1>2, <1>3, <1>4, <1>6
  <1> QED
    BY <1>5, <1>6

LEMMA TagsJoin ==
  ASSUME NEW c, NEW S, NEW T, NEW s \in TagSets, NEW r \in TagSets,
         TagsOf(c, S, s), TagsOf(c, T, r)
  PROVE  TagsOf(c, S \cup T, MergeSets(s, r))
  <1> DEFINE e == MergeSets(s, r)
  <1>1. e.dead = s.dead \cup r.dead /\ e.live = (s.live \cup r.live) \ (s.dead \cup r.dead)
    BY DEF MergeSets
  <1> HIDE DEF e
  <1>2. ASSUME NEW x \in Nat
        PROVE  x \in e.dead <=> \E o \in S \cup T : x \in c[o].set.dead
    BY <1>1 DEF TagsOf
  <1>3. ASSUME NEW x \in Nat
        PROVE  x \in e.live <=> x \notin e.dead /\ \E o \in S \cup T : x \in c[o].set.live
    BY <1>1 DEF TagsOf
  <1>4. TagsOf(c, S \cup T, e)
    BY <1>2, <1>3 DEF TagsOf
  <1> QED
    BY <1>4 DEF e

LEMMA RegJoin ==
  ASSUME NEW O, NEW c \in [O -> Documents], OneValue(c, O),
         NEW S \in SUBSET O, NEW T \in SUBSET O,
         NEW a \in Registers, NEW b \in Registers, RegOf(c, S, a), RegOf(c, T, b)
  PROVE  RegOf(c, S \cup T, MergeRegisters(a, b))
  <1>1. \A o \in O : c[o].reg.time \in Nat
    BY RegisterFields DEF Documents
  <1>2. a.time \in Nat /\ b.time \in Nat
    BY RegisterFields
  <1>3. CASE Later(b, a)
    <2>1. MergeRegisters(a, b) = b /\ a.time <= b.time
      BY <1>2, <1>3 DEF MergeRegisters, Later
    <2>2. \A o \in S \cup T : c[o].reg.time <= b.time
      BY <1>1, <1>2, <2>1 DEF RegOf
    <2> QED
      BY <2>1, <2>2 DEF RegOf
  <1>4. CASE ~Later(b, a)
    <2>1. MergeRegisters(a, b) = a /\ b.time <= a.time
      BY <1>2, <1>4 DEF MergeRegisters, Later
    <2>2. \A o \in S \cup T : c[o].reg.time <= a.time
      BY <1>1, <1>2, <2>1 DEF RegOf
    <2> QED
      BY <2>1, <2>2 DEF RegOf
  <1> QED
    BY <1>3, <1>4

LEMMA JoinsJoin ==
  ASSUME NEW O, NEW c \in [O -> Documents], OneValue(c, O),
         NEW S \in SUBSET O, NEW T \in SUBSET O,
         NEW d \in Documents, NEW r \in Documents, JoinOf(c, S, d), JoinOf(c, T, r)
  PROVE  JoinOf(c, S \cup T, Merge(d, r))
  <1>1. /\ d.votes \in Counters /\ r.votes \in Counters /\ d.set \in TagSets /\ r.set \in TagSets
        /\ d.reg \in Registers /\ r.reg \in Registers
    BY DEF Documents
  <1>2. /\ VotesOf(c, S \cup T, MergeCounters(d.votes, r.votes))
        /\ TagsOf(c, S \cup T, MergeSets(d.set, r.set))
        /\ RegOf(c, S \cup T, MergeRegisters(d.reg, r.reg))
    BY <1>1, VotesJoin, TagsJoin, RegJoin DEF JoinOf
  <1> QED
    BY <1>2 DEF JoinOf, Merge

(* The same join is the same to a reader.                                     *)
LEMMA JoinDetermines ==
  ASSUME NEW O, NEW c \in [O -> Documents], OneValue(c, O), NEW S \in SUBSET O,
         NEW d \in Documents, NEW e \in Documents, JoinOf(c, S, d), JoinOf(c, S, e)
  PROVE  Value(d) = Value(e)
  <1>1. /\ d.votes \in Counters /\ e.votes \in Counters /\ d.set \in TagSets /\ e.set \in TagSets
        /\ d.reg \in Registers /\ e.reg \in Registers
    BY DEF Documents
  <1>2. \A o \in O : c[o].reg.time \in Nat /\ c[o].votes \in Counters
    BY RegisterFields DEF Documents
  <1>3. d.votes = e.votes
    <2>1. ASSUME NEW k \in Nodes PROVE d.votes[k] = e.votes[k]
      <3>1. d.votes[k] \in Nat /\ e.votes[k] \in Nat /\ \A o \in O : c[o].votes[k] \in Nat
        BY <1>1, <1>2 DEF Counters
      <3>2. /\ \A o \in S : c[o].votes[k] <= d.votes[k] /\ c[o].votes[k] <= e.votes[k]
            /\ d.votes[k] = 0 \/ \E o \in S : c[o].votes[k] = d.votes[k]
            /\ e.votes[k] = 0 \/ \E o \in S : c[o].votes[k] = e.votes[k]
        BY DEF JoinOf, VotesOf
      <3>3. d.votes[k] <= e.votes[k]
        BY <3>1, <3>2
      <3>4. e.votes[k] <= d.votes[k]
        BY <3>1, <3>2
      <3> QED
        BY <3>1, <3>3, <3>4
    <2> QED
      BY <1>1, <2>1 DEF Counters
  <1>4. d.set.live = e.set.live
    <2>1. d.set.live \subseteq Nat /\ e.set.live \subseteq Nat
      BY <1>1 DEF TagSets
    <2>2. \A x \in Nat : x \in d.set.dead <=> x \in e.set.dead
      BY DEF JoinOf, TagsOf
    <2>3. \A x \in Nat : x \in d.set.live <=> x \in e.set.live
      BY <2>2 DEF JoinOf, TagsOf
    <2> QED
      BY <2>1, <2>3
  <1>5. d.reg.value = e.reg.value
    <2>1. RegOf(c, S, d.reg) /\ RegOf(c, S, e.reg)
      BY DEF JoinOf
    <2>2. d.reg.time \in Nat /\ e.reg.time \in Nat
      BY <1>1, RegisterFields
    <2>3. d.reg.time = e.reg.time
      BY <1>2, <2>1, <2>2 DEF RegOf
    <2>4. CASE \E o \in S : c[o].reg.time = d.reg.time /\ c[o].reg.value = d.reg.value
      BY <2>1, <2>3, <2>4 DEF RegOf, OneValue
    <2>5. CASE d.reg.time = 0 /\ d.reg.value = Null
      BY <2>1, <2>3, <2>5 DEF RegOf, OneValue
    <2> QED
      BY <2>1, <2>4, <2>5 DEF RegOf
  <1> QED
    BY <1>3, <1>4, <1>5 DEF Value
(* What a step adds to what is held: new documents and merges, or one         *)
(* document a mutation made.                                                  *)

Base(S, d) == Held(S, d) \/ (S = {} /\ \E n \in Nodes : d = NewDocument(n))
Derived(S, d) ==
    \/ Base(S, d)
    \/ \E P, p, T, r : Base(P, p) /\ Held(T, r) /\ S = P \cup T /\ d = Merge(p, r)
Quiet ==
    /\ ops' = ops /\ usedTimes' = usedTimes
    /\ \A S, d : Held(S, d)' => Derived(S, d)

MadeBy(n, e) ==
    /\ HasDoc(n) /\ Successor(doc[n], e) /\ ops' = ops + 1 /\ usedTimes \subseteq usedTimes'
    /\ doc' = [doc EXCEPT ![n] = e] /\ seen' = [seen EXCEPT ![n] = @ \cup {ops + 1}]
    /\ net' = net
    /\ \/ e.reg.time = doc[n].reg.time /\ e.reg.value = doc[n].reg.value
       \/ e.reg.time \notin usedTimes \cup {0} /\ e.reg.time \in usedTimes'

LEMMA WriteMakes ==
  ASSUME TypeOK, UniqueTimes = TRUE, NEW n \in Nodes, Write(n)
  PROVE  \E e \in Documents : MadeBy(n, e)
  <1>1. PICK time \in Times :
          /\ time \notin usedTimes /\ usedTimes' = usedTimes \cup {time}
          /\ Mutate(n, [doc[n] EXCEPT !.reg = SetRegister(@, ops + 1, time)])
    BY DEF Write
  <1> DEFINE d == [doc[n] EXCEPT !.reg = SetRegister(@, ops + 1, time)]
  <1>2. doc[n] \in Documents /\ HasDoc(n) /\ doc[n].reg \in Registers
    BY DEF TypeOK, HasDoc, Write, Documents
  <1>3. ops + 1 \in Nat /\ time \in Nat /\ time # 0
    BY ReplicationAssumption DEF ReplicationAssumption, TypeOK
  <1>4. Successor(doc[n], d)
    BY <1>2, <1>3, WriteGrows
  <1>5. d.reg = SetRegister(doc[n].reg, ops + 1, time)
    BY <1>2 DEF Documents
  <1>6. Mutate(n, d)
    BY <1>1
  <1> HIDE DEF d
  <1>7. PICK e \in Documents : /\ Successor(doc[n], e) /\ e.reg = d.reg
                               /\ doc' = [doc EXCEPT ![n] = e]
    BY <1>2, <1>4, <1>6, MutateEffect
  <1>8. \/ e.reg.time = doc[n].reg.time /\ e.reg.value = doc[n].reg.value
        \/ e.reg.time = time
    BY <1>2, <1>5, <1>7 DEF SetRegister, Registers
  <1>9. /\ seen' = [seen EXCEPT ![n] = @ \cup {ops + 1}] /\ net' = net /\ ops' = ops + 1
    BY <1>6 DEF Mutate
  <1>10. MadeBy(n, e)
    BY <1>1, <1>2, <1>3, <1>7, <1>8, <1>9 DEF MadeBy
  <1> QED
    BY <1>10

LEMMA OtherMutationsMake ==
  ASSUME TypeOK, NEW n \in Nodes, NEW d, HasDoc(n), Successor(doc[n], d), d.reg = doc[n].reg,
         Mutate(n, d), usedTimes' = usedTimes
  PROVE  \E e \in Documents : MadeBy(n, e)
  <1>1. PICK e \in Documents : /\ Successor(doc[n], e) /\ e.reg = d.reg
                               /\ doc' = [doc EXCEPT ![n] = e]
    BY MutateEffect
  <1>2. seen' = [seen EXCEPT ![n] = @ \cup {ops + 1}] /\ net' = net /\ ops' = ops + 1
    BY DEF Mutate
  <1>3. MadeBy(n, e)
    BY <1>1, <1>2 DEF MadeBy
  <1> QED
    BY <1>3

LEMMA MutationsMake ==
  ASSUME TypeOK, UniqueTimes = TRUE, NEW n \in Nodes, Vote(n) \/ Add(n) \/ Remove(n) \/ Write(n)
  PROVE  \E e \in Documents : MadeBy(n, e)
  <1>1. doc[n] \in Documents /\ HasDoc(n) /\ ops + 1 \in Nat
    <2>1. HasDoc(n)
      BY DEF Vote, Add, Remove, Write
    <2> QED
      BY <2>1 DEF TypeOK, HasDoc
  <1>2. CASE Vote(n)
    <2> DEFINE d == [doc[n] EXCEPT !.votes = Increment(@, doc[n].id)]
    <2>1. Successor(doc[n], d) /\ d.reg = doc[n].reg
      BY <1>1, VoteGrows DEF Documents
    <2>2. Mutate(n, d) /\ usedTimes' = usedTimes
      BY <1>2 DEF Vote
    <2> HIDE DEF d
    <2> QED
      BY <1>1, <2>1, <2>2, OtherMutationsMake
  <1>3. CASE Add(n)
    <2> DEFINE d == [doc[n] EXCEPT !.set = AddTag(@, ops + 1)]
    <2>1. Successor(doc[n], d) /\ d.reg = doc[n].reg
      BY <1>1, AddGrows DEF Documents
    <2>2. Mutate(n, d) /\ usedTimes' = usedTimes
      BY <1>3 DEF Add
    <2> HIDE DEF d
    <2> QED
      BY <1>1, <2>1, <2>2, OtherMutationsMake
  <1>4. CASE Remove(n)
    <2> DEFINE d == [doc[n] EXCEPT !.set = RemoveTags(@)]
    <2>1. Successor(doc[n], d) /\ d.reg = doc[n].reg
      BY <1>1, RemoveGrows DEF Documents
    <2>2. Mutate(n, d) /\ usedTimes' = usedTimes
      BY <1>4 DEF Remove
    <2> HIDE DEF d
    <2> QED
      BY <1>1, <2>1, <2>2, OtherMutationsMake
  <1> QED
    BY <1>2, <1>3, <1>4, WriteMakes

(* What else a step may do to one document and what it reflects.              *)
LEMMA OneDocumentDerived ==
  ASSUME TypeOK, [Next]_vars, NEW n \in Nodes, NEW D, NEW E,
         ops' = ops, usedTimes' = usedTimes,
         doc' = [doc EXCEPT ![n] = D], seen' = [seen EXCEPT ![n] = E], Derived(E, D)
  PROVE  Quiet
  <1> SUFFICES ASSUME NEW S, NEW d, Held(S, d)' PROVE Derived(S, d)
    BY DEF Quiet
  <1>1. ASSUME NEW k \in Nodes, HasDoc(k)' PROVE Derived(seen'[k], doc'[k])
    <2>1. CASE k = n
      BY <2>1 DEF TypeOK
    <2>2. CASE k # n
      <3>1. seen'[k] = seen[k] /\ doc'[k] = doc[k]
        BY <2>2 DEF TypeOK
      <3> QED
        BY <1>1, <3>1 DEF Derived, Base, Held, HasDoc
    <2> QED
      BY <2>1, <2>2
  <1>2. ASSUME NEW m \in net', m.type = "push" PROVE Derived(m.seen, m.state)
    <2>1. CASE m \in net
      BY <1>2, <2>1 DEF Derived, Base, Held
    <2>2. CASE Fresh(m)
      BY <1>1, <2>2 DEF Fresh
    <2> QED
      BY <1>2, <2>1, <2>2, PushesStep
  <1> QED
    BY <1>1, <1>2 DEF Held

LEMMA SameDocumentsQuiet ==
  ASSUME TypeOK, [Next]_vars, ops' = ops, usedTimes' = usedTimes, doc' = doc, seen' = seen
  PROVE  Quiet
  <1> SUFFICES ASSUME NEW S, NEW d, Held(S, d)' PROVE Derived(S, d)
    BY DEF Quiet
  <1>1. ASSUME NEW k \in Nodes, HasDoc(k)' PROVE Derived(seen'[k], doc'[k])
    BY <1>1 DEF Derived, Base, Held, HasDoc
  <1>2. ASSUME NEW m \in net', m.type = "push" PROVE Derived(m.seen, m.state)
    <2>1. CASE m \in net
      BY <1>2, <2>1 DEF Derived, Base, Held
    <2>2. CASE Fresh(m)
      BY <1>1, <2>2 DEF Fresh
    <2> QED
      BY <1>2, <2>1, <2>2, PushesStep
  <1> QED
    BY <1>1, <1>2 DEF Held

LEMMA StatesStep ==
  ASSUME TypeOK, SeenInv, UniqueTimes = TRUE, [Next]_vars
  PROVE  Quiet \/ \E n \in Nodes, e \in Documents : MadeBy(n, e)
  <1>1. ASSUME NEW n \in Nodes, EnableSync(n) PROVE Quiet
    <2>1. ops' = ops /\ usedTimes' = usedTimes /\ seen' = seen
      BY <1>1 DEF EnableSync
    <2>2. CASE HasDoc(n)
      <3>1. doc' = doc
        BY <1>1, <2>2 DEF EnableSync
      <3> QED
        BY <2>1, <3>1, SameDocumentsQuiet
    <2>3. CASE ~HasDoc(n)
      <3>1. doc' = [doc EXCEPT ![n] = NewDocument(n)] /\ seen' = [seen EXCEPT ![n] = {}]
        BY <1>1, <2>1, <2>3 DEF EnableSync, SeenInv, TypeOK
      <3>2. Derived({}, NewDocument(n))
        BY DEF Derived, Base
      <3> QED
        BY <2>1, <3>1, <3>2, OneDocumentDerived
    <2> QED
      BY <2>2, <2>3
  <1>2. ASSUME NEW n \in Nodes, NEW from \in Nodes,
               DisableSync(n) \/ AntiEntropy(n) \/ ReceiveAck(n, from)
        PROVE  Quiet
    <2>1. ops' = ops /\ usedTimes' = usedTimes /\ doc' = doc /\ seen' = seen
      BY <1>2 DEF DisableSync, AntiEntropy, ReceiveAck
    <2> QED
      BY <2>1, SameDocumentsQuiet
  <1>3. ASSUME NEW n \in Nodes, Vote(n) \/ Add(n) \/ Remove(n) \/ Write(n)
        PROVE  \E e \in Documents : MadeBy(n, e)
    BY <1>3, MutationsMake
  <1>4. ASSUME NEW n \in Nodes, NEW from \in Nodes, ReceivePush(n, from) PROVE Quiet
    <2>1. PICK m \in net :
            /\ m.type = "push" /\ m.to = n
            /\ \/ ~HasDoc(n) /\ Take(n, m, FromState(m.state))
               \/ doc' = doc /\ seen' = seen
               \/ HasDoc(n) /\ Take(n, m, Merge(doc[n], m.state))
      BY <1>4 DEF ReceivePush
    <2>2. ops' = ops /\ usedTimes' = usedTimes
      BY <1>4 DEF ReceivePush
    <2>3. Held(m.seen, m.state) /\ m.state.id \in Nodes
      BY <2>1, ReceiveEffect DEF Held, States, Documents
    <2>4. CASE ~HasDoc(n) /\ Take(n, m, FromState(m.state))
      <3>1. Base({}, NewDocument(m.state.id))
        BY <2>3 DEF Base
      <3>2. Derived({} \cup m.seen, FromState(m.state))
        BY <2>3, <3>1 DEF Derived, FromState
      <3>3. /\ doc' = [doc EXCEPT ![n] = FromState(m.state)]
            /\ seen' = [seen EXCEPT ![n] = {} \cup m.seen]
        BY <2>4 DEF Take, SeenInv, TypeOK
      <3> QED
        BY <2>2, <3>2, <3>3, OneDocumentDerived
    <2>5. CASE doc' = doc /\ seen' = seen
      BY <2>2, <2>5, SameDocumentsQuiet
    <2>6. CASE HasDoc(n) /\ Take(n, m, Merge(doc[n], m.state))
      <3>1. Base(seen[n], doc[n])
        BY <2>6 DEF Base, Held
      <3>2. Derived(seen[n] \cup m.seen, Merge(doc[n], m.state))
        BY <2>3, <3>1 DEF Derived
      <3>3. /\ doc' = [doc EXCEPT ![n] = Merge(doc[n], m.state)]
            /\ seen' = [seen EXCEPT ![n] = seen[n] \cup m.seen]
        BY <2>6 DEF Take
      <3> QED
        BY <2>2, <3>2, <3>3, OneDocumentDerived
    <2> QED
      BY <2>1, <2>4, <2>5, <2>6
  <1>5. ASSUME NEW n \in Nodes, NEW from \in Nodes, MergeRoute(n, from) PROVE Quiet
    <2>1. Base(seen[n], doc[n]) /\ Held(seen[from], doc[from])
      BY <1>5 DEF MergeRoute, Base, Held
    <2>2. Derived(seen[n] \cup seen[from], Merge(doc[n], doc[from]))
      BY <2>1 DEF Derived
    <2>3. /\ doc' = [doc EXCEPT ![n] = Merge(doc[n], doc[from])]
          /\ seen' = [seen EXCEPT ![n] = seen[n] \cup seen[from]]
          /\ ops' = ops /\ usedTimes' = usedTimes
      BY <1>5 DEF MergeRoute
    <2> QED
      BY <2>2, <2>3, OneDocumentDerived
  <1>6. ASSUME Lose \/ UNCHANGED vars PROVE Quiet
    <2>1. ops' = ops /\ usedTimes' = usedTimes /\ doc' = doc /\ seen' = seen
      BY <1>6 DEF Lose, vars
    <2> QED
      BY <2>1, SameDocumentsQuiet
  <1> QED
    BY <1>1, <1>2, <1>3, <1>4, <1>5, <1>6 DEF Next

(* A mutation leaves what was held, and the document it made.                 *)
LEMMA MadeHeld ==
  ASSUME TypeOK, NEW n \in Nodes, NEW e \in Documents, MadeBy(n, e), NEW S, NEW d, Held(S, d)'
  PROVE  Held(S, d) \/ (S = seen[n] \cup {ops + 1} /\ d = e)
  <1>1. CASE \E m \in net' : m.type = "push" /\ S = m.seen /\ d = m.state
    BY <1>1 DEF MadeBy, Held
  <1>2. ASSUME NEW k \in Nodes, HasDoc(k)', S = seen'[k], d = doc'[k]
        PROVE  Held(S, d) \/ (S = seen[n] \cup {ops + 1} /\ d = e)
    <2>1. CASE k = n
      BY <1>2, <2>1 DEF MadeBy, TypeOK
    <2>2. CASE k # n
      <3>1. seen'[k] = seen[k] /\ doc'[k] = doc[k]
        BY <2>2 DEF MadeBy, TypeOK
      <3> QED
        BY <1>2, <3>1 DEF Held, HasDoc
    <2> QED
      BY <2>1, <2>2
  <1> QED
    BY <1>1, <1>2 DEF Held

(* Only an instance that has a document then reflects more mutations.         *)
LEMMA SeenChange ==
  ASSUME TypeOK, [Next]_vars
  PROVE  seen' = seen \/ \E n \in Nodes : HasDoc(n)' /\ \A j \in Nodes \ {n} : seen'[j] = seen[j]
  <1>1. ASSUME NEW n \in Nodes, Vote(n) \/ Add(n) \/ Remove(n) \/ Write(n)
        PROVE  HasDoc(n)' /\ \A j \in Nodes \ {n} : seen'[j] = seen[j]
    <2>1. HasDoc(n) /\ seen' = [seen EXCEPT ![n] = @ \cup {ops + 1}]
      BY <1>1 DEF Vote, Add, Remove, Write, Mutate
    <2> QED
      BY <2>1, IdsStay DEF TypeOK
  <1>2. ASSUME NEW n \in Nodes, NEW from \in Nodes, ReceivePush(n, from)
        PROVE  seen' = seen \/ (HasDoc(n)' /\ \A j \in Nodes \ {n} : seen'[j] = seen[j])
    <2>1. CASE HasDoc(n)
      <3>1. \A j \in Nodes \ {n} : seen'[j] = seen[j]
        BY <1>2 DEF ReceivePush, Take, TypeOK
      <3> QED
        BY <2>1, <3>1, IdsStay
    <2>2. CASE ~HasDoc(n)
      <3>1. PICK m \in net : m.type = "push" /\ m.to = n /\ Take(n, m, FromState(m.state))
        BY <1>2, <2>2 DEF ReceivePush
      <3>2. FromState(m.state) \in Documents /\ doc'[n] = FromState(m.state)
        BY <3>1, ReceiveEffect DEF Take, TypeOK
      <3>3. \A j \in Nodes \ {n} : seen'[j] = seen[j]
        BY <3>1 DEF Take, TypeOK
      <3> QED
        BY <3>2, <3>3, NoneIsNoDocument DEF HasDoc
    <2> QED
      BY <2>1, <2>2
  <1>3. ASSUME NEW n \in Nodes, NEW from \in Nodes, MergeRoute(n, from)
        PROVE  HasDoc(n)' /\ \A j \in Nodes \ {n} : seen'[j] = seen[j]
    <2>1. HasDoc(n) /\ seen' = [seen EXCEPT ![n] = @ \cup seen[from]]
      BY <1>3 DEF MergeRoute
    <2> QED
      BY <2>1, IdsStay DEF TypeOK
  <1>4. ASSUME NEW n \in Nodes, NEW from \in Nodes,
               EnableSync(n) \/ DisableSync(n) \/ AntiEntropy(n) \/ ReceiveAck(n, from)
        PROVE  seen' = seen
    BY <1>4 DEF EnableSync, DisableSync, AntiEntropy, ReceiveAck
  <1>5. Lose \/ UNCHANGED vars => seen' = seen
    BY DEF Lose, vars
  <1> QED
    BY <1>1, <1>2, <1>3, <1>4, <1>5 DEF Next

LEMMA SeenStep ==
  ASSUME TypeOK, SeenInv, UniqueTimes = TRUE, [Next]_vars
  PROVE  SeenInv'
  <1>0. ops \in Nat /\ ops' \in {ops, ops + 1}
    BY OpsStep
  <1>1. \A S, d : Base(S, d) => S \subseteq 1 .. ops
    BY DEF Base, SeenInv
  <1>2. \A S, d : Derived(S, d) => S \subseteq 1 .. ops
    BY <1>1 DEF Derived, Base
  <1>3. ASSUME NEW S, NEW d, Held(S, d)' PROVE S \subseteq 1 .. ops'
    <2>1. CASE Quiet
      BY <1>2, <1>3, <2>1 DEF Quiet
    <2>2. ASSUME NEW n \in Nodes, NEW e \in Documents, MadeBy(n, e) PROVE S \subseteq 1 .. ops'
      <3>1. Held(S, d) \/ S = seen[n] \cup {ops + 1}
        BY <1>3, <2>2, MadeHeld
      <3>2. Held(seen[n], doc[n])
        BY <2>2 DEF MadeBy, Held
      <3>3. ops' = ops + 1 /\ S \subseteq (1 .. ops) \cup {ops + 1}
        BY <2>2, <3>1, <3>2 DEF MadeBy, SeenInv
      <3> QED
        BY <1>0, <3>3
    <2> QED
      BY <2>1, <2>2, StatesStep
  <1>4. ASSUME NEW k \in Nodes, ~HasDoc(k)' PROVE seen'[k] = {}
    <2>1. ~HasDoc(k) /\ seen[k] = {}
      BY <1>4, IdsStay DEF SeenInv
    <2>2. seen' = seen \/ \E n \in Nodes : HasDoc(n)' /\ \A j \in Nodes \ {n} : seen'[j] = seen[j]
      BY SeenChange
    <2> QED
      BY <1>4, <2>1, <2>2
  <1> QED
    BY <1>3, <1>4 DEF SeenInv
(* The join of what the mutations made, after one more.                       *)

LEMMA JoinElsewhere ==
  ASSUME NEW c, NEW b, NEW S, NEW d, JoinOf(c, S, d), \A o \in S : b[o] = c[o]
  PROVE  JoinOf(b, S, d)
  <1>1. VotesOf(b, S, d.votes)
    BY DEF JoinOf, VotesOf
  <1>2. TagsOf(b, S, d.set)
    BY DEF JoinOf, TagsOf
  <1>3. RegOf(b, S, d.reg)
    BY DEF JoinOf, RegOf
  <1> QED
    BY <1>1, <1>2, <1>3 DEF JoinOf

LEMMA GrownVotes ==
  ASSUME NEW O, NEW b \in [O -> Documents], NEW S \in SUBSET O, NEW o \in O,
         NEW v \in Counters, VotesOf(b, S, v), CounterLeq(v, b[o].votes)
  PROVE  VotesOf(b, S \cup {o}, b[o].votes)
  <1>1. \A p \in O : b[p].votes \in Counters
    BY DEF Documents
  <1>2. ASSUME NEW k \in Nodes, NEW p \in S PROVE b[p].votes[k] <= b[o].votes[k]
    <2>1. b[p].votes[k] \in Nat /\ b[o].votes[k] \in Nat /\ v[k] \in Nat
      BY <1>1 DEF Counters
    <2>2. b[p].votes[k] <= v[k] /\ v[k] <= b[o].votes[k]
      BY DEF VotesOf, CounterLeq
    <2> QED
      BY <2>1, <2>2
  <1>3. ASSUME NEW k \in Nodes PROVE b[o].votes[k] <= b[o].votes[k]
    BY <1>1 DEF Counters
  <1> QED
    BY <1>2, <1>3 DEF VotesOf

LEMMA GrownTags ==
  ASSUME NEW b, NEW S, NEW o, NEW s, TagsOf(b, S, s), SetLeq(s, b[o].set),
         b[o].set.live \cap b[o].set.dead = {}
  PROVE  TagsOf(b, S \cup {o}, b[o].set)
  <1> DEFINE t == b[o].set
  <1>1. ASSUME NEW x \in Nat PROVE x \in t.dead <=> \E p \in S \cup {o} : x \in b[p].set.dead
    BY DEF TagsOf, SetLeq
  <1>2. ASSUME NEW x \in Nat
        PROVE  x \in t.live <=> x \notin t.dead /\ \E p \in S \cup {o} : x \in b[p].set.live
    <2>1. ASSUME NEW p \in S, x \in b[p].set.live, x \notin t.dead PROVE x \in t.live
      <3>1. x \notin s.dead
        BY <2>1 DEF SetLeq
      <3>2. x \in s.live
        BY <2>1, <3>1 DEF TagsOf
      <3> QED
        BY <2>1, <3>2 DEF SetLeq
    <2> QED
      BY <2>1
  <1> QED
    BY <1>1, <1>2 DEF TagsOf

LEMMA GrownReg ==
  ASSUME NEW O, NEW b \in [O -> Documents], NEW S \in SUBSET O, NEW o \in O,
         NEW a \in Registers, RegOf(b, S, a), RegisterLeq(a, b[o].reg)
  PROVE  RegOf(b, S \cup {o}, b[o].reg)
  <1>1. \A p \in O : b[p].reg.time \in Nat
    BY RegisterFields DEF Documents
  <1>2. a.time \in Nat
    BY RegisterFields
  <1>3. a.time <= b[o].reg.time
    BY <1>1, <1>2 DEF RegisterLeq
  <1>4. \A p \in S \cup {o} : b[p].reg.time <= b[o].reg.time
    BY <1>1, <1>2, <1>3 DEF RegOf
  <1> QED
    BY <1>4 DEF RegOf

LEMMA QuietJoins ==
  ASSUME TypeOK, SeenInv, Quiet, NEW c \in [1 .. ops -> Documents], Joins(c)
  PROVE  c \in [1 .. ops -> Documents]' /\ Joins(c)'
  <1>1. ASSUME NEW S, NEW d, Base(S, d)
        PROVE  d \in Documents /\ S \in SUBSET (1 .. ops) /\ JoinOf(c, S, d)
    BY <1>1, HeldTypes, NewDocumentType, NothingJoins DEF Base, Joins, SeenInv
  <1>2. \A S, d : Held(S, d) => Base(S, d)
    BY DEF Base
  <1>3. OneValue(c, 1 .. ops)
    BY DEF Joins
  <1>4. ASSUME NEW S, NEW d, Derived(S, d) PROVE JoinOf(c, S, d)
    <2>1. CASE Base(S, d)
      BY <1>1, <2>1
    <2>2. ASSUME NEW P, NEW p, NEW T, NEW r, Base(P, p), Held(T, r), S = P \cup T, d = Merge(p, r)
          PROVE  JoinOf(c, S, d)
      <3>1. /\ p \in Documents /\ P \in SUBSET (1 .. ops) /\ JoinOf(c, P, p)
            /\ r \in Documents /\ T \in SUBSET (1 .. ops) /\ JoinOf(c, T, r)
        BY <1>1, <1>2, <2>2
      <3> QED
        BY <1>3, <2>2, <3>1, JoinsJoin
    <2> QED
      BY <1>4, <2>1, <2>2 DEF Derived
  <1>5. ops' = ops /\ usedTimes' = usedTimes /\ \A S, d : Held(S, d)' => Derived(S, d)
    BY DEF Quiet
  <1>6. Stamped(c)'
    BY <1>5 DEF Joins, Stamped
  <1> QED
    BY <1>3, <1>4, <1>5, <1>6 DEF Joins

LEMMA MadeJoins ==
  ASSUME TypeOK, SeenInv, SaneInv', NEW n \in Nodes, NEW e \in Documents, MadeBy(n, e),
         NEW c \in [1 .. ops -> Documents], Joins(c)
  PROVE  \E b \in [1 .. ops' -> Documents] : Joins(b)'
  <1>01. PICK o \in Nat : ops \in Nat /\ o = ops + 1
    BY ReplicationAssumption DEF ReplicationAssumption, TypeOK
  <1>02. PICK b \in [1 .. o -> Documents] : b = [p \in 1 .. o |-> IF p \in 1 .. ops THEN c[p] ELSE e]
    <2>1. [p \in 1 .. o |-> IF p \in 1 .. ops THEN c[p] ELSE e] \in [1 .. o -> Documents]
      BY <1>01
    <2> QED
      BY <2>1
  <1>0. ops \in Nat /\ ops' = o
    BY <1>01 DEF MadeBy
  <1>1. /\ b \in [1 .. o -> Documents] /\ b[o] = e /\ \A p \in 1 .. ops : b[p] = c[p]
        /\ 1 .. o = (1 .. ops) \cup {o} /\ o \in 1 .. o /\ 1 .. ops \subseteq 1 .. o
    BY <1>01, <1>02
  <1>2. Held(seen[n], doc[n]) /\ doc[n] \in Documents
    BY DEF MadeBy, Held, TypeOK, HasDoc
  <1>3. JoinOf(c, seen[n], doc[n]) /\ seen[n] \subseteq 1 .. ops
    BY <1>2 DEF Joins, SeenInv
  <1>4. JoinOf(b, seen[n], doc[n])
    <2>1. \A p \in seen[n] : b[p] = c[p]
      BY <1>1, <1>3
    <2> QED
      BY <1>3, <2>1, JoinElsewhere
  <1>5. e.set.live \cap e.set.dead = {}
    <2>1. doc'[n] = e /\ HasDoc(n)'
      BY NoneIsNoDocument DEF MadeBy, TypeOK, HasDoc
    <2> QED
      BY <2>1 DEF SaneInv, Sane
  <1>6. JoinOf(b, seen[n] \cup {o}, e)
    <2>1. Leq(doc[n], e) /\ seen[n] \in SUBSET (1 .. o)
      BY <1>1, <1>3 DEF MadeBy, Successor
    <2>2. doc[n].votes \in Counters /\ doc[n].reg \in Registers
      BY <1>2 DEF Documents
    <2>3. VotesOf(b, seen[n] \cup {o}, e.votes)
      BY <1>1, <1>4, <2>1, <2>2, GrownVotes DEF JoinOf, Leq
    <2>4. TagsOf(b, seen[n] \cup {o}, e.set)
      BY <1>1, <1>4, <1>5, <2>1, GrownTags DEF JoinOf, Leq
    <2>5. RegOf(b, seen[n] \cup {o}, e.reg)
      BY <1>1, <1>4, <2>1, <2>2, GrownReg DEF JoinOf, Leq
    <2> QED
      BY <2>3, <2>4, <2>5 DEF JoinOf
  <1>7. ASSUME NEW S, NEW d, Held(S, d)' PROVE JoinOf(b, S, d)
    <2>1. CASE Held(S, d)
      <3>1. JoinOf(c, S, d) /\ \A p \in S : b[p] = c[p]
        BY <1>1, <2>1 DEF Joins, SeenInv
      <3> QED
        BY <3>1, JoinElsewhere
    <2>2. CASE S = seen[n] \cup {o} /\ d = e
      BY <1>6, <2>2
    <2> QED
      BY <1>01, <1>7, <2>1, <2>2, MadeHeld
  (* The time the mutation left is the old one with its value, or a new one.  *)
  <1>8. /\ \A p \in 1 .. ops : c[p].reg.time \in usedTimes \cup {0}
        /\ usedTimes \subseteq usedTimes'
    BY DEF Joins, Stamped, MadeBy
  <1>9. OneValue(c, 1 .. ops) /\ RegOf(c, seen[n], doc[n].reg)
    BY <1>3 DEF Joins, JoinOf
  <1>10. /\ \A p \in 1 .. ops : e.reg.time = c[p].reg.time => e.reg.value = c[p].reg.value
         /\ e.reg.time = 0 => e.reg.value = Null
         /\ e.reg.time \in usedTimes' \cup {0}
    <2>1. CASE e.reg.time \notin usedTimes \cup {0} /\ e.reg.time \in usedTimes'
      BY <1>8, <2>1
    <2>2. CASE e.reg.time = doc[n].reg.time /\ e.reg.value = doc[n].reg.value
      <3>1. CASE doc[n].reg.time = 0 /\ doc[n].reg.value = Null
        BY <1>9, <2>2, <3>1 DEF OneValue
      <3>2. ASSUME NEW p \in seen[n], c[p].reg.time = doc[n].reg.time,
                   c[p].reg.value = doc[n].reg.value
            PROVE  /\ \A q \in 1 .. ops : e.reg.time = c[q].reg.time => e.reg.value = c[q].reg.value
                   /\ e.reg.time = 0 => e.reg.value = Null
                   /\ e.reg.time \in usedTimes' \cup {0}
        BY <1>3, <1>8, <1>9, <2>2, <3>2 DEF OneValue
      <3> QED
        BY <1>9, <3>1, <3>2 DEF RegOf
    <2> QED
      BY <2>1, <2>2 DEF MadeBy
  <1>11. OneValue(b, 1 .. o)
    BY <1>1, <1>9, <1>10 DEF OneValue
  <1>12. Stamped(b)'
    BY <1>0, <1>1, <1>8, <1>10 DEF Stamped
  <1>13. Joins(b)'
    BY <1>0, <1>7, <1>11, <1>12 DEF Joins
  <1>14. b \in [1 .. ops' -> Documents]
    BY <1>0, <1>1
  <1> QED
    BY <1>13, <1>14

LEMMA JoinStep ==
  ASSUME TypeOK, SeenInv, SaneInv', JoinInv, UniqueTimes = TRUE, [Next]_vars
  PROVE  JoinInv'
  <1>1. PICK c \in [1 .. ops -> Documents] : Joins(c)
    BY DEF JoinInv
  <1>2. CASE Quiet
    BY <1>1, <1>2, QuietJoins DEF JoinInv
  <1>3. ASSUME NEW n \in Nodes, NEW e \in Documents, MadeBy(n, e) PROVE JoinInv'
    BY <1>1, <1>3, MadeJoins DEF JoinInv
  <1> QED
    BY <1>2, <1>3, StatesStep

(* Strong eventual consistency: where writes bear distinct times, replicas    *)
(* that reflect the same mutations show the same votes, members and register, *)
(* whatever way and order the states reached them -- CRDTDocument.merge,      *)
(* fromState, receive, the crdt-merge route.                                  *)
THEOREM ReplicasAgree ==
  ASSUME UniqueTimes = TRUE
  PROVE  Spec => []SameMutationsSameValue
  <1>1. Init => SaneInv /\ SeenInv /\ JoinInv
    <2> SUFFICES ASSUME Init PROVE SaneInv /\ SeenInv /\ JoinInv
      OBVIOUS
    <2>1. \A S, d : ~Held(S, d)
      BY DEF Init, Held, HasDoc
    <2>2. SaneInv /\ SeenInv
      BY <2>1 DEF Init, SaneInv, SeenInv, HasDoc
    <2> DEFINE c == [p \in 1 .. 0 |-> None]
    <2>3. c \in [1 .. 0 -> Documents] /\ \A p \in 1 .. 0 : FALSE
      OBVIOUS
    <2> HIDE DEF c
    <2>4. Joins(c) /\ ops = 0
      BY <2>1, <2>3 DEF Init, Joins, OneValue, Stamped
    <2> QED
      BY <2>2, <2>3, <2>4 DEF JoinInv
  <1>2. TypeOK /\ SaneInv /\ SeenInv /\ JoinInv /\ [Next]_vars => SaneInv' /\ SeenInv' /\ JoinInv'
    BY SaneStep, SeenStep, JoinStep
  <1>3. TypeOK /\ SeenInv /\ JoinInv => SameMutationsSameValue
    <2> SUFFICES ASSUME TypeOK, SeenInv, JoinInv, NEW m \in Nodes, NEW n \in Nodes,
                        HasDoc(m), HasDoc(n), seen[m] = seen[n]
                 PROVE  Value(doc[m]) = Value(doc[n])
      BY DEF SameMutationsSameValue
    <2>1. PICK c \in [1 .. ops -> Documents] : Joins(c)
      BY DEF JoinInv
    <2>2. Held(seen[m], doc[m]) /\ Held(seen[n], doc[n])
      BY DEF Held
    <2>3. /\ doc[m] \in Documents /\ doc[n] \in Documents /\ seen[m] \in SUBSET (1 .. ops)
          /\ JoinOf(c, seen[m], doc[m]) /\ JoinOf(c, seen[m], doc[n]) /\ OneValue(c, 1 .. ops)
      BY <2>1, <2>2, HeldTypes DEF SeenInv, Joins
    <2> DEFINE O == 1 .. ops
               S == seen[m]
    <2>4. /\ c \in [O -> Documents] /\ OneValue(c, O) /\ S \in SUBSET O
          /\ JoinOf(c, S, doc[m]) /\ JoinOf(c, S, doc[n])
      BY <2>3
    <2> HIDE DEF O, S
    <2> QED
      BY <2>3, <2>4, JoinDetermines
  <1> QED
    BY <1>1, <1>2, <1>3, ReplicationTypes, PTL DEF Spec
=============================================================================
