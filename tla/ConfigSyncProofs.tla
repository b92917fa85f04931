-------------------------- MODULE ConfigSyncProofs --------------------------
(* Proofs about ConfigSync, for any peers and events, any number of           *)
(* overlapping publishers and flushes and every bound.                        *)
EXTENDS ConfigSync, WellFoundedInduction, FiniteSetTheorems, TLAPS

(* A nonempty set of events has an oldest one, and Min finds it.              *)
LEMMA OldestEvent ==
    ASSUME NEW S \in SUBSET Events, S # {}
    PROVE  /\ Min(S) \in S
           /\ \A e \in S : Min(S) <= e
<1>1. S \subseteq Nat
  BY QueueAssumption
<1>2. PICK x \in S : \A y \in S : ~ (<<y, x>> \in OpToRel(<, Nat))
  BY <1>1, NatLessThanWellFounded, WFMin
<1>3. \A y \in S : x <= y
  <2>1. TAKE y \in S
  <2>2. ~ (y < x)
    BY <1>1, <1>2, <2>1 DEF OpToRel
  <2> QED
    BY <1>1, <2>2
<1> QED
  BY <1>3 DEF Min

LEMMA RowOfTick ==
    ASSUME NEW t, t.rows \in SUBSET Events, t.rows # {}
    PROVE  Row(t) \in t.rows /\ Row(t) \in Events
BY OldestEvent DEF Row

(* While something is unsent a tick has rows to send.                         *)
LEMMA UnsentRows ==
    /\ Unsent \subseteq Events
    /\ \A e \in Unsent : outbox[e] = "unsent"
BY DEF Unsent

-----------------------------------------------------------------------------
(* The operations of the queue.                                               *)

LEMMA CoalesceQueue ==
    ASSUME NEW q \in Queues, NEW e \in Events
    PROVE  /\ Coalesce(q, e) \in Queues
           /\ Pending(Coalesce(q, e)) = (Pending(q) \ {q.index[EntityOf[e]]}) \cup {e}
           /\ Coalesce(q, e).sent = q.sent \ {e, q.index[EntityOf[e]]}
           /\ Coalesce(q, e).index = [q.index EXCEPT ![EntityOf[e]] = e]
           /\ Coalesce(q, e).open = q.open
<1> DEFINE x == q.index[EntityOf[e]]
           r == [Drop(q.pending, {x}) EXCEPT ![e] = q.now + 1]
<1>1. EntityOf[e] \in Entities /\ x \in Events \cup {NoEvent}
  BY DEF Queues, Entities
<1>2. Coalesce(q, e) = [q EXCEPT !.pending = r, !.now = q.now + 1, !.sent = (q.sent \ {x}) \ {e},
                                 !.index = [q.index EXCEPT ![EntityOf[e]] = e]]
  BY DEF Coalesce, Write, Queues
<1>3. r \in [Events -> Nat]
  BY DEF Drop, Queues, NoRow
<1>4. RowsOf(r) = (Pending(q) \ {x}) \cup {e}
  BY <1>3 DEF RowsOf, Pending, Drop, Queues, NoRow
<1>5. [q.index EXCEPT ![EntityOf[e]] = e] \in [Entities -> Events \cup {NoEvent}]
  BY DEF Queues
<1> HIDE DEF r, x
<1>6. Coalesce(q, e) \in Queues
  <2>1. q.now + 1 \in Nat /\ (q.sent \ {x}) \ {e} \in SUBSET Events /\ q.open \in BOOLEAN
    BY DEF Queues
  <2> DEFINE i == [q.index EXCEPT ![EntityOf[e]] = e]
  <2>2. i \in [Entities -> Events \cup {NoEvent}]
    BY <1>5
  <2>3. Coalesce(q, e) = [pending |-> r, now |-> q.now + 1, sent |-> (q.sent \ {x}) \ {e}, index |-> i, open |-> q.open]
    BY <1>2 DEF Queues
  <2> HIDE DEF i
  <2> QED
    BY <1>3, <2>1, <2>2, <2>3 DEF Queues
<1>7. Coalesce(q, e).pending = r /\ Coalesce(q, e).sent = q.sent \ {e, x}
      /\ Coalesce(q, e).index = [q.index EXCEPT ![EntityOf[e]] = e] /\ Coalesce(q, e).open = q.open
  BY <1>2 DEF Queues
<1> QED
  BY <1>4, <1>6, <1>7 DEF Pending, x

LEMMA CoalesceSent ==
    ASSUME NEW q \in Queues, NEW e \in Events
    PROVE  Coalesce(q, e).sent \subseteq q.sent
<1>1. Coalesce(q, e).sent = q.sent \ {e, q.index[EntityOf[e]]}
  BY CoalesceQueue
<1> QED
  BY <1>1

LEMMA UnindexedType ==
    ASSUME NEW q \in Queues, NEW E
    PROVE  Unindexed(q, E) \in [Entities -> Events \cup {NoEvent}]
BY DEF Unindexed, Queues

LEMMA DropRows ==
    ASSUME NEW r \in [Events -> Nat], NEW E
    PROVE  /\ Drop(r, E) \in [Events -> Nat]
           /\ RowsOf(Drop(r, E)) = RowsOf(r) \ E
BY DEF Drop, RowsOf, NoRow

LEMMA MarkSentQueue ==
    ASSUME NEW q \in Queues, NEW E \in SUBSET Events
    PROVE  /\ MarkSent(q, E) \in Queues
           /\ Pending(MarkSent(q, E)) = Pending(q) \ E
           /\ MarkSent(q, E).sent = q.sent \cup (E \cap Pending(q))
           /\ MarkSent(q, E).index = Unindexed(q, E \cap (Pending(q) \cup q.sent))
           /\ MarkSent(q, E).open = q.open
<1> DEFINE found == E \cap (Pending(q) \cup q.sent)
<1>1. MarkSent(q, E) = [q EXCEPT !.pending = Drop(q.pending, found), !.sent = q.sent \cup found,
                                 !.index = Unindexed(q, found)]
  BY DEF MarkSent, Queues
<1>2. Unindexed(q, found) \in [Entities -> Events \cup {NoEvent}]
  BY UnindexedType
<1>3. Drop(q.pending, found) \in [Events -> Nat] /\ RowsOf(Drop(q.pending, found)) = Pending(q) \ found
  BY DropRows DEF Pending, Queues
<1>4. found \subseteq Events
  OBVIOUS
<1>5. MarkSent(q, E) \in Queues
  BY <1>1, <1>2, <1>3, <1>4 DEF Queues
<1>6. MarkSent(q, E).pending = Drop(q.pending, found) /\ MarkSent(q, E).sent = q.sent \cup found
      /\ MarkSent(q, E).index = Unindexed(q, found) /\ MarkSent(q, E).open = q.open
  BY <1>1 DEF Queues
<1>7. Pending(MarkSent(q, E)) = Pending(q) \ E
  BY <1>3, <1>6 DEF Pending
<1>8. q.sent \cup found = q.sent \cup (E \cap Pending(q))
  OBVIOUS
<1> QED
  BY <1>5, <1>6, <1>7, <1>8

LEMMA DeleteExpiredQueue ==
    ASSUME NEW q \in Queues, NEW n
    PROVE  /\ Expired(q, n) \subseteq Pending(q)
           /\ DeleteExpired(q, n) \in Queues
           /\ Pending(DeleteExpired(q, n)) = Pending(q) \ Expired(q, n)
           /\ DeleteExpired(q, n).sent = q.sent
           /\ DeleteExpired(q, n).index = Unindexed(q, Expired(q, n))
           /\ DeleteExpired(q, n).open = q.open
<1> DEFINE E == Expired(q, n)
<1>1. DeleteExpired(q, n) = [q EXCEPT !.pending = Drop(q.pending, E), !.index = Unindexed(q, E)]
  BY DEF DeleteExpired, Queues
<1>2. Unindexed(q, E) \in [Entities -> Events \cup {NoEvent}]
  BY UnindexedType
<1>3. Drop(q.pending, E) \in [Events -> Nat] /\ RowsOf(Drop(q.pending, E)) = Pending(q) \ E
  BY DropRows DEF Pending, Queues
<1>4. E \subseteq Pending(q)
  BY DEF Expired, Oldest, Pending
<1> HIDE DEF E
<1>5. DeleteExpired(q, n) \in Queues
  BY <1>1, <1>2, <1>3 DEF Queues
<1>6. DeleteExpired(q, n).pending = Drop(q.pending, E) /\ DeleteExpired(q, n).sent = q.sent
      /\ DeleteExpired(q, n).index = Unindexed(q, E) /\ DeleteExpired(q, n).open = q.open
  BY <1>1 DEF Queues
<1> QED
  BY <1>3, <1>4, <1>5, <1>6 DEF Pending, E

(* The circuit breaker changes nothing else.                                  *)
LEMMA CircuitQueue ==
    ASSUME NEW q \in Queues
    PROVE  /\ Close(q) \in Queues /\ Recount(q) \in Queues
           /\ Close(q).pending = q.pending /\ Recount(q).pending = q.pending
           /\ Close(q).sent = q.sent /\ Recount(q).sent = q.sent
           /\ Close(q).index = q.index /\ Recount(q).index = q.index
<1>1. (q.open \/ Depth(q) >= Threshold) \in BOOLEAN
  BY DEF Queues
<1> HIDE DEF Depth
<1>2. Recount(q) = [q EXCEPT !.open = q.open \/ Depth(q) >= Threshold]
  BY DEF Recount, Queues
<1> QED
  BY <1>1, <1>2 DEF Close, Queues
-----------------------------------------------------------------------------
(* The types, and what a tick or a flush in progress holds.                   *)
RowsInHand ==
    /\ \A i \in 1 .. Publishers :
          /\ pub[i].pc \in {"send", "enqueue", "count"} => pub[i].rows # {}
          /\ pub[i].pc \in {"enqueue", "count"} => pub[i].peer \in Peers
    /\ \A j \in 1 .. Flushes : flush[j].pc = "send" => flush[j].peer \in Peers
Typed == TypeOK /\ RowsInHand

LEMMA TypedInit == Init => Typed
<1> SUFFICES ASSUME Init PROVE Typed
  OBVIOUS
<1>1. EmptyQueue \in Queues
  BY DEF EmptyQueue, Queues, NoRow
<1>2. NoTick \in Ticks /\ NoFlush \in FlushTicks
  BY DEF NoTick, NoFlush, Ticks, FlushTicks, NoRow
<1>3. queue \in [Peers -> Queues] /\ pub \in [1 .. Publishers -> Ticks] /\ flush \in [1 .. Flushes -> FlushTicks]
  BY <1>1, <1>2 DEF Init
<1>4. applied \in [Peers -> [Messages -> Nat]]
  BY DEF Init
<1>5. stamps \in 0 .. MaxStamps /\ throws \in 0 .. MaxThrows /\ disturbed \in 0 .. MaxDisturbances
  BY SyncAssumption DEF Init
<1>6. outbox \in [Events -> {"none", "unsent", "sent"}] /\ link \in [Peers -> {"open", "closing", "off"}]
  BY DEF Init
<1>7. /\ received \in [Peers -> SUBSET Messages] /\ applying \in [Peers -> SUBSET Messages]
      /\ handed \in [Peers -> SUBSET Events] /\ failed \in [Peers -> SUBSET Events]
      /\ shed \in [Peers -> SUBSET Events] /\ displaced \in [Peers -> SUBSET Events]
      /\ unqueued \in [Peers -> SUBSET Events] /\ missed \in [Peers -> SUBSET Events]
  BY DEF Init
<1>8. TypeOK
  BY <1>3, <1>4, <1>5, <1>6, <1>7 DEF TypeOK
<1>9. RowsInHand
  BY DEF Init, RowsInHand, NoTick, NoFlush
<1> QED
  BY <1>8, <1>9 DEF Typed

(* What a tick or a flush writes to its own record.                           *)
LEMMA PutType ==
    ASSUME TypeOK, NEW i \in 1 .. Publishers, NEW t \in Ticks, Put(i, t)
    PROVE  /\ pub' \in [1 .. Publishers -> Ticks]
           /\ pub'[i] = t
           /\ \A k \in 1 .. Publishers : k # i => pub'[k] = pub[k]
BY DEF TypeOK, Put

LEMMA PutFlushType ==
    ASSUME TypeOK, NEW j \in 1 .. Flushes, NEW f \in FlushTicks, PutFlush(j, f)
    PROVE  /\ flush' \in [1 .. Flushes -> FlushTicks]
           /\ flush'[j] = f
           /\ \A k \in 1 .. Flushes : k # j => flush'[k] = flush[k]
BY DEF TypeOK, PutFlush

LEMMA TransmitType ==
    ASSUME TypeOK, NEW p \in Peers, NEW e \in Events, NEW v, Transmit(p, e, v),
           <<p, e>> \in Watched => v \in 0 .. MaxStamps
    PROVE  /\ received' \in [Peers -> SUBSET Messages] /\ applying' \in [Peers -> SUBSET Messages]
           /\ applied' = applied
<1>1. CASE link[p] = "open" /\ <<p, e>> \in Watched
  <2>1. <<e, v>> \in Messages
    BY <1>1 DEF Messages
  <2>2. received' = [received EXCEPT ![p] = @ \cup {<<e, v>>}] /\ applied' = applied
        /\ applying' = [applying EXCEPT ![p] = IF <<e, v>> \in received[p] THEN @ ELSE @ \cup {<<e, v>>}]
    BY <1>1 DEF Transmit
  <2>3. received \in [Peers -> SUBSET Messages] /\ applying \in [Peers -> SUBSET Messages]
    BY DEF TypeOK
  <2>4. received' \in [Peers -> SUBSET Messages]
    BY <2>1, <2>2, <2>3
  <2>5. applying' \in [Peers -> SUBSET Messages]
    BY <2>1, <2>2, <2>3
  <2> QED
    BY <2>2, <2>4, <2>5
<1>2. CASE ~(link[p] = "open" /\ <<p, e>> \in Watched)
  BY <1>2 DEF Transmit, TypeOK, receiver
<1> QED
  BY <1>1, <1>2

LEMMA TypedStep == Typed /\ [Next]_vars => Typed'
<1> SUFFICES ASSUME Typed, [Next]_vars PROVE Typed'
  OBVIOUS
<1> USE DEF Typed, lost
<1>1. CASE UNCHANGED vars
  BY <1>1 DEF TypeOK, RowsInHand, vars
<1>2. ASSUME NEW e \in Events, Emit(e) PROVE Typed'
  BY <1>2 DEF Emit, TypeOK, RowsInHand, receiver, history
<1>3. ASSUME NEW i \in 1 .. Publishers, Tick(i) PROVE Typed'
  <2> DEFINE peers == {p \in Peers : link[p] # "off"}
             t == [NoTick EXCEPT !.pc = "send", !.peers = peers, !.rows = Unsent, !.todo = peers]
  <2>1. t \in Ticks /\ t.pc = "send" /\ t.rows = Unsent
    BY UnsentRows DEF NoTick, Ticks
  <2>2. Unsent # {} /\ Put(i, t)
    BY <1>3 DEF Tick
  <2> HIDE DEF t
  <2>3. /\ pub' \in [1 .. Publishers -> Ticks] /\ pub'[i] = t
        /\ \A k \in 1 .. Publishers : k # i => pub'[k] = pub[k]
    BY <2>1, <2>2, PutType
  <2> QED
    BY <1>3, <2>1, <2>2, <2>3 DEF Tick, TypeOK, RowsInHand, receiver, history
<1>4. ASSUME NEW i \in 1 .. Publishers, SendOk(i) PROVE Typed'
  <2>1. PICK p \in pub[i].todo :
            /\ Transmit(p, Row(pub[i]), 0)
            /\ handed' = [handed EXCEPT ![p] = @ \cup {Row(pub[i])}]
            /\ Put(i, [pub[i] EXCEPT !.todo = @ \ {p}])
    BY <1>4 DEF SendOk
  <2> DEFINE t == [pub[i] EXCEPT !.todo = @ \ {p}]
  <2>2. pub[i] \in Ticks /\ pub[i].pc = "send" /\ pub[i].rows # {} /\ p \in Peers
    BY <1>4 DEF SendOk, TypeOK, RowsInHand, Ticks
  <2>3. Row(pub[i]) \in Events
    BY <2>2, RowOfTick DEF Ticks
  <2>4. t \in Ticks /\ t.rows = pub[i].rows /\ t.pc = "send"
    BY <2>2 DEF Ticks
  <2> HIDE DEF t
  <2>5. /\ pub' \in [1 .. Publishers -> Ticks] /\ pub'[i] = t
        /\ \A k \in 1 .. Publishers : k # i => pub'[k] = pub[k]
    BY <2>1, <2>4, PutType DEF t
  <2>6. /\ received' \in [Peers -> SUBSET Messages] /\ applying' \in [Peers -> SUBSET Messages]
        /\ applied' = applied
    <3>1. 0 \in 0 .. MaxStamps
      BY SyncAssumption
    <3> QED
      BY <2>1, <2>2, <2>3, <3>1, TransmitType
  <2>7. handed' \in [Peers -> SUBSET Events]
    BY <2>1, <2>2, <2>3 DEF TypeOK
  <2>8. TypeOK'
    BY <1>4, <2>5, <2>6, <2>7 DEF SendOk, TypeOK
  <2>9. RowsInHand'
    BY <1>4, <2>2, <2>4, <2>5 DEF SendOk, RowsInHand
  <2> QED
    BY <2>8, <2>9
<1>5. ASSUME NEW i \in 1 .. Publishers, SendThrows(i) PROVE Typed'
  <2>1. PICK p \in pub[i].todo :
            /\ failed' = [failed EXCEPT ![p] = @ \cup {Row(pub[i])}]
            /\ Put(i, [pub[i] EXCEPT !.pc = "enqueue", !.peer = p, !.todo = @ \ {p}, !.all = FALSE])
    BY <1>5 DEF SendThrows
  <2> DEFINE t == [pub[i] EXCEPT !.pc = "enqueue", !.peer = p, !.todo = @ \ {p}, !.all = FALSE]
  <2>2. pub[i] \in Ticks /\ pub[i].rows # {} /\ p \in Peers
    BY <1>5 DEF SendThrows, TypeOK, RowsInHand, Ticks
  <2>3. Row(pub[i]) \in Events
    BY <2>2, RowOfTick DEF Ticks
  <2>4. t \in Ticks /\ t.rows = pub[i].rows /\ t.peer = p
    BY <2>2 DEF Ticks
  <2> HIDE DEF t
  <2>5. /\ pub' \in [1 .. Publishers -> Ticks] /\ pub'[i] = t
        /\ \A k \in 1 .. Publishers : k # i => pub'[k] = pub[k]
    BY <2>1, <2>4, PutType DEF t
  <2>6. failed' \in [Peers -> SUBSET Events] /\ throws' \in 0 .. MaxThrows
    <3>1. failed' \in [Peers -> SUBSET Events]
      BY <2>1, <2>2, <2>3 DEF TypeOK
    <3>2. throws' \in 0 .. MaxThrows
      BY <1>5, SyncAssumption DEF TypeOK, SendThrows
    <3> QED
      BY <3>1, <3>2
  <2>7. TypeOK'
    BY <1>5, <2>5, <2>6 DEF SendThrows, TypeOK, receiver
  <2>8. RowsInHand'
    BY <1>5, <2>2, <2>4, <2>5 DEF SendThrows, RowsInHand
  <2> QED
    BY <2>7, <2>8
<1>6. ASSUME NEW i \in 1 .. Publishers, EnqueueRefused(i) PROVE Typed'
  <2> DEFINE t == [pub[i] EXCEPT !.pc = "send", !.peer = "none"]
  <2>1. pub[i] \in Ticks /\ pub[i].rows # {} /\ pub[i].peer \in Peers
    BY <1>6 DEF EnqueueRefused, TypeOK, RowsInHand
  <2>2. Row(pub[i]) \in Events
    BY <2>1, RowOfTick DEF Ticks
  <2>3. t \in Ticks /\ t.rows = pub[i].rows /\ t.pc = "send"
    BY <2>1 DEF Ticks
  <2> HIDE DEF t
  <2>4. /\ pub' \in [1 .. Publishers -> Ticks] /\ pub'[i] = t
        /\ \A k \in 1 .. Publishers : k # i => pub'[k] = pub[k]
    BY <1>6, <2>3, PutType DEF t, EnqueueRefused
  <2>5. shed' \in [Peers -> SUBSET Events]
    BY <1>6, <2>1, <2>2 DEF TypeOK, EnqueueRefused
  <2>6. TypeOK'
    BY <1>6, <2>4, <2>5 DEF EnqueueRefused, TypeOK, receiver
  <2>7. RowsInHand'
    BY <1>6, <2>1, <2>3, <2>4 DEF EnqueueRefused, RowsInHand
  <2> QED
    BY <2>6, <2>7
<1>7. ASSUME NEW i \in 1 .. Publishers, Enqueue(i) PROVE Typed'
  <2> DEFINE t == [pub[i] EXCEPT !.pc = "count"]
             p == pub[i].peer
             e == Row(pub[i])
  <2>1. pub[i] \in Ticks /\ pub[i].rows # {} /\ p \in Peers
    BY <1>7 DEF Enqueue, TypeOK, RowsInHand
  <2>2. e \in Events
    BY <2>1, RowOfTick DEF Ticks
  <2>3. t \in Ticks /\ t.rows = pub[i].rows /\ t.peer = p
    BY <2>1 DEF Ticks
  <2>4. Coalesce(queue[p], e) \in Queues
    BY <2>1, <2>2, CoalesceQueue DEF TypeOK
  <2>5. Displaces(queue[p], e) \subseteq Events
    BY DEF Displaces, Pending, RowsOf
  <2>6. queue' = [queue EXCEPT ![p] = Coalesce(@, e)] /\ displaced' = [displaced EXCEPT ![p] = @ \cup Displaces(queue[p], e)]
    BY <1>7 DEF Enqueue
  <2>7. Put(i, t)
    BY <1>7 DEF Enqueue
  <2> HIDE DEF t, p, e
  <2>8. /\ pub' \in [1 .. Publishers -> Ticks] /\ pub'[i] = t
        /\ \A k \in 1 .. Publishers : k # i => pub'[k] = pub[k]
    BY <2>3, <2>7, PutType
  <2>9. queue' \in [Peers -> Queues] /\ displaced' \in [Peers -> SUBSET Events] /\ unqueued' \in [Peers -> SUBSET Events]
    <3>1. queue' \in [Peers -> Queues]
      BY <2>1, <2>4, <2>6 DEF TypeOK
    <3>2. displaced' \in [Peers -> SUBSET Events]
      BY <2>1, <2>5, <2>6 DEF TypeOK
    <3>3. unqueued' = [unqueued EXCEPT ![p] = @ \ {e}]
      BY <1>7 DEF Enqueue, p, e
    <3>4. unqueued' \in [Peers -> SUBSET Events]
      BY <2>1, <3>3 DEF TypeOK
    <3> QED
      BY <3>1, <3>2, <3>4
  <2>10. TypeOK'
    BY <1>7, <2>8, <2>9 DEF Enqueue, TypeOK, receiver
  <2>11. RowsInHand'
    BY <1>7, <2>1, <2>3, <2>8 DEF Enqueue, RowsInHand
  <2> QED
    BY <2>10, <2>11
<1>8. ASSUME NEW i \in 1 .. Publishers, Count(i) PROVE Typed'
  <2> DEFINE t == [pub[i] EXCEPT !.pc = "send", !.peer = "none"]
             p == pub[i].peer
  <2>1. pub[i] \in Ticks /\ pub[i].rows # {} /\ p \in Peers
    BY <1>8 DEF Count, TypeOK, RowsInHand
  <2>2. t \in Ticks /\ t.rows = pub[i].rows /\ t.pc = "send"
    BY <2>1 DEF Ticks
  <2>3. Recount(queue[p]) \in Queues
    BY <2>1, CircuitQueue DEF TypeOK
  <2>4. queue' = [queue EXCEPT ![p] = Recount(@)] /\ Put(i, t)
    BY <1>8 DEF Count
  <2> HIDE DEF t, p
  <2>5. /\ pub' \in [1 .. Publishers -> Ticks] /\ pub'[i] = t
        /\ \A k \in 1 .. Publishers : k # i => pub'[k] = pub[k]
    BY <2>2, <2>4, PutType
  <2>6. queue' \in [Peers -> Queues]
    BY <2>1, <2>3, <2>4 DEF TypeOK
  <2>7. TypeOK'
    BY <1>8, <2>5, <2>6 DEF Count, TypeOK, receiver, history
  <2>8. RowsInHand'
    BY <1>8, <2>1, <2>2, <2>5 DEF Count, RowsInHand
  <2> QED
    BY <2>7, <2>8
<1>9. ASSUME NEW i \in 1 .. Publishers, RowDone(i) PROVE Typed'
  <2> DEFINE t == NextRow(pub[i])
             rest == pub[i].rows \ {Row(pub[i])}
  <2>1. pub[i] \in Ticks /\ pub[i].rows # {}
    BY <1>9 DEF RowDone, TypeOK, RowsInHand
  <2>2. Row(pub[i]) \in Events
    BY <2>1, RowOfTick DEF Ticks
  <2>3. t \in Ticks /\ t.rows = rest /\ t.pc = (IF rest = {} THEN "mark" ELSE "send")
    BY <2>1, <2>2 DEF NextRow, Ticks
  <2>4. Put(i, t)
    BY <1>9 DEF RowDone
  <2> HIDE DEF t
  <2>5. /\ pub' \in [1 .. Publishers -> Ticks] /\ pub'[i] = t
        /\ \A k \in 1 .. Publishers : k # i => pub'[k] = pub[k]
    BY <2>3, <2>4, PutType
  <2>6. TypeOK'
    BY <1>9, <2>5 DEF RowDone, TypeOK, receiver, history
  <2>7. RowsInHand'
    BY <1>9, <2>3, <2>5 DEF RowDone, RowsInHand
  <2> QED
    BY <2>6, <2>7
<1>10. ASSUME NEW i \in 1 .. Publishers, Mark(i) PROVE Typed'
  <2>1. NoTick \in Ticks /\ NoTick.pc = "idle"
    BY DEF NoTick, Ticks
  <2>2. /\ pub' \in [1 .. Publishers -> Ticks] /\ pub'[i] = NoTick
        /\ \A k \in 1 .. Publishers : k # i => pub'[k] = pub[k]
    BY <1>10, <2>1, PutType DEF Mark
  <2>3. outbox' \in [Events -> {"none", "unsent", "sent"}]
    BY <1>10 DEF Mark, TypeOK
  <2>4. missed' \in [Peers -> SUBSET Events]
    <3>1. pub[i].done \in SUBSET Events
      BY DEF TypeOK, Ticks
    <3> QED
      BY <1>10, <3>1 DEF Mark, TypeOK
  <2>5. TypeOK'
    BY <1>10, <2>2, <2>3, <2>4 DEF Mark, TypeOK, receiver
  <2>6. RowsInHand'
    BY <1>10, <2>1, <2>2 DEF Mark, RowsInHand
  <2> QED
    BY <2>5, <2>6
<1>11. ASSUME NEW j \in 1 .. Flushes, FlushSendOk(j) PROVE Typed'
  <2>1. PICK e \in Events :
            /\ FirstIn(flush[j].rows, e)
            /\ IF <<flush[j].peer, e>> \in Watched THEN stamps < MaxStamps /\ stamps' = stamps + 1
               ELSE UNCHANGED stamps
            /\ Transmit(flush[j].peer, e, stamps + 1)
            /\ handed' = [handed EXCEPT ![flush[j].peer] = @ \cup {e}]
            /\ PutFlush(j, [flush[j] EXCEPT !.rows[e] = NoRow, !.ok = @ \cup {e}])
    BY <1>11 DEF FlushSendOk
  <2> DEFINE f == [flush[j] EXCEPT !.rows[e] = NoRow, !.ok = @ \cup {e}]
  <2>2. flush[j] \in FlushTicks /\ flush[j].peer \in Peers
    BY <1>11 DEF FlushSendOk, TypeOK, RowsInHand
  <2>3. f \in FlushTicks /\ f.peer = flush[j].peer
    BY <2>2 DEF FlushTicks, NoRow
  <2> HIDE DEF f
  <2>4. /\ flush' \in [1 .. Flushes -> FlushTicks] /\ flush'[j] = f
        /\ \A k \in 1 .. Flushes : k # j => flush'[k] = flush[k]
    BY <2>1, <2>3, PutFlushType DEF f
  <2>5. stamps' \in 0 .. MaxStamps /\ (<<flush[j].peer, e>> \in Watched => stamps + 1 \in 0 .. MaxStamps)
    BY <2>1, SyncAssumption DEF TypeOK
  <2>6. /\ received' \in [Peers -> SUBSET Messages] /\ applying' \in [Peers -> SUBSET Messages]
        /\ applied' = applied
    BY <2>1, <2>2, <2>5, TransmitType
  <2>7. handed' \in [Peers -> SUBSET Events]
    BY <2>1, <2>2 DEF TypeOK
  <2>8. TypeOK'
    BY <1>11, <2>4, <2>5, <2>6, <2>7 DEF FlushSendOk, TypeOK
  <2>9. RowsInHand'
    BY <1>11, <2>2, <2>3, <2>4 DEF FlushSendOk, RowsInHand
  <2> QED
    BY <2>8, <2>9
<1>12. ASSUME NEW j \in 1 .. Flushes, FlushSendThrows(j) PROVE Typed'
  <2>1. PICK e \in Events :
            /\ FirstIn(flush[j].rows, e)
            /\ failed' = [failed EXCEPT ![flush[j].peer] = @ \cup {e}]
            /\ PutFlush(j, [flush[j] EXCEPT !.rows[e] = NoRow])
    BY <1>12 DEF FlushSendThrows
  <2> DEFINE f == [flush[j] EXCEPT !.rows[e] = NoRow]
  <2>2. flush[j] \in FlushTicks /\ flush[j].peer \in Peers
    BY <1>12 DEF FlushSendThrows, TypeOK, RowsInHand
  <2>3. f \in FlushTicks /\ f.peer = flush[j].peer
    BY <2>2 DEF FlushTicks, NoRow
  <2> HIDE DEF f
  <2>4. /\ flush' \in [1 .. Flushes -> FlushTicks] /\ flush'[j] = f
        /\ \A k \in 1 .. Flushes : k # j => flush'[k] = flush[k]
    BY <2>1, <2>3, PutFlushType DEF f
  <2>5. failed' \in [Peers -> SUBSET Events] /\ throws' \in 0 .. MaxThrows
    BY <1>12, <2>1, <2>2, SyncAssumption DEF TypeOK, FlushSendThrows
  <2>6. TypeOK'
    BY <1>12, <2>4, <2>5 DEF FlushSendThrows, TypeOK, receiver
  <2>7. RowsInHand'
    BY <1>12, <2>2, <2>3, <2>4 DEF FlushSendThrows, RowsInHand
  <2> QED
    BY <2>6, <2>7
<1>13. ASSUME NEW j \in 1 .. Flushes, FlushDone(j) PROVE Typed'
  <2> DEFINE p == flush[j].peer
             ok == flush[j].ok
  <2>1. p \in Peers /\ ok \in SUBSET Events
    BY <1>13 DEF FlushDone, TypeOK, RowsInHand, FlushTicks
  <2>2. MarkSent(queue[p], ok) \in Queues
    BY <2>1, MarkSentQueue DEF TypeOK
  <2>3. queue' = [queue EXCEPT ![p] = MarkSent(@, ok)] /\ PutFlush(j, NoFlush)
    BY <1>13 DEF FlushDone
  <2> HIDE DEF p, ok
  <2>4. NoFlush \in FlushTicks /\ NoFlush.pc = "idle"
    BY DEF NoFlush, FlushTicks, NoRow
  <2>5. /\ flush' \in [1 .. Flushes -> FlushTicks] /\ flush'[j] = NoFlush
        /\ \A k \in 1 .. Flushes : k # j => flush'[k] = flush[k]
    BY <2>3, <2>4, PutFlushType
  <2>6. queue' \in [Peers -> Queues]
    BY <2>1, <2>2, <2>3 DEF TypeOK
  <2>7. TypeOK'
    BY <1>13, <2>5, <2>6 DEF FlushDone, TypeOK, receiver, history
  <2>8. RowsInHand'
    BY <1>13, <2>4, <2>5 DEF FlushDone, RowsInHand
  <2> QED
    BY <2>7, <2>8
<1>14. ASSUME NEW j \in 1 .. Flushes, NEW p \in Peers, Heartbeat(j, p) PROVE Typed'
  <2> DEFINE rows == KeepOnly(queue[p].pending, Oldest(queue[p].pending, Batch))
             f == IF Depth(queue[p]) = 0 THEN NoFlush ELSE [NoFlush EXCEPT !.pc = "send", !.peer = p, !.rows = rows]
  <2>1. queue[p] \in Queues
    BY DEF TypeOK
  <2>2. Close(queue[p]) \in Queues
    BY <2>1, CircuitQueue
  <2>3. rows \in [Events -> Nat]
    BY <2>1 DEF KeepOnly, Queues, NoRow
  <2>4. f \in FlushTicks /\ (f.pc = "send" => f.peer = p)
    <3> HIDE DEF rows
    <3> QED
      BY <2>3 DEF NoFlush, FlushTicks, NoRow
  <2>5. queue' = [queue EXCEPT ![p] = Close(@)] /\ PutFlush(j, f)
    BY <1>14 DEF Heartbeat
  <2> HIDE DEF f
  <2>6. /\ flush' \in [1 .. Flushes -> FlushTicks] /\ flush'[j] = f
        /\ \A k \in 1 .. Flushes : k # j => flush'[k] = flush[k]
    BY <2>4, <2>5, PutFlushType
  <2>7. queue' \in [Peers -> Queues]
    BY <2>2, <2>5 DEF TypeOK
  <2>8. TypeOK'
    BY <1>14, <2>6, <2>7 DEF Heartbeat, TypeOK, receiver, history
  <2>9. RowsInHand'
    BY <1>14, <2>4, <2>6 DEF Heartbeat, RowsInHand
  <2> QED
    BY <2>8, <2>9
<1>15. ASSUME NEW p \in Peers, Connect(p) \/ Closing(p) \/ Closed(p) PROVE Typed'
  <2>1. link' \in [Peers -> {"open", "closing", "off"}] /\ disturbed' \in 0 .. MaxDisturbances
    <3>1. link' \in [Peers -> {"open", "closing", "off"}]
      BY <1>15 DEF Connect, Closing, Closed, TypeOK
    <3>2. disturbed' \in 0 .. MaxDisturbances
      BY <1>15, SyncAssumption DEF Connect, Closing, Closed, TypeOK
    <3> QED
      BY <3>1, <3>2
  <2>2. UNCHANGED <<outbox, queue, pub, flush, received, applying, applied, stamps, throws,
                     handed, failed, shed, displaced, unqueued, missed>>
    BY <1>15 DEF Connect, Closing, Closed, sender, receiver, history
  <2>3. TypeOK'
    BY <2>1, <2>2 DEF TypeOK
  <2>4. RowsInHand'
    BY <2>2 DEF RowsInHand
  <2> QED
    BY <2>3, <2>4
<1>16. ASSUME NEW p \in Peers, PruneTTL(p) PROVE Typed'
  <2>1. PICK n \in 1 .. Depth(queue[p]) :
            /\ queue' = [queue EXCEPT ![p] = DeleteExpired(@, n)]
            /\ shed' = [shed EXCEPT ![p] = @ \cup Expired(queue[p], n)]
    BY <1>16 DEF PruneTTL
  <2>2. DeleteExpired(queue[p], n) \in Queues /\ Expired(queue[p], n) \subseteq Events
    BY DeleteExpiredQueue DEF TypeOK, Pending, RowsOf
  <2>3. queue' \in [Peers -> Queues] /\ shed' \in [Peers -> SUBSET Events] /\ disturbed' \in 0 .. MaxDisturbances
    BY <1>16, <2>1, <2>2, SyncAssumption DEF PruneTTL, TypeOK
  <2> QED
    BY <1>16, <2>3 DEF PruneTTL, TypeOK, RowsInHand, receiver
<1>17. ASSUME NEW p \in Peers, ResetCircuit(p) PROVE Typed'
  <2>1. Close(queue[p]) \in Queues
    BY CircuitQueue DEF TypeOK
  <2>2. queue' \in [Peers -> Queues]
    BY <1>17, <2>1 DEF ResetCircuit, TypeOK
  <2> QED
    BY <1>17, <2>2 DEF ResetCircuit, TypeOK, RowsInHand, receiver, history
<1>18. ASSUME NEW p \in Peers, Apply(p) PROVE Typed'
  <2>1. PICK m \in applying[p] :
            /\ applying' = [applying EXCEPT ![p] = @ \ {m}]
            /\ applied' = [applied EXCEPT ![p][m] = @ + 1]
    BY <1>18 DEF Apply
  <2>2. m \in Messages
    BY DEF TypeOK
  <2>3. applying' \in [Peers -> SUBSET Messages] /\ applied' \in [Peers -> [Messages -> Nat]]
    BY <2>1, <2>2 DEF TypeOK
  <2> QED
    BY <1>18, <2>3 DEF Apply, TypeOK, RowsInHand, sender, history
<1>19. ASSUME NEW p \in Peers, NeverApplied(p) PROVE Typed'
  <2>1. applying' \in [Peers -> SUBSET Messages] /\ disturbed' \in 0 .. MaxDisturbances
    BY <1>19, SyncAssumption DEF NeverApplied, TypeOK
  <2> QED
    BY <1>19, <2>1 DEF NeverApplied, TypeOK, RowsInHand, sender, history
<1>20. ASSUME NEW i \in 1 .. Publishers, EnqueueThrows(i) PROVE Typed'
  <2> DEFINE t == [pub[i] EXCEPT !.pc = "send", !.peer = "none"]
  <2>1. pub[i] \in Ticks /\ pub[i].rows # {} /\ pub[i].peer \in Peers
    BY <1>20 DEF EnqueueThrows, TypeOK, RowsInHand
  <2>2. Row(pub[i]) \in Events
    BY <2>1, RowOfTick DEF Ticks
  <2>3. t \in Ticks /\ t.rows = pub[i].rows /\ t.pc = "send"
    BY <2>1 DEF Ticks
  <2> HIDE DEF t
  <2>4. /\ pub' \in [1 .. Publishers -> Ticks] /\ pub'[i] = t
        /\ \A k \in 1 .. Publishers : k # i => pub'[k] = pub[k]
    BY <1>20, <2>3, PutType DEF t, EnqueueThrows
  <2>5. unqueued' \in [Peers -> SUBSET Events]
    BY <1>20, <2>1, <2>2 DEF TypeOK, EnqueueThrows
  <2>6. disturbed' \in 0 .. MaxDisturbances
    BY <1>20, SyncAssumption DEF TypeOK, EnqueueThrows
  <2>7. TypeOK'
    BY <1>20, <2>4, <2>5, <2>6 DEF EnqueueThrows, TypeOK, receiver
  <2>8. RowsInHand'
    BY <1>20, <2>1, <2>3, <2>4 DEF EnqueueThrows, RowsInHand
  <2> QED
    BY <2>7, <2>8
<1>21. ASSUME NEW i \in 1 .. Publishers, CountThrows(i) PROVE Typed'
  <2> DEFINE t == [pub[i] EXCEPT !.pc = "send", !.peer = "none"]
  <2>1. pub[i] \in Ticks /\ pub[i].rows # {}
    BY <1>21 DEF CountThrows, TypeOK, RowsInHand
  <2>2. t \in Ticks /\ t.rows = pub[i].rows /\ t.pc = "send"
    BY <2>1 DEF Ticks
  <2> HIDE DEF t
  <2>3. /\ pub' \in [1 .. Publishers -> Ticks] /\ pub'[i] = t
        /\ \A k \in 1 .. Publishers : k # i => pub'[k] = pub[k]
    BY <1>21, <2>2, PutType DEF t, CountThrows
  <2>4. disturbed' \in 0 .. MaxDisturbances
    BY <1>21, SyncAssumption DEF TypeOK, CountThrows
  <2>5. TypeOK'
    BY <1>21, <2>3, <2>4 DEF CountThrows, TypeOK, receiver, history
  <2>6. RowsInHand'
    BY <1>21, <2>1, <2>2, <2>3 DEF CountThrows, RowsInHand
  <2> QED
    BY <2>5, <2>6
<1>22. ASSUME NEW i \in 1 .. Publishers, MarkThrows(i) PROVE Typed'
  <2>1. NoTick \in Ticks /\ NoTick.pc = "idle"
    BY DEF NoTick, Ticks
  <2>2. /\ pub' \in [1 .. Publishers -> Ticks] /\ pub'[i] = NoTick
        /\ \A k \in 1 .. Publishers : k # i => pub'[k] = pub[k]
    BY <1>22, <2>1, PutType DEF MarkThrows
  <2>3. disturbed' \in 0 .. MaxDisturbances
    BY <1>22, SyncAssumption DEF TypeOK, MarkThrows
  <2>4. TypeOK'
    BY <1>22, <2>2, <2>3 DEF MarkThrows, TypeOK, receiver, history
  <2>5. RowsInHand'
    BY <1>22, <2>1, <2>2 DEF MarkThrows, RowsInHand
  <2> QED
    BY <2>4, <2>5
<1>23. ASSUME NEW j \in 1 .. Flushes, FlushMarkThrows(j) PROVE Typed'
  <2>1. NoFlush \in FlushTicks /\ NoFlush.pc = "idle"
    BY DEF NoFlush, FlushTicks, NoRow
  <2>2. /\ flush' \in [1 .. Flushes -> FlushTicks] /\ flush'[j] = NoFlush
        /\ \A k \in 1 .. Flushes : k # j => flush'[k] = flush[k]
    BY <1>23, <2>1, PutFlushType DEF FlushMarkThrows
  <2>3. disturbed' \in 0 .. MaxDisturbances
    BY <1>23, SyncAssumption DEF TypeOK, FlushMarkThrows
  <2>4. TypeOK'
    BY <1>23, <2>2, <2>3 DEF FlushMarkThrows, TypeOK, receiver, history
  <2>5. RowsInHand'
    BY <1>23, <2>1, <2>2 DEF FlushMarkThrows, RowsInHand
  <2> QED
    BY <2>4, <2>5
<1>24. ASSUME Restart PROVE Typed'
  <2>1. NoTick \in Ticks /\ NoTick.pc = "idle" /\ NoFlush \in FlushTicks /\ NoFlush.pc = "idle"
    BY DEF NoTick, Ticks, NoFlush, FlushTicks, NoRow
  <2>2. pub' = [i \in 1 .. Publishers |-> NoTick] /\ flush' = [j \in 1 .. Flushes |-> NoFlush]
    BY <1>24 DEF Restart
  <2>3. \A p \in Peers : Close(queue[p]) \in Queues
    BY CircuitQueue DEF TypeOK
  <2>4. queue' \in [Peers -> Queues] /\ link' \in [Peers -> {"open", "closing", "off"}]
    BY <1>24, <2>3 DEF Restart
  <2>5. unqueued' \in [Peers -> SUBSET Events]
    <3>1. \A i \in 1 .. Publishers : pub[i].pc = "enqueue" => Row(pub[i]) \in Events
      BY RowOfTick DEF TypeOK, RowsInHand, Ticks
    <3>2. \A p \in Peers :
             {Row(pub[i]) : i \in {k \in 1 .. Publishers : pub[k].pc = "enqueue" /\ pub[k].peer = p}} \subseteq Events
      BY <3>1
    <3> QED
      BY <1>24, <3>2 DEF Restart, TypeOK
  <2>6. disturbed' \in 0 .. MaxDisturbances
    BY <1>24, SyncAssumption DEF TypeOK, Restart
  <2>7. pub' \in [1 .. Publishers -> Ticks] /\ flush' \in [1 .. Flushes -> FlushTicks]
    BY <2>1, <2>2
  <2>8. TypeOK'
    BY <1>24, <2>4, <2>5, <2>6, <2>7 DEF Restart, TypeOK, receiver
  <2>9. RowsInHand'
    BY <2>1, <2>2 DEF RowsInHand
  <2> QED
    BY <2>8, <2>9
<1> QED
  BY <1>1, <1>2, <1>3, <1>4, <1>5, <1>6, <1>7, <1>8, <1>9, <1>10, <1>11, <1>12, <1>13, <1>14,
     <1>15, <1>16, <1>17, <1>18, <1>19, <1>20, <1>21, <1>22, <1>23, <1>24
  DEF Next, PublisherStep, PublisherThrow, FlushStep

LEMMA AlwaysTyped == Spec => []Typed
BY TypedInit, TypedStep, PTL DEF Spec

(* The types, in every instance: whatever the outbox, the queues, the ticks   *)
(* and the flushes do, their records stay what the code's types say.          *)
THEOREM TypeCorrect == Spec => []TypeOK
<1>1. Typed => TypeOK
  BY DEF Typed
<1> QED
  BY AlwaysTyped, <1>1, PTL
-----------------------------------------------------------------------------
(* The idempotency keys: a message is on its way to applyOne or was applied   *)
(* only if its key is recorded, and never both.                               *)
KeyInv ==
    \A p \in Peers : \A m \in Messages :
        /\ applied[p][m] <= 1
        /\ m \in applying[p] => applied[p][m] = 0
        /\ m \in applying[p] \/ applied[p][m] > 0 => m \in received[p]

LEMMA KeyInit == Init => KeyInv
BY DEF Init, KeyInv

LEMMA KeyTransmit ==
    ASSUME Typed, KeyInv, NEW p \in Peers, NEW e \in Events, NEW v, Transmit(p, e, v)
    PROVE  KeyInv'
<1> DEFINE m == <<e, v>>
<1>1. received \in [Peers -> SUBSET Messages] /\ applying \in [Peers -> SUBSET Messages]
      /\ applied \in [Peers -> [Messages -> Nat]]
  BY DEF Typed, TypeOK
<1>2. CASE link[p] = "open" /\ <<p, e>> \in Watched
  <2>1. received' = [received EXCEPT ![p] = @ \cup {m}] /\ applied' = applied
        /\ applying' = [applying EXCEPT ![p] = IF m \in received[p] THEN @ ELSE @ \cup {m}]
    BY <1>2 DEF Transmit
  <2> HIDE DEF m
  <2>2. SUFFICES ASSUME NEW q \in Peers, NEW k \in Messages
                 PROVE  /\ applied[q][k] <= 1
                        /\ k \in applying'[q] => applied[q][k] = 0
                        /\ k \in applying'[q] \/ applied[q][k] > 0 => k \in received'[q]
    BY <2>1 DEF KeyInv
  <2>3. applied[q][k] \in Nat
    BY <1>1
  <2>4. /\ applied[q][k] <= 1
        /\ k \in applying[q] => applied[q][k] = 0
        /\ k \in applying[q] \/ applied[q][k] > 0 => k \in received[q]
    BY DEF KeyInv
  <2>5. received[q] \subseteq received'[q]
    BY <1>1, <2>1
  <2>6. CASE k \in applying[q]
    BY <2>4, <2>5, <2>6
  <2>7. CASE k \notin applying[q] /\ k \in applying'[q]
    <3>1. k = m /\ q = p /\ m \notin received[p]
      BY <1>1, <2>1, <2>7
    <3>2. applied[q][k] = 0
      BY <2>3, <2>4, <3>1
    <3>3. k \in received'[q]
      BY <1>1, <2>1, <3>1
    <3> QED
      BY <3>2, <3>3
  <2>8. CASE k \notin applying'[q]
    BY <2>4, <2>5, <2>8
  <2> QED
    BY <2>6, <2>7, <2>8
<1>3. CASE ~(link[p] = "open" /\ <<p, e>> \in Watched)
  BY <1>3 DEF Transmit, receiver, KeyInv
<1> QED
  BY <1>2, <1>3

LEMMA KeyStep == Typed /\ KeyInv /\ [Next]_vars => KeyInv'
<1> SUFFICES ASSUME Typed, KeyInv, [Next]_vars PROVE KeyInv'
  OBVIOUS
<1>1. CASE UNCHANGED receiver
  BY <1>1 DEF receiver, KeyInv
<1>2. ASSUME NEW i \in 1 .. Publishers, SendOk(i) PROVE KeyInv'
  <2>1. PICK p \in pub[i].todo : Transmit(p, Row(pub[i]), 0)
    BY <1>2 DEF SendOk
  <2>2. pub[i].rows \in SUBSET Events /\ pub[i].rows # {} /\ p \in Peers
    BY <1>2 DEF SendOk, Typed, TypeOK, RowsInHand, Ticks
  <2>3. Row(pub[i]) \in Events
    BY <2>2, RowOfTick
  <2> QED
    BY <2>1, <2>2, <2>3, KeyTransmit
<1>3. ASSUME NEW j \in 1 .. Flushes, FlushSendOk(j) PROVE KeyInv'
  <2>1. PICK e \in Events : Transmit(flush[j].peer, e, stamps + 1)
    BY <1>3 DEF FlushSendOk
  <2>2. flush[j].peer \in Peers
    BY <1>3 DEF FlushSendOk, Typed, RowsInHand
  <2> QED
    BY <2>1, <2>2, KeyTransmit
<1>4. ASSUME NEW p \in Peers, Apply(p) PROVE KeyInv'
  <2>1. PICK m \in applying[p] :
            /\ applying' = [applying EXCEPT ![p] = @ \ {m}]
            /\ applied' = [applied EXCEPT ![p][m] = @ + 1]
    BY <1>4 DEF Apply
  <2>2. received' = received
    BY <1>4 DEF Apply
  <2>3. applying \in [Peers -> SUBSET Messages] /\ applied \in [Peers -> [Messages -> Nat]]
    BY DEF Typed, TypeOK
  <2>4. SUFFICES ASSUME NEW q \in Peers, NEW k \in Messages
                 PROVE  /\ applied'[q][k] <= 1
                        /\ k \in applying'[q] => applied'[q][k] = 0
                        /\ k \in applying'[q] \/ applied'[q][k] > 0 => k \in received[q]
    BY <2>2 DEF KeyInv
  <2>5. /\ applied[q][k] <= 1
        /\ k \in applying[q] => applied[q][k] = 0
        /\ k \in applying[q] \/ applied[q][k] > 0 => k \in received[q]
    BY DEF KeyInv
  <2>6. CASE q = p /\ k = m
    <3>1. applied'[q][k] = 1 /\ k \notin applying'[q] /\ k \in received[q]
      BY <2>1, <2>3, <2>5, <2>6
    <3> QED
      BY <3>1
  <2>7. CASE ~(q = p /\ k = m)
    <3>1. applied'[q][k] = applied[q][k] /\ (k \in applying'[q] => k \in applying[q])
      BY <2>1, <2>3, <2>7
    <3> QED
      BY <2>5, <3>1
  <2> QED
    BY <2>6, <2>7
<1>5. ASSUME NEW p \in Peers, NeverApplied(p) PROVE KeyInv'
  <2>1. received' = received /\ applied' = applied
    BY <1>5 DEF NeverApplied
  <2>2. \A q \in Peers : applying'[q] \subseteq applying[q]
    BY <1>5 DEF NeverApplied, Typed, TypeOK
  <2> QED
    BY <2>1, <2>2 DEF KeyInv
<1>6. CASE UNCHANGED vars
  BY <1>1, <1>6 DEF vars, receiver
<1>7. ASSUME NEW e \in Events, Emit(e) PROVE KeyInv'
  BY <1>1, <1>7 DEF Emit
<1>8. ASSUME NEW i \in 1 .. Publishers,
             \/ Tick(i) \/ EnqueueRefused(i) \/ Enqueue(i) \/ Count(i) \/ RowDone(i) \/ Mark(i)
             \/ PublisherThrow(i)
      PROVE  KeyInv'
  <2>1. CASE Tick(i) \/ EnqueueRefused(i) \/ Enqueue(i) \/ Count(i) \/ RowDone(i) \/ Mark(i)
    BY <1>1, <2>1 DEF Tick, EnqueueRefused, Enqueue, Count, RowDone, Mark
  <2>2. CASE PublisherThrow(i)
    BY <1>1, <2>2 DEF PublisherThrow, SendThrows, EnqueueThrows, CountThrows, MarkThrows
  <2> QED
    BY <1>8, <2>1, <2>2
<1>9. ASSUME NEW j \in 1 .. Flushes, FlushSendThrows(j) \/ FlushDone(j) \/ FlushMarkThrows(j) PROVE KeyInv'
  BY <1>1, <1>9 DEF FlushSendThrows, FlushDone, FlushMarkThrows
<1>10. ASSUME NEW j \in 1 .. Flushes, NEW p \in Peers, Heartbeat(j, p) PROVE KeyInv'
  BY <1>1, <1>10 DEF Heartbeat
<1>11. ASSUME NEW p \in Peers, Connect(p) \/ Closing(p) \/ Closed(p) \/ PruneTTL(p) \/ ResetCircuit(p)
       PROVE  KeyInv'
  BY <1>1, <1>11 DEF Connect, Closing, Closed, PruneTTL, ResetCircuit
<1>12. ASSUME Restart PROVE KeyInv'
  BY <1>1, <1>12 DEF Restart
<1> QED
  BY <1>2, <1>3, <1>4, <1>5, <1>6, <1>7, <1>8, <1>9, <1>10, <1>11, <1>12 DEF Next, PublisherStep, FlushStep

(* A peer applies a message at most once under one idempotency key, however   *)
(* often overlapping ticks repeat the row, and across restarts of the peer.   *)
THEOREM KeysApplyOnce == Spec => []AppliedOncePerKey
<1>1. KeyInv => AppliedOncePerKey
  BY DEF KeyInv, AppliedOncePerKey
<1> QED
  BY AlwaysTyped, KeyInit, KeyStep, <1>1, PTL DEF Spec
-----------------------------------------------------------------------------
(* The index of a queue: it finds every pending row, and no pending row is    *)
(* also kept as sent.                                                         *)
Indexed(q) ==
    /\ \A e \in Pending(q) : q.index[EntityOf[e]] = e
    /\ Pending(q) \cap q.sent = {}

LEMMA CoalesceIndexed ==
    ASSUME NEW q \in Queues, NEW e \in Events, Indexed(q)
    PROVE  Indexed(Coalesce(q, e))
<1> DEFINE x == EntityOf[e]
<1>1. /\ Pending(Coalesce(q, e)) = (Pending(q) \ {q.index[x]}) \cup {e}
      /\ Coalesce(q, e).sent = q.sent \ {e, q.index[x]}
      /\ Coalesce(q, e).index = [q.index EXCEPT ![x] = e]
  BY CoalesceQueue
<1>2. x \in Entities /\ q.index \in [Entities -> Events \cup {NoEvent}]
  BY DEF Entities, Queues
<1>3. ASSUME NEW d \in Pending(Coalesce(q, e)) PROVE Coalesce(q, e).index[EntityOf[d]] = d
  <2>1. d \in Events
    BY <1>1, <1>3 DEF Pending, RowsOf
  <2>2. EntityOf[d] \in Entities
    BY <2>1 DEF Entities
  <2>3. CASE d = e
    BY <1>1, <1>2, <2>3
  <2>4. CASE d # e
    <3>1. d \in Pending(q) /\ d # q.index[x]
      BY <1>1, <1>3, <2>4
    <3>2. q.index[EntityOf[d]] = d /\ EntityOf[d] # x
      BY <3>1 DEF Indexed
    <3> QED
      BY <1>1, <1>2, <2>2, <3>2
  <2> QED
    BY <2>3, <2>4
<1>4. Pending(Coalesce(q, e)) \cap Coalesce(q, e).sent = {}
  BY <1>1 DEF Indexed
<1> QED
  BY <1>3, <1>4 DEF Indexed

(* Rows that leave the pending ones take only their own index entries along.  *)
LEMMA UnindexedKeeps ==
    ASSUME NEW q \in Queues, Indexed(q), NEW E \in SUBSET Pending(q), NEW e \in Pending(q) \ E
    PROVE  Unindexed(q, E)[EntityOf[e]] = e
<1>1. e \in Events /\ EntityOf[e] \in Entities
  BY DEF Pending, RowsOf, Entities
<1>2. ~ \E d \in E : EntityOf[d] = EntityOf[e]
  BY DEF Indexed
<1> QED
  BY <1>1, <1>2 DEF Unindexed, Indexed

LEMMA MarkSentIndexed ==
    ASSUME NEW q \in Queues, Indexed(q), NEW E \in SUBSET Events, E \cap q.sent = {}
    PROVE  Indexed(MarkSent(q, E))
<1> DEFINE F == E \cap (Pending(q) \cup q.sent)
<1>1. /\ Pending(MarkSent(q, E)) = Pending(q) \ E
      /\ MarkSent(q, E).sent = q.sent \cup (E \cap Pending(q))
      /\ MarkSent(q, E).index = Unindexed(q, F)
  BY MarkSentQueue
<1>2. F \in SUBSET Pending(q)
  OBVIOUS
<1>3. \A e \in Pending(q) \ E : e \in Pending(q) \ F
  OBVIOUS
<1> HIDE DEF F
<1>4. \A e \in Pending(MarkSent(q, E)) : MarkSent(q, E).index[EntityOf[e]] = e
  BY <1>1, <1>2, <1>3, UnindexedKeeps
<1>5. Pending(MarkSent(q, E)) \cap MarkSent(q, E).sent = {}
  BY <1>1 DEF Indexed
<1> QED
  BY <1>4, <1>5 DEF Indexed

LEMMA DeleteExpiredIndexed ==
    ASSUME NEW q \in Queues, Indexed(q), NEW n
    PROVE  Indexed(DeleteExpired(q, n))
<1>1. /\ Expired(q, n) \in SUBSET Pending(q)
      /\ Pending(DeleteExpired(q, n)) = Pending(q) \ Expired(q, n)
      /\ DeleteExpired(q, n).sent = q.sent
      /\ DeleteExpired(q, n).index = Unindexed(q, Expired(q, n))
  BY DeleteExpiredQueue
<1>2. \A e \in Pending(DeleteExpired(q, n)) : DeleteExpired(q, n).index[EntityOf[e]] = e
  BY <1>1, UnindexedKeeps
<1> QED
  BY <1>1, <1>2 DEF Indexed

LEMMA CircuitIndexed ==
    ASSUME NEW q \in Queues, Indexed(q)
    PROVE  Indexed(Close(q)) /\ Indexed(Recount(q))
BY CircuitQueue DEF Indexed, Pending

(* A flush holds no event whose row is already kept as sent: that fails with  *)
(* two flushes of one peer, and then the later markSent takes the index entry *)
(* of a row that is not its own.                                              *)
FlushFresh ==
    \A j \in 1 .. Flushes : flush[j].pc = "send" =>
        (RowsOf(flush[j].rows) \cup flush[j].ok) \cap queue[flush[j].peer].sent = {}
IndexInv == FlushFresh /\ \A p \in Peers : Indexed(queue[p])

LEMMA IndexInit == Init => IndexInv
<1> SUFFICES ASSUME Init PROVE IndexInv
  OBVIOUS
<1>1. ASSUME NEW p \in Peers PROVE Indexed(queue[p])
  BY <1>1 DEF Init, Indexed, EmptyQueue, Pending, RowsOf
<1> QED
  BY <1>1 DEF Init, IndexInv, FlushFresh, NoFlush

LEMMA IndexStep == Flushes <= 1 /\ Typed /\ IndexInv /\ [Next]_vars => IndexInv'
<1> SUFFICES ASSUME Flushes <= 1, Typed, IndexInv, [Next]_vars PROVE IndexInv'
  OBVIOUS
<1>t. queue \in [Peers -> Queues] /\ flush \in [1 .. Flushes -> FlushTicks]
  BY DEF Typed, TypeOK
<1>u. \A j, k \in 1 .. Flushes : j = k
  BY SyncAssumption
<1>1. CASE UNCHANGED <<queue, flush>>
  BY <1>1 DEF IndexInv, FlushFresh
<1>2. ASSUME NEW i \in 1 .. Publishers, Enqueue(i) PROVE IndexInv'
  <2> DEFINE p == pub[i].peer
             e == Row(pub[i])
  <2>1. pub[i] \in Ticks /\ pub[i].rows # {} /\ p \in Peers
    BY <1>2 DEF Enqueue, Typed, TypeOK, RowsInHand
  <2>2. e \in Events
    BY <2>1, RowOfTick DEF Ticks
  <2>3. queue' = [queue EXCEPT ![p] = Coalesce(@, e)] /\ flush' = flush
    BY <1>2 DEF Enqueue
  <2> HIDE DEF p, e
  <2>4. queue'[p] = Coalesce(queue[p], e) /\ \A q \in Peers : q # p => queue'[q] = queue[q]
    BY <1>t, <2>1, <2>3
  <2>5. Indexed(queue'[p]) /\ queue'[p].sent \subseteq queue[p].sent
    <3>1. queue[p] \in Queues /\ Indexed(queue[p])
      BY <1>t, <2>1 DEF IndexInv
    <3>2. Indexed(Coalesce(queue[p], e))
      BY <2>2, <3>1, CoalesceIndexed
    <3>3. Coalesce(queue[p], e).sent \subseteq queue[p].sent
      BY <2>2, <3>1, CoalesceSent
    <3> QED
      BY <2>4, <3>2, <3>3
  <2>6. \A q \in Peers : Indexed(queue'[q]) /\ queue'[q].sent \subseteq queue[q].sent
    BY <2>4, <2>5 DEF IndexInv
  <2>7. \A j \in 1 .. Flushes : flush[j].pc = "send" => flush[j].peer \in Peers
    BY DEF Typed, RowsInHand
  <2>8. FlushFresh'
    BY <2>3, <2>6, <2>7 DEF IndexInv, FlushFresh
  <2> QED
    BY <2>6, <2>8 DEF IndexInv
<1>3. ASSUME NEW i \in 1 .. Publishers, Count(i) PROVE IndexInv'
  <2>1. pub[i].peer \in Peers
    BY <1>3 DEF Count, Typed, RowsInHand
  <2>2. queue' = [queue EXCEPT ![pub[i].peer] = Recount(@)] /\ flush' = flush
    BY <1>3 DEF Count
  <2>3. \A q \in Peers : Indexed(queue'[q]) /\ queue'[q].sent = queue[q].sent
    BY <1>t, <2>1, <2>2, CircuitIndexed, CircuitQueue DEF IndexInv
  <2>4. \A j \in 1 .. Flushes : flush[j].pc = "send" => flush[j].peer \in Peers
    BY DEF Typed, RowsInHand
  <2> QED
    BY <2>2, <2>3, <2>4 DEF IndexInv, FlushFresh
<1>4. ASSUME NEW j \in 1 .. Flushes, FlushSendOk(j) \/ FlushSendThrows(j) PROVE IndexInv'
  <2>1. PICK e \in Events :
            /\ e \in RowsOf(flush[j].rows) /\ flush[j].pc = "send"
            /\ \/ flush' = [flush EXCEPT ![j] = [flush[j] EXCEPT !.rows[e] = NoRow, !.ok = @ \cup {e}]]
               \/ flush' = [flush EXCEPT ![j] = [flush[j] EXCEPT !.rows[e] = NoRow]]
    BY <1>4 DEF FlushSendOk, FlushSendThrows, FirstIn, PutFlush
  <2>2. flush'[j].peer = flush[j].peer
        /\ RowsOf(flush'[j].rows) \cup flush'[j].ok \subseteq RowsOf(flush[j].rows) \cup flush[j].ok
    <3>1. flush[j] \in FlushTicks
      BY <1>t
    <3> DEFINE f == [flush[j] EXCEPT !.rows[e] = NoRow]
               g == [flush[j] EXCEPT !.rows[e] = NoRow, !.ok = @ \cup {e}]
    <3>2. RowsOf(f.rows) \subseteq RowsOf(flush[j].rows) /\ RowsOf(g.rows) \subseteq RowsOf(flush[j].rows)
      BY <3>1 DEF FlushTicks, RowsOf
    <3>3. f.ok = flush[j].ok /\ g.ok = flush[j].ok \cup {e} /\ f.peer = flush[j].peer /\ g.peer = flush[j].peer
      BY <3>1 DEF FlushTicks
    <3>4. flush'[j] = f \/ flush'[j] = g
      BY <1>t, <2>1
    <3> HIDE DEF f, g
    <3> QED
      BY <2>1, <3>2, <3>3, <3>4
  <2>3. queue' = queue
    BY <1>4 DEF FlushSendOk, FlushSendThrows
  <2>4. ASSUME NEW k \in 1 .. Flushes, flush'[k].pc = "send"
        PROVE  (RowsOf(flush'[k].rows) \cup flush'[k].ok) \cap queue[flush'[k].peer].sent = {}
    BY <1>u, <2>1, <2>2, <2>4 DEF IndexInv, FlushFresh
  <2> QED
    BY <2>3, <2>4 DEF IndexInv, FlushFresh
<1>5. ASSUME NEW j \in 1 .. Flushes, FlushDone(j) PROVE IndexInv'
  <2> DEFINE p == flush[j].peer
             ok == flush[j].ok
  <2>1. p \in Peers /\ ok \in SUBSET Events /\ ok \cap queue[p].sent = {}
    BY <1>5, <1>t DEF FlushDone, Typed, RowsInHand, FlushTicks, IndexInv, FlushFresh
  <2>2. queue' = [queue EXCEPT ![p] = MarkSent(@, ok)] /\ flush' = [flush EXCEPT ![j] = NoFlush]
    BY <1>5 DEF FlushDone, PutFlush
  <2> HIDE DEF p, ok
  <2>3. \A q \in Peers : Indexed(queue'[q])
    BY <1>t, <2>1, <2>2, MarkSentIndexed DEF IndexInv
  <2>4. \A k \in 1 .. Flushes : flush'[k].pc = "idle"
    BY <1>t, <1>u, <2>2 DEF NoFlush
  <2> QED
    BY <2>3, <2>4 DEF IndexInv, FlushFresh
<1>6. ASSUME NEW j \in 1 .. Flushes, NEW p \in Peers, Heartbeat(j, p) PROVE IndexInv'
  <2> DEFINE rows == KeepOnly(queue[p].pending, Oldest(queue[p].pending, Batch))
             f == IF Depth(queue[p]) = 0 THEN NoFlush ELSE [NoFlush EXCEPT !.pc = "send", !.peer = p, !.rows = rows]
  <2>1. queue' = [queue EXCEPT ![p] = Close(@)] /\ flush' = [flush EXCEPT ![j] = f]
    BY <1>6 DEF Heartbeat, PutFlush
  <2>2. \A q \in Peers : Indexed(queue'[q]) /\ queue'[q].sent = queue[q].sent
    <3> HIDE DEF f
    <3> QED
      BY <1>t, <2>1, CircuitIndexed, CircuitQueue DEF IndexInv
  <2>3. RowsOf(rows) \subseteq Pending(queue[p])
    BY DEF RowsOf, KeepOnly, Oldest, Pending
  <2>4. f.pc = "send" => f.peer = p /\ f.ok = {} /\ f.rows = rows
    <3> HIDE DEF rows
    <3> QED
      BY DEF NoFlush
  <2> HIDE DEF f, rows
  <2>5. ASSUME NEW k \in 1 .. Flushes, flush'[k].pc = "send"
        PROVE  (RowsOf(flush'[k].rows) \cup flush'[k].ok) \cap queue'[flush'[k].peer].sent = {}
    <3>1. flush'[k] = f
      BY <1>t, <1>u, <2>1
    <3> QED
      BY <2>2, <2>3, <2>4, <2>5, <3>1 DEF IndexInv, Indexed
  <2> QED
    BY <2>2, <2>5 DEF IndexInv, FlushFresh
<1>7. ASSUME NEW p \in Peers, PruneTTL(p) PROVE IndexInv'
  <2>1. PICK n \in 1 .. Depth(queue[p]) : queue' = [queue EXCEPT ![p] = DeleteExpired(@, n)]
    BY <1>7 DEF PruneTTL
  <2>2. \A q \in Peers : Indexed(queue'[q]) /\ queue'[q].sent = queue[q].sent
    BY <1>t, <2>1, DeleteExpiredIndexed, DeleteExpiredQueue DEF IndexInv
  <2>3. flush' = flush /\ \A j \in 1 .. Flushes : flush[j].pc = "send" => flush[j].peer \in Peers
    BY <1>7 DEF PruneTTL, Typed, RowsInHand
  <2> QED
    BY <2>2, <2>3 DEF IndexInv, FlushFresh
<1>8. ASSUME NEW p \in Peers, ResetCircuit(p) PROVE IndexInv'
  <2>1. queue' = [queue EXCEPT ![p] = Close(@)] /\ flush' = flush
    BY <1>8 DEF ResetCircuit
  <2>2. \A q \in Peers : Indexed(queue'[q]) /\ queue'[q].sent = queue[q].sent
    BY <1>t, <2>1, CircuitIndexed, CircuitQueue DEF IndexInv
  <2>3. \A j \in 1 .. Flushes : flush[j].pc = "send" => flush[j].peer \in Peers
    BY DEF Typed, RowsInHand
  <2> QED
    BY <2>1, <2>2, <2>3 DEF IndexInv, FlushFresh
<1>9. CASE UNCHANGED vars
  BY <1>1, <1>9 DEF vars
<1>10. ASSUME NEW e \in Events, Emit(e) PROVE IndexInv'
  BY <1>1, <1>10 DEF Emit
<1>11. ASSUME NEW i \in 1 .. Publishers,
              Tick(i) \/ SendOk(i) \/ PublisherThrow(i) \/ EnqueueRefused(i) \/ RowDone(i) \/ Mark(i)
       PROVE  IndexInv'
  <2>1. CASE Tick(i) \/ SendOk(i) \/ EnqueueRefused(i) \/ RowDone(i) \/ Mark(i)
    BY <1>1, <2>1 DEF Tick, SendOk, EnqueueRefused, RowDone, Mark
  <2>2. CASE PublisherThrow(i)
    BY <1>1, <2>2 DEF PublisherThrow, SendThrows, EnqueueThrows, CountThrows, MarkThrows
  <2> QED
    BY <1>11, <2>1, <2>2
<1>12. ASSUME NEW p \in Peers, Connect(p) \/ Closing(p) \/ Closed(p) \/ Apply(p) \/ NeverApplied(p)
       PROVE  IndexInv'
  BY <1>1, <1>12 DEF Connect, Closing, Closed, Apply, NeverApplied, sender
<1>13. ASSUME NEW j \in 1 .. Flushes, FlushMarkThrows(j) PROVE IndexInv'
  <2>1. queue' = queue /\ flush' = [flush EXCEPT ![j] = NoFlush]
    BY <1>13 DEF FlushMarkThrows, PutFlush
  <2>2. \A k \in 1 .. Flushes : flush'[k].pc = "idle"
    BY <1>t, <1>u, <2>1 DEF NoFlush
  <2> QED
    BY <2>1, <2>2 DEF IndexInv, FlushFresh
<1>14. ASSUME Restart PROVE IndexInv'
  <2>1. \A p \in Peers : queue'[p] = Close(queue[p])
    BY <1>14 DEF Restart
  <2>2. \A p \in Peers : Indexed(queue'[p])
    BY <1>t, <2>1, CircuitIndexed DEF IndexInv
  <2>3. \A k \in 1 .. Flushes : flush'[k].pc = "idle"
    BY <1>14 DEF Restart, NoFlush
  <2> QED
    BY <2>2, <2>3 DEF IndexInv, FlushFresh
<1> QED
  BY <1>2, <1>3, <1>4, <1>5, <1>6, <1>7, <1>8, <1>9, <1>10, <1>11, <1>12, <1>13, <1>14
  DEF Next, PublisherStep, FlushStep

(* With one flush of the queue at a time, and any number of overlapping       *)
(* publishers, updates of an entity collapse to one pending row, and the      *)
(* index finds it.                                                            *)
THEOREM OneRowPerEntity == ASSUME Flushes <= 1 PROVE Spec => []OnePendingPerEntity
<1>1. IndexInv => OnePendingPerEntity
  BY DEF IndexInv, Indexed, OnePendingPerEntity
<1>2. Typed /\ IndexInv /\ [Next]_vars => IndexInv'
  BY IndexStep
<1> QED
  BY AlwaysTyped, IndexInit, <1>1, <1>2, PTL DEF Spec
-----------------------------------------------------------------------------
(* A failed delivery is kept.  An event is kept at a peer when it, or a newer *)
(* one of its entity, is settled, pending or unqueued there.                  *)
Kept(p, e) == Settled(p, e) \/ Standing(e) \cap (Pending(queue[p]) \cup unqueued[p]) # {}

FailedKept == \A p \in Peers : \A e \in failed[p] : Kept(p, e) \/ InHand(p, e)
FlushKept ==
    \A j \in 1 .. Flushes : \A p \in Peers : flush[j].pc = "send" /\ flush[j].peer = p =>
        /\ \A e \in RowsOf(flush[j].rows) : Kept(p, e)
        /\ flush[j].ok \subseteq handed[p]
IndexSound ==
    \A p \in Peers : \A x \in Entities :
        queue[p].index[x] # NoEvent => EntityOf[queue[p].index[x]] = x
KeepInv == FailedKept /\ FlushKept /\ IndexSound

LEMMA StandingFacts ==
    ASSUME NEW e \in Events
    PROVE  /\ e \in Standing(e)
           /\ \A d \in Standing(e) : d \in Events /\ Standing(d) \subseteq Standing(e)
<1>1. Events \subseteq Nat
  BY QueueAssumption
<1>2. e \in Standing(e)
  BY <1>1 DEF Standing
<1>3. ASSUME NEW d \in Standing(e) PROVE d \in Events /\ Standing(d) \subseteq Standing(e)
  <2>1. d \in Events /\ d >= e /\ EntityOf[d] = EntityOf[e]
    BY <1>3 DEF Standing
  <2>2. ASSUME NEW c \in Standing(d) PROVE c \in Standing(e)
    <3>1. c \in Events /\ c >= d /\ EntityOf[c] = EntityOf[d]
      BY <2>2 DEF Standing
    <3>2. c >= e
      BY <1>1, <2>1, <3>1
    <3> QED
      BY <2>1, <3>1, <3>2 DEF Standing
  <2> QED
    BY <2>1, <2>2
<1> QED
  BY <1>2, <1>3

(* A step keeps what was kept if the histories grow, but for an event that is *)
(* queued after all, and every row that was pending is kept.                  *)
HistoriesGrow ==
    \A p \in Peers : /\ handed[p] \subseteq handed'[p] /\ shed[p] \subseteq shed'[p]
                     /\ displaced[p] \subseteq displaced'[p]
                     /\ unqueued[p] \subseteq unqueued'[p] \cup Pending(queue'[p])
RowsKept == \A p \in Peers : \A d \in Pending(queue[p]) : Kept(p, d)'

LEMMA KeptLater ==
    ASSUME HistoriesGrow, RowsKept, NEW p \in Peers, NEW e \in Events, Kept(p, e)
    PROVE  Kept(p, e)'
<1>1. CASE Settled(p, e)
  BY <1>1 DEF HistoriesGrow, Settled, Kept
<1>2. CASE Standing(e) \cap Pending(queue[p]) # {}
  <2>1. PICK d \in Standing(e) : d \in Pending(queue[p])
    BY <1>2
  <2>2. Kept(p, d)' /\ Standing(d) \subseteq Standing(e)
    BY <2>1, StandingFacts DEF RowsKept
  <2> QED
    BY <2>2 DEF Kept, Settled
<1>3. CASE Standing(e) \cap unqueued[p] # {}
  BY <1>3 DEF HistoriesGrow, Kept
<1> QED
  BY <1>1, <1>2, <1>3 DEF Kept

(* Rows that stay pending, and rows that end in a history, are kept.          *)
LEMMA StayingRowsKept ==
    ASSUME NEW p \in Peers,
           \A d \in Pending(queue[p]) :
               d \in Pending(queue'[p]) \cup handed'[p] \cup shed'[p] \cup displaced'[p]
    PROVE  \A d \in Pending(queue[p]) : Kept(p, d)'
<1> SUFFICES ASSUME NEW d \in Pending(queue[p]) PROVE Kept(p, d)'
  OBVIOUS
<1>1. d \in Events
  BY DEF Pending, RowsOf
<1>2. d \in Standing(d)
  BY <1>1, StandingFacts
<1> QED
  BY <1>2 DEF Kept, Settled

LEMMA SamePendingKept ==
    ASSUME \A p \in Peers : Pending(queue[p]) \subseteq Pending(queue'[p])
    PROVE  RowsKept
BY StayingRowsKept DEF RowsKept

(* What is left to show of a step, once the rows are kept: that the publisher *)
(* that had an event in hand still has, or has kept it, and the same for what *)
(* failed in the step.                                                        *)
LEMMA FailedLater ==
    ASSUME Typed, FailedKept, HistoriesGrow, RowsKept,
           \A p \in Peers : \A e \in Events : InHand(p, e) => Kept(p, e)' \/ InHand(p, e)',
           \A p \in Peers : \A e \in failed'[p] \ failed[p] : e \in Events /\ (Kept(p, e)' \/ InHand(p, e)')
    PROVE  FailedKept'
<1> SUFFICES ASSUME NEW p \in Peers, NEW e \in failed'[p] PROVE Kept(p, e)' \/ InHand(p, e)'
  BY DEF FailedKept
<1>1. CASE e \in failed[p]
  <2>1. e \in Events
    BY <1>1 DEF Typed, TypeOK
  <2> QED
    BY <1>1, <2>1, KeptLater DEF FailedKept
<1>2. CASE e \notin failed[p]
  BY <1>2
<1> QED
  BY <1>1, <1>2

LEMMA FlushLater ==
    ASSUME Typed, FlushKept, HistoriesGrow, RowsKept, flush' = flush
    PROVE  FlushKept'
<1> SUFFICES ASSUME NEW j \in 1 .. Flushes, NEW p \in Peers, flush[j].pc = "send", flush[j].peer = p
             PROVE  /\ \A e \in RowsOf(flush[j].rows) : Kept(p, e)'
                    /\ flush[j].ok \subseteq handed'[p]
  BY DEF FlushKept
<1>1. RowsOf(flush[j].rows) \subseteq Events
  BY DEF RowsOf
<1> QED
  BY <1>1, KeptLater DEF FlushKept, HistoriesGrow

LEMMA KeepInit == Init => KeepInv
<1> SUFFICES ASSUME Init PROVE KeepInv
  OBVIOUS
<1>1. FailedKept
  BY DEF Init, FailedKept
<1>2. FlushKept
  BY DEF Init, FlushKept, NoFlush
<1>3. IndexSound
  BY DEF Init, IndexSound, EmptyQueue
<1> QED
  BY <1>1, <1>2, <1>3 DEF KeepInv

(* The index stays sound: a row is indexed under its own entity.              *)
LEMMA IndexSoundStep == Typed /\ IndexSound /\ [Next]_vars => IndexSound'
<1> SUFFICES ASSUME Typed, IndexSound, [Next]_vars PROVE IndexSound'
  OBVIOUS
<1>t. queue \in [Peers -> Queues]
  BY DEF Typed, TypeOK
<1>1. CASE queue' = queue
  BY <1>1 DEF IndexSound
<1>2. ASSUME NEW p \in Peers, NEW q, queue' = [queue EXCEPT ![p] = q],
             \A x \in Entities : q.index[x] # NoEvent => EntityOf[q.index[x]] = x
      PROVE  IndexSound'
  BY <1>t, <1>2 DEF IndexSound
<1>3. ASSUME NEW q \in Queues, NEW E
      PROVE  \A x \in Entities : Unindexed(q, E)[x] \in {q.index[x], NoEvent}
  BY DEF Unindexed
<1>4. ASSUME NEW i \in 1 .. Publishers, Enqueue(i) PROVE IndexSound'
  <2> DEFINE p == pub[i].peer
             e == Row(pub[i])
  <2>1. pub[i] \in Ticks /\ pub[i].rows # {} /\ p \in Peers
    BY <1>4 DEF Enqueue, Typed, TypeOK, RowsInHand
  <2>2. e \in Events
    BY <2>1, RowOfTick DEF Ticks
  <2>3. queue' = [queue EXCEPT ![p] = Coalesce(queue[p], e)]
    BY <1>4 DEF Enqueue
  <2> HIDE DEF p, e
  <2>4. queue[p] \in Queues
    BY <1>t, <2>1
  <2>5. Coalesce(queue[p], e).index = [queue[p].index EXCEPT ![EntityOf[e]] = e]
    BY <2>2, <2>4, CoalesceQueue
  <2>6. \A x \in Entities : Coalesce(queue[p], e).index[x] # NoEvent => EntityOf[Coalesce(queue[p], e).index[x]] = x
    <3>1. queue[p].index \in [Entities -> Events \union {NoEvent}] /\ p \in Peers
      BY <2>1, <2>4 DEF Queues
    <3>2. \A x \in Entities : queue[p].index[x] # NoEvent => EntityOf[queue[p].index[x]] = x
      BY <3>1 DEF IndexSound
    <3> QED  BY <2>5, <3>1, <3>2
  <2> QED
    BY <1>2, <2>1, <2>3, <2>6
<1>5. ASSUME NEW i \in 1 .. Publishers, Count(i) PROVE IndexSound'
  <2>1. pub[i].peer \in Peers /\ queue' = [queue EXCEPT ![pub[i].peer] = Recount(queue[pub[i].peer])]
    BY <1>5 DEF Count, Typed, RowsInHand
  <2>2. Recount(queue[pub[i].peer]).index = queue[pub[i].peer].index
    BY <1>t, <2>1, CircuitQueue
  <2> DEFINE p == pub[i].peer  q == Recount(queue[p])
  <2>3. \A x \in Entities : q.index[x] # NoEvent => EntityOf[q.index[x]] = x
    BY <2>1, <2>2 DEF IndexSound
  <2>4. p \in Peers /\ queue' = [queue EXCEPT ![p] = q]
    BY <2>1
  <2> HIDE DEF p, q
  <2> QED
    BY <1>2, <2>3, <2>4
<1>6. ASSUME NEW j \in 1 .. Flushes, FlushDone(j) PROVE IndexSound'
  <2> DEFINE p == flush[j].peer
             ok == flush[j].ok
             q == queue[p]
  <2>1. p \in Peers /\ ok \in SUBSET Events /\ queue' = [queue EXCEPT ![p] = MarkSent(q, ok)]
    BY <1>6 DEF FlushDone, Typed, TypeOK, RowsInHand, FlushTicks
  <2> HIDE DEF ok, p
  <2>2. q \in Queues
    BY <1>t, <2>1
  <2>3. MarkSent(q, ok).index = Unindexed(q, ok \cap (Pending(q) \cup q.sent))
    BY <2>1, <2>2, MarkSentQueue
  <2>4. \A x \in Entities : MarkSent(q, ok).index[x] \in {q.index[x], NoEvent}
    BY <1>3, <2>2, <2>3
  <2>5. \A x \in Entities : q.index[x] # NoEvent => EntityOf[q.index[x]] = x
    BY <2>1 DEF IndexSound
  <2> QED
    BY <1>2, <2>1, <2>4, <2>5
<1>7. ASSUME NEW p \in Peers, PruneTTL(p) PROVE IndexSound'
  <2>1. PICK n \in 1 .. Depth(queue[p]) : queue' = [queue EXCEPT ![p] = DeleteExpired(queue[p], n)]
    BY <1>7 DEF PruneTTL
  <2>2. DeleteExpired(queue[p], n).index = Unindexed(queue[p], Expired(queue[p], n))
    BY <1>t, DeleteExpiredQueue
  <2>3. \A x \in Entities : DeleteExpired(queue[p], n).index[x] \in {queue[p].index[x], NoEvent}
    BY <1>t, <1>3, <2>2
  <2> QED
    BY <1>2, <2>1, <2>3 DEF IndexSound
<1>8. ASSUME NEW p \in Peers, ResetCircuit(p) \/ \E j \in 1 .. Flushes : Heartbeat(j, p) PROVE IndexSound'
  <2>1. queue' = [queue EXCEPT ![p] = Close(queue[p])]
    BY <1>8 DEF ResetCircuit, Heartbeat
  <2> QED
    BY <1>t, <1>2, <2>1, CircuitQueue DEF IndexSound
<1>9. CASE UNCHANGED vars
  BY <1>1, <1>9 DEF vars
<1>10. ASSUME NEW e \in Events, Emit(e) PROVE IndexSound'
  BY <1>1, <1>10 DEF Emit
<1>11. ASSUME NEW i \in 1 .. Publishers,
              Tick(i) \/ SendOk(i) \/ PublisherThrow(i) \/ EnqueueRefused(i) \/ RowDone(i) \/ Mark(i)
       PROVE  IndexSound'
  <2>1. CASE Tick(i) \/ SendOk(i) \/ EnqueueRefused(i) \/ RowDone(i) \/ Mark(i)
    BY <1>1, <2>1 DEF Tick, SendOk, EnqueueRefused, RowDone, Mark
  <2>2. CASE PublisherThrow(i)
    BY <1>1, <2>2 DEF PublisherThrow, SendThrows, EnqueueThrows, CountThrows, MarkThrows
  <2> QED
    BY <1>11, <2>1, <2>2
<1>12. ASSUME NEW j \in 1 .. Flushes, FlushSendOk(j) \/ FlushSendThrows(j) \/ FlushMarkThrows(j) PROVE IndexSound'
  BY <1>1, <1>12 DEF FlushSendOk, FlushSendThrows, FlushMarkThrows
<1>13. ASSUME NEW p \in Peers, Connect(p) \/ Closing(p) \/ Closed(p) \/ Apply(p) \/ NeverApplied(p)
       PROVE  IndexSound'
  BY <1>1, <1>13 DEF Connect, Closing, Closed, Apply, NeverApplied, sender
<1>14. ASSUME Restart PROVE IndexSound'
  <2>1. \A p \in Peers : queue'[p] = Close(queue[p])
    BY <1>14 DEF Restart
  <2>2. \A p \in Peers : queue'[p].index = queue[p].index
    BY <1>t, <2>1, CircuitQueue
  <2> QED
    BY <2>2 DEF IndexSound
<1> QED
  BY <1>4, <1>5, <1>6, <1>7, <1>8, <1>9, <1>10, <1>11, <1>12, <1>13, <1>14
  DEF Next, PublisherStep, PublisherThrow, FlushStep
(* A publisher that is not enqueueing has nothing in hand.                    *)
LEMMA HandsKept ==
    ASSUME NEW i, \A k \in 1 .. Publishers : k # i => pub'[k] = pub[k], pub[i].pc # "enqueue",
           NEW p, NEW e, InHand(p, e)
    PROVE  InHand(p, e)'
<1>1. PICK k \in 1 .. Publishers : pub[k].pc = "enqueue" /\ pub[k].peer = p /\ Row(pub[k]) \in Standing(e)
  BY DEF InHand
<1>2. pub'[k] = pub[k]
  BY <1>1
<1> QED
  BY <1>1, <1>2 DEF InHand, Row

(* Steps that touch neither the rows nor a flush nor a hand.                  *)
LEMMA QuietStep ==
    ASSUME Typed, FailedKept, FlushKept,
           \A p \in Peers : Pending(queue[p]) \subseteq Pending(queue'[p]),
           UNCHANGED <<flush, shed, displaced, failed, unqueued>>,
           \A p \in Peers : handed[p] \subseteq handed'[p],
           \A p \in Peers : \A e \in Events : InHand(p, e) => InHand(p, e)'
    PROVE  FailedKept' /\ FlushKept'
<1>1. HistoriesGrow
  BY DEF HistoriesGrow
<1>2. RowsKept
  BY SamePendingKept
<1> QED
  BY <1>1, <1>2, FailedLater, FlushLater

LEMMA KeepStep == Typed /\ KeepInv /\ [Next]_vars => FailedKept' /\ FlushKept'
<1> SUFFICES ASSUME Typed, KeepInv, [Next]_vars PROVE FailedKept' /\ FlushKept'
  OBVIOUS
<1> USE DEF KeepInv, lost
<1>t. queue \in [Peers -> Queues] /\ pub \in [1 .. Publishers -> Ticks] /\ flush \in [1 .. Flushes -> FlushTicks]
      /\ handed \in [Peers -> SUBSET Events] /\ failed \in [Peers -> SUBSET Events]
      /\ shed \in [Peers -> SUBSET Events] /\ displaced \in [Peers -> SUBSET Events]
      /\ unqueued \in [Peers -> SUBSET Events]
  BY DEF Typed, TypeOK
<1>1. CASE UNCHANGED <<queue, pub, flush, handed, failed, shed, displaced, unqueued>>
  <2>1. \A p \in Peers : \A e \in Events : InHand(p, e) => InHand(p, e)'
    BY <1>1 DEF InHand
  <2>2. \A p \in Peers : Pending(queue[p]) \subseteq Pending(queue'[p]) /\ handed[p] \subseteq handed'[p]
    BY <1>1
  <2> QED
    BY <1>1, <2>1, <2>2, QuietStep
<1>2. ASSUME NEW i \in 1 .. Publishers, Tick(i) \/ SendOk(i) \/ RowDone(i) \/ Mark(i) \/ MarkThrows(i) \/ CountThrows(i)
      PROVE  FailedKept' /\ FlushKept'
  <2>1. pub[i].pc # "enqueue" /\ \A k \in 1 .. Publishers : k # i => pub'[k] = pub[k]
    BY <1>2, <1>t DEF Tick, SendOk, RowDone, Mark, MarkThrows, CountThrows, Put
  <2>2. UNCHANGED <<queue, flush, shed, displaced, failed, unqueued>>
    BY <1>2 DEF Tick, SendOk, RowDone, Mark, MarkThrows, CountThrows, history
  <2>3. \A p \in Peers : handed[p] \subseteq handed'[p]
    BY <1>2, <1>t DEF Tick, SendOk, RowDone, Mark, MarkThrows, CountThrows, history
  <2> QED
    BY <2>1, <2>2, <2>3, HandsKept, QuietStep
<1>3. ASSUME NEW i \in 1 .. Publishers, SendThrows(i) PROVE FailedKept' /\ FlushKept'
  <2>1. PICK p \in pub[i].todo :
            /\ failed' = [failed EXCEPT ![p] = @ \cup {Row(pub[i])}]
            /\ Put(i, [pub[i] EXCEPT !.pc = "enqueue", !.peer = p, !.todo = @ \ {p}, !.all = FALSE])
    BY <1>3 DEF SendThrows
  <2>2. UNCHANGED <<queue, flush, handed, shed, displaced, unqueued>> /\ pub[i].pc = "send"
    BY <1>3 DEF SendThrows
  <2>3. pub[i] \in Ticks /\ pub[i].rows # {} /\ p \in Peers
    BY <1>t, <2>2 DEF Typed, RowsInHand, Ticks
  <2>4. Row(pub[i]) \in Events
    BY <2>3, RowOfTick DEF Ticks
  <2>5. pub'[i].pc = "enqueue" /\ pub'[i].peer = p /\ pub'[i].rows = pub[i].rows
        /\ \A k \in 1 .. Publishers : k # i => pub'[k] = pub[k]
    BY <1>t, <2>1, <2>3 DEF Put, Ticks
  <2>6. \A q \in Peers : \A e \in Events : InHand(q, e) => InHand(q, e)'
    BY <2>2, <2>5, HandsKept
  <2>7. ASSUME NEW q \in Peers, NEW e \in failed'[q] \ failed[q] PROVE e \in Events /\ InHand(q, e)'
    <3>1. q = p /\ e = Row(pub[i])
      BY <1>t, <2>1, <2>3, <2>7
    <3>2. Row(pub[i]) \in Standing(e)
      BY <2>4, <3>1, StandingFacts
    <3> QED
      BY <2>4, <2>5, <3>1, <3>2 DEF InHand, Row
  <2>8. HistoriesGrow /\ RowsKept
    BY <2>2, SamePendingKept DEF HistoriesGrow
  <2> QED
    BY <2>2, <2>6, <2>7, <2>8, FailedLater, FlushLater
<1>4. ASSUME NEW i \in 1 .. Publishers, EnqueueRefused(i) PROVE FailedKept' /\ FlushKept'
  <2> DEFINE p == pub[i].peer
             e == Row(pub[i])
  <2>1. shed' = [shed EXCEPT ![p] = @ \cup {e}] /\ UNCHANGED <<queue, flush, handed, failed, displaced, unqueued>>
    BY <1>4 DEF EnqueueRefused
  <2>2. p \in Peers /\ pub[i].pc = "enqueue" /\ \A k \in 1 .. Publishers : k # i => pub'[k] = pub[k]
    BY <1>4, <1>t DEF EnqueueRefused, Put, Typed, RowsInHand
  <2>3. HistoriesGrow /\ RowsKept
    BY <1>t, <2>1, SamePendingKept DEF HistoriesGrow
  <2>4. ASSUME NEW q \in Peers, NEW d \in Events, InHand(q, d) PROVE Kept(q, d)' \/ InHand(q, d)'
    <3>1. PICK k \in 1 .. Publishers : pub[k].pc = "enqueue" /\ pub[k].peer = q /\ Row(pub[k]) \in Standing(d)
      BY <2>4 DEF InHand
    <3>2. CASE k = i
      BY <1>t, <2>1, <2>2, <3>1, <3>2 DEF Kept, Settled
    <3>3. CASE k # i
      <4>1. pub'[k] = pub[k]
        BY <2>2, <3>3
      <4> QED
        BY <3>1, <4>1 DEF InHand, Row
    <3> QED
      BY <3>2, <3>3
  <2> QED
    BY <2>1, <2>3, <2>4, FailedLater, FlushLater
<1>5. ASSUME NEW i \in 1 .. Publishers, Enqueue(i) PROVE FailedKept' /\ FlushKept'
  <2> DEFINE p == pub[i].peer
             e == Row(pub[i])
             x == queue[p].index[EntityOf[e]]
  <2>1. pub[i] \in Ticks /\ pub[i].rows # {} /\ p \in Peers /\ pub[i].pc = "enqueue"
    BY <1>5, <1>t DEF Enqueue, Typed, RowsInHand
  <2>2. e \in Events
    BY <2>1, RowOfTick DEF Ticks
  <2>3. queue' = [queue EXCEPT ![p] = Coalesce(queue[p], e)] /\ UNCHANGED <<flush, handed, failed, shed>>
        /\ displaced' = [displaced EXCEPT ![p] = @ \cup Displaces(queue[p], e)]
        /\ unqueued' = [unqueued EXCEPT ![p] = @ \ {e}]
    BY <1>5 DEF Enqueue
  <2>4. \A k \in 1 .. Publishers : k # i => pub'[k] = pub[k]
    BY <1>5, <1>t DEF Enqueue, Put
  <2>5. Pending(queue'[p]) = (Pending(queue[p]) \ {x}) \cup {e}
    BY <1>t, <2>1, <2>2, <2>3, CoalesceQueue
  <2> HIDE DEF p, e
  <2>6. HistoriesGrow
    <3>1. \A q \in Peers : handed[q] \subseteq handed'[q] /\ shed[q] \subseteq shed'[q] /\ displaced[q] \subseteq displaced'[q]
      BY <1>t, <2>1, <2>3
    <3>2. \A q \in Peers : unqueued[q] \subseteq unqueued'[q] \cup Pending(queue'[q])
      BY <1>t, <2>1, <2>3, <2>5
    <3> QED
      BY <3>1, <3>2 DEF HistoriesGrow
  <2>7. ASSUME NEW q \in Peers, NEW d \in Pending(queue[q]) PROVE Kept(q, d)'
    <3>1. d \in Events
      BY DEF Pending, RowsOf
    <3>2. CASE q # p \/ d # x
      <4>1. d \in Pending(queue'[q])
        BY <1>t, <2>1, <2>3, <2>5, <2>7, <3>2
      <4> QED
        BY <3>1, <4>1, StandingFacts DEF Kept
    <3>3. CASE q = p /\ d = x /\ d > e
      <4>1. d \in Displaces(queue[p], e)
        BY <2>7, <3>3 DEF Displaces
      <4>2. d \in displaced'[q]
        BY <1>t, <2>1, <2>3, <3>3, <4>1
      <4> QED
        BY <3>1, <4>2, StandingFacts DEF Kept, Settled
    <3>4. CASE q = p /\ d = x /\ ~(d > e)
      <4>1. EntityOf[e] \in Entities /\ d # NoEvent /\ d \in Nat /\ e \in Nat
        BY <2>2, <3>1, QueueAssumption DEF Entities, NoEvent
      <4>2. EntityOf[d] = EntityOf[e]
        BY <2>1, <3>4, <4>1 DEF IndexSound
      <4>3. e >= d
        BY <3>4, <4>1
      <4>4. e \in Standing(d)
        BY <2>2, <4>2, <4>3 DEF Standing
      <4>5. e \in Pending(queue'[q])
        BY <2>5, <3>4
      <4> QED
        BY <4>4, <4>5 DEF Kept
    <3> QED
      BY <3>2, <3>3, <3>4
  <2>8. RowsKept
    BY <2>7 DEF RowsKept
  <2>9. ASSUME NEW q \in Peers, NEW d \in Events, InHand(q, d) PROVE Kept(q, d)' \/ InHand(q, d)'
    <3>1. PICK k \in 1 .. Publishers : pub[k].pc = "enqueue" /\ pub[k].peer = q /\ Row(pub[k]) \in Standing(d)
      BY <2>9 DEF InHand
    <3>2. CASE k = i
      <4>1. q = p /\ e \in Standing(d)
        BY <3>1, <3>2 DEF p, e
      <4> QED
        BY <2>5, <4>1 DEF Kept
    <3>3. CASE k # i
      <4>1. pub'[k] = pub[k]
        BY <2>4, <3>3
      <4> QED
        BY <3>1, <4>1 DEF InHand, Row
    <3> QED
      BY <3>2, <3>3
  <2> QED
    BY <2>3, <2>6, <2>8, <2>9, FailedLater, FlushLater
<1>6. ASSUME NEW i \in 1 .. Publishers, Count(i) PROVE FailedKept' /\ FlushKept'
  <2>1. pub[i].peer \in Peers /\ pub[i].pc = "count" /\ \A k \in 1 .. Publishers : k # i => pub'[k] = pub[k]
    BY <1>6, <1>t DEF Count, Typed, RowsInHand, Put
  <2>2. queue' = [queue EXCEPT ![pub[i].peer] = Recount(@)] /\ UNCHANGED <<flush, handed, failed, shed, displaced, unqueued>>
    BY <1>6 DEF Count, history
  <2>3. \A p \in Peers : Pending(queue[p]) \subseteq Pending(queue'[p])
    BY <1>t, <2>1, <2>2, CircuitQueue DEF Pending
  <2> QED
    BY <2>1, <2>2, <2>3, HandsKept, QuietStep
<1>7. ASSUME NEW j \in 1 .. Flushes, FlushSendOk(j) PROVE FailedKept' /\ FlushKept'
  <2>p. PICK p \in Peers : p = flush[j].peer
    BY <1>7 DEF FlushSendOk, FlushSendThrows, Typed, RowsInHand
  <2>1. PICK e \in Events :
            /\ FirstIn(flush[j].rows, e)
            /\ handed' = [handed EXCEPT ![p] = @ \cup {e}]
            /\ PutFlush(j, [flush[j] EXCEPT !.rows[e] = NoRow, !.ok = @ \cup {e}])
    BY <1>7, <2>p DEF FlushSendOk
  <2>2. UNCHANGED <<queue, pub, failed, shed, displaced, unqueued>> /\ flush[j].pc = "send"
    BY <1>7 DEF FlushSendOk
  <2>3. /\ flush'[j].peer = p /\ RowsOf(flush'[j].rows) \subseteq RowsOf(flush[j].rows)
        /\ flush'[j].ok = flush[j].ok \cup {e}
        /\ \A k \in 1 .. Flushes : k # j => flush'[k] = flush[k]
    <3> DEFINE g == [flush[j] EXCEPT !.rows[e] = NoRow, !.ok = @ \cup {e}]
    <3>1. flush[j] \in FlushTicks
      BY <1>t
    <3>2. RowsOf(g.rows) \subseteq RowsOf(flush[j].rows) /\ g.ok = flush[j].ok \cup {e} /\ g.peer = p
      BY <2>p, <3>1 DEF FlushTicks, RowsOf
    <3> HIDE DEF g
    <3>3. flush' = [flush EXCEPT ![j] = g]
      BY <2>1 DEF g, PutFlush
    <3> QED
      BY <1>t, <3>2, <3>3
  <2>4. HistoriesGrow /\ RowsKept
    BY <1>t, <2>1, <2>2, SamePendingKept DEF HistoriesGrow
  <2>5. \A q \in Peers : \A d \in Events : InHand(q, d) => InHand(q, d)'
    BY <2>2 DEF InHand
  <2>6. FailedKept'
    BY <2>2, <2>4, <2>5, FailedLater
  <2>7. ASSUME NEW k \in 1 .. Flushes, NEW q \in Peers, flush'[k].pc = "send", flush'[k].peer = q
        PROVE  /\ \A d \in RowsOf(flush'[k].rows) : Kept(q, d)'
               /\ flush'[k].ok \subseteq handed'[q]
    <3>1. CASE k = j
      <4>1. \A d \in RowsOf(flush[j].rows) : d \in Events /\ Kept(p, d)
        BY <2>p, <2>2 DEF FlushKept, RowsOf
      <4>2. \A d \in RowsOf(flush[j].rows) : Kept(p, d)'
        BY <2>2, <2>4, <4>1, KeptLater
      <4>3. flush[j].ok \subseteq handed[p]
        BY <2>p, <2>2 DEF FlushKept
      <4> QED
        <5>1. q = p
          BY <2>3, <2>7, <3>1
        <5>2. flush'[k].ok \subseteq handed'[q]
          BY <1>t, <2>1, <2>3, <3>1, <4>3, <5>1
        <5> QED
          BY <2>3, <3>1, <4>2, <5>1, <5>2
    <3>2. CASE k # j
      <4>1. flush'[k] = flush[k]
        BY <2>3, <2>7, <3>2 DEF Typed, RowsInHand
      <4>2. \A d \in RowsOf(flush[k].rows) : d \in Events /\ Kept(q, d)
        BY <2>7, <4>1 DEF FlushKept, RowsOf
      <4> QED
        BY <2>4, <2>7, <4>1, <4>2, KeptLater DEF FlushKept, HistoriesGrow
    <3> QED
      BY <3>1, <3>2
  <2> QED
    BY <2>6, <2>7 DEF FlushKept
<1>8. ASSUME NEW j \in 1 .. Flushes, FlushSendThrows(j) PROVE FailedKept' /\ FlushKept'
  <2>p. PICK p \in Peers : p = flush[j].peer
    BY <1>8 DEF FlushSendOk, FlushSendThrows, Typed, RowsInHand
  <2>1. PICK e \in Events :
            /\ FirstIn(flush[j].rows, e)
            /\ failed' = [failed EXCEPT ![p] = @ \cup {e}]
            /\ PutFlush(j, [flush[j] EXCEPT !.rows[e] = NoRow])
    BY <1>8, <2>p DEF FlushSendThrows
  <2>2. UNCHANGED <<queue, pub, handed, shed, displaced, unqueued>> /\ flush[j].pc = "send"
    BY <1>8 DEF FlushSendThrows
  <2>3. /\ flush'[j].peer = p /\ RowsOf(flush'[j].rows) \subseteq RowsOf(flush[j].rows)
        /\ flush'[j].ok = flush[j].ok
        /\ \A k \in 1 .. Flushes : k # j => flush'[k] = flush[k]
    <3> DEFINE g == [flush[j] EXCEPT !.rows[e] = NoRow]
    <3>1. flush[j] \in FlushTicks
      BY <1>t
    <3>2. RowsOf(g.rows) \subseteq RowsOf(flush[j].rows) /\ g.ok = flush[j].ok /\ g.peer = p
      BY <2>p, <3>1 DEF FlushTicks, RowsOf
    <3> HIDE DEF g
    <3>3. flush' = [flush EXCEPT ![j] = g]
      BY <2>1 DEF g, PutFlush
    <3> QED
      BY <1>t, <3>2, <3>3
  <2>4. HistoriesGrow /\ RowsKept
    BY <1>t, <2>2, SamePendingKept DEF HistoriesGrow
  <2>5. \A q \in Peers : \A d \in Events : InHand(q, d) => InHand(q, d)'
    BY <2>2 DEF InHand
  <2>6. \A d \in RowsOf(flush[j].rows) : d \in Events /\ Kept(p, d)
    BY <2>p, <2>2 DEF FlushKept, RowsOf
  <2>7. \A d \in RowsOf(flush[j].rows) : Kept(p, d)'
    BY <2>2, <2>4, <2>6, KeptLater
  <2>8. \A q \in Peers : \A d \in failed'[q] \ failed[q] : d \in Events /\ Kept(q, d)'
    BY <1>t, <2>1, <2>2, <2>7 DEF FirstIn
  <2>9. FailedKept'
    BY <2>4, <2>5, <2>8, FailedLater
  <2>10. ASSUME NEW k \in 1 .. Flushes, NEW q \in Peers, flush'[k].pc = "send", flush'[k].peer = q
        PROVE  /\ \A d \in RowsOf(flush'[k].rows) : Kept(q, d)'
               /\ flush'[k].ok \subseteq handed'[q]
    <3>1. CASE k = j
      <4>1. flush[j].ok \subseteq handed[p]
        BY <2>p, <2>2 DEF FlushKept
      <4> QED
        <5>1. q = p
          BY <2>3, <2>10, <3>1
        <5> QED
          BY <2>2, <2>3, <2>7, <3>1, <4>1, <5>1
    <3>2. CASE k # j
      <4>1. flush'[k] = flush[k]
        BY <2>3, <2>10, <3>2 DEF Typed, RowsInHand
      <4>2. \A d \in RowsOf(flush[k].rows) : d \in Events /\ Kept(q, d)
        BY <2>10, <4>1 DEF FlushKept, RowsOf
      <4> QED
        BY <2>4, <2>10, <4>1, <4>2, KeptLater DEF FlushKept, HistoriesGrow
    <3> QED
      BY <3>1, <3>2
  <2> QED
    BY <2>9, <2>10 DEF FlushKept
<1>9. ASSUME NEW j \in 1 .. Flushes, FlushDone(j) PROVE FailedKept' /\ FlushKept'
  <2> DEFINE p == flush[j].peer
             ok == flush[j].ok
  <2>1. p \in Peers /\ ok \in SUBSET Events /\ ok \subseteq handed[p]
    BY <1>9, <1>t DEF FlushDone, Typed, RowsInHand, FlushTicks, FlushKept
  <2>2. queue' = [queue EXCEPT ![p] = MarkSent(queue[p], ok)] /\ UNCHANGED <<pub, handed, failed, shed, displaced, unqueued>>
    BY <1>9 DEF FlushDone, history
  <2>3. flush' = [flush EXCEPT ![j] = NoFlush]
    BY <1>9 DEF FlushDone, PutFlush
  <2> HIDE DEF p, ok
  <2>4. Pending(queue'[p]) = Pending(queue[p]) \ ok
    BY <1>t, <2>1, <2>2, MarkSentQueue
  <2>5. \A q \in Peers : \A d \in Pending(queue[q]) : d \in Pending(queue'[q]) \cup handed'[q]
    BY <1>t, <2>1, <2>2, <2>4
  <2>6. HistoriesGrow /\ RowsKept
    BY <2>2, <2>5, StayingRowsKept DEF HistoriesGrow, RowsKept
  <2>7. \A q \in Peers : \A d \in Events : InHand(q, d) => InHand(q, d)'
    BY <2>2 DEF InHand
  <2>8. FailedKept'
    BY <2>2, <2>6, <2>7, FailedLater
  <2>9. ASSUME NEW k \in 1 .. Flushes, NEW q \in Peers, flush'[k].pc = "send", flush'[k].peer = q
        PROVE  /\ \A d \in RowsOf(flush'[k].rows) : Kept(q, d)'
               /\ flush'[k].ok \subseteq handed'[q]
    <3>1. flush'[k] = flush[k] /\ flush[k].pc = "send"
      BY <1>t, <2>3, <2>9 DEF NoFlush, Typed, RowsInHand
    <3>2. \A d \in RowsOf(flush[k].rows) : d \in Events /\ Kept(q, d)
      BY <2>9, <3>1 DEF FlushKept, RowsOf
    <3> QED
      BY <2>2, <2>6, <2>9, <3>1, <3>2, KeptLater DEF FlushKept
  <2> QED
    BY <2>8, <2>9 DEF FlushKept
<1>10. ASSUME NEW j \in 1 .. Flushes, NEW p \in Peers, Heartbeat(j, p) PROVE FailedKept' /\ FlushKept'
  <2> DEFINE rows == KeepOnly(queue[p].pending, Oldest(queue[p].pending, Batch))
             f == IF Depth(queue[p]) = 0 THEN NoFlush ELSE [NoFlush EXCEPT !.pc = "send", !.peer = p, !.rows = rows]
  <2>1. queue' = [queue EXCEPT ![p] = Close(@)] /\ flush' = [flush EXCEPT ![j] = f]
        /\ UNCHANGED <<pub, handed, failed, shed, displaced, unqueued>>
    BY <1>10 DEF Heartbeat, PutFlush, history
  <2>2. RowsOf(rows) \subseteq Pending(queue[p])
    BY DEF RowsOf, KeepOnly, Oldest, Pending
  <2>3. f.pc = "send" => f.peer = p /\ f.ok = {} /\ f.rows = rows
    <3> HIDE DEF rows
    <3> QED
      BY DEF NoFlush
  <2> HIDE DEF f, rows
  <2>4. \A q \in Peers : Pending(queue[q]) \subseteq Pending(queue'[q])
    BY <1>t, <2>1, CircuitQueue DEF Pending
  <2>5. HistoriesGrow /\ RowsKept
    BY <2>1, <2>4, SamePendingKept DEF HistoriesGrow
  <2>6. \A q \in Peers : \A d \in Events : InHand(q, d) => InHand(q, d)'
    BY <2>1 DEF InHand
  <2>7. FailedKept'
    BY <2>1, <2>5, <2>6, FailedLater
  <2>8. ASSUME NEW k \in 1 .. Flushes, NEW q \in Peers, flush'[k].pc = "send", flush'[k].peer = q
        PROVE  /\ \A d \in RowsOf(flush'[k].rows) : Kept(q, d)'
               /\ flush'[k].ok \subseteq handed'[q]
    <3>1. CASE k = j
      <4>1. flush'[k] = f
        BY <1>t, <2>1, <3>1
      <4> QED
        BY <2>2, <2>3, <2>5, <2>8, <4>1 DEF RowsKept
    <3>2. CASE k # j
      <4>1. flush'[k] = flush[k]
        BY <1>t, <2>1, <2>8, <3>2 DEF Typed, RowsInHand
      <4>2. \A d \in RowsOf(flush[k].rows) : d \in Events /\ Kept(q, d)
        BY <2>8, <4>1 DEF FlushKept, RowsOf
      <4> QED
        BY <2>1, <2>5, <2>8, <4>1, <4>2, KeptLater DEF FlushKept
    <3> QED
      BY <3>1, <3>2
  <2> QED
    BY <2>7, <2>8 DEF FlushKept
<1>11. ASSUME NEW p \in Peers, PruneTTL(p) PROVE FailedKept' /\ FlushKept'
  <2>1. PICK n \in 1 .. Depth(queue[p]) :
            /\ queue' = [queue EXCEPT ![p] = DeleteExpired(queue[p], n)]
            /\ shed' = [shed EXCEPT ![p] = @ \cup Expired(queue[p], n)]
    BY <1>11 DEF PruneTTL
  <2>2. UNCHANGED <<pub, flush, handed, failed, displaced, unqueued>>
    BY <1>11 DEF PruneTTL
  <2>3. Pending(queue'[p]) = Pending(queue[p]) \ Expired(queue[p], n)
    BY <1>t, <2>1, DeleteExpiredQueue
  <2>4. \A q \in Peers : \A d \in Pending(queue[q]) : d \in Pending(queue'[q]) \cup shed'[q]
    BY <1>t, <2>1, <2>3
  <2>5. HistoriesGrow /\ RowsKept
    BY <1>t, <2>1, <2>2, <2>4, StayingRowsKept DEF HistoriesGrow, RowsKept
  <2>6. \A q \in Peers : \A d \in Events : InHand(q, d) => InHand(q, d)'
    BY <2>2 DEF InHand
  <2> QED
    BY <2>2, <2>5, <2>6, FailedLater, FlushLater
<1>12. ASSUME NEW p \in Peers, ResetCircuit(p) PROVE FailedKept' /\ FlushKept'
  <2>1. queue' = [queue EXCEPT ![p] = Close(@)] /\ UNCHANGED <<pub, flush, handed, failed, shed, displaced, unqueued>>
    BY <1>12 DEF ResetCircuit, history
  <2>2. \A q \in Peers : Pending(queue[q]) \subseteq Pending(queue'[q])
    BY <1>t, <2>1, CircuitQueue DEF Pending
  <2>3. \A q \in Peers : \A d \in Events : InHand(q, d) => InHand(q, d)'
    BY <2>1 DEF InHand
  <2> QED
    BY <2>1, <2>2, <2>3, QuietStep
<1>13. CASE UNCHANGED vars
  BY <1>1, <1>13 DEF vars
<1>14. ASSUME NEW e \in Events, Emit(e) PROVE FailedKept' /\ FlushKept'
  BY <1>1, <1>14 DEF Emit, history
<1>15. ASSUME NEW p \in Peers, Connect(p) \/ Closing(p) \/ Closed(p) \/ Apply(p) \/ NeverApplied(p)
       PROVE  FailedKept' /\ FlushKept'
  BY <1>1, <1>15 DEF Connect, Closing, Closed, Apply, NeverApplied, sender, history
<1>16. ASSUME NEW i \in 1 .. Publishers, EnqueueThrows(i) PROVE FailedKept' /\ FlushKept'
  <2> DEFINE p == pub[i].peer
             e == Row(pub[i])
  <2>1. unqueued' = [unqueued EXCEPT ![p] = @ \cup {e}] /\ UNCHANGED <<queue, flush, handed, failed, shed, displaced>>
    BY <1>16 DEF EnqueueThrows
  <2>2. p \in Peers /\ pub[i].pc = "enqueue" /\ \A k \in 1 .. Publishers : k # i => pub'[k] = pub[k]
    BY <1>16, <1>t DEF EnqueueThrows, Put, Typed, RowsInHand
  <2>3. HistoriesGrow /\ RowsKept
    BY <1>t, <2>1, SamePendingKept DEF HistoriesGrow
  <2>4. ASSUME NEW q \in Peers, NEW d \in Events, InHand(q, d) PROVE Kept(q, d)' \/ InHand(q, d)'
    <3>1. PICK k \in 1 .. Publishers : pub[k].pc = "enqueue" /\ pub[k].peer = q /\ Row(pub[k]) \in Standing(d)
      BY <2>4 DEF InHand
    <3>2. CASE k = i
      <4>1. e \in Standing(d) /\ e \in unqueued'[q]
        BY <1>t, <2>1, <2>2, <3>1, <3>2
      <4> QED
        BY <4>1 DEF Kept
    <3>3. CASE k # i
      <4>1. pub'[k] = pub[k]
        BY <2>2, <3>3
      <4> QED
        BY <3>1, <4>1 DEF InHand, Row
    <3> QED
      BY <3>2, <3>3
  <2> QED
    BY <2>1, <2>3, <2>4, FailedLater, FlushLater
<1>17. ASSUME NEW j \in 1 .. Flushes, FlushMarkThrows(j) PROVE FailedKept' /\ FlushKept'
  <2>1. UNCHANGED <<queue, pub, handed, failed, shed, displaced, unqueued>> /\ flush' = [flush EXCEPT ![j] = NoFlush]
    BY <1>17 DEF FlushMarkThrows, PutFlush, history
  <2>2. HistoriesGrow /\ RowsKept
    BY <2>1, SamePendingKept DEF HistoriesGrow
  <2>3. \A q \in Peers : \A d \in Events : InHand(q, d) => InHand(q, d)'
    BY <2>1 DEF InHand
  <2>4. FailedKept'
    BY <2>1, <2>2, <2>3, FailedLater
  <2>5. ASSUME NEW k \in 1 .. Flushes, NEW q \in Peers, flush'[k].pc = "send", flush'[k].peer = q
        PROVE  /\ \A d \in RowsOf(flush'[k].rows) : Kept(q, d)'
               /\ flush'[k].ok \subseteq handed'[q]
    <3>1. flush'[k] = flush[k] /\ flush[k].pc = "send"
      BY <1>t, <2>1, <2>5 DEF NoFlush
    <3>2. \A d \in RowsOf(flush[k].rows) : d \in Events /\ Kept(q, d)
      BY <2>5, <3>1 DEF FlushKept, RowsOf
    <3> QED
      BY <2>1, <2>2, <2>5, <3>1, <3>2, KeptLater DEF FlushKept
  <2> QED
    BY <2>4, <2>5 DEF FlushKept
<1>18. ASSUME Restart PROVE FailedKept' /\ FlushKept'
  <2>1. /\ \A p \in Peers : queue'[p] = Close(queue[p])
        /\ UNCHANGED <<handed, failed, shed, displaced>>
        /\ \A k \in 1 .. Flushes : flush'[k].pc = "idle"
    BY <1>18 DEF Restart, NoFlush
  <2>2. \A p \in Peers : unqueued'[p] = unqueued[p] \cup
             {Row(pub[i]) : i \in {k \in 1 .. Publishers : pub[k].pc = "enqueue" /\ pub[k].peer = p}}
    BY <1>18 DEF Restart
  <2>3. \A p \in Peers : Pending(queue[p]) \subseteq Pending(queue'[p]) /\ unqueued[p] \subseteq unqueued'[p]
    BY <1>t, <2>1, <2>2, CircuitQueue DEF Pending
  <2>4. HistoriesGrow /\ RowsKept
    BY <2>1, <2>3, SamePendingKept DEF HistoriesGrow
  <2>5. ASSUME NEW q \in Peers, NEW d \in Events, InHand(q, d) PROVE Kept(q, d)'
    <3>1. PICK k \in 1 .. Publishers : pub[k].pc = "enqueue" /\ pub[k].peer = q /\ Row(pub[k]) \in Standing(d)
      BY <2>5 DEF InHand
    <3>2. Row(pub[k]) \in unqueued'[q]
      BY <2>2, <3>1
    <3> QED
      BY <3>1, <3>2 DEF Kept
  <2>6. FailedKept'
    BY <2>1, <2>4, <2>5, FailedLater
  <2> QED
    BY <2>1, <2>6 DEF FlushKept
<1> QED
  BY <1>2, <1>3, <1>4, <1>5, <1>6, <1>7, <1>8, <1>9, <1>10, <1>11, <1>12, <1>13, <1>14, <1>15, <1>16, <1>17, <1>18
  DEF Next, PublisherStep, PublisherThrow, FlushStep

(* What a row marked sent has met: every peer a tick listed was handed it,    *)
(* and the others missed it.  A tick's rows, done or not, were emitted.       *)
MarkedMet == \A e \in Events : outbox[e] = "sent" => \A p \in Peers : e \in handed[p] \cup missed[p]
TicksMet ==
    \A i \in 1 .. Publishers : \A p \in pub[i].peers :
        /\ pub[i].done \subseteq handed[p]
        /\ pub[i].all /\ pub[i].rows # {} /\ p \notin pub[i].todo => Row(pub[i]) \in handed[p]
RowsEmitted ==
    /\ \A i \in 1 .. Publishers : \A e \in pub[i].rows : outbox[e] # "none"
    /\ \A p \in Peers : \A e \in unqueued[p] : outbox[e] # "none"
MetInv == MarkedMet /\ TicksMet /\ RowsEmitted

LEMMA MetInit == Init => MetInv
BY DEF Init, MetInv, MarkedMet, TicksMet, RowsEmitted, NoTick

(* A step that changes one tick, whose new record is good.                    *)
LEMMA OneTick ==
    ASSUME Typed, TicksMet, NEW i \in 1 .. Publishers,
           \A k \in 1 .. Publishers : k # i => pub'[k] = pub[k],
           \A p \in Peers : handed[p] \subseteq handed'[p],
           pub'[i].peers \subseteq Peers,
           \A p \in pub'[i].peers :
               /\ pub'[i].done \subseteq handed'[p]
               /\ pub'[i].all /\ pub'[i].rows # {} /\ p \notin pub'[i].todo => Row(pub'[i]) \in handed'[p]
    PROVE  TicksMet'
<1>1. SUFFICES ASSUME NEW k \in 1 .. Publishers, NEW p \in pub'[k].peers
               PROVE  /\ pub'[k].done \subseteq handed'[p]
                      /\ pub'[k].all /\ pub'[k].rows # {} /\ p \notin pub'[k].todo => Row(pub'[k]) \in handed'[p]
  BY DEF TicksMet, Row
<1>2. CASE k = i
  BY <1>2
<1>3. CASE k # i
  <2>1. pub'[k] = pub[k]
    BY <1>3
  <2>2. p \in Peers
    BY <2>1 DEF Typed, TypeOK, Ticks
  <2>3. /\ pub[k].done \subseteq handed[p]
        /\ pub[k].all /\ pub[k].rows # {} /\ p \notin pub[k].todo => Row(pub[k]) \in handed[p]
    BY <2>1 DEF TicksMet
  <2> QED
    BY <2>1, <2>2, <2>3
<1> QED
  BY <1>2, <1>3

LEMMA MetStep == Typed /\ MetInv /\ [Next]_vars => MetInv'
<1> SUFFICES ASSUME Typed, MetInv, [Next]_vars PROVE MetInv'
  OBVIOUS
<1> USE DEF MetInv, lost
<1>t. /\ outbox \in [Events -> {"none", "unsent", "sent"}] /\ pub \in [1 .. Publishers -> Ticks]
      /\ handed \in [Peers -> SUBSET Events] /\ missed \in [Peers -> SUBSET Events]
      /\ unqueued \in [Peers -> SUBSET Events]
  BY DEF Typed, TypeOK
<1>1. CASE UNCHANGED <<outbox, pub, handed, missed, unqueued>>
  BY <1>1 DEF MarkedMet, TicksMet, RowsEmitted, Row
<1>2. ASSUME NEW e \in Events, Emit(e) PROVE MetInv'
  <2>1. outbox' = [outbox EXCEPT ![e] = "unsent"] /\ UNCHANGED <<pub, handed, missed, unqueued>>
    BY <1>2 DEF Emit, history
  <2>2. MarkedMet'
    BY <1>t, <2>1 DEF MarkedMet
  <2>3. TicksMet'
    BY <2>1 DEF TicksMet, Row
  <2>4. \A d \in Events : outbox[d] # "none" => outbox'[d] # "none"
    BY <1>t, <2>1
  <2>5. (\A i \in 1 .. Publishers : pub[i].rows \subseteq Events) /\ \A p \in Peers : unqueued[p] \subseteq Events
    BY <1>t DEF Ticks
  <2>6. RowsEmitted'
    BY <2>1, <2>4, <2>5 DEF RowsEmitted
  <2> QED
    BY <2>2, <2>3, <2>6
<1>3. ASSUME NEW i \in 1 .. Publishers, Tick(i) PROVE MetInv'
  <2> DEFINE peers == {p \in Peers : link[p] # "off"}
             t == [NoTick EXCEPT !.pc = "send", !.peers = peers, !.rows = Unsent, !.todo = peers]
  <2>1. pub' = [pub EXCEPT ![i] = t] /\ UNCHANGED <<outbox, handed, missed, unqueued>>
    BY <1>3 DEF Tick, Put, history
  <2>2. t.peers = peers /\ t.todo = peers /\ t.rows = Unsent /\ t.done = {}
    BY DEF NoTick
  <2> HIDE DEF t
  <2>3. pub'[i] = t /\ \A k \in 1 .. Publishers : k # i => pub'[k] = pub[k]
    BY <1>t, <2>1
  <2>4. TicksMet'
    BY <2>1, <2>2, <2>3, OneTick
  <2>5. RowsEmitted'
    BY <2>1, <2>2, <2>3, UnsentRows DEF RowsEmitted
  <2> QED
    BY <2>1, <2>4, <2>5 DEF MarkedMet
<1>4. ASSUME NEW i \in 1 .. Publishers, SendOk(i) PROVE MetInv'
  <2>1. PICK p \in pub[i].todo :
            /\ handed' = [handed EXCEPT ![p] = @ \cup {Row(pub[i])}]
            /\ pub' = [pub EXCEPT ![i] = [pub[i] EXCEPT !.todo = @ \ {p}]]
    BY <1>4 DEF SendOk, Put
  <2>2. UNCHANGED <<outbox, missed, unqueued>> /\ pub[i] \in Ticks
    BY <1>4, <1>t DEF SendOk
  <2> DEFINE t == [pub[i] EXCEPT !.todo = @ \ {p}]
  <2>3. t.peers = pub[i].peers /\ t.todo = pub[i].todo \ {p} /\ t.rows = pub[i].rows /\ t.done = pub[i].done
        /\ t.all = pub[i].all /\ pub[i].peers \subseteq Peers /\ p \in Peers
    BY <2>2 DEF Ticks
  <2> HIDE DEF t
  <2>4. pub'[i] = t /\ \A k \in 1 .. Publishers : k # i => pub'[k] = pub[k]
    BY <1>t, <2>1 DEF t
  <2>5. (\A q \in Peers : handed[q] \subseteq handed'[q]) /\ Row(pub[i]) \in handed'[p]
    BY <1>t, <2>1, <2>3
  <2>6. Row(t) = Row(pub[i])
    BY <2>3 DEF Row
  <2>7. ASSUME NEW q \in t.peers
        PROVE  t.done \subseteq handed'[q] /\ (t.all /\ t.rows # {} /\ q \notin t.todo => Row(t) \in handed'[q])
    <3>1. q \in Peers /\ pub[i].done \subseteq handed[q]
          /\ (pub[i].all /\ pub[i].rows # {} /\ q \notin pub[i].todo => Row(pub[i]) \in handed[q])
      BY <2>3 DEF TicksMet
    <3> QED
      BY <2>3, <2>5, <2>6, <3>1
  <2>8. TicksMet'
    BY <2>3, <2>4, <2>5, <2>7, OneTick
  <2>9. RowsEmitted'
    BY <2>2, <2>3, <2>4 DEF RowsEmitted
  <2> QED
    BY <2>2, <2>5, <2>8, <2>9 DEF MarkedMet
<1>5. ASSUME NEW i \in 1 .. Publishers, SendThrows(i) PROVE MetInv'
  <2>1. PICK p \in pub[i].todo :
            pub' = [pub EXCEPT ![i] = [pub[i] EXCEPT !.pc = "enqueue", !.peer = p, !.todo = @ \ {p}, !.all = FALSE]]
    BY <1>5 DEF SendThrows, Put
  <2>2. UNCHANGED <<outbox, handed, missed, unqueued>> /\ pub[i] \in Ticks
    BY <1>5, <1>t DEF SendThrows
  <2>3. /\ pub'[i].peers = pub[i].peers /\ pub'[i].rows = pub[i].rows /\ pub'[i].done = pub[i].done /\ ~pub'[i].all
        /\ pub[i].peers \subseteq Peers /\ \A k \in 1 .. Publishers : k # i => pub'[k] = pub[k]
    BY <1>t, <2>1, <2>2 DEF Ticks
  <2>4. TicksMet'
    <3>1. \A q \in pub'[i].peers : pub'[i].done \subseteq handed'[q]
      BY <2>2, <2>3 DEF TicksMet
    <3> QED
      BY <2>2, <2>3, <3>1, OneTick
  <2>5. RowsEmitted'
    BY <2>2, <2>3 DEF RowsEmitted
  <2> QED
    BY <2>2, <2>4, <2>5 DEF MarkedMet
<1>6. ASSUME NEW i \in 1 .. Publishers,
             EnqueueRefused(i) \/ Enqueue(i) \/ EnqueueThrows(i) \/ Count(i) \/ CountThrows(i)
      PROVE  MetInv'
  <2>1. /\ \/ pub' = [pub EXCEPT ![i] = [pub[i] EXCEPT !.pc = "send", !.peer = "none"]]
           \/ pub' = [pub EXCEPT ![i] = [pub[i] EXCEPT !.pc = "count"]]
        /\ UNCHANGED <<outbox, handed, missed>> /\ pub[i] \in Ticks
        /\ pub[i].pc \in {"enqueue", "count"}
    BY <1>6, <1>t DEF EnqueueRefused, Enqueue, EnqueueThrows, Count, CountThrows, Put, history
  <2>2. /\ pub'[i].peers = pub[i].peers /\ pub'[i].rows = pub[i].rows /\ pub'[i].done = pub[i].done
        /\ pub'[i].all = pub[i].all /\ pub'[i].todo = pub[i].todo
        /\ pub[i].peers \subseteq Peers /\ \A k \in 1 .. Publishers : k # i => pub'[k] = pub[k]
    <3> DEFINE s == [pub[i] EXCEPT !.pc = "send", !.peer = "none"]
               c == [pub[i] EXCEPT !.pc = "count"]
    <3>1. s.peers = pub[i].peers /\ s.rows = pub[i].rows /\ s.done = pub[i].done /\ s.all = pub[i].all /\ s.todo = pub[i].todo
      BY <2>1 DEF Ticks
    <3>2. c.peers = pub[i].peers /\ c.rows = pub[i].rows /\ c.done = pub[i].done /\ c.all = pub[i].all /\ c.todo = pub[i].todo
      BY <2>1 DEF Ticks
    <3>3. pub[i].peers \subseteq Peers
      BY <2>1 DEF Ticks
    <3>4. pub' = [pub EXCEPT ![i] = s] \/ pub' = [pub EXCEPT ![i] = c]
      BY <2>1
    <3> HIDE DEF s, c
    <3>5. (pub'[i] = s \/ pub'[i] = c) /\ \A k \in 1 .. Publishers : k # i => pub'[k] = pub[k]
      BY <1>t, <3>4
    <3>6. CASE pub'[i] = s
      BY <3>1, <3>3, <3>5, <3>6
    <3>7. CASE pub'[i] = c
      BY <3>2, <3>3, <3>5, <3>7
    <3> QED
      BY <3>5, <3>6, <3>7
  <2>3. Row(pub'[i]) = Row(pub[i]) /\ pub[i].rows # {} /\ pub[i].rows \subseteq Events
    BY <2>1, <2>2 DEF Row, Typed, RowsInHand, Ticks
  <2>4. TicksMet'
    <3>1. \A q \in pub'[i].peers :
             /\ pub'[i].done \subseteq handed'[q]
             /\ pub'[i].all /\ pub'[i].rows # {} /\ q \notin pub'[i].todo => Row(pub'[i]) \in handed'[q]
      BY <2>1, <2>2, <2>3 DEF TicksMet
    <3> QED
      BY <2>1, <2>2, <3>1, OneTick
  <2>5. \A p \in Peers : unqueued'[p] \subseteq unqueued[p] \cup {Row(pub[i])}
    BY <1>6, <1>t DEF EnqueueRefused, Enqueue, EnqueueThrows, Count, CountThrows, history
  <2>6. outbox[Row(pub[i])] # "none"
    BY <2>3, RowOfTick DEF RowsEmitted
  <2>7. RowsEmitted'
    BY <2>1, <2>2, <2>5, <2>6 DEF RowsEmitted
  <2> QED
    BY <2>1, <2>4, <2>7 DEF MarkedMet
<1>7. ASSUME NEW i \in 1 .. Publishers, RowDone(i) PROVE MetInv'
  <2> DEFINE t == NextRow(pub[i])
             rest == pub[i].rows \ {Row(pub[i])}
  <2>1. pub' = [pub EXCEPT ![i] = t] /\ UNCHANGED <<outbox, handed, missed, unqueued>> /\ pub[i] \in Ticks
        /\ pub[i].todo = {} /\ pub[i].rows # {}
    BY <1>7, <1>t DEF RowDone, Put, history, Typed, RowsInHand
  <2>2. /\ t.peers = pub[i].peers /\ t.todo = pub[i].peers /\ t.rows = rest
        /\ t.done = (IF pub[i].all THEN pub[i].done \cup {Row(pub[i])} ELSE pub[i].done)
        /\ pub[i].peers \subseteq Peers
    BY <2>1 DEF NextRow, Ticks
  <2> HIDE DEF t
  <2>3. pub'[i] = t /\ \A k \in 1 .. Publishers : k # i => pub'[k] = pub[k]
    BY <1>t, <2>1
  <2>4. \A q \in t.peers : t.done \subseteq handed[q]
    <3>1. \A q \in pub[i].peers : pub[i].done \subseteq handed[q] /\ (pub[i].all => Row(pub[i]) \in handed[q])
      BY <2>1 DEF TicksMet
    <3> QED
      BY <2>2, <3>1
  <2>5. TicksMet'
    BY <2>1, <2>2, <2>3, <2>4, OneTick
  <2>6. RowsEmitted'
    BY <2>1, <2>2, <2>3 DEF RowsEmitted
  <2> QED
    BY <2>1, <2>5, <2>6 DEF MarkedMet
<1>8. ASSUME NEW i \in 1 .. Publishers, MarkThrows(i) PROVE MetInv'
  <2>1. pub' = [pub EXCEPT ![i] = NoTick] /\ UNCHANGED <<outbox, handed, missed, unqueued>>
    BY <1>8 DEF MarkThrows, Put, history
  <2>2. pub'[i] = NoTick /\ \A k \in 1 .. Publishers : k # i => pub'[k] = pub[k]
    BY <1>t, <2>1
  <2>3. NoTick.peers = {} /\ NoTick.rows = {}
    BY DEF NoTick
  <2>4. TicksMet'
    BY <2>1, <2>2, <2>3, OneTick
  <2>5. RowsEmitted'
    BY <2>1, <2>2, <2>3 DEF RowsEmitted
  <2> QED
    BY <2>1, <2>4, <2>5 DEF MarkedMet
<1>9. ASSUME NEW i \in 1 .. Publishers, Mark(i) PROVE MetInv'
  <2>1. /\ pub' = [pub EXCEPT ![i] = NoTick] /\ UNCHANGED <<handed, unqueued>>
        /\ outbox' = [e \in Events |-> IF e \in pub[i].done THEN "sent" ELSE outbox[e]]
        /\ missed' = [p \in Peers |-> IF p \in pub[i].peers THEN missed[p] ELSE missed[p] \cup pub[i].done]
    BY <1>9 DEF Mark, Put
  <2>2. pub'[i] = NoTick /\ \A k \in 1 .. Publishers : k # i => pub'[k] = pub[k]
    BY <1>t, <2>1
  <2>3. NoTick.peers = {} /\ NoTick.rows = {}
    BY DEF NoTick
  <2>4. TicksMet'
    BY <2>1, <2>2, <2>3, OneTick
  <2>5. \A d \in Events : outbox[d] # "none" => outbox'[d] # "none"
    BY <1>t, <2>1
  <2>6. (\A k \in 1 .. Publishers : pub[k].rows \subseteq Events) /\ \A p \in Peers : unqueued[p] \subseteq Events
    BY <1>t DEF Ticks
  <2>7. RowsEmitted'
    BY <2>1, <2>2, <2>3, <2>5, <2>6 DEF RowsEmitted
  <2>8. ASSUME NEW e \in Events, outbox'[e] = "sent", NEW p \in Peers PROVE e \in handed'[p] \cup missed'[p]
    <3>1. missed[p] \subseteq missed'[p]
      BY <1>t, <2>1
    <3>2. CASE e \in pub[i].done
      <4>1. p \in pub[i].peers => e \in handed[p]
        BY <3>2 DEF TicksMet
      <4>2. p \notin pub[i].peers => e \in missed'[p]
        BY <2>1, <3>2
      <4> QED
        BY <2>1, <4>1, <4>2
    <3>3. CASE e \notin pub[i].done
      <4>1. outbox[e] = "sent"
        BY <2>1, <2>8, <3>3
      <4> QED
        BY <2>1, <3>1, <4>1 DEF MarkedMet
    <3> QED
      BY <3>2, <3>3
  <2> QED
    BY <2>4, <2>7, <2>8 DEF MarkedMet
<1>10. ASSUME NEW j \in 1 .. Flushes, FlushSendOk(j) PROVE MetInv'
  <2>1. PICK e \in Events : handed' = [handed EXCEPT ![flush[j].peer] = @ \cup {e}]
    BY <1>10 DEF FlushSendOk
  <2>2. UNCHANGED <<outbox, pub, missed, unqueued>> /\ \A p \in Peers : handed[p] \subseteq handed'[p]
    BY <1>10, <1>t, <2>1 DEF FlushSendOk
  <2>3. \A i \in 1 .. Publishers : pub[i].peers \subseteq Peers
    BY <1>t DEF Ticks
  <2>4. TicksMet'
    BY <2>2, <2>3 DEF TicksMet, Row
  <2> QED
    BY <2>2, <2>4 DEF MarkedMet, RowsEmitted
<1>11. ASSUME Restart PROVE MetInv'
  <2>1. /\ \A i \in 1 .. Publishers : pub'[i].peers = {} /\ pub'[i].rows = {}
        /\ UNCHANGED <<outbox, handed, missed>>
    BY <1>11 DEF Restart, NoTick
  <2>2. \A p \in Peers : unqueued'[p] = unqueued[p] \cup
             {Row(pub[i]) : i \in {k \in 1 .. Publishers : pub[k].pc = "enqueue" /\ pub[k].peer = p}}
    BY <1>11 DEF Restart
  <2>3. \A i \in 1 .. Publishers : pub[i].pc = "enqueue" => outbox[Row(pub[i])] # "none"
    <3>1. \A i \in 1 .. Publishers : pub[i].pc = "enqueue" => Row(pub[i]) \in pub[i].rows
      BY <1>t, RowOfTick DEF Typed, RowsInHand, Ticks
    <3> QED
      BY <3>1 DEF RowsEmitted
  <2>4. RowsEmitted'
    BY <2>1, <2>2, <2>3 DEF RowsEmitted
  <2>5. TicksMet'
    BY <2>1 DEF TicksMet
  <2> QED
    BY <2>1, <2>4, <2>5 DEF MarkedMet
<1>12. ASSUME NEW j \in 1 .. Flushes, FlushSendThrows(j) \/ FlushDone(j) \/ FlushMarkThrows(j) PROVE MetInv'
  BY <1>1, <1>12 DEF FlushSendThrows, FlushDone, FlushMarkThrows, history
<1>13. ASSUME NEW p \in Peers, PruneTTL(p) \/ ResetCircuit(p) \/ \E j \in 1 .. Flushes : Heartbeat(j, p) PROVE MetInv'
  BY <1>1, <1>13 DEF PruneTTL, ResetCircuit, Heartbeat, history
<1>14. ASSUME NEW p \in Peers, Connect(p) \/ Closing(p) \/ Closed(p) \/ Apply(p) \/ NeverApplied(p) PROVE MetInv'
  BY <1>1, <1>14 DEF Connect, Closing, Closed, Apply, NeverApplied, sender, history
<1>15. CASE UNCHANGED vars
  BY <1>1, <1>15 DEF vars
<1> QED
  BY <1>2, <1>3, <1>4, <1>5, <1>6, <1>7, <1>8, <1>9, <1>10, <1>11, <1>12, <1>13, <1>14, <1>15
  DEF Next, PublisherStep, PublisherThrow, FlushStep

(* What an undone queueing leaves is in the outbox, or was missed or handed   *)
(* over since.                                                                *)
LEMMA KeptIsAccounted ==
    ASSUME Typed, MetInv, NEW p \in Peers, NEW e \in Events, Kept(p, e)
    PROVE  Settled(p, e) \/ Standing(e) \cap Pending(queue[p]) # {} \/ LeftToOutbox(p, e)
<1>1. CASE Standing(e) \cap unqueued[p] # {}
  <2>1. PICK d \in Standing(e) : d \in unqueued[p]
    BY <1>1
  <2>2. d \in Events /\ outbox[d] \in {"unsent", "sent"}
    BY <2>1 DEF Typed, TypeOK, MetInv, RowsEmitted
  <2>3. CASE outbox[d] = "unsent"
    BY <2>1, <2>3 DEF LeftToOutbox
  <2>4. CASE outbox[d] = "sent"
    <3>1. d \in handed[p] \cup missed[p]
      BY <2>2, <2>4 DEF MetInv, MarkedMet
    <3> QED
      BY <2>1, <3>1 DEF LeftToOutbox, Settled
  <2> QED
    BY <2>2, <2>3, <2>4
<1> QED
  BY <1>1 DEF Kept

(* A failed delivery is never forgotten, whatever the overlap of publishers,  *)
(* flushes, pruning, circuit and coalescing, failing stores and restarts: the *)
(* event or a newer one of its entity is in hand, pending, handed over, given *)
(* up with a resync signal, pushed out of the queue by the row of an older    *)
(* event, or its unsent outbox row will repeat it, unless a tick that did not *)
(* list the peer marked that row.                                             *)
THEOREM FailuresKept == Spec => []FailuresAreKept
<1>1. Typed /\ KeepInv /\ MetInv => FailuresAreKept
  <2> SUFFICES ASSUME Typed, KeepInv, MetInv, NEW p \in Peers, NEW e \in failed[p]
               PROVE  \/ Settled(p, e) \/ Standing(e) \cap Pending(queue[p]) # {}
                      \/ InHand(p, e) \/ LeftToOutbox(p, e)
    BY DEF FailuresAreKept
  <2>1. e \in Events
    BY DEF Typed, TypeOK
  <2> QED
    BY <2>1, KeptIsAccounted DEF KeepInv, FailedKept
<1>2. Typed /\ KeepInv /\ [Next]_vars => KeepInv'
  BY KeepStep, IndexSoundStep DEF KeepInv
<1> QED
  BY AlwaysTyped, KeepInit, MetInit, MetStep, <1>1, <1>2, PTL DEF Spec
=============================================================================
