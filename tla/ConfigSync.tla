------------------------------ MODULE ConfigSync ------------------------------
(* Config-sync between instances (server/federation/config-sync.ts with       *)
(* peer-queue.ts and the transport's send): a transactional outbox, a         *)
(* publisher that sends its unsent rows to the connected peers and queues     *)
(* what fails, a flush of a peer's queue at its heartbeat, pruning, and the   *)
(* subscriber at each peer, which records an idempotency key and applies.     *)
(* A call of a store may fail, and the process may end at any point: the rows *)
(* of the outbox and the queues survive, the circuits and the calls do not.   *)
EXTENDS PeerQueue

CONSTANTS
    Peers,           \* the other instances
    Watched,         \* pairs of a peer and an event: what the peers' subscribers do with it is followed
    Publishers,      \* publisher ticks that may overlap
    Flushes,         \* flushes that may overlap
    Batch,           \* MAX_BATCH_SIZE and FLUSH_BATCH_SIZE
    MaxThrows,       \* bound: sends that throw
    MaxDisturbances, \* bound: lost connections, prunings, restarts, failing store calls
    MaxStamps        \* bound: versions a flush stamps

ASSUME SyncAssumption ==
    /\ Watched \subseteq Peers \X Events
    /\ Publishers \in Nat /\ Flushes \in Nat /\ Batch \in Nat \ {0}
    /\ MaxThrows \in Nat /\ MaxDisturbances \in Nat /\ MaxStamps \in Nat

VARIABLES
    outbox,     \* event -> "none", "unsent" or "sent"
    link,       \* peer -> "open", "closing" (socket not open any more) or "off"
    queue,      \* peer -> its queue
    pub,        \* publisher ticks
    flush,      \* flushes
    received,   \* peer -> idempotency keys recorded
    applying,   \* peer -> messages between the record and applyOne
    stamps, throws, disturbed,   \* counters for the bounds
    handed,     \* history: peer -> events a send to it reported done
    failed,     \* history: peer -> events a send to it threw for
    shed,       \* history: peer -> events not queued or pruned, circuit or TTL
    displaced,  \* history: peer -> events whose pending row an older event's row took the place of
    unqueued,   \* history: peer -> events whose last queueing the store or a restart undid
    missed,     \* history: peer -> events a tick that did not list the peer marked sent
    applied     \* history: peer -> message -> how often it was applied

sender == <<outbox, queue, pub, flush>>
receiver == <<received, applying, applied>>
lost == <<unqueued, missed>>
history == <<handed, failed, shed, displaced, lost>>
vars == <<outbox, link, queue, pub, flush, received, applying,
          stamps, throws, disturbed, handed, failed, shed, displaced, unqueued, missed, applied>>

(* A message: an event and its version, 0 for the event's own createdAt.       *)
Messages == Events \X (0 .. MaxStamps)

NoTick == [pc |-> "idle", peers |-> {}, rows |-> {}, todo |-> {}, peer |-> "none", all |-> TRUE, done |-> {}]
NoFlush == [pc |-> "idle", peer |-> "none", rows |-> [e \in Events |-> NoRow], ok |-> {}]

Init ==
    /\ outbox = [e \in Events |-> "none"]
    /\ link = [p \in Peers |-> "open"]
    /\ queue = [p \in Peers |-> EmptyQueue]
    /\ pub = [i \in 1 .. Publishers |-> NoTick]
    /\ flush = [i \in 1 .. Flushes |-> NoFlush]
    /\ received = [p \in Peers |-> {}]
    /\ applying = [p \in Peers |-> {}]
    /\ stamps = 0 /\ throws = 0 /\ disturbed = 0
    /\ handed = [p \in Peers |-> {}]
    /\ failed = [p \in Peers |-> {}]
    /\ shed = [p \in Peers |-> {}]
    /\ displaced = [p \in Peers |-> {}]
    /\ unqueued = [p \in Peers |-> {}]
    /\ missed = [p \in Peers |-> {}]
    /\ applied = [p \in Peers |-> [m \in Messages |-> 0]]

-----------------------------------------------------------------------------
(* Connections                                                                *)

Connect(p) ==
    /\ link[p] = "off"
    /\ link' = [link EXCEPT ![p] = "open"]
    /\ UNCHANGED <<sender, receiver, stamps, throws, disturbed, history>>

(* The socket stops being open; the peer stays listed until the close event.  *)
Closing(p) ==
    /\ link[p] = "open" /\ disturbed < MaxDisturbances
    /\ link' = [link EXCEPT ![p] = "closing"]
    /\ disturbed' = disturbed + 1
    /\ UNCHANGED <<sender, receiver, stamps, throws, history>>

Closed(p) ==
    /\ link[p] = "closing"
    /\ link' = [link EXCEPT ![p] = "off"]
    /\ UNCHANGED <<sender, receiver, stamps, throws, disturbed, history>>

(* Mutant: the idempotency key is recorded and not looked at.                 *)
TransmitUnchecked(p, e, version) ==
    LET m == <<e, version>>
    IN IF link[p] = "open" /\ <<p, e>> \in Watched
       THEN /\ received' = [received EXCEPT ![p] = @ \cup {m}]
            /\ applying' = [applying EXCEPT ![p] = @ \cup {m}]
            /\ UNCHANGED applied
       ELSE UNCHANGED receiver

(* federation.send: a message for a peer whose socket is not open is dropped  *)
(* without a word.  Nothing of a subscriber reaches back to the publisher, so *)
(* a message that is not lost with its socket arrives at once: handleIncoming *)
(* records its idempotency key, unless known, and goes on to applyOne.        *)
Transmit(p, e, version) ==
    LET m == <<e, version>>
    IN IF link[p] = "open" /\ <<p, e>> \in Watched
       THEN /\ received' = [received EXCEPT ![p] = @ \cup {m}]
            /\ applying' = [applying EXCEPT ![p] = IF m \in received[p] THEN @ ELSE @ \cup {m}]
            /\ UNCHANGED applied
       ELSE UNCHANGED receiver

-----------------------------------------------------------------------------
(* The outbox and its publisher                                               *)

(* enqueueConfigEvent                                                         *)
Emit(e) ==
    /\ outbox[e] = "none" /\ \A d \in Events : d < e => outbox[d] # "none"
    /\ outbox' = [outbox EXCEPT ![e] = "unsent"]
    /\ UNCHANGED <<link, queue, pub, flush, receiver, stamps, throws, disturbed, history>>

Put(i, t) == pub' = [pub EXCEPT ![i] = t]

(* getUnsentConfigEvents: the oldest rows that are not sent.                  *)
Unsent ==
    LET unsent == {e \in Events : outbox[e] = "unsent"}
    IN {e \in unsent : Cardinality({d \in unsent : d < e}) < Batch}

(* The row a tick is at: rows are sent in the order they were created.        *)
Row(t) == Min(t.rows)

(* publishPending: the peers listed now, the oldest unsent rows.              *)
Tick(i) ==
    /\ pub[i].pc = "idle"
    /\ LET peers == {p \in Peers : link[p] # "off"}
       IN /\ peers # {} /\ Unsent # {}
          /\ Put(i, [NoTick EXCEPT !.pc = "send", !.peers = peers, !.rows = Unsent, !.todo = peers])
    /\ UNCHANGED <<outbox, link, queue, flush, receiver, stamps, throws, disturbed, history>>

(* sendToPeer, reported done: sent, or dropped by the transport.              *)
SendOk(i) ==
    /\ pub[i].pc = "send"
    /\ \E p \in pub[i].todo :
          /\ Transmit(p, Row(pub[i]), 0)
          /\ handed' = [handed EXCEPT ![p] = @ \cup {Row(pub[i])}]
          /\ Put(i, [pub[i] EXCEPT !.todo = @ \ {p}])
    /\ UNCHANGED <<outbox, link, queue, flush, stamps, throws, disturbed, failed, shed, displaced, lost>>

(* sendToPeer catches a throw and reports false.                              *)
SendThrows(i) ==
    /\ pub[i].pc = "send" /\ throws < MaxThrows
    /\ throws' = throws + 1
    /\ \E p \in pub[i].todo :
          /\ failed' = [failed EXCEPT ![p] = @ \cup {Row(pub[i])}]
          /\ Put(i, [pub[i] EXCEPT !.pc = "enqueue", !.peer = p, !.todo = @ \ {p}, !.all = FALSE])
    /\ UNCHANGED <<outbox, link, queue, flush, receiver, stamps, disturbed, handed, shed, displaced, lost>>

(* Mutant: a refused event waits in the tick for the circuit to close.        *)
EnqueueWaiting(i) ==
    /\ pub[i].pc = "enqueue"
    /\ queue[pub[i].peer].open
    /\ UNCHANGED vars

(* PeerQueueService.enqueue: nothing with the circuit open, else coalesce.    *)
EnqueueRefused(i) ==
    /\ pub[i].pc = "enqueue"
    /\ queue[pub[i].peer].open
    /\ shed' = [shed EXCEPT ![pub[i].peer] = @ \cup {Row(pub[i])}]
    /\ Put(i, [pub[i] EXCEPT !.pc = "send", !.peer = "none"])
    /\ UNCHANGED <<outbox, link, queue, flush, receiver, stamps, throws, disturbed, handed, failed, displaced, lost>>

(* A pending row of a newer event that goes when e is written.                *)
Displaces(q, e) == {d \in Pending(q) : d = q.index[EntityOf[e]] /\ d > e}

Enqueue(i) ==
    /\ pub[i].pc = "enqueue"
    /\ LET p == pub[i].peer
           e == Row(pub[i])
       IN /\ ~queue[p].open
          /\ queue' = [queue EXCEPT ![p] = Coalesce(@, e)]
          /\ displaced' = [displaced EXCEPT ![p] = @ \cup Displaces(queue[p], e)]
          /\ unqueued' = [unqueued EXCEPT ![p] = @ \ {e}]
    /\ Put(i, [pub[i] EXCEPT !.pc = "count"])
    /\ UNCHANGED <<outbox, link, flush, receiver, stamps, throws, disturbed, handed, failed, shed, missed>>

(* The store fails: no row is written, and the publisher goes on.             *)
EnqueueThrows(i) ==
    /\ pub[i].pc = "enqueue" /\ ~queue[pub[i].peer].open
    /\ disturbed < MaxDisturbances /\ disturbed' = disturbed + 1
    /\ unqueued' = [unqueued EXCEPT ![pub[i].peer] = @ \cup {Row(pub[i])}]
    /\ Put(i, [pub[i] EXCEPT !.pc = "send", !.peer = "none"])
    /\ UNCHANGED <<outbox, link, queue, flush, receiver, stamps, throws, handed, failed, shed, displaced, missed>>

(* ... and its check of the depth, after an await.                            *)
Count(i) ==
    /\ pub[i].pc = "count"
    /\ queue' = [queue EXCEPT ![pub[i].peer] = Recount(@)]
    /\ Put(i, [pub[i] EXCEPT !.pc = "send", !.peer = "none"])
    /\ UNCHANGED <<outbox, link, flush, receiver, stamps, throws, disturbed, history>>

(* ... which may fail with the row written: the circuit stays as it is.       *)
CountThrows(i) ==
    /\ pub[i].pc = "count"
    /\ disturbed < MaxDisturbances /\ disturbed' = disturbed + 1
    /\ Put(i, [pub[i] EXCEPT !.pc = "send", !.peer = "none"])
    /\ UNCHANGED <<outbox, link, queue, flush, receiver, stamps, throws, history>>

(* The next row; a row every peer got is to be marked.                        *)
NextRow(t) ==
    LET rest == t.rows \ {Row(t)}
    IN [t EXCEPT !.pc = IF rest = {} THEN "mark" ELSE "send", !.rows = rest, !.todo = t.peers, !.all = TRUE,
                 !.done = IF t.all THEN @ \cup {Row(t)} ELSE @]

RowDone(i) ==
    /\ pub[i].pc = "send" /\ pub[i].todo = {}
    /\ Put(i, NextRow(pub[i]))
    /\ UNCHANGED <<outbox, link, queue, flush, receiver, stamps, throws, disturbed, history>>

(* Mutant: the column gets a value it does not have.                          *)
MarkDone(i) ==
    /\ pub[i].pc = "mark"
    /\ outbox' = [e \in Events |-> IF e \in pub[i].done THEN "done" ELSE outbox[e]]
    /\ Put(i, NoTick)
    /\ UNCHANGED <<link, queue, flush, receiver, stamps, throws, disturbed, history>>

(* markConfigEventsSent: whoever the tick did not list misses its rows.       *)
Mark(i) ==
    /\ pub[i].pc = "mark"
    /\ outbox' = [e \in Events |-> IF e \in pub[i].done THEN "sent" ELSE outbox[e]]
    /\ missed' = [p \in Peers |-> IF p \in pub[i].peers THEN missed[p] ELSE missed[p] \cup pub[i].done]
    /\ Put(i, NoTick)
    /\ UNCHANGED <<link, queue, flush, receiver, stamps, throws, disturbed,
                   handed, failed, shed, displaced, unqueued>>

(* It fails: the rows stay unsent, and the next tick repeats them.            *)
MarkThrows(i) ==
    /\ pub[i].pc = "mark" /\ pub[i].done # {}
    /\ disturbed < MaxDisturbances /\ disturbed' = disturbed + 1
    /\ Put(i, NoTick)
    /\ UNCHANGED <<outbox, link, queue, flush, receiver, stamps, throws, history>>

-----------------------------------------------------------------------------
(* The peer's queue: flush, pruning, manual reset                             *)

PutFlush(j, f) == flush' = [flush EXCEPT ![j] = f]

(* A heartbeat of the peer: the circuit closes, the oldest rows are read.     *)
Heartbeat(j, p) ==
    /\ flush[j].pc = "idle" /\ link[p] = "open"
    /\ queue[p].open \/ Depth(queue[p]) > 0
    /\ queue' = [queue EXCEPT ![p] = Close(@)]
    /\ PutFlush(j, IF Depth(queue[p]) = 0 THEN NoFlush
                   ELSE [NoFlush EXCEPT !.pc = "send", !.peer = p, !.rows = KeepOnly(queue[p].pending, Oldest(queue[p].pending, Batch))])
    /\ UNCHANGED <<outbox, link, pub, receiver, stamps, throws, disturbed, history>>

(* One row is sent, with the time of now as its version.                      *)
FlushSendOk(j) ==
    /\ flush[j].pc = "send"
    /\ \E e \in Events :
          /\ FirstIn(flush[j].rows, e)
          /\ IF <<flush[j].peer, e>> \in Watched THEN stamps < MaxStamps /\ stamps' = stamps + 1
             ELSE UNCHANGED stamps
          /\ Transmit(flush[j].peer, e, stamps + 1)
          /\ handed' = [handed EXCEPT ![flush[j].peer] = @ \cup {e}]
          /\ PutFlush(j, [flush[j] EXCEPT !.rows[e] = NoRow, !.ok = @ \cup {e}])
    /\ UNCHANGED <<outbox, link, queue, pub, throws, disturbed, failed, shed, displaced, lost>>

(* Mutant: a row whose send threw is marked like the others.                  *)
FlushSendMarked(j) ==
    /\ flush[j].pc = "send" /\ throws < MaxThrows
    /\ throws' = throws + 1
    /\ \E e \in Events :
          /\ FirstIn(flush[j].rows, e)
          /\ failed' = [failed EXCEPT ![flush[j].peer] = @ \cup {e}]
          /\ PutFlush(j, [flush[j] EXCEPT !.rows[e] = NoRow, !.ok = @ \cup {e}])
    /\ UNCHANGED <<outbox, link, queue, pub, receiver, stamps, disturbed, handed, shed, displaced, lost>>

FlushSendThrows(j) ==
    /\ flush[j].pc = "send" /\ throws < MaxThrows
    /\ throws' = throws + 1
    /\ \E e \in Events :
          /\ FirstIn(flush[j].rows, e)
          /\ failed' = [failed EXCEPT ![flush[j].peer] = @ \cup {e}]
          /\ PutFlush(j, [flush[j] EXCEPT !.rows[e] = NoRow])
    /\ UNCHANGED <<outbox, link, queue, pub, receiver, stamps, disturbed, handed, shed, displaced, lost>>

(* markSent for what went out; recordRetryFailure only counts.                *)
FlushDone(j) ==
    /\ flush[j].pc = "send" /\ RowsOf(flush[j].rows) = {}
    /\ queue' = [queue EXCEPT ![flush[j].peer] = MarkSent(@, flush[j].ok)]
    /\ PutFlush(j, NoFlush)
    /\ UNCHANGED <<outbox, link, pub, receiver, stamps, throws, disturbed, history>>

(* markSent fails: what went out stays pending.                               *)
FlushMarkThrows(j) ==
    /\ flush[j].pc = "send" /\ RowsOf(flush[j].rows) = {} /\ flush[j].ok # {}
    /\ disturbed < MaxDisturbances /\ disturbed' = disturbed + 1
    /\ PutFlush(j, NoFlush)
    /\ UNCHANGED <<outbox, link, queue, pub, receiver, stamps, throws, history>>

(* pruneTTL: the oldest rows go and the peer is told to resync.               *)
PruneTTL(p) ==
    /\ disturbed < MaxDisturbances
    /\ \E n \in 1 .. Depth(queue[p]) :
          /\ queue' = [queue EXCEPT ![p] = DeleteExpired(@, n)]
          /\ shed' = [shed EXCEPT ![p] = @ \cup Expired(queue[p], n)]
    /\ disturbed' = disturbed + 1
    /\ UNCHANGED <<outbox, link, pub, flush, receiver, stamps, throws, handed, failed, displaced, lost>>

(* By hand; a heartbeat whose read of the rows fails does no more either.     *)
ResetCircuit(p) ==
    /\ queue[p].open
    /\ queue' = [queue EXCEPT ![p] = Close(@)]
    /\ UNCHANGED <<outbox, link, pub, flush, receiver, stamps, throws, disturbed, history>>

(* This instance's process ends and starts again: its sockets, its circuits   *)
(* and the calls in progress are gone, an event about to be queued with them. *)
Restart ==
    /\ disturbed < MaxDisturbances /\ disturbed' = disturbed + 1
    /\ pub' = [i \in 1 .. Publishers |-> NoTick]
    /\ flush' = [j \in 1 .. Flushes |-> NoFlush]
    /\ queue' = [p \in Peers |-> Close(queue[p])]
    /\ link' = [p \in Peers |-> "off"]
    /\ unqueued' = [p \in Peers |-> unqueued[p] \cup
                        {Row(pub[i]) : i \in {k \in 1 .. Publishers : pub[k].pc = "enqueue" /\ pub[k].peer = p}}]
    /\ UNCHANGED <<outbox, receiver, stamps, throws, handed, failed, shed, displaced, missed>>

-----------------------------------------------------------------------------
(* The subscriber at a peer                                                   *)

(* applyOne; handlers of two messages overlap.                                *)
Apply(p) ==
    /\ \E m \in applying[p] :
          /\ applying' = [applying EXCEPT ![p] = @ \ {m}]
          /\ applied' = [applied EXCEPT ![p][m] = @ + 1]
    /\ UNCHANGED <<sender, link, received, stamps, throws, disturbed, history>>

(* Recorded and never applied: the peer's process ends in between, its        *)
(* conflict detector holds the message back, or applyOne fails.               *)
NeverApplied(p) ==
    /\ disturbed < MaxDisturbances /\ disturbed' = disturbed + 1
    /\ \E gone \in SUBSET applying[p] : gone # {} /\ applying' = [applying EXCEPT ![p] = @ \ gone]
    /\ UNCHANGED <<sender, link, received, applied, stamps, throws, history>>

-----------------------------------------------------------------------------
PublisherStep(i) ==
    Tick(i) \/ SendOk(i) \/ EnqueueRefused(i) \/ Enqueue(i) \/ Count(i) \/ RowDone(i) \/ Mark(i)
PublisherThrow(i) == SendThrows(i) \/ EnqueueThrows(i) \/ CountThrows(i) \/ MarkThrows(i)
FlushStep(j) == FlushSendOk(j) \/ FlushSendThrows(j) \/ FlushDone(j) \/ FlushMarkThrows(j)

Next ==
    \/ \E e \in Events : Emit(e)
    \/ \E i \in 1 .. Publishers : PublisherStep(i) \/ PublisherThrow(i)
    \/ \E j \in 1 .. Flushes : FlushStep(j) \/ \E p \in Peers : Heartbeat(j, p)
    \/ \E p \in Peers : Connect(p) \/ Closing(p) \/ Closed(p) \/ PruneTTL(p) \/ ResetCircuit(p)
    \/ \E p \in Peers : Apply(p) \/ NeverApplied(p)
    \/ Restart

Spec == Init /\ [][Next]_vars

(* The publisher's timer recurs and its calls end.  Nothing here makes a peer *)
(* connect again or send a heartbeat, so nothing is assumed of either.        *)
Fairness == \A i \in 1 .. Publishers : WF_vars(PublisherStep(i))
FairSpec == Spec /\ Fairness

-----------------------------------------------------------------------------
(* Properties                                                                 *)

Ticks == [pc : {"idle", "send", "enqueue", "count", "mark"}, peers : SUBSET Peers, rows : SUBSET Events,
          todo : SUBSET Peers, peer : Peers \cup {"none"}, all : BOOLEAN, done : SUBSET Events]
FlushTicks == [pc : {"idle", "send"}, peer : Peers \cup {"none"}, rows : [Events -> Nat], ok : SUBSET Events]
Queues == [pending : [Events -> Nat], now : Nat, sent : SUBSET Events, index : [Entities -> Events \cup {NoEvent}], open : BOOLEAN]

TypeOK ==
    /\ outbox \in [Events -> {"none", "unsent", "sent"}]
    /\ link \in [Peers -> {"open", "closing", "off"}]
    /\ queue \in [Peers -> Queues]
    /\ pub \in [1 .. Publishers -> Ticks]
    /\ flush \in [1 .. Flushes -> FlushTicks]
    /\ received \in [Peers -> SUBSET Messages] /\ applying \in [Peers -> SUBSET Messages]
    /\ stamps \in 0 .. MaxStamps /\ throws \in 0 .. MaxThrows /\ disturbed \in 0 .. MaxDisturbances
    /\ handed \in [Peers -> SUBSET Events] /\ failed \in [Peers -> SUBSET Events]
    /\ shed \in [Peers -> SUBSET Events] /\ displaced \in [Peers -> SUBSET Events]
    /\ unqueued \in [Peers -> SUBSET Events] /\ missed \in [Peers -> SUBSET Events]
    /\ applied \in [Peers -> [Messages -> Nat]]

(* What stands for event e: itself or a newer snapshot of its entity.         *)
Standing(e) == {d \in Events : d >= e /\ EntityOf[d] = EntityOf[e]}
Settled(p, e) == Standing(e) \cap (handed[p] \cup shed[p] \cup displaced[p]) # {}
InHand(p, e) == \E i \in 1 .. Publishers : pub[i].pc = "enqueue" /\ pub[i].peer = p /\ Row(pub[i]) \in Standing(e)

(* Its queueing was undone, but its outbox row is unsent, so that the next    *)
(* tick repeats it -- or a tick that did not list the peer marked the row.    *)
LeftToOutbox(p, e) ==
    \E d \in Standing(e) \cap unqueued[p] : outbox[d] = "unsent" \/ d \in missed[p]

(* A failed delivery is not forgotten: until the event or a newer one of its  *)
(* entity is handed over, refused by the open circuit, pruned with a resync   *)
(* signal or pushed out of the queue by the row of an older one, it stands in *)
(* the peer's queue or a publisher is about to put it there -- whatever the   *)
(* overlap of publishers, flushes, pruning and coalescing.  If the store or a *)
(* restart undoes its queueing, its unsent outbox row takes over; the code    *)
(* loses it for the peer only if a later tick, with the peer not connected,   *)
(* marks that row sent.                                                       *)
FailuresAreKept ==
    \A p \in Peers : \A e \in failed[p] :
        \/ Settled(p, e)
        \/ Standing(e) \cap Pending(queue[p]) # {}
        \/ InHand(p, e)
        \/ LeftToOutbox(p, e)

(* No message is applied twice at a peer under one idempotency key, though    *)
(* the outbox repeats an unsent row at every tick.                            *)
AppliedOncePerKey ==
    \A p \in Peers : \A m \in Messages : applied[p][m] <= 1

(* With one flush at a time an entity has one pending row, and the index      *)
(* finds it.                                                                  *)
OnePendingPerEntity ==
    \A p \in Peers : \A e \in Pending(queue[p]) :
        /\ queue[p].index[EntityOf[e]] = e
        /\ \A d \in Pending(queue[p]) : EntityOf[d] = EntityOf[e] => d = e

(* "Queue errors must not stall the publisher": while a peer stays connected, *)
(* every emitted row is marked sent in the end, though sends throw, store     *)
(* calls fail and the process restarts in between (each finitely often), and  *)
(* though circuits stay open, because no heartbeat is counted on.             *)
OutboxDrains ==
    \A e \in Events : []<>(outbox[e] # "unsent" \/ \A p \in Peers : link[p] = "off")

(* Four statements of comments that the code does not keep (see the README).  *)
(* publishPending's comment: sent_at is set on the rows dispatched to all     *)
(* peers -- so what stands for a row marked sent has reached every peer,      *)
(* waits in its queue, or was given up with a resync signal.                  *)
Reached(p, e) ==
    Standing(e) \cap ({m[1] : m \in received[p]} \cup Pending(queue[p]) \cup shed[p]) # {}
SentMeansDispatched ==
    \A e \in Events : outbox[e] = "sent" => \A p \in Peers : Reached(p, e)

(* The header of config-sync.ts: an event is applied once per peer,           *)
(* duplicates are discarded.                                                  *)
EventsApplyOnce ==
    \A p \in Peers : \A m, k \in Messages : applied[p][m] > 0 /\ applied[p][k] > 0 /\ m[1] = k[1] => m = k

(* The header of peer-queue.ts: an open circuit stays open until the queue    *)
(* drains below the threshold or is reset by hand.                            *)
CircuitStaysOpen ==
    [][\A p \in Peers : queue[p].open /\ ~queue'[p].open =>
            Depth(queue'[p]) < Threshold \/ UNCHANGED flush]_vars

(* ... and updates of an entity collapse to the newest.                       *)
CollapsesToNewest ==
    [][\A p \in Peers : \A d \in Pending(queue[p]) : \A e \in Pending(queue'[p]) \ Pending(queue[p]) :
            EntityOf[d] = EntityOf[e] => e >= d]_vars
=============================================================================
