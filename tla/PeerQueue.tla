------------------------------ MODULE PeerQueue ------------------------------
(* The offline queue of one peer (server/federation/peer-queue.ts) as a value: *)
(* for each event the enqueued_at of its pending row, the events whose row is  *)
(* kept as sent, the index that finds an entity's pending event, and the       *)
(* circuit breaker.  Events are numbered in the order they were created.       *)
EXTENDS Naturals, FiniteSetsExt

CONSTANTS
    Events,       \* event ids, numbers from 1
    EntityOf,     \* the entity an event is about
    Threshold     \* circuitBreakerThreshold

ASSUME QueueAssumption == Events \subseteq Nat \ {0} /\ Threshold \in Nat \ {0}

Entities == {EntityOf[e] : e \in Events}
NoEvent == 0
NoRow == 0

-----------------------------------------------------------------------------
(* Rows: a function from events to the enqueued_at of their row, or NoRow.    *)

RowsOf(r) == {e \in Events : r[e] # NoRow}
FirstIn(r, e) == e \in RowsOf(r) /\ \A d \in RowsOf(r) : r[e] <= r[d]
Oldest(r, n) == {e \in RowsOf(r) : Cardinality({d \in RowsOf(r) : r[d] < r[e]}) < n}
KeepOnly(r, E) == [e \in Events |-> IF e \in E THEN r[e] ELSE NoRow]
Drop(r, E) == [e \in Events |-> IF e \in E THEN NoRow ELSE r[e]]

-----------------------------------------------------------------------------
EmptyQueue ==
    [pending |-> [e \in Events |-> NoRow], now |-> 0, sent |-> {}, index |-> [x \in Entities |-> NoEvent], open |-> FALSE]

Pending(q) == RowsOf(q.pending)
Depth(q) == Cardinality(Pending(q))

(* The row written last is the newest.                                        *)
Write(q, e) == [q EXCEPT !.pending[e] = q.now + 1, !.now = @ + 1, !.sent = @ \ {e}, !.index[EntityOf[e]] = e]

(* Mutant: the row the index finds is left.                                   *)
CoalesceAppending(q, e) == Write(q, e)

(* coalesceAndEnqueue: the row the index finds for the entity is deleted, and *)
(* the event's row written, over an older row of the same event.              *)
Coalesce(q, e) ==
    LET found == {q.index[EntityOf[e]]}
    IN Write([q EXCEPT !.pending = Drop(@, found), !.sent = @ \ found], e)

(* enqueue after countPending: at the threshold the circuit opens.            *)
Recount(q) == [q EXCEPT !.open = @ \/ Depth(q) >= Threshold]

(* flush: a reconnect closes the circuit.  resetCircuit does the same.        *)
Close(q) == [q EXCEPT !.open = FALSE]

(* The entities of E leave the index, whatever event it finds for them.       *)
Unindexed(q, E) == [x \in Entities |-> IF \E e \in E : EntityOf[e] = x THEN NoEvent ELSE q.index[x]]

(* markSent: rows found turn sent, and their entities leave the index.        *)
MarkSent(q, E) ==
    LET found == E \cap (Pending(q) \cup q.sent)
    IN [q EXCEPT !.pending = Drop(@, found), !.sent = @ \cup found, !.index = Unindexed(q, found)]

(* deleteExpiredRows: the n oldest pending rows and their index entries go.   *)
Expired(q, n) == Oldest(q.pending, n)
DeleteExpired(q, n) ==
    [q EXCEPT !.pending = Drop(@, Expired(q, n)), !.index = Unindexed(q, Expired(q, n))]
=============================================================================
