---------------------------- MODULE RingMachine ----------------------------
(***************************************************************************)
(* One caller of the unsynchronised queue of queue.c, as queue_test.c is:  *)
(* every operation may follow every other, on every argument.  ring is the *)
(* queue, result what the last call returned.  The names differ from those *)
(* of the machines that share a queue, whose proofs extend the proofs of   *)
(* this one.                                                               *)
(***************************************************************************)
EXTENDS RingQueue

VARIABLES ring, result

ring_vars == <<ring, result>>

RingInit == ring = queue_init /\ result = NULL

Enqueue(x) == LET r == queue_enqueue(ring, x) IN ring' = r.q /\ result' = r.ret

Dequeue == LET r == queue_dequeue(ring) IN ring' = r.q /\ result' = r.ret

Requeue(x) == LET r == queue_requeue(ring, x) IN ring' = r.q /\ result' = r.ret

Find(hits) == result' = queue_search(ring, hits) /\ UNCHANGED ring

RingNext ==
    \/ \E x \in Item : Enqueue(x)
    \/ Dequeue
    \/ \E x \in Item : Requeue(x)
    \/ \E hits \in SUBSET Item : Find(hits)

RingSpec == RingInit /\ [][RingNext]_ring_vars

-----------------------------------------------------------------------------
\* The fields of the queue stay in range, and a call returns a code, an item
\* or NULL.
RingTypeOK == ring \in QueueType /\ result \in Item \cup {NULL, OK, Failed}

\* head, tail and size of the circular buffer always agree: tail is size
\* slots after head, through every wrap, although queue_enqueue and
\* queue_dequeue move them separately and queue_requeue moves neither.
IndicesAgree == Aligned(ring)

\* No call hands out memory nobody wrote: every slot that queue_search shows
\* to its callback, the stale ones it scans past the tail included, has been
\* written by an earlier queue_enqueue.
SearchReadsWrittenSlots ==
    ~ queue_isempty(ring) =>
        \A i \in Scanned(ring) : ring.items[Pos(ring, i)] # Unset

\* The buffer behaves as the list of queue.h: what is enqueued comes out in
\* order through every wrap, requeue moves the first occurrence behind all
\* others and keeps their order, and search finds the oldest match.
List == INSTANCE FifoList WITH list <- Contents(ring), ret <- result

ImplementsList == List!Spec
=============================================================================
