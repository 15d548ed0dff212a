----------------------------- MODULE RingQueue -----------------------------
(***************************************************************************)
(* The circular buffer queue_t of "Threaded Web Server/queue.c", lines     *)
(* 1-142: the unsynchronised queue under the request queue, the prefetch   *)
(* queue and the cache.                                                    *)
(*                                                                         *)
(* A queue is a record with the fields of struct queue.  An operation of   *)
(* the C interface is an operator that returns what the call returns,      *)
(* "ret", and the queue it leaves behind, "q"; the machines that own a     *)
(* queue say who calls it, and when.  The slots of items that no enqueue   *)
(* has written yet, which malloc leaves uninitialised, hold Unset.         *)
(***************************************************************************)
EXTENDS Integers, FiniteSetsExt

CONSTANTS
    Capacity,   \* the capacity given to queue_init
    Item,       \* the pointers that callers put into the queue
    NULL,       \* the null pointer
    Unset       \* what a slot holds before its first write

ASSUME CapacityAssumption == Capacity \in Nat \ {0}
ASSUME ItemAssumption == NULL \notin Item /\ Unset \notin Item \cup {NULL}

OK == 0          \* the C return codes
Failed == -1

Slots == 0 .. Capacity - 1

\* The values of type queue_t.
QueueType ==
    [size : 0 .. Capacity, head : Slots, tail : Slots,
     items : [Slots -> Item \cup {Unset}]]

-----------------------------------------------------------------------------
\* One modular step of the buffer; C's % of the non-negative operand.
q_pos(i) == (Capacity + i) % Capacity

queue_init ==
    [size |-> 0, head |-> 0, tail |-> 0, items |-> [k \in Slots |-> Unset]]

queue_isempty(q) == q.size = 0

queue_isfull(q) == q.size = Capacity

\* The slot of the i-th live item, counted from the head.
Pos(q, i) == q_pos(q.head + i)

\* How far slot k is from the head: the inverse of Pos.
Offset(q, k) == (Capacity + k - q.head) % Capacity

queue_enqueue(q, item) ==
    IF queue_isfull(q)
    THEN [ret |-> Failed, q |-> q]
    ELSE [ret |-> OK,
          q |-> [q EXCEPT !.items[q.tail] = item,
                          !.tail = q_pos(q.tail + 1),
                          !.size = q.size + 1]]

\* Slips: the head is forgotten; the newest item is taken.
queue_dequeue_KeepsHead(q) ==
    IF queue_isempty(q)
    THEN [ret |-> NULL, q |-> q]
    ELSE [ret |-> q.items[q.head], q |-> [q EXCEPT !.size = q.size - 1]]

queue_dequeue_Newest(q) ==
    IF queue_isempty(q)
    THEN [ret |-> NULL, q |-> q]
    ELSE [ret |-> q.items[q_pos(q.tail - 1)],
          q |-> [q EXCEPT !.tail = q_pos(q.tail - 1), !.size = q.size - 1]]

\* The stale pointer stays in the slot it leaves.
queue_dequeue(q) ==
    IF queue_isempty(q)
    THEN [ret |-> NULL, q |-> q]
    ELSE [ret |-> q.items[q.head],
          q |-> [q EXCEPT !.head = q_pos(q.head + 1), !.size = q.size - 1]]

\* Slip: the loop of queue_requeue stops one slot early.
ShiftFrom_StopsEarly(q, i) ==
    [k \in Slots |-> IF Offset(q, k) \in i .. q.size - 3
                     THEN q.items[Pos(q, Offset(q, k) + 1)]
                     ELSE q.items[k]]

\* The inner loop of queue_requeue: the live items after the i-th move back
\* by one slot.
ShiftFrom(q, i) ==
    [k \in Slots |-> IF Offset(q, k) \in i .. q.size - 2
                     THEN q.items[Pos(q, Offset(q, k) + 1)]
                     ELSE q.items[k]]

\* The first occurrence of item moves to the tail.
queue_requeue(q, item) ==
    LET found == {i \in 0 .. q.size - 1 : q.items[Pos(q, i)] = item}
    IN  IF found = {}
        THEN [ret |-> Failed, q |-> q]
        ELSE [ret |-> OK,
              q |-> [q EXCEPT !.items = [ShiftFrom(q, Min(found))
                                           EXCEPT ![q_pos(q.tail - 1)] = item]]]

\* Slip: the scan stops at the tail instead of before it.
Scanned_ThroughTail(q) ==
    {i \in 0 .. Capacity - 1 : \A j \in 0 .. i - 1 : Pos(q, j) # q.tail}

\* The offsets the loop of queue_search may reach.  It stops after the slot
\* equal to tail - 1, which is no slot at all when tail is 0.
Scanned(q) ==
    {i \in 0 .. Capacity - 1 : \A j \in 0 .. i - 1 : Pos(q, j) # q.tail - 1}

\* The first item of the scan that the callback accepts: hits is the set of
\* items on which the callback returns 1.
queue_search(q, hits) ==
    LET found == {i \in Scanned(q) : q.items[Pos(q, i)] \in hits}
    IN  IF queue_isempty(q) \/ found = {}
        THEN NULL
        ELSE q.items[Pos(q, Min(found))]

-----------------------------------------------------------------------------
\* The sequence of live items, oldest first.
Contents(q) == [k \in 1 .. q.size |-> q.items[Pos(q, k - 1)]]

\* The live items as a set.
Live(q) == {q.items[Pos(q, i)] : i \in 0 .. q.size - 1}

\* head, tail and size agree.
Aligned(q) == q.tail = (q.head + q.size) % Capacity

\* Until the first wrap the slots in use are a prefix of the buffer and the
\* items in it are contiguous; after the wrap every slot has been written.
Filled(q) ==
    \/ \A k \in Slots : q.items[k] \in Item
    \/ /\ q.tail = q.head + q.size
       /\ \A k \in 0 .. q.tail - 1 : q.items[k] \in Item

RingOK(q) == q \in QueueType /\ Aligned(q) /\ Filled(q)
=============================================================================
