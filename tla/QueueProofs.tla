----------------------------- MODULE QueueProofs -----------------------------
(***************************************************************************)
(* Proofs about the ring queue and the machines that share one, for every  *)
(* capacity, every set of items and any finite sets of threads.  The first *)
(* part says what each call of RingQueue does to the indices, to the slots *)
(* and to the list of live items, and shows that RingMachine is always     *)
(* well formed and implements the list of FifoList.  The second part is    *)
(* about ProdCon: its inductive invariant is the conjunction of Shape,     *)
(* Mutex and the properties themselves, proved conjunct by conjunct, each  *)
(* from the ones before it.  The third part is about Cache: CacheShape is  *)
(* the inductive part that says what each variable holds, and the other    *)
(* invariants are proved relative to it.                                   *)
(***************************************************************************)
EXTENDS RingMachine, ProdCon, CacheRetries, Sequences, SequencesExt, FiniteSetTheorems,
        WellFoundedInduction, TLAPS

\* One wrap of the modular arithmetic, as the operators of RingQueue meet it.
LEMMA Wrap ==
    ASSUME NEW a \in Slots, NEW b \in 0 .. Capacity
    PROVE  /\ q_pos(a + b) = IF a + b < Capacity THEN a + b
                                                 ELSE a + b - Capacity
           /\ (a + b) % Capacity = q_pos(a + b)
  BY CapacityAssumption DEF q_pos, Slots

LEMMA WrapBack ==
    ASSUME NEW a \in Slots, NEW k \in Slots
    PROVE  (Capacity + k - a) % Capacity = IF k < a THEN Capacity + k - a
                                                    ELSE k - a
  BY CapacityAssumption DEF Slots

\* One slot forward and one slot back.
LEMMA Neighbours ==
    ASSUME NEW a \in Slots
    PROVE  /\ q_pos(a + 1) \in Slots
           /\ q_pos(a + 1) = IF a + 1 < Capacity THEN a + 1 ELSE 0
           /\ q_pos(a - 1) \in Slots
           /\ q_pos(a - 1) = IF a = 0 THEN Capacity - 1 ELSE a - 1
  BY CapacityAssumption DEF q_pos, Slots

\* The slot of the i-th live item.
LEMMA PosValue ==
    ASSUME NEW w \in QueueType, NEW i \in 0 .. Capacity
    PROVE  /\ Pos(w, i) = IF w.head + i < Capacity THEN w.head + i
                                                   ELSE w.head + i - Capacity
           /\ Pos(w, i) \in Slots
<1>1. w.head \in Slots
  BY DEF QueueType
<1>2. Pos(w, i) = IF w.head + i < Capacity THEN w.head + i
                                           ELSE w.head + i - Capacity
  BY <1>1, Wrap DEF Pos
<1>3. Pos(w, i) \in Slots
  BY <1>1, <1>2, CapacityAssumption DEF Slots
<1> QED
  BY <1>2, <1>3

\* Two offsets within one turn of the buffer are two slots.
LEMMA PosInjective ==
    ASSUME NEW w \in QueueType, NEW i \in 0 .. Capacity - 1,
           NEW j \in 0 .. Capacity - 1, Pos(w, i) = Pos(w, j)
    PROVE  i = j
<1>1. PICK h \in 0 .. Capacity - 1 : h = w.head
  BY DEF QueueType, Slots
<1>2. i \in 0 .. Capacity /\ j \in 0 .. Capacity
  BY CapacityAssumption
<1>3. Pos(w, i) = IF h + i < Capacity THEN h + i ELSE h + i - Capacity
  BY <1>1, <1>2, PosValue
<1>4. Pos(w, j) = IF h + j < Capacity THEN h + j ELSE h + j - Capacity
  BY <1>1, <1>2, PosValue
<1>5. (IF h + i < Capacity THEN h + i ELSE h + i - Capacity)
    = (IF h + j < Capacity THEN h + j ELSE h + j - Capacity)
  BY <1>3, <1>4
<1> QED
  BY <1>5, CapacityAssumption

\* Offset is the inverse of Pos.
LEMMA OffsetInverse ==
    ASSUME NEW w \in QueueType, NEW k \in Slots
    PROVE  /\ Offset(w, k) \in 0 .. Capacity - 1
           /\ Pos(w, Offset(w, k)) = k
           /\ \A i \in 0 .. Capacity - 1 : Pos(w, i) = k => i = Offset(w, k)
<1>1. w.head \in Slots
  BY DEF QueueType
<1>2. Offset(w, k) = IF k < w.head THEN Capacity + k - w.head ELSE k - w.head
  BY <1>1, WrapBack DEF Offset
<1>3. Offset(w, k) \in 0 .. Capacity - 1 /\ Offset(w, k) \in 0 .. Capacity
  BY <1>1, <1>2, CapacityAssumption DEF Slots
<1>4. Pos(w, Offset(w, k)) = IF w.head + Offset(w, k) < Capacity
                             THEN w.head + Offset(w, k)
                             ELSE w.head + Offset(w, k) - Capacity
  BY <1>3, PosValue
<1>5. Pos(w, Offset(w, k)) = k
  BY <1>1, <1>2, <1>4, CapacityAssumption DEF Slots
<1> QED
  BY <1>3, <1>5, PosInjective

\* tail is the slot after the last live item.
LEMMA TailIsPos ==
    ASSUME NEW w \in QueueType, Aligned(w)
    PROVE  w.tail = Pos(w, w.size)
<1>1. w.head \in Slots /\ w.size \in 0 .. Capacity
  BY DEF QueueType
<1> QED
  BY <1>1, Wrap DEF Aligned, Pos

\* Every live slot holds an item.
LEMMA LiveSlotHoldsItem ==
    ASSUME NEW w, RingOK(w), NEW i \in 0 .. w.size - 1
    PROVE  w.items[Pos(w, i)] \in Item
<1>1. /\ w \in QueueType /\ w.size \in 0 .. Capacity
      /\ w.head \in 0 .. Capacity - 1 /\ w.tail \in 0 .. Capacity - 1
  BY DEF RingOK, QueueType, Slots
<1>2. i \in 0 .. Capacity
  BY <1>1, CapacityAssumption
<1>3. /\ Pos(w, i) \in Slots
      /\ Pos(w, i) = IF w.head + i < Capacity THEN w.head + i
                                              ELSE w.head + i - Capacity
  BY <1>1, <1>2, PosValue
<1>4. CASE \A k \in Slots : w.items[k] \in Item
  BY <1>3, <1>4
<1>5. CASE /\ w.tail = w.head + w.size
           /\ \A k \in 0 .. w.tail - 1 : w.items[k] \in Item
  <2>1. Pos(w, i) \in 0 .. w.tail - 1
    BY <1>1, <1>2, <1>3, <1>5, CapacityAssumption
  <2> QED
    BY <1>5, <2>1
<1> QED
  BY <1>4, <1>5 DEF RingOK, Filled

-----------------------------------------------------------------------------
\* queue_init makes an empty list.
LEMMA InitOK == RingOK(queue_init) /\ Contents(queue_init) = << >>
<1> DEFINE w == queue_init
<1>1. w \in QueueType
  BY CapacityAssumption DEF queue_init, QueueType, Slots
<1>2. Aligned(w)
  BY CapacityAssumption DEF queue_init, Aligned
<1>3. Filled(w)
  BY DEF queue_init, Filled
<1>4. Contents(w) = << >>
  BY DEF queue_init, Contents
<1> QED
  BY <1>1, <1>2, <1>3, <1>4 DEF RingOK

\* What queue_enqueue does to a queue that is not full.
LEMMA EnqueueFields ==
    ASSUME NEW w, RingOK(w), NEW item \in Item, ~ queue_isfull(w)
    PROVE  LET r == queue_enqueue(w, item).q
           IN  /\ r \in QueueType
               /\ r.size = w.size + 1
               /\ r.head = w.head
               /\ r.tail = q_pos(w.tail + 1)
               /\ r.items = [w.items EXCEPT ![w.tail] = item]
               /\ w.size \in 0 .. Capacity - 1
<1> DEFINE r == queue_enqueue(w, item).q
<1>1. w \in QueueType
  BY DEF RingOK
<1>2. r = [w EXCEPT !.items[w.tail] = item, !.tail = q_pos(w.tail + 1),
                    !.size = w.size + 1]
  BY DEF queue_enqueue
<1>3. w.size \in 0 .. Capacity - 1
  BY <1>1, CapacityAssumption DEF QueueType, queue_isfull
<1>4. q_pos(w.tail + 1) \in Slots
  <2>1. w.tail \in Slots
    BY <1>1 DEF QueueType
  <2> QED
    BY <2>1, Neighbours
<1>5. [w.items EXCEPT ![w.tail] = item] \in [Slots -> Item \cup {Unset}]
  BY <1>1 DEF QueueType
<1>6. r = [size |-> w.size + 1, head |-> w.head, tail |-> q_pos(w.tail + 1),
           items |-> [w.items EXCEPT ![w.tail] = item]]
  BY <1>1, <1>2 DEF QueueType
<1> QED
  BY <1>1, <1>3, <1>4, <1>5, <1>6, CapacityAssumption DEF QueueType

\* queue_enqueue keeps the queue well formed.
LEMMA EnqueueOK ==
    ASSUME NEW w, RingOK(w), NEW item \in Item
    PROVE  RingOK(queue_enqueue(w, item).q)
<1> DEFINE r == queue_enqueue(w, item).q
<1>1. CASE queue_isfull(w)
  BY <1>1 DEF queue_enqueue
<1>2. CASE ~ queue_isfull(w)
  <2>1. /\ r \in QueueType /\ r.size = w.size + 1 /\ r.head = w.head
        /\ r.tail = q_pos(w.tail + 1)
        /\ r.items = [w.items EXCEPT ![w.tail] = item]
        /\ w.size \in 0 .. Capacity - 1
    BY <1>2, EnqueueFields
  <2>2. w \in QueueType /\ Aligned(w) /\ Filled(w)
    BY DEF RingOK
  <2>3. PICK h \in Slots, t \in Slots, s \in 0 .. Capacity - 1 :
             h = w.head /\ t = w.tail /\ s = w.size
    BY <2>1, <2>2 DEF QueueType
  <2>4. t = IF h + s < Capacity THEN h + s ELSE h + s - Capacity
    BY <2>2, <2>3, Wrap, CapacityAssumption DEF Aligned
  <2>5. r.tail = IF t + 1 < Capacity THEN t + 1 ELSE 0
    BY <2>1, <2>3, Neighbours
  <2>6. Aligned(r)
    <3>1. (h + (s + 1)) % Capacity = IF h + (s + 1) < Capacity
                                     THEN h + (s + 1)
                                     ELSE h + (s + 1) - Capacity
      <4>1. PICK b \in 0 .. Capacity : b = s + 1
        BY CapacityAssumption
      <4>2. (h + b) % Capacity = IF h + b < Capacity THEN h + b
                                                     ELSE h + b - Capacity
        BY Wrap
      <4> QED
        BY <4>1, <4>2
    <3> QED
      BY <2>1, <2>3, <2>4, <2>5, <3>1, CapacityAssumption DEF Aligned, Slots
  <2>7. Filled(r)
    <3>1. \A k \in Slots : r.items[k] = IF k = t THEN item ELSE w.items[k]
      BY <2>1, <2>2, <2>3 DEF QueueType
    <3>2. CASE \A k \in Slots : w.items[k] \in Item
      BY <3>1, <3>2 DEF Filled
    <3>3. CASE t = h + s /\ \A k \in 0 .. t - 1 : w.items[k] \in Item
      <4>1. \A k \in 0 .. t : r.items[k] \in Item
        BY <2>3, <3>1, <3>3, CapacityAssumption DEF Slots
      <4>2. CASE t + 1 < Capacity
        BY <2>1, <2>3, <2>5, <3>3, <4>1, <4>2, CapacityAssumption
        DEF Filled, Slots
      <4>3. CASE t + 1 >= Capacity
        BY <2>3, <4>1, <4>3, CapacityAssumption DEF Filled, Slots
      <4> QED
        BY <2>3, <4>2, <4>3, CapacityAssumption DEF Slots
    <3> QED
      BY <2>2, <2>3, <3>2, <3>3 DEF Filled
  <2> QED
    BY <2>1, <2>6, <2>7 DEF RingOK
<1> QED
  BY <1>1, <1>2

\* queue_enqueue appends to the list.
LEMMA EnqueueContents ==
    ASSUME NEW w, RingOK(w), NEW item \in Item, ~ queue_isfull(w)
    PROVE  LET r == queue_enqueue(w, item).q
           IN  /\ Contents(r) = Append(Contents(w), item)
               /\ \A i \in 0 .. w.size - 1 : r.items[Pos(r, i)] = w.items[Pos(w, i)]
               /\ r.items[Pos(r, w.size)] = item
               /\ Live(r) = Live(w) \cup {item}
<1> DEFINE r == queue_enqueue(w, item).q
<1>1. /\ r \in QueueType /\ r.size = w.size + 1 /\ r.head = w.head
      /\ r.items = [w.items EXCEPT ![w.tail] = item]
      /\ w.size \in 0 .. Capacity - 1
  BY EnqueueFields
<1>2. w \in QueueType /\ Aligned(w)
  BY DEF RingOK
<1>3. \A i : Pos(r, i) = Pos(w, i)
  BY <1>1 DEF Pos
<1>4. w.tail = Pos(w, w.size)
  BY <1>2, TailIsPos
<1>5. ASSUME NEW i \in 0 .. w.size - 1
      PROVE  r.items[Pos(r, i)] = w.items[Pos(w, i)]
  <2>1. /\ i \in 0 .. Capacity - 1 /\ i \in 0 .. Capacity
        /\ w.size \in 0 .. Capacity - 1 /\ i # w.size
    BY <1>1, CapacityAssumption
  <2>2. Pos(w, i) # w.tail
    BY <1>2, <1>4, <2>1, PosInjective
  <2>3. Pos(w, i) \in Slots
    BY <1>2, <2>1, PosValue
  <2> QED
    BY <1>1, <1>2, <1>3, <2>2, <2>3 DEF QueueType
<1>6. r.items[Pos(r, w.size)] = item
  BY <1>1, <1>2, <1>3, <1>4 DEF QueueType
<1>7. Contents(r) = Append(Contents(w), item)
  <2>1. \A k \in 1 .. w.size : k - 1 \in 0 .. w.size - 1
    BY <1>1, CapacityAssumption
  <2>2. \A k \in 1 .. w.size : r.items[Pos(r, k - 1)] = w.items[Pos(w, k - 1)]
    BY <1>5, <2>1
  <2>3. r.items[Pos(r, w.size + 1 - 1)] = item
    BY <1>1, <1>6, CapacityAssumption
  <2> HIDE DEF r
  <2>4. Contents(r) = [k \in 1 .. w.size + 1 |-> r.items[Pos(r, k - 1)]]
    BY <1>1 DEF Contents
  <2>5. /\ Contents(w) = [k \in 1 .. w.size |-> w.items[Pos(w, k - 1)]]
        /\ Len(Contents(w)) = w.size
    BY <1>1 DEF Contents
  <2>6. Append(Contents(w), item)
        = [k \in 1 .. w.size + 1 |->
             IF k = w.size + 1 THEN item ELSE Contents(w)[k]]
    BY <1>1, <2>5
  <2>7. \A k \in 1 .. w.size + 1 :
           r.items[Pos(r, k - 1)]
           = IF k = w.size + 1 THEN item ELSE Contents(w)[k]
    BY <1>1, <2>2, <2>3, <2>5
  <2> QED
    BY <2>4, <2>6, <2>7
<1>8. Live(r) = Live(w) \cup {item}
  <2>1. 0 .. r.size - 1 = (0 .. w.size - 1) \cup {w.size}
    BY <1>1
  <2> HIDE DEF r
  <2> QED
    BY <1>5, <1>6, <2>1 DEF Live
<1> QED
  BY <1>5, <1>6, <1>7, <1>8

\* What queue_dequeue does to a queue that is not empty.
LEMMA DequeueFields ==
    ASSUME NEW w, RingOK(w), ~ queue_isempty(w)
    PROVE  LET r == queue_dequeue(w).q
           IN  /\ r \in QueueType
               /\ w.size \in 1 .. Capacity
               /\ r.size = w.size - 1
               /\ r.head = q_pos(w.head + 1)
               /\ r.tail = w.tail
               /\ r.items = w.items
<1> DEFINE r == queue_dequeue(w).q
<1>1. w \in QueueType
  BY DEF RingOK
<1>2. w.head \in Slots /\ w.size \in 1 .. Capacity
  BY <1>1, CapacityAssumption DEF QueueType, queue_isempty
<1>3. q_pos(w.head + 1) \in Slots
  BY <1>2, Neighbours
<1>4. r = [size |-> w.size - 1, head |-> q_pos(w.head + 1), tail |-> w.tail,
           items |-> w.items]
  BY <1>1 DEF queue_dequeue, QueueType
<1> QED
  BY <1>1, <1>2, <1>3, <1>4, CapacityAssumption DEF QueueType

\* queue_dequeue keeps the queue well formed.
LEMMA DequeueOK ==
    ASSUME NEW w, RingOK(w)
    PROVE  RingOK(queue_dequeue(w).q)
<1> DEFINE r == queue_dequeue(w).q
<1>1. CASE queue_isempty(w)
  BY <1>1 DEF queue_dequeue
<1>2. CASE ~ queue_isempty(w)
  <2>1. /\ r \in QueueType /\ w.size \in 1 .. Capacity
        /\ r.size = w.size - 1 /\ r.head = q_pos(w.head + 1)
        /\ r.tail = w.tail /\ r.items = w.items
    BY <1>2, DequeueFields
  <2>2. w \in QueueType /\ Aligned(w) /\ Filled(w)
    BY DEF RingOK
  <2>3. PICK h \in Slots, t \in Slots, s \in 1 .. Capacity :
             h = w.head /\ t = w.tail /\ s = w.size
    BY <2>1, <2>2 DEF QueueType
  <2>4. t = IF h + s < Capacity THEN h + s ELSE h + s - Capacity
    BY <2>2, <2>3, Wrap, CapacityAssumption DEF Aligned
  <2>5. PICK g \in Slots, u \in 0 .. Capacity :
             /\ g = IF h + 1 < Capacity THEN h + 1 ELSE 0
             /\ g = r.head /\ u = s - 1 /\ u = r.size
    <3>1. /\ r.head \in Slots
          /\ r.head = IF h + 1 < Capacity THEN h + 1 ELSE 0
      BY <2>1, <2>3, Neighbours
    <3>2. s - 1 \in 0 .. Capacity /\ r.size = s - 1
      BY <2>1, <2>3, CapacityAssumption
    <3> QED
      BY <3>1, <3>2
  <2>6. Aligned(r)
    <3>1. (g + u) % Capacity = IF g + u < Capacity THEN g + u
                                                   ELSE g + u - Capacity
      BY Wrap
    <3>2. (g + u) % Capacity = t
      BY <2>4, <2>5, <3>1, CapacityAssumption DEF Slots
    <3> QED
      BY <2>1, <2>3, <2>5, <3>2 DEF Aligned
  <2>7. Filled(r)
    <3>1. CASE \A k \in Slots : w.items[k] \in Item
      BY <2>1, <3>1 DEF Filled
    <3>2. CASE t = h + s /\ \A k \in 0 .. t - 1 : w.items[k] \in Item
      <4>1. t = g + u
        BY <2>3, <2>5, <3>2, CapacityAssumption DEF Slots
      <4> QED
        BY <2>1, <2>3, <2>5, <3>2, <4>1 DEF Filled
    <3> QED
      BY <2>2, <2>3, <3>1, <3>2 DEF Filled
  <2> QED
    BY <2>1, <2>6, <2>7 DEF RingOK
<1> QED
  BY <1>1, <1>2

\* queue_dequeue returns the head of the list and leaves the tail.
LEMMA DequeueContents ==
    ASSUME NEW w, RingOK(w), ~ queue_isempty(w)
    PROVE  LET r == queue_dequeue(w).q
           IN  /\ queue_dequeue(w).ret = w.items[Pos(w, 0)]
               /\ queue_dequeue(w).ret \in Item
               /\ queue_dequeue(w).ret = Head(Contents(w))
               /\ \A i \in 0 .. r.size - 1 : r.items[Pos(r, i)] = w.items[Pos(w, i + 1)]
               /\ Contents(r) = Tail(Contents(w))
               /\ Contents(w) # << >>
<1> DEFINE r == queue_dequeue(w).q
<1>1. /\ r \in QueueType /\ w.size \in 1 .. Capacity
      /\ r.size = w.size - 1 /\ r.head = q_pos(w.head + 1)
      /\ r.items = w.items
  BY DequeueFields
<1>2. w \in QueueType /\ w.head \in Slots
  BY DEF RingOK, QueueType
<1>3. Pos(w, 0) = w.head
  <2>1. PICK h \in Slots, z \in 0 .. Capacity : h = w.head /\ z = 0
    BY <1>2, CapacityAssumption
  <2>2. Pos(w, z) = IF h + z < Capacity THEN h + z ELSE h + z - Capacity
    BY <1>2, <2>1, PosValue
  <2> QED
    BY <2>1, <2>2, CapacityAssumption DEF Slots
<1>4. queue_dequeue(w).ret = w.items[Pos(w, 0)]
  BY <1>3 DEF queue_dequeue
<1>5. queue_dequeue(w).ret \in Item
  <2>1. 0 \in 0 .. w.size - 1
    BY <1>1
  <2> QED
    BY <1>4, <2>1, LiveSlotHoldsItem
<1>6. ASSUME NEW i \in 0 .. r.size - 1
      PROVE  r.items[Pos(r, i)] = w.items[Pos(w, i + 1)]
  <2>1. PICK h \in Slots, j \in 0 .. Capacity - 1, m \in 0 .. Capacity :
             h = w.head /\ j = i /\ m = i + 1 /\ j \in 0 .. Capacity
    BY <1>1, <1>2, CapacityAssumption
  <2>2. Pos(w, m) = IF h + m < Capacity THEN h + m ELSE h + m - Capacity
    BY <1>2, <2>1, PosValue
  <2>3. PICK g \in Slots : /\ g = IF h + 1 < Capacity THEN h + 1 ELSE 0
                           /\ g = r.head
    BY <1>1, <2>1, Neighbours
  <2>4. Pos(r, j) = IF g + j < Capacity THEN g + j ELSE g + j - Capacity
    BY <1>1, <2>1, <2>3, PosValue
  <2>5. Pos(r, j) = Pos(w, m)
    BY <2>1, <2>2, <2>3, <2>4, CapacityAssumption DEF Slots
  <2> QED
    BY <1>1, <2>1, <2>5
<1> HIDE DEF r
<1>7. /\ Contents(w) = [k \in 1 .. w.size |-> w.items[Pos(w, k - 1)]]
      /\ Len(Contents(w)) = w.size
  BY <1>1 DEF Contents
<1>8. Contents(w) # << >> /\ Head(Contents(w)) = w.items[Pos(w, 0)]
  BY <1>1, <1>7
<1>9. Contents(r) = Tail(Contents(w))
  <2>1. Contents(r) = [k \in 1 .. w.size - 1 |-> r.items[Pos(r, k - 1)]]
    BY <1>1 DEF Contents
  <2>2. Tail(Contents(w)) = [k \in 1 .. w.size - 1 |-> Contents(w)[k + 1]]
    BY <1>1, <1>7
  <2>3. ASSUME NEW k \in 1 .. w.size - 1
        PROVE  r.items[Pos(r, k - 1)] = Contents(w)[k + 1]
    <3>1. PICK i \in 0 .. r.size - 1 : i = k - 1 /\ i + 1 = k
      BY <1>1
    <3>2. Contents(w)[k + 1] = w.items[Pos(w, k)]
      BY <1>1, <1>7
    <3> QED
      BY <1>6, <3>1, <3>2
  <2> QED
    BY <2>1, <2>2, <2>3
<1> QED
  BY <1>4, <1>5, <1>6, <1>8, <1>9 DEF r

-----------------------------------------------------------------------------
\* A set of natural numbers that is not empty has a least element.
LEMMA LeastMember ==
    ASSUME NEW S \in SUBSET Nat, S # {}
    PROVE  Min(S) \in S /\ \A y \in S : Min(S) <= y
<1>1. PICK x \in S : \A y \in S : ~ (<<y, x>> \in OpToRel(<, Nat))
  BY NatLessThanWellFounded, WFMin
<1>2. \A y \in S : x <= y
  <2> SUFFICES ASSUME NEW y \in S
               PROVE  x <= y
    OBVIOUS
  <2>1. <<y, x>> \notin {ss \in Nat \X Nat : ss[1] < ss[2]}
    BY <1>1 DEF OpToRel
  <2>2. ~ (y < x)
    BY <2>1
  <2> QED
    BY <2>2
<1> QED
  BY <1>2 DEF Min

\* The slot before the tail is that of the last live item.
LEMMA LastIsPos ==
    ASSUME NEW w \in QueueType, Aligned(w), ~ queue_isempty(w)
    PROVE  q_pos(w.tail - 1) = Pos(w, w.size - 1)
<1>1. PICK h \in Slots, t \in Slots, s \in 1 .. Capacity, l \in 0 .. Capacity :
           h = w.head /\ t = w.tail /\ s = w.size /\ l = s - 1
  BY CapacityAssumption DEF QueueType, queue_isempty
<1>2. t = IF h + s < Capacity THEN h + s ELSE h + s - Capacity
  BY <1>1, Wrap, CapacityAssumption DEF Aligned
<1>3. q_pos(t - 1) = IF t = 0 THEN Capacity - 1 ELSE t - 1
  BY Neighbours
<1>4. Pos(w, l) = IF h + l < Capacity THEN h + l ELSE h + l - Capacity
  BY <1>1, PosValue
<1>5. q_pos(t - 1) = Pos(w, l)
  BY <1>1, <1>2, <1>3, <1>4, CapacityAssumption DEF Slots
<1> QED
  BY <1>1, <1>5

\* The live places of an item.
Found(w, item) == {i \in 0 .. w.size - 1 : w.items[Pos(w, i)] = item}

\* What queue_requeue does to a queue that holds the item: the first
\* occurrence goes to the end of the list, the items behind it close up, and
\* head, tail and size stay.
LEMMA RequeueFields ==
    ASSUME NEW w, RingOK(w), NEW item \in Item, Found(w, item) # {}
    PROVE  LET r == queue_requeue(w, item).q
               m == Min(Found(w, item))
           IN  /\ m \in 0 .. w.size - 1
               /\ w.items[Pos(w, m)] = item
               /\ \A i \in 0 .. m - 1 : w.items[Pos(w, i)] # item
               /\ queue_requeue(w, item).ret = OK
               /\ r \in QueueType
               /\ r.size = w.size /\ r.head = w.head /\ r.tail = w.tail
               /\ \A k \in Slots :
                     r.items[k] =
                       IF k = Pos(w, w.size - 1) THEN item
                       ELSE IF Offset(w, k) \in m .. w.size - 2
                            THEN w.items[Pos(w, Offset(w, k) + 1)]
                            ELSE w.items[k]
<1> DEFINE r == queue_requeue(w, item).q
           m == Min(Found(w, item))
<1>1. w \in QueueType /\ Aligned(w) /\ w.size \in 0 .. Capacity
  BY DEF RingOK, QueueType
<1>2. Found(w, item) \in SUBSET Nat
  BY <1>1 DEF Found
<1>3. m \in Found(w, item) /\ \A y \in Found(w, item) : m <= y
  BY <1>2, LeastMember
<1>4. m \in 0 .. w.size - 1 /\ w.items[Pos(w, m)] = item
  BY <1>3 DEF Found
<1>5. \A i \in 0 .. m - 1 : w.items[Pos(w, i)] # item
  <2> SUFFICES ASSUME NEW i \in 0 .. m - 1, w.items[Pos(w, i)] = item
               PROVE  FALSE
    OBVIOUS
  <2>1. i \in 0 .. w.size - 1 /\ i < m
    BY <1>1, <1>4
  <2> QED
    BY <1>1, <1>3, <1>4, <2>1 DEF Found
<1>6. q_pos(w.tail - 1) = Pos(w, w.size - 1)
  BY <1>1, <1>4, LastIsPos DEF queue_isempty
<1>7. /\ queue_requeue(w, item).ret = OK
      /\ r = [w EXCEPT !.items = [ShiftFrom(w, m) EXCEPT ![Pos(w, w.size - 1)] = item]]
  BY <1>6 DEF queue_requeue, Found
<1>8. ASSUME NEW i \in 0 .. w.size - 2
      PROVE  w.items[Pos(w, i + 1)] \in Item
  <2>1. i + 1 \in 0 .. w.size - 1
    BY <1>1
  <2> QED
    BY <2>1, LiveSlotHoldsItem
<1> HIDE DEF m
<1>9. ShiftFrom(w, m) \in [Slots -> Item \cup {Unset}]
  <2> SUFFICES ASSUME NEW k \in Slots
               PROVE  (IF Offset(w, k) \in m .. w.size - 2
                       THEN w.items[Pos(w, Offset(w, k) + 1)]
                       ELSE w.items[k]) \in Item \cup {Unset}
    BY DEF ShiftFrom
  <2>1. w.items[k] \in Item \cup {Unset}
    BY <1>1 DEF QueueType
  <2>2. Offset(w, k) \in m .. w.size - 2 => Offset(w, k) \in 0 .. w.size - 2
    BY <1>1, <1>4
  <2> QED
    BY <1>8, <2>1, <2>2
<1>10. r = [size |-> w.size, head |-> w.head, tail |-> w.tail,
            items |-> [ShiftFrom(w, m) EXCEPT ![Pos(w, w.size - 1)] = item]]
  BY <1>1, <1>7 DEF QueueType
<1>11. /\ r \in QueueType
       /\ r.size = w.size /\ r.head = w.head /\ r.tail = w.tail
  <2>1. [ShiftFrom(w, m) EXCEPT ![Pos(w, w.size - 1)] = item]
        \in [Slots -> Item \cup {Unset}]
    BY <1>9
  <2>2. w.size \in 0 .. Capacity /\ w.head \in Slots /\ w.tail \in Slots
    BY <1>1 DEF QueueType
  <2> HIDE DEF r
  <2> QED
    BY <1>10, <2>1, <2>2 DEF QueueType
<1>12. ASSUME NEW k \in Slots
       PROVE  r.items[k] =
                IF k = Pos(w, w.size - 1) THEN item
                ELSE IF Offset(w, k) \in m .. w.size - 2
                     THEN w.items[Pos(w, Offset(w, k) + 1)]
                     ELSE w.items[k]
  <2>1. r.items[k] = IF k = Pos(w, w.size - 1) THEN item ELSE ShiftFrom(w, m)[k]
    BY <1>9, <1>10
  <2>2. ShiftFrom(w, m)[k] = IF Offset(w, k) \in m .. w.size - 2
                             THEN w.items[Pos(w, Offset(w, k) + 1)]
                             ELSE w.items[k]
    BY DEF ShiftFrom
  <2> QED
    BY <2>1, <2>2
<1> QED
  BY <1>4, <1>5, <1>7, <1>11, <1>12 DEF m

\* The list that queue_requeue leaves, place by place.
LEMMA RequeueLive ==
    ASSUME NEW w, RingOK(w), NEW item \in Item, Found(w, item) # {},
           NEW i \in 0 .. w.size - 1
    PROVE  LET r == queue_requeue(w, item).q
               m == Min(Found(w, item))
           IN  r.items[Pos(r, i)] = IF i = w.size - 1 THEN item
                                    ELSE IF i < m THEN w.items[Pos(w, i)]
                                    ELSE w.items[Pos(w, i + 1)]
<1> DEFINE r == queue_requeue(w, item).q
           m == Min(Found(w, item))
<1>1. /\ m \in 0 .. w.size - 1 /\ r.head = w.head
      /\ \A k \in Slots :
            r.items[k] = IF k = Pos(w, w.size - 1) THEN item
                         ELSE IF Offset(w, k) \in m .. w.size - 2
                              THEN w.items[Pos(w, Offset(w, k) + 1)]
                              ELSE w.items[k]
  BY RequeueFields
<1> HIDE DEF r, m
<1>2. w \in QueueType /\ w.size \in 0 .. Capacity
  BY DEF RingOK, QueueType
<1>3. /\ i \in 0 .. Capacity - 1 /\ i \in 0 .. Capacity
      /\ w.size - 1 \in 0 .. Capacity - 1
  BY <1>1, <1>2, CapacityAssumption
<1>4. Pos(w, i) \in Slots /\ Pos(r, i) = Pos(w, i)
  BY <1>1, <1>2, <1>3, PosValue DEF Pos
<1>5. Offset(w, Pos(w, i)) = i
  BY <1>2, <1>3, <1>4, OffsetInverse
<1>6. Pos(w, i) = Pos(w, w.size - 1) <=> i = w.size - 1
  BY <1>2, <1>3, PosInjective
<1>7. r.items[Pos(r, i)] =
        IF i = w.size - 1 THEN item
        ELSE IF i \in m .. w.size - 2 THEN w.items[Pos(w, i + 1)]
                                      ELSE w.items[Pos(w, i)]
  BY <1>1, <1>4, <1>5, <1>6
<1>8. i # w.size - 1 => (i \in m .. w.size - 2 <=> ~ (i < m))
  BY <1>1, <1>2
<1> QED
  BY <1>7, <1>8 DEF r, m

\* queue_requeue keeps the queue well formed.
LEMMA RequeueOK ==
    ASSUME NEW w, RingOK(w), NEW item \in Item
    PROVE  RingOK(queue_requeue(w, item).q)
<1> DEFINE r == queue_requeue(w, item).q
           m == Min(Found(w, item))
<1>1. CASE Found(w, item) = {}
  BY <1>1 DEF queue_requeue, Found
<1>2. CASE Found(w, item) # {}
  <2>1. /\ m \in 0 .. w.size - 1
        /\ r \in QueueType
        /\ r.size = w.size /\ r.head = w.head /\ r.tail = w.tail
        /\ \A k \in Slots :
              r.items[k] =
                IF k = Pos(w, w.size - 1) THEN item
                ELSE IF Offset(w, k) \in m .. w.size - 2
                     THEN w.items[Pos(w, Offset(w, k) + 1)]
                     ELSE w.items[k]
    BY <1>2, RequeueFields
  <2> HIDE DEF r, m
  <2>2. /\ w \in QueueType /\ Aligned(w) /\ Filled(w)
        /\ w.size \in 0 .. Capacity /\ w.tail \in Slots
    BY DEF RingOK, QueueType
  <2>3. ASSUME NEW k \in Slots, w.items[k] \in Item
        PROVE  r.items[k] \in Item
    <3>1. CASE Offset(w, k) \in m .. w.size - 2
      <4>1. Offset(w, k) + 1 \in 0 .. w.size - 1
        BY <2>1, <2>2, <3>1
      <4>2. w.items[Pos(w, Offset(w, k) + 1)] \in Item
        BY <4>1, LiveSlotHoldsItem
      <4> QED
        BY <2>1, <3>1, <4>2
    <3>2. CASE Offset(w, k) \notin m .. w.size - 2
      BY <2>1, <2>3, <3>2
    <3> QED
      BY <3>1, <3>2
  <2>4. Filled(r)
    <3>1. CASE \A k \in Slots : w.items[k] \in Item
      BY <2>3, <3>1 DEF Filled
    <3>2. CASE /\ w.tail = w.head + w.size
               /\ \A k \in 0 .. w.tail - 1 : w.items[k] \in Item
      <4>1. \A k \in 0 .. w.tail - 1 : k \in Slots
        BY <2>2, CapacityAssumption DEF Slots
      <4> QED
        BY <2>1, <2>3, <3>2, <4>1 DEF Filled
    <3> QED
      BY <2>2, <3>1, <3>2 DEF Filled
  <2> QED
    BY <2>1, <2>2, <2>4 DEF RingOK, Aligned, r
<1> QED
  BY <1>1, <1>2

\* The callback of queue_search sees written slots only: behind the tail the
\* scan is stopped, or the buffer has wrapped and is full of items.
LEMMA ScannedSlotsWritten ==
    ASSUME NEW w, RingOK(w), ~ queue_isempty(w), NEW i \in Scanned(w)
    PROVE  w.items[Pos(w, i)] \in Item
<1>1. PICK h \in Slots, t \in Slots, s \in 1 .. Capacity :
           h = w.head /\ t = w.tail /\ s = w.size
  BY CapacityAssumption DEF RingOK, QueueType, queue_isempty
<1>2. w \in QueueType /\ Filled(w)
  BY DEF RingOK
<1>3. /\ i \in 0 .. Capacity - 1 /\ i \in 0 .. Capacity
      /\ \A j \in 0 .. i - 1 : Pos(w, j) # t - 1
  BY <1>1, CapacityAssumption DEF Scanned
<1>4. CASE \A k \in Slots : w.items[k] \in Item
  BY <1>2, <1>3, <1>4, PosValue
<1>5. CASE t = h + s /\ \A k \in 0 .. t - 1 : w.items[k] \in Item
  <2>1. i \in 0 .. s - 1
    <3> SUFFICES ASSUME s <= i
                 PROVE  FALSE
      BY <1>1, <1>3
    <3>1. PICK l \in 0 .. Capacity : l = s - 1 /\ l \in 0 .. i - 1
      <4>1. s - 1 \in 0 .. Capacity /\ s - 1 \in 0 .. i - 1
        BY <1>3, CapacityAssumption
      <4> QED
        BY <4>1
    <3>2. Pos(w, l) = IF h + l < Capacity THEN h + l ELSE h + l - Capacity
      BY <1>1, <1>2, <3>1, PosValue
    <3>3. Pos(w, l) = t - 1
      BY <1>1, <1>5, <3>1, <3>2, CapacityAssumption DEF Slots
    <3> QED
      BY <1>3, <3>1, <3>3
  <2> QED
    BY <1>1, <2>1, LiveSlotHoldsItem
<1> QED
  BY <1>1, <1>2, <1>4, <1>5 DEF Filled

\* The scan of queue_search reaches every live item.
LEMMA LiveScanned ==
    ASSUME NEW w, RingOK(w), NEW i \in 0 .. w.size - 1
    PROVE  i \in Scanned(w)
<1>1. PICK h \in Slots, t \in Slots, s \in 1 .. Capacity :
           h = w.head /\ t = w.tail /\ s = w.size
  BY CapacityAssumption DEF RingOK, QueueType
<1>2. w \in QueueType /\ Aligned(w) /\ ~ queue_isempty(w)
  BY <1>1 DEF RingOK, queue_isempty
<1>3. ASSUME NEW j \in 0 .. i - 1, Pos(w, j) = t - 1
      PROVE  FALSE
  <2>1. PICK l \in 0 .. Capacity - 1 : l = s - 1
    BY CapacityAssumption
  <2>2. j \in 0 .. Capacity - 1 /\ j # l /\ j \in 0 .. Capacity
    BY <1>1, <2>1, CapacityAssumption
  <2>3. Pos(w, j) \in Slots
    BY <1>2, <2>2, PosValue
  <2>4. t # 0
    BY <1>3, <2>3, CapacityAssumption DEF Slots
  <2>5. q_pos(t - 1) = t - 1
    BY <2>4, Neighbours
  <2>6. q_pos(t - 1) = Pos(w, l)
    BY <1>1, <1>2, <2>1, LastIsPos
  <2>7. Pos(w, j) = Pos(w, l)
    BY <1>3, <2>5, <2>6
  <2> QED
    BY <1>2, <2>1, <2>2, <2>7, PosInjective
<1>4. i \in 0 .. Capacity - 1
  BY <1>1, CapacityAssumption
<1> QED
  BY <1>1, <1>3, <1>4 DEF Scanned

\* queue_search returns the oldest live item that matches, if there is one,
\* and otherwise NULL or a stale item that matches.
LEMMA SearchResult ==
    ASSUME NEW w, RingOK(w), NEW hits \in SUBSET Item
    PROVE  LET live == {i \in 0 .. w.size - 1 : w.items[Pos(w, i)] \in hits}
           IN  IF live = {} THEN queue_search(w, hits) \in hits \cup {NULL}
                            ELSE queue_search(w, hits) = w.items[Pos(w, Min(live))]
<1> DEFINE live == {i \in 0 .. w.size - 1 : w.items[Pos(w, i)] \in hits}
           found == {i \in Scanned(w) : w.items[Pos(w, i)] \in hits}
<1>1. w.size \in 0 .. Capacity
  BY DEF RingOK, QueueType
<1>2. live \in SUBSET Nat /\ found \in SUBSET Nat
  BY <1>1, CapacityAssumption DEF Scanned
<1>3. live \subseteq found
  BY LiveScanned
<1>4. queue_search(w, hits) =
        IF queue_isempty(w) \/ found = {} THEN NULL
                                          ELSE w.items[Pos(w, Min(found))]
  BY DEF queue_search
<1> HIDE DEF found
<1>5. CASE live = {}
  <2>1. found # {} => Min(found) \in found
    BY <1>2, LeastMember
  <2>2. found # {} => w.items[Pos(w, Min(found))] \in hits
    BY <2>1 DEF found
  <2> QED
    BY <1>4, <1>5, <2>2
<1>6. CASE live # {}
  <2>1. ~ queue_isempty(w)
    BY <1>1, <1>6 DEF queue_isempty
  <2>2. Min(live) \in live /\ \A y \in live : Min(live) <= y
    BY <1>2, <1>6, LeastMember
  <2>3. Min(found) \in found /\ \A y \in found : Min(found) <= y
    BY <1>2, <1>3, <1>6, LeastMember
  <2> DEFINE a == Min(live)
             b == Min(found)
  <2> HIDE DEF a, b
  <2>4. a \in live /\ b \in found /\ b <= a
    BY <1>3, <2>2, <2>3 DEF a, b
  <2>5. b \in 0 .. w.size - 1
    BY <1>1, <1>2, <2>4
  <2>6. b \in live
    BY <2>4, <2>5 DEF found
  <2>7. a = b
    BY <1>2, <2>2, <2>4, <2>6 DEF a
  <2> QED
    BY <1>4, <1>3, <1>6, <2>1, <2>7 DEF a, b
<1> QED
  BY <1>5, <1>6
-----------------------------------------------------------------------------
\* The list of live items as a sequence.
LEMMA ContentsShape ==
    ASSUME NEW w, RingOK(w)
    PROVE  /\ w.size \in 0 .. Capacity
           /\ Contents(w) \in Seq(Item)
           /\ Len(Contents(w)) = w.size
           /\ \A k \in 1 .. w.size : Contents(w)[k] = w.items[Pos(w, k - 1)]
<1>1. w.size \in 0 .. Capacity
  BY DEF RingOK, QueueType
<1>2. \A k \in 1 .. w.size : w.items[Pos(w, k - 1)] \in Item
  <2> SUFFICES ASSUME NEW k \in 1 .. w.size
               PROVE  w.items[Pos(w, k - 1)] \in Item
    OBVIOUS
  <2>1. k - 1 \in 0 .. w.size - 1
    BY <1>1
  <2> QED
    BY <2>1, LiveSlotHoldsItem
<1> QED
  BY <1>1, <1>2 DEF Contents

\* The places of the list that match are the live slots that match.
LEMMA PlacesAreLive ==
    ASSUME NEW w, RingOK(w), NEW hits
    PROVE  LET live == {i \in 0 .. w.size - 1 : w.items[Pos(w, i)] \in hits}
               places == {k \in 1 .. Len(Contents(w)) : Contents(w)[k] \in hits}
           IN  /\ places = {} <=> live = {}
               /\ live # {} => Min(places) = Min(live) + 1
<1> DEFINE live == {i \in 0 .. w.size - 1 : w.items[Pos(w, i)] \in hits}
           places == {k \in 1 .. Len(Contents(w)) : Contents(w)[k] \in hits}
<1>1. places = {k \in 1 .. w.size : w.items[Pos(w, k - 1)] \in hits}
  BY ContentsShape
<1>2. w.size \in Nat
  BY ContentsShape
<1>3. \A i \in live : i + 1 \in places
  <2> SUFFICES ASSUME NEW i \in live
               PROVE  i + 1 \in places
    OBVIOUS
  <2>1. i + 1 \in 1 .. w.size /\ (i + 1) - 1 = i
    BY <1>2
  <2> QED
    BY <1>1, <2>1
<1>4. \A k \in places : k - 1 \in live
  <2> SUFFICES ASSUME NEW k \in places
               PROVE  k - 1 \in live
    OBVIOUS
  <2>1. k \in 1 .. w.size /\ k - 1 \in 0 .. w.size - 1
    BY <1>1, <1>2
  <2> QED
    BY <1>1, <2>1
<1>5. live \in SUBSET Nat /\ places \in SUBSET Nat
  BY <1>1, <1>2
<1> HIDE DEF live, places
<1>6. places = {} <=> live = {}
  BY <1>3, <1>4
<1>7. ASSUME live # {}
      PROVE  Min(places) = Min(live) + 1
  <2>1. PICK a \in Nat : a = Min(live) /\ a \in live /\ \A y \in live : a <= y
    BY <1>5, <1>7, LeastMember
  <2>2. PICK b \in Nat : b = Min(places) /\ b \in places /\ \A y \in places : b <= y
    BY <1>5, <1>6, <1>7, LeastMember
  <2>3. b <= a + 1 /\ a <= b - 1
    BY <1>3, <1>4, <2>1, <2>2
  <2> QED
    BY <2>1, <2>2, <2>3
<1> QED
  BY <1>6, <1>7 DEF live, places

\* queue_requeue takes the first occurrence out of the list of live items
\* and appends it.
LEMMA RequeueContents ==
    ASSUME NEW w, RingOK(w), NEW x \in Item, Found(w, x) # {}
    PROVE  Contents(queue_requeue(w, x).q)
           = Append(RemoveAt(Contents(w), Min(Found(w, x)) + 1), x)
<1> DEFINE c == Contents(w)
           n == w.size
           m == Min(Found(w, x))
           r == queue_requeue(w, x).q
<1>1. /\ RingOK(w) /\ n \in Nat /\ c \in Seq(Item) /\ Len(c) = n
      /\ \A k \in 1 .. n : c[k] = w.items[Pos(w, k - 1)]
  BY ContentsShape
<1>2. /\ m \in 0 .. n - 1 /\ r.size = n
  BY <1>1, RequeueFields
<1>3. \A i \in 0 .. n - 1 :
         r.items[Pos(r, i)] = IF i = n - 1 THEN x
                                ELSE IF i < m THEN w.items[Pos(w, i)]
                                ELSE w.items[Pos(w, i + 1)]
  BY <1>1, RequeueFields, RequeueLive
<1> HIDE DEF m, n, c, r
<1>4. Contents(r) = [k \in 1 .. n |-> IF k = n THEN x
                                       ELSE IF k <= m THEN c[k]
                                       ELSE c[k + 1]]
  <2>1. ASSUME NEW k \in 1 .. n
        PROVE  r.items[Pos(r, k - 1)] = IF k = n THEN x
                                          ELSE IF k <= m THEN c[k]
                                          ELSE c[k + 1]
    <3>1. PICK i \in 0 .. n - 1 : i = k - 1 /\ i + 1 = k
      BY <1>1
    <3>2. k # n => c[k + 1] = w.items[Pos(w, k)]
      <4>1. k # n => k + 1 \in 1 .. n /\ (k + 1) - 1 = k
        BY <1>1
      <4> QED
        BY <1>1, <4>1
    <3>3. (i = n - 1 <=> k = n) /\ (i < m <=> k <= m)
      BY <1>1, <1>2, <3>1
    <3> QED
      BY <1>1, <1>3, <3>1, <3>2, <3>3
  <2> QED
    BY <1>2, <2>1 DEF Contents
<1>5. Append(RemoveAt(c, m + 1), x)
      = [k \in 1 .. n |-> IF k = n THEN x
                          ELSE IF k <= m THEN c[k]
                          ELSE c[k + 1]]
  <2>1. /\ SubSeq(c, 1, m) \in Seq(Item) /\ Len(SubSeq(c, 1, m)) = m
        /\ \A k \in 1 .. m : SubSeq(c, 1, m)[k] = c[k]
    BY <1>1, <1>2
  <2>2. /\ SubSeq(c, m + 2, n) \in Seq(Item)
        /\ Len(SubSeq(c, m + 2, n)) = n - m - 1
        /\ \A k \in 1 .. n - m - 1 : SubSeq(c, m + 2, n)[k] = c[k + m + 1]
    BY <1>1, <1>2
  <2>3. RemoveAt(c, m + 1) = SubSeq(c, 1, m) \o SubSeq(c, m + 2, n)
    BY <1>1, <1>2 DEF RemoveAt
  <2>4. /\ RemoveAt(c, m + 1) \in Seq(Item)
        /\ Len(RemoveAt(c, m + 1)) = n - 1
        /\ \A k \in 1 .. n - 1 :
              RemoveAt(c, m + 1)[k] = IF k <= m THEN c[k] ELSE c[k + 1]
    <3> DEFINE a == SubSeq(c, 1, m)
               b == SubSeq(c, m + 2, n)
    <3>1. /\ a \in Seq(Item) /\ Len(a) = m
          /\ b \in Seq(Item) /\ Len(b) = n - m - 1
      BY <2>1, <2>2
    <3>2. ASSUME NEW k \in 1 .. n - 1
          PROVE  (a \o b)[k] = IF k <= m THEN c[k] ELSE c[k + 1]
      <4>1. CASE k <= m
        BY <1>1, <1>2, <2>1, <3>1, <4>1
      <4>2. CASE ~ (k <= m)
        <5>1. k - m \in 1 .. n - m - 1 /\ (k - m) + m + 1 = k + 1
          BY <1>1, <1>2, <4>2
        <5>2. b[k - m] = c[k + 1]
          BY <2>2, <5>1
        <5> HIDE DEF a, b
        <5>3. k \in 1 .. Len(a) + Len(b) /\ k > Len(a) /\ k - Len(a) = k - m
          BY <1>1, <1>2, <3>1, <4>2
        <5>4. (a \o b)[k] = b[k - Len(a)]
          BY <3>1, <5>3
        <5> QED
          BY <4>2, <5>2, <5>3, <5>4
      <4> QED
        BY <4>1, <4>2
    <3> HIDE DEF a, b
    <3>3. (a \o b) \in Seq(Item) /\ Len(a \o b) = n - 1
      <4>1. (a \o b) \in Seq(Item) /\ Len(a \o b) = Len(a) + Len(b)
        BY <3>1
      <4> QED
        BY <1>1, <1>2, <3>1, <4>1
    <3> QED
      BY <2>3, <3>2, <3>3 DEF a, b
  <2> QED
    BY <1>1, <1>2, <2>4
<1>6. Contents(r) = Append(RemoveAt(c, m + 1), x)
  BY <1>4, <1>5
<1> QED
  BY <1>6 DEF c, m, r

\* queue_search returns an item or NULL.
LEMMA SearchType ==
    ASSUME NEW w, RingOK(w), NEW hits \in SUBSET Item
    PROVE  queue_search(w, hits) \in Item \cup {NULL}
<1> DEFINE live == {i \in 0 .. w.size - 1 : w.items[Pos(w, i)] \in hits}
<1>1. w.size \in 0 .. Capacity
  BY DEF RingOK, QueueType
<1>2. CASE live = {}
  BY <1>2, SearchResult
<1>3. CASE live # {}
  <2>1. Min(live) \in live
    BY <1>1, <1>3, LeastMember
  <2> QED
    BY <1>3, <2>1, SearchResult
<1> QED
  BY <1>2, <1>3

\* The members of the list are the live items.
LEMMA ContentsAreLive ==
    ASSUME NEW w, RingOK(w)
    PROVE  {Contents(w)[k] : k \in 1 .. Len(Contents(w))} = Live(w)
<1>1. /\ w.size \in Nat /\ Len(Contents(w)) = w.size
      /\ \A k \in 1 .. w.size : Contents(w)[k] = w.items[Pos(w, k - 1)]
  BY ContentsShape
<1>2. ASSUME NEW k \in 1 .. w.size
      PROVE  Contents(w)[k] \in Live(w)
  <2>1. k - 1 \in 0 .. w.size - 1
    BY <1>1
  <2> QED
    BY <1>1, <2>1 DEF Live
<1>3. ASSUME NEW i \in 0 .. w.size - 1
      PROVE  \E k \in 1 .. w.size : Contents(w)[k] = w.items[Pos(w, i)]
  <2>1. i + 1 \in 1 .. w.size /\ (i + 1) - 1 = i
    BY <1>1
  <2> QED
    BY <1>1, <2>1
<1> QED
  BY <1>1, <1>2, <1>3 DEF Live

\* No two live slots hold the same item.
Distinct(w) ==
    \A i, j \in 0 .. w.size - 1 :
       w.items[Pos(w, i)] = w.items[Pos(w, j)] => i = j

LEMMA EnqueueDistinct ==
    ASSUME NEW w, RingOK(w), Distinct(w), ~ queue_isfull(w),
           NEW x \in Item, x \notin Live(w)
    PROVE  Distinct(queue_enqueue(w, x).q)
<1> DEFINE r == queue_enqueue(w, x).q
<1>1. /\ r.size = w.size + 1 /\ w.size \in 0 .. Capacity
      /\ \A i \in 0 .. w.size - 1 : r.items[Pos(r, i)] = w.items[Pos(w, i)]
      /\ r.items[Pos(r, w.size)] = x
  <2>1. r.size = w.size + 1
    BY EnqueueFields
  <2>2. w.size \in 0 .. Capacity
    BY ContentsShape
  <2>3. /\ \A i \in 0 .. w.size - 1 : r.items[Pos(r, i)] = w.items[Pos(w, i)]
        /\ r.items[Pos(r, w.size)] = x
    BY EnqueueContents
  <2> QED
    BY <2>1, <2>2, <2>3
<1> HIDE DEF r
<1>2. ASSUME NEW i \in 0 .. r.size - 1, NEW j \in 0 .. r.size - 1,
             r.items[Pos(r, i)] = r.items[Pos(r, j)]
      PROVE  i = j
  <2>1. /\ i \in 0 .. w.size - 1 \/ i = w.size
        /\ j \in 0 .. w.size - 1 \/ j = w.size
    BY <1>1
  <2>2. \A k \in 0 .. w.size - 1 : r.items[Pos(r, k)] # x
    BY <1>1 DEF Live
  <2> QED
    BY <1>1, <1>2, <2>1, <2>2 DEF Distinct
<1> QED
  BY <1>2 DEF Distinct, r

LEMMA DequeueDistinct ==
    ASSUME NEW w, RingOK(w), Distinct(w), ~ queue_isempty(w)
    PROVE  LET r == queue_dequeue(w).q
               x == queue_dequeue(w).ret
           IN  /\ Distinct(r)
               /\ x \in Live(w) /\ Live(r) = Live(w) \ {x}
<1> DEFINE r == queue_dequeue(w).q
           x == queue_dequeue(w).ret
<1>1. /\ w.size \in 1 .. Capacity /\ r.size = w.size - 1
      /\ \A i \in 0 .. r.size - 1 : r.items[Pos(r, i)] = w.items[Pos(w, i + 1)]
      /\ x = w.items[Pos(w, 0)]
  BY DequeueFields, DequeueContents
<1> HIDE DEF r, x
<1>2. 0 \in 0 .. w.size - 1
  BY <1>1
<1>3. ASSUME NEW i \in 0 .. r.size - 1
      PROVE  /\ i + 1 \in 0 .. w.size - 1 /\ i + 1 # 0
             /\ r.items[Pos(r, i)] = w.items[Pos(w, i + 1)]
  BY <1>1
<1>4. ASSUME NEW i \in 0 .. r.size - 1, NEW j \in 0 .. r.size - 1,
             r.items[Pos(r, i)] = r.items[Pos(r, j)]
      PROVE  i = j
  <2>1. i + 1 = j + 1
    BY <1>3, <1>4 DEF Distinct
  <2> QED
    BY <1>1, <2>1
<1>5. x \in Live(w) /\ Live(r) \subseteq Live(w) \ {x}
  <2>1. x \in Live(w) /\ Live(r) \subseteq Live(w)
    BY <1>1, <1>2, <1>3 DEF Live
  <2>2. ASSUME NEW i \in 0 .. r.size - 1
        PROVE  r.items[Pos(r, i)] # x
    BY <1>1, <1>2, <1>3 DEF Distinct
  <2> QED
    BY <2>1, <2>2 DEF Live
<1>6. Live(w) \ {x} \subseteq Live(r)
  <2> SUFFICES ASSUME NEW k \in 0 .. w.size - 1, w.items[Pos(w, k)] # x
               PROVE  w.items[Pos(w, k)] \in Live(r)
    BY DEF Live
  <2>1. k - 1 \in 0 .. r.size - 1 /\ (k - 1) + 1 = k
    BY <1>1
  <2> QED
    BY <1>1, <2>1 DEF Live
<1> QED
  BY <1>4, <1>5, <1>6 DEF Distinct, r, x

\* queue_requeue permutes the live items.
LEMMA RequeueDistinct ==
    ASSUME NEW w, RingOK(w), Distinct(w), NEW x \in Item, Found(w, x) # {}
    PROVE  LET r == queue_requeue(w, x).q
           IN  Distinct(r) /\ Live(r) = Live(w)
<1> DEFINE r == queue_requeue(w, x).q
           m == Min(Found(w, x))
           n == w.size
           src(i) == IF i = n - 1 THEN m ELSE IF i < m THEN i ELSE i + 1
<1>1. /\ m \in 0 .. n - 1 /\ n \in 0 .. Capacity /\ r.size = n
      /\ w.items[Pos(w, m)] = x
  BY RequeueFields DEF RingOK, QueueType
<1>2. \A i \in 0 .. n - 1 :
         r.items[Pos(r, i)] = IF i = n - 1 THEN x
                              ELSE IF i < m THEN w.items[Pos(w, i)]
                              ELSE w.items[Pos(w, i + 1)]
  BY RequeueLive
<1> HIDE DEF m, r, n
<1>3. \A i \in 0 .. n - 1 : r.items[Pos(r, i)] = w.items[Pos(w, src(i))]
  BY <1>1, <1>2
<1>4. /\ \A i \in 0 .. n - 1 : src(i) \in 0 .. n - 1
      /\ \A i, j \in 0 .. n - 1 : src(i) = src(j) => i = j
      /\ \A k \in 0 .. n - 1 : \E i \in 0 .. n - 1 : src(i) = k
  <2>1. \A i \in 0 .. n - 1 : src(i) \in 0 .. n - 1
    BY <1>1
  <2>2. \A i, j \in 0 .. n - 1 : src(i) = src(j) => i = j
    BY <1>1
  <2>3. ASSUME NEW k \in 0 .. n - 1
        PROVE  \E i \in 0 .. n - 1 : src(i) = k
    <3>1. CASE k = m
      <4>1. n - 1 \in 0 .. n - 1 /\ src(n - 1) = k
        BY <1>1, <3>1
      <4> QED
        BY <4>1
    <3>2. CASE k < m
      <4>1. src(k) = k
        BY <1>1, <3>2
      <4> QED
        BY <4>1
    <3>3. CASE m < k
      <4>1. k - 1 \in 0 .. n - 1 /\ src(k - 1) = k
        BY <1>1, <3>3
      <4> QED
        BY <4>1
    <3> QED
      BY <1>1, <3>1, <3>2, <3>3
  <2> QED
    BY <2>1, <2>2, <2>3
<1> HIDE DEF src
<1>5. \A i, j \in 0 .. n - 1 :
         w.items[Pos(w, i)] = w.items[Pos(w, j)] => i = j
  BY DEF Distinct, n
<1>6. Distinct(r)
  <2>1. ASSUME NEW i \in 0 .. n - 1, NEW j \in 0 .. n - 1,
               r.items[Pos(r, i)] = r.items[Pos(r, j)]
        PROVE  i = j
    <3>1. src(i) \in 0 .. n - 1 /\ src(j) \in 0 .. n - 1
      BY <1>4
    <3>2. w.items[Pos(w, src(i))] = w.items[Pos(w, src(j))]
      BY <1>3, <2>1
    <3>3. src(i) = src(j)
      BY <1>5, <3>1, <3>2
    <3> QED
      BY <1>4, <3>3
  <2> QED
    BY <1>1, <2>1 DEF Distinct
<1>7. Live(r) = Live(w)
  <2>1. /\ Live(r) = {r.items[Pos(r, i)] : i \in 0 .. n - 1}
        /\ Live(w) = {w.items[Pos(w, i)] : i \in 0 .. n - 1}
    BY <1>1 DEF Live, n
  <2> QED
    BY <1>3, <1>4, <2>1
<1> QED
  BY <1>6, <1>7 DEF r

\* An item can be requeued exactly when it is live.
LEMMA FoundIsLive ==
    ASSUME NEW w, NEW x
    PROVE  Found(w, x) # {} <=> x \in Live(w)
  BY DEF Found, Live

-----------------------------------------------------------------------------
\* The inductive invariant: the indices agree, and the slots that no
\* enqueue has written yet lie behind the tail of a buffer that has not
\* wrapped.  RingTypeOK alone says nothing of the slots a search may read.
RingInv == RingOK(ring) /\ result \in Item \cup {NULL, OK, Failed}

LEMMA InitRingInv == RingInit => RingInv
  BY InitOK DEF RingInit, RingInv

LEMMA NextRingInv == RingInv /\ [RingNext]_ring_vars => RingInv'
<1> SUFFICES ASSUME RingInv, [RingNext]_ring_vars
             PROVE  RingInv'
  OBVIOUS
<1> USE DEF RingInv
<1>1. ASSUME NEW x \in Item, Enqueue(x)
      PROVE  RingInv'
  <2>1. queue_enqueue(ring, x).ret \in {OK, Failed}
    BY DEF queue_enqueue
  <2> QED
    BY <1>1, <2>1, EnqueueOK DEF Enqueue
<1>2. ASSUME Dequeue
      PROVE  RingInv'
  <2>1. queue_dequeue(ring).ret \in Item \cup {NULL}
    <3>1. CASE queue_isempty(ring)
      BY <3>1 DEF queue_dequeue
    <3>2. CASE ~ queue_isempty(ring)
      BY <3>2, DequeueContents
    <3> QED
      BY <3>1, <3>2
  <2> QED
    BY <1>2, <2>1, DequeueOK DEF Dequeue
<1>3. ASSUME NEW x \in Item, Requeue(x)
      PROVE  RingInv'
  <2>1. queue_requeue(ring, x).ret \in {OK, Failed}
    BY DEF queue_requeue
  <2> QED
    BY <1>3, <2>1, RequeueOK DEF Requeue
<1>4. ASSUME NEW hits \in SUBSET Item, Find(hits)
      PROVE  RingInv'
  <2>1. queue_search(ring, hits) \in Item \cup {NULL}
    BY SearchType
  <2> QED
    BY <1>4, <2>1 DEF Find
<1>5. ASSUME UNCHANGED ring_vars
      PROVE  RingInv'
  BY <1>5 DEF ring_vars
<1> QED
  BY <1>1, <1>2, <1>3, <1>4, <1>5 DEF RingNext

\* The queue is well formed in every reachable state.
THEOREM AlwaysRingInv == RingSpec => []RingInv
  BY InitRingInv, NextRingInv, PTL DEF RingSpec

\* The fields of the queue stay in range, whatever is called.
THEOREM RingTypeCorrect == RingSpec => []RingTypeOK
<1>1. RingInv => RingTypeOK
  BY DEF RingInv, RingTypeOK, RingOK
<1> QED
  BY <1>1, AlwaysRingInv, PTL

\* head, tail and size agree through every wrap and every requeue.
THEOREM IndicesAlwaysAgree == RingSpec => []IndicesAgree
<1>1. RingInv => IndicesAgree
  BY DEF RingInv, IndicesAgree, RingOK
<1> QED
  BY <1>1, AlwaysRingInv, PTL

\* A search never shows its callback memory that nobody wrote, for any
\* capacity: the scan that runs past the tail does so after a wrap only.
THEOREM SearchIsInitialised == RingSpec => []SearchReadsWrittenSlots
<1>1. RingInv => SearchReadsWrittenSlots
  BY ScannedSlotsWritten, ItemAssumption DEF RingInv, SearchReadsWrittenSlots
<1> QED
  BY <1>1, AlwaysRingInv, PTL

-----------------------------------------------------------------------------
(***************************************************************************)
(* The refinement: each call on the buffer is the call of the same name on *)
(* the list.                                                               *)
(***************************************************************************)
\* The places of the list that match are the live slots that match.
LEMMA PlacesOfList ==
    ASSUME RingOK(ring), NEW hits
    PROVE  LET live == {i \in 0 .. ring.size - 1 : ring.items[Pos(ring, i)] \in hits}
           IN  /\ List!Places(hits) = {} <=> live = {}
               /\ live # {} => Min(List!Places(hits)) = Min(live) + 1
  BY PlacesAreLive DEF List!Places

\* The instance brings its own copies of two library operators.
LEMMA ListOperators ==
    /\ \A S : List!Min(S) = Min(S)
    /\ \A s, i : List!RemoveAt(s, i) = RemoveAt(s, i)
  BY DEF List!Min, Min, List!RemoveAt, RemoveAt

LEMMA EnqueueRefines ==
    ASSUME RingInv, NEW x \in Item, Enqueue(x)
    PROVE  List!Enqueue(x)
<1>1. RingOK(ring) /\ Len(Contents(ring)) = ring.size
  BY ContentsShape DEF RingInv
<1>2. CASE queue_isfull(ring)
  BY <1>1, <1>2 DEF Enqueue, List!Enqueue, queue_enqueue, queue_isfull, Failed,
                    List!Failed
<1>3. CASE ~ queue_isfull(ring)
  <2>1. Contents(ring') = Append(Contents(ring), x)
    BY <1>1, <1>3, EnqueueContents DEF Enqueue
  <2>2. result' = OK
    BY <1>3 DEF Enqueue, queue_enqueue
  <2> QED
    BY <1>1, <1>3, <2>1, <2>2 DEF List!Enqueue, queue_isfull, OK, List!OK
<1> QED
  BY <1>2, <1>3

LEMMA DequeueRefines ==
    ASSUME RingInv, Dequeue
    PROVE  List!Dequeue
<1>1. RingOK(ring) /\ Len(Contents(ring)) = ring.size
  BY ContentsShape DEF RingInv
<1>2. CASE queue_isempty(ring)
  <2>1. Contents(ring) = << >>
    BY <1>1, <1>2, ContentsShape DEF queue_isempty
  <2> QED
    BY <1>2, <2>1 DEF Dequeue, List!Dequeue, queue_dequeue
<1>3. CASE ~ queue_isempty(ring)
  BY <1>1, <1>3, DequeueContents DEF Dequeue, List!Dequeue
<1> QED
  BY <1>2, <1>3

LEMMA RequeueRefines ==
    ASSUME RingInv, NEW x \in Item, Requeue(x)
    PROVE  List!Requeue(x)
<1> DEFINE c == Contents(ring)
           n == ring.size
           m == Min(Found(ring, x))
<1>1. /\ RingOK(ring) /\ n \in Nat /\ c \in Seq(Item) /\ Len(c) = n
      /\ \A k \in 1 .. n : c[k] = ring.items[Pos(ring, k - 1)]
  BY ContentsShape DEF RingInv
<1>2. Found(ring, x) = {i \in 0 .. ring.size - 1 : ring.items[Pos(ring, i)] \in {x}}
  BY DEF Found
<1>3. CASE Found(ring, x) = {}
  <2>1. List!Places({x}) = {}
    BY <1>1, <1>2, <1>3, PlacesOfList
  <2> QED
    BY <1>3, <2>1 DEF Requeue, List!Requeue, queue_requeue, Found, Failed,
                      List!Failed
<1>4. CASE Found(ring, x) # {}
  <2>1. List!Places({x}) # {} /\ Min(List!Places({x})) = m + 1
    BY <1>1, <1>2, <1>4, PlacesOfList
  <2>2. Contents(ring') = Append(RemoveAt(c, m + 1), x) /\ result' = OK
    BY <1>1, <1>4, RequeueContents, RequeueFields DEF Requeue
  <2> QED
    BY <2>1, <2>2, ListOperators DEF List!Requeue, OK, List!OK
<1> QED
  BY <1>3, <1>4

LEMMA SearchRefines ==
    ASSUME RingInv, NEW hits \in SUBSET Item, Find(hits)
    PROVE  List!Search(hits)
<1> DEFINE live == {i \in 0 .. ring.size - 1 : ring.items[Pos(ring, i)] \in hits}
<1>1. RingOK(ring)
  BY DEF RingInv
<1>2. result' = queue_search(ring, hits) /\ ring' = ring
  BY DEF Find
<1>3. CASE live = {}
  <2>1. List!Places(hits) = {}
    BY <1>1, <1>3, PlacesOfList
  <2>2. queue_search(ring, hits) \in hits \cup {NULL}
    <3>1. IF live = {} THEN queue_search(ring, hits) \in hits \cup {NULL}
          ELSE queue_search(ring, hits) = ring.items[Pos(ring, Min(live))]
      BY <1>1, SearchResult, Zenon
    <3> HIDE DEF live
    <3> QED
      BY <1>3, <3>1
  <2> QED
    BY <1>2, <2>1, <2>2 DEF List!Search
<1>4. CASE live # {}
  <2>1. List!Places(hits) # {} /\ Min(List!Places(hits)) = Min(live) + 1
    BY <1>1, <1>4, PlacesOfList
  <2>2. queue_search(ring, hits) = ring.items[Pos(ring, Min(live))]
    BY <1>1, <1>4, SearchResult
  <2>3. Min(live) \in 0 .. ring.size - 1
    <3>1. live \in SUBSET Nat
      BY <1>1, ContentsShape
    <3>2. Min(live) \in live
      BY <1>4, <3>1, LeastMember
    <3> QED
      BY <3>2
  <2>4. Min(live) + 1 \in 1 .. ring.size /\ (Min(live) + 1) - 1 = Min(live)
    BY <1>1, <2>3, ContentsShape
  <2>5. Contents(ring)[Min(live) + 1] = ring.items[Pos(ring, Min(live))]
    BY <1>1, <2>4, ContentsShape
  <2> QED
    BY <1>2, <2>1, <2>2, <2>5, ListOperators DEF List!Search
<1> QED
  BY <1>3, <1>4

\* For every capacity the circular buffer is a list: calls on the buffer
\* that wraps and calls on the list cannot be told apart by their results.
THEOREM BufferImplementsList == RingSpec => ImplementsList
<1>1. RingInit => List!Init
  BY InitOK DEF RingInit, List!Init
<1>2. RingInv /\ [RingNext]_ring_vars => [List!Next]_<<Contents(ring), result>>
  <2> SUFFICES ASSUME RingInv, [RingNext]_ring_vars
               PROVE  List!Next \/ UNCHANGED <<Contents(ring), result>>
    OBVIOUS
  <2>1. ASSUME NEW x \in Item, Enqueue(x)
        PROVE  List!Next
    BY <2>1, EnqueueRefines DEF List!Next
  <2>2. ASSUME Dequeue
        PROVE  List!Next
    BY <2>2, DequeueRefines DEF List!Next
  <2>3. ASSUME NEW x \in Item, Requeue(x)
        PROVE  List!Next
    BY <2>3, RequeueRefines DEF List!Next
  <2>4. ASSUME NEW hits \in SUBSET Item, Find(hits)
        PROVE  List!Next
    BY <2>4, SearchRefines DEF List!Next
  <2>5. ASSUME UNCHANGED ring_vars
        PROVE  UNCHANGED <<Contents(ring), result>>
    BY <2>5 DEF ring_vars, Contents, Pos, q_pos
  <2> QED
    BY <2>1, <2>2, <2>3, <2>4, <2>5 DEF RingNext
<1> QED
  BY <1>1, <1>2, AlwaysRingInv, PTL DEF RingSpec, ImplementsList, List!Spec
-----------------------------------------------------------------------------

\* The queue is well formed, and a thread stays in the code of its role.
Shape ==
    /\ TypeOK
    /\ RingOK(q)
    /\ \A p \in Producers : pc[p] \in {"idle", "lock", "crit", "wait"}
    /\ \A c \in Consumers : pc[c] # "drain"
    /\ \A k \in Closers : pc[k] \notin {"wait", "handle"}

\* What a signal does to the places of the threads.
LEMMA SignalFacts ==
    ASSUME pc \in [Threads -> Places], NEW S \in SUBSET Threads,
           NEW t \in Threads, pc[t] # "wait", NEW place \in Places,
           Signal(S, t, place)
    PROVE  /\ pc' \in [Threads -> Places]
           /\ pc'[t] = place
           /\ \/ /\ Waiting(S) = {}
                 /\ \A u \in Threads \ {t} : pc'[u] = pc[u]
              \/ \E w \in Waiting(S) :
                    /\ w # t /\ pc'[w] = "lock"
                    /\ \A u \in Threads \ {t, w} : pc'[u] = pc[u]
<1>1. CASE Waiting(S) = {}
  BY <1>1 DEF Signal
<1>2. CASE Waiting(S) # {}
  <2>1. PICK w \in Waiting(S) : pc' = [pc EXCEPT ![t] = place, ![w] = "lock"]
    BY <1>2 DEF Signal
  <2>2. w \in Threads /\ w # t
    BY <2>1 DEF Waiting
  <2>3. "lock" \in Places
    BY DEF Places
  <2> QED
    BY <2>1, <2>2, <2>3
<1> QED
  BY <1>1, <1>2

\* In short: t goes to place, and any other thread that moves is awake.
LEMMA SignalPlaces ==
    ASSUME pc \in [Threads -> Places], NEW S \in SUBSET Threads,
           NEW t \in Threads, pc[t] # "wait", NEW place \in Places,
           Signal(S, t, place)
    PROVE  /\ pc'[t] = place
           /\ \A u \in Threads \ {t} : pc'[u] = pc[u] \/ pc'[u] = "lock"
<1>1. pc'[t] = place
  BY SignalFacts
<1>2. CASE \A u \in Threads \ {t} : pc'[u] = pc[u]
  BY <1>1, <1>2
<1>3. CASE \E w \in Waiting(S) :
              /\ w # t /\ pc'[w] = "lock"
              /\ \A u \in Threads \ {t, w} : pc'[u] = pc[u]
  BY <1>1, <1>3
<1> QED
  BY <1>2, <1>3, SignalFacts

LEMMA InitShape == Init => Shape
<1> SUFFICES ASSUME Init
             PROVE  Shape
  OBVIOUS
<1>1. RingOK(q) /\ q \in QueueType
  BY InitOK DEF Init, RingOK
<1>2. TypeOK
  <2>1. pc \in [Threads -> Places]
    BY DEF Init, Places
  <2>2. val \in [Producers -> Item \cup {NULL}] /\ got \in [Consumers -> Item \cup {NULL}]
    BY DEF Init
  <2>3. /\ \A p \in Producers : val[p] = NULL /\ pc[p] = "idle"
        /\ \A c \in Consumers : got[c] = NULL /\ pc[c] = "idle"
    BY DEF Init, Threads
  <2>4. spurious \in 0 .. MaxSpurious
    BY SpuriousAssumption DEF Init
  <2> QED
    BY <1>1, <2>1, <2>2, <2>3, <2>4 DEF Init, TypeOK
<1> QED
  BY <1>1, <1>2 DEF Init, Shape, Threads

LEMMA NextShape == Shape /\ [Next]_vars => Shape'
<1> SUFFICES ASSUME Shape, [Next]_vars
             PROVE  Shape'
  OBVIOUS
<1> USE DEF Shape, TypeOK
<1> USE ThreadsAssumption, ItemAssumption
<1>0. /\ Producers \subseteq Threads /\ Consumers \subseteq Threads
      /\ Closers \subseteq Threads
  BY DEF Threads
<1>1. ASSUME NEW t \in Threads, Lock(t)
      PROVE  Shape'
  BY <1>1, <1>0 DEF Lock, Places
<1>2. ASSUME NEW t \in Producers \cup Consumers, Spurious(t)
      PROVE  Shape'
  BY <1>2, <1>0, SpuriousAssumption DEF Spurious, Places
<1>3. ASSUME NEW p \in Producers, ProduceCall(p)
      PROVE  Shape'
  BY <1>3, <1>0 DEF ProduceCall, Places
<1>4. ASSUME NEW p \in Producers, ProduceWait(p)
      PROVE  Shape'
  BY <1>4, <1>0 DEF ProduceWait, Places
<1>5. ASSUME NEW p \in Producers, ProduceEnqueue(p)
      PROVE  Shape'
  <2>1. val[p] \in Item /\ pc[p] = "crit"
    BY <1>5 DEF ProduceEnqueue
  <2>2. RingOK(q') /\ q' \in QueueType
    BY <1>5, <2>1, EnqueueOK DEF ProduceEnqueue, RingOK
  <2>3. /\ pc' \in [Threads -> Places] /\ pc'[p] = "idle"
        /\ \/ \A u \in Threads \ {p} : pc'[u] = pc[u]
           \/ \E w \in Waiting(Consumers) :
                 /\ w # p /\ pc'[w] = "lock"
                 /\ \A u \in Threads \ {p, w} : pc'[u] = pc[u]
    <3>1. "idle" \in Places /\ Consumers \in SUBSET Threads /\ p \in Threads
      BY <1>0 DEF Places
    <3>2. Signal(Consumers, p, "idle")
      BY <1>5 DEF ProduceEnqueue
    <3>3. pc[p] # "wait" /\ pc \in [Threads -> Places]
      BY <2>1
    <3> HIDE DEF Shape, TypeOK
    <3>4. /\ pc' \in [Threads -> Places] /\ pc'[p] = "idle"
          /\ \/ /\ Waiting(Consumers) = {}
                /\ \A u \in Threads \ {p} : pc'[u] = pc[u]
             \/ \E w \in Waiting(Consumers) :
                   /\ w # p /\ pc'[w] = "lock"
                   /\ \A u \in Threads \ {p, w} : pc'[u] = pc[u]
      BY <3>1, <3>2, <3>3, SignalFacts
    <3> QED
      BY <3>4
  <2> QED
    BY <1>5, <1>0, <2>1, <2>2, <2>3 DEF ProduceEnqueue, Waiting
<1>6. ASSUME NEW c \in Consumers, ConsumeCall(c)
      PROVE  Shape'
  BY <1>6, <1>0 DEF ConsumeCall, Places
<1>7. ASSUME NEW c \in Consumers, ConsumeWait(c)
      PROVE  Shape'
  BY <1>7, <1>0 DEF ConsumeWait, Places
<1>8. ASSUME NEW c \in Consumers, ConsumeLast(c)
      PROVE  Shape'
  BY <1>8, <1>0 DEF ConsumeLast, Places
<1>9. ASSUME NEW c \in Consumers, ConsumeDequeue(c)
      PROVE  Shape'
  <2>1. pc[c] = "crit" /\ ~ queue_isempty(q)
    BY <1>9 DEF ConsumeDequeue
  <2>2. RingOK(q') /\ q' \in QueueType /\ queue_dequeue(q).ret \in Item
    BY <1>9, <2>1, DequeueOK, DequeueContents DEF ConsumeDequeue, RingOK
  <2>3. /\ pc' \in [Threads -> Places] /\ pc'[c] = "handle"
        /\ \/ \A u \in Threads \ {c} : pc'[u] = pc[u]
           \/ \E w \in Waiting(Producers) :
                 /\ w # c /\ pc'[w] = "lock"
                 /\ \A u \in Threads \ {c, w} : pc'[u] = pc[u]
    <3>1. "handle" \in Places /\ Producers \in SUBSET Threads /\ c \in Threads
      BY <1>0 DEF Places
    <3>2. Signal(Producers, c, "handle")
      BY <1>9 DEF ConsumeDequeue
    <3>3. pc[c] # "wait" /\ pc \in [Threads -> Places]
      BY <2>1
    <3> HIDE DEF Shape, TypeOK
    <3>4. /\ pc' \in [Threads -> Places] /\ pc'[c] = "handle"
          /\ \/ /\ Waiting(Producers) = {}
                /\ \A u \in Threads \ {c} : pc'[u] = pc[u]
             \/ \E w \in Waiting(Producers) :
                   /\ w # c /\ pc'[w] = "lock"
                   /\ \A u \in Threads \ {c, w} : pc'[u] = pc[u]
      BY <3>1, <3>2, <3>3, SignalFacts
    <3> QED
      BY <3>4
  <2> QED
    BY <1>9, <1>0, <2>1, <2>2, <2>3 DEF ConsumeDequeue, Waiting
<1>10. ASSUME NEW c \in Consumers, Handle(c)
       PROVE  Shape'
  BY <1>10, <1>0 DEF Handle, Places
<1>11. ASSUME NEW k \in Closers, CloseCall(k)
       PROVE  Shape'
  BY <1>11, <1>0 DEF CloseCall, Places
<1>12. ASSUME NEW k \in Closers, CloseSet(k)
       PROVE  Shape'
  BY <1>12, <1>0 DEF CloseSet, Places
<1>13. ASSUME NEW k \in Closers, CloseBroadcast(k)
       PROVE  Shape'
  BY <1>13, <1>0 DEF CloseBroadcast, Waiting, Places
<1>14. ASSUME NEW k \in Closers, CloseReturn(k)
       PROVE  Shape'
  BY <1>14, <1>0 DEF CloseReturn, Places
<1>15. ASSUME UNCHANGED vars
       PROVE  Shape'
  BY <1>15 DEF vars
<1> QED
  BY <1>1, <1>2, <1>3, <1>4, <1>5, <1>6, <1>7, <1>8, <1>9, <1>10, <1>11,
     <1>12, <1>13, <1>14, <1>15 DEF Next, Produce, Consume, Close

\* Whatever the threads do, the queue stays well formed and every thread in the
\* code of its role.
THEOREM AlwaysShape == Spec => []Shape
  BY InitShape, NextShape, PTL DEF Spec

\* The variables keep their types; a consumer that queue_consume has
\* returned to has an item.
THEOREM TypeCorrect == Spec => []TypeOK
<1>1. Shape => TypeOK
  BY DEF Shape
<1> QED
  BY <1>1, AlwaysShape, PTL

-----------------------------------------------------------------------------
(***************************************************************************)
(* The mutex.  queue_consume returns -1 without unlocking, so a consumer   *)
(* that has exited still owns it: that is what keeps the queue empty after *)
(* the first exit, and MutexOwned alone would not show it.                 *)
(***************************************************************************)
Mutex ==
    /\ MutexOwned
    /\ \A c \in Consumers : pc[c] = "done" => mx = c

\* How a step of the machine may change the places and the owner.
LEMMA NextMutex == Shape /\ Mutex /\ [Next]_vars => Mutex'
<1> SUFFICES ASSUME Shape, Mutex, [Next]_vars
             PROVE  Mutex'
  OBVIOUS
<1> USE ThreadsAssumption DEF Mutex, MutexOwned
<1>0. /\ Producers \subseteq Threads /\ Consumers \subseteq Threads
      /\ Closers \subseteq Threads
      /\ pc \in [Threads -> Places]
  BY DEF Threads, Shape, TypeOK
<1>1. ASSUME NEW t \in Threads, Lock(t)
      PROVE  Mutex'
  BY <1>1, <1>0 DEF Lock
<1>2. ASSUME NEW t \in Producers \cup Consumers, Spurious(t)
      PROVE  Mutex'
  BY <1>2, <1>0 DEF Spurious
<1>3. ASSUME NEW p \in Producers, ProduceCall(p)
      PROVE  Mutex'
  BY <1>3, <1>0 DEF ProduceCall
<1>4. ASSUME NEW p \in Producers, ProduceWait(p)
      PROVE  Mutex'
  BY <1>4, <1>0 DEF ProduceWait
<1>5. ASSUME NEW p \in Producers, ProduceEnqueue(p)
      PROVE  Mutex'
  <2>1. pc[p] = "crit" /\ mx = p /\ mx' = Nobody
    BY <1>5, <1>0 DEF ProduceEnqueue
  <2>2. /\ "idle" \in Places /\ Consumers \in SUBSET Threads /\ p \in Threads
        /\ Signal(Consumers, p, "idle") /\ pc[p] # "wait"
    BY <1>5, <1>0, <2>1 DEF ProduceEnqueue, Places
  <2>3. \A u \in Threads \ {p} : pc'[u] = pc[u] \/ pc'[u] = "lock"
    BY <1>0, <2>2, SignalPlaces
  <2>4. pc'[p] = "idle"
    BY <1>0, <2>2, SignalPlaces
  <2>5. \A c \in Consumers : c # p
    OBVIOUS
  <2>6. \A c \in Consumers : pc'[c] # "done"
    BY <1>0, <2>1, <2>3, <2>5
  <2>7. \A u \in Threads : pc'[u] \notin {"crit", "drain"}
    BY <1>0, <2>1, <2>3, <2>4
  <2> QED
    BY <2>6, <2>7
<1>6. ASSUME NEW c \in Consumers, ConsumeCall(c)
      PROVE  Mutex'
  BY <1>6, <1>0 DEF ConsumeCall
<1>7. ASSUME NEW c \in Consumers, ConsumeWait(c)
      PROVE  Mutex'
  BY <1>7, <1>0 DEF ConsumeWait
<1>8. ASSUME NEW c \in Consumers, ConsumeLast(c)
      PROVE  Mutex'
  BY <1>8, <1>0 DEF ConsumeLast
<1>9. ASSUME NEW c \in Consumers, ConsumeDequeue(c)
      PROVE  Mutex'
  <2>1. pc[c] = "crit" /\ mx = c /\ mx' = Nobody
    BY <1>9, <1>0 DEF ConsumeDequeue
  <2>2. /\ "handle" \in Places /\ Producers \in SUBSET Threads /\ c \in Threads
        /\ Signal(Producers, c, "handle") /\ pc[c] # "wait"
    BY <1>9, <1>0, <2>1 DEF ConsumeDequeue, Places
  <2>3. \A u \in Threads \ {c} : pc'[u] = pc[u] \/ pc'[u] = "lock"
    BY <1>0, <2>2, SignalPlaces
  <2>4. pc'[c] = "handle"
    BY <1>0, <2>2, SignalPlaces
  <2> QED
    BY <1>0, <2>1, <2>3, <2>4
<1>10. ASSUME NEW c \in Consumers, Handle(c)
       PROVE  Mutex'
  BY <1>10, <1>0 DEF Handle
<1>11. ASSUME NEW k \in Closers, CloseCall(k)
       PROVE  Mutex'
  BY <1>11, <1>0 DEF CloseCall
<1>12. ASSUME NEW k \in Closers, CloseSet(k)
       PROVE  Mutex'
  BY <1>12, <1>0 DEF CloseSet
<1>13. ASSUME NEW k \in Closers, CloseBroadcast(k)
       PROVE  Mutex'
  BY <1>13, <1>0 DEF CloseBroadcast, Waiting
<1>14. ASSUME NEW k \in Closers, CloseReturn(k)
       PROVE  Mutex'
  BY <1>14, <1>0 DEF CloseReturn
<1>15. ASSUME UNCHANGED vars
       PROVE  Mutex'
  BY <1>15 DEF vars
<1> QED
  BY <1>1, <1>2, <1>3, <1>4, <1>5, <1>6, <1>7, <1>8, <1>9, <1>10, <1>11,
     <1>12, <1>13, <1>14, <1>15 DEF Next, Produce, Consume, Close

\* Whoever is between lock and unlock owns the mutex, at all times.
THEOREM AlwaysMutex == Spec => [](Shape /\ Mutex)
<1>1. Init => Mutex
  BY DEF Init, Mutex, MutexOwned, Threads
<1> QED
  BY <1>1, NextMutex, AlwaysShape, PTL DEF Spec

\* At most one thread is between lock and unlock.
THEOREM MutualExclusion == Spec => []MutexOwned
<1>1. Mutex => MutexOwned
  BY DEF Mutex
<1> QED
  BY <1>1, AlwaysMutex, PTL

-----------------------------------------------------------------------------
\* Nothing enters the queue after a consumer has exited.
LEMMA NextExit ==
    Shape /\ Mutex /\ ExitMeansDrained /\ [Next]_vars => ExitMeansDrained'
<1> SUFFICES ASSUME Shape, Mutex, ExitMeansDrained, [Next]_vars
             PROVE  ExitMeansDrained'
  OBVIOUS
<1> USE ThreadsAssumption DEF ExitMeansDrained
<1>0. /\ Producers \subseteq Threads /\ Consumers \subseteq Threads
      /\ Closers \subseteq Threads
      /\ pc \in [Threads -> Places]
  BY DEF Threads, Shape, TypeOK
<1>1. ASSUME NEW t \in Threads, pc[t] \in {"crit", "drain"}, NEW c \in Consumers,
             pc[c] = "done"
      PROVE  FALSE
  BY <1>0, <1>1 DEF Mutex, MutexOwned
<1>2. ASSUME NEW p \in Producers, ProduceEnqueue(p)
      PROVE  ExitMeansDrained'
  <2>1. \A c \in Consumers : pc[c] # "done"
    BY <1>0, <1>1, <1>2 DEF ProduceEnqueue
  <2>2. /\ "idle" \in Places /\ Consumers \in SUBSET Threads /\ p \in Threads
        /\ Signal(Consumers, p, "idle") /\ pc[p] # "wait"
    BY <1>2, <1>0 DEF ProduceEnqueue, Places
  <2>3. \A u \in Threads : pc'[u] = pc[u] \/ pc'[u] \in {"idle", "lock"}
    BY <1>0, <2>2, SignalPlaces
  <2> QED
    BY <1>0, <2>1, <2>3
<1>3. ASSUME NEW c \in Consumers, ConsumeDequeue(c)
      PROVE  ExitMeansDrained'
  <2>1. \A d \in Consumers : pc[d] # "done"
    BY <1>0, <1>1, <1>3 DEF ConsumeDequeue
  <2>2. /\ "handle" \in Places /\ Producers \in SUBSET Threads /\ c \in Threads
        /\ Signal(Producers, c, "handle") /\ pc[c] # "wait"
    BY <1>3, <1>0 DEF ConsumeDequeue, Places
  <2>3. \A u \in Threads : pc'[u] = pc[u] \/ pc'[u] \in {"handle", "lock"}
    BY <1>0, <2>2, SignalPlaces
  <2> QED
    BY <1>0, <2>1, <2>3
<1>4. ASSUME NEW c \in Consumers, ConsumeLast(c)
      PROVE  ExitMeansDrained'
  BY <1>4, <1>0 DEF ConsumeLast
<1>5. ASSUME NEW t \in Threads, Lock(t)
      PROVE  ExitMeansDrained'
  BY <1>5, <1>0 DEF Lock
<1>6. ASSUME NEW t \in Producers \cup Consumers, Spurious(t)
      PROVE  ExitMeansDrained'
  BY <1>6, <1>0 DEF Spurious
<1>7. ASSUME NEW p \in Producers, ProduceCall(p) \/ ProduceWait(p)
      PROVE  ExitMeansDrained'
  BY <1>7, <1>0 DEF ProduceCall, ProduceWait
<1>8. ASSUME NEW c \in Consumers, ConsumeCall(c) \/ ConsumeWait(c) \/ Handle(c)
      PROVE  ExitMeansDrained'
  BY <1>8, <1>0 DEF ConsumeCall, ConsumeWait, Handle
<1>9. ASSUME NEW k \in Closers, Close(k)
      PROVE  ExitMeansDrained'
  BY <1>9, <1>0 DEF Close, CloseCall, CloseSet, CloseBroadcast, CloseReturn,
                    Waiting
<1>10. ASSUME UNCHANGED vars
       PROVE  ExitMeansDrained'
  BY <1>10 DEF vars
<1> QED
  BY <1>2, <1>3, <1>4, <1>5, <1>6, <1>7, <1>8, <1>9, <1>10
  DEF Next, Produce, Consume

\* A consumer exits on a closed, empty queue only, and the queue then stays
\* empty.
THEOREM ExitOnlyWhenDrained == Spec => []ExitMeansDrained
<1>1. Init => ExitMeansDrained
  BY DEF Init, ExitMeansDrained, Threads
<1> QED
  BY <1>1, NextExit, AlwaysMutex, PTL DEF Spec

-----------------------------------------------------------------------------
(***************************************************************************)
(* No lost wakeup.  Each of the two properties counts the threads that are *)
(* on their way to the test of their loop, so the steps divide into those  *)
(* that can only add such threads and leave the queue alone, and the two   *)
(* that move an item.                                                      *)
(***************************************************************************)
LEMMA ComingFinite ==
    ASSUME NEW S \in SUBSET Threads
    PROVE  /\ IsFiniteSet(Coming(S)) /\ Cardinality(Coming(S)) \in Nat
           /\ IsFiniteSet(Coming(S)') /\ Cardinality(Coming(S)') \in Nat
<1>1. Coming(S) \in SUBSET Threads /\ Coming(S)' \in SUBSET Threads
  BY DEF Coming
<1> QED
  BY <1>1, ThreadsAssumption, FS_Subset, FS_CardinalityType

\* A step after which no more threads of S sleep and no fewer are coming.
LEMMA MoreAwake ==
    ASSUME NEW S \in SUBSET Threads,
           \A u \in S : /\ pc'[u] = "wait" => pc[u] = "wait"
                        /\ pc[u] \in {"lock", "crit"} => pc'[u] \in {"lock", "crit"}
    PROVE  /\ Waiting(S)' # {} => Waiting(S) # {}
           /\ Cardinality(Coming(S)) <= Cardinality(Coming(S)')
<1>1. Coming(S) \in SUBSET Coming(S)'
  BY DEF Coming
<1>2. Cardinality(Coming(S)) <= Cardinality(Coming(S)')
  BY <1>1, ComingFinite, FS_Subset
<1> QED
  BY <1>2 DEF Waiting

\* Thread t of S, which was coming, has left; nobody else of S has moved.
LEMMA OneLess ==
    ASSUME NEW S \in SUBSET Threads, NEW t \in S, pc[t] = "crit",
           pc'[t] \notin {"lock", "crit", "wait"},
           \A u \in S \ {t} : pc'[u] = pc[u]
    PROVE  /\ Waiting(S)' # {} => Waiting(S) # {}
           /\ Cardinality(Coming(S)') = Cardinality(Coming(S)) - 1
<1>1. Coming(S)' = Coming(S) \ {t} /\ t \in Coming(S)
  BY SMTT(20) DEF Coming
<1>2. Cardinality(Coming(S)') = Cardinality(Coming(S)) - 1
  <2>1. IsFiniteSet(Coming(S))
    BY ComingFinite
  <2>2. Cardinality(Coming(S) \ {t}) = Cardinality(Coming(S)) - 1
    BY <1>1, <2>1, FS_RemoveElement
  <2> QED
    BY <1>1, <2>2
<1> QED
  BY <1>2 DEF Waiting

\* A signal on the condition variable of S by a thread that is not of S.
LEMMA OneMore ==
    ASSUME NEW S \in SUBSET Threads, NEW t \in Threads, t \notin S,
           pc \in [Threads -> Places], pc[t] # "wait", NEW place \in Places,
           Signal(S, t, place)
    PROVE  \/ Waiting(S)' = {}
           \/ /\ Waiting(S) # {}
              /\ Cardinality(Coming(S)') = Cardinality(Coming(S)) + 1
<1>1. CASE Waiting(S) = {} /\ \A u \in Threads \ {t} : pc'[u] = pc[u]
  <2>1. Waiting(S)' = {}
    BY <1>1 DEF Waiting
  <2> QED
    BY <2>1
<1>2. CASE \E w \in Waiting(S) :
              /\ w # t /\ pc'[w] = "lock"
              /\ \A u \in Threads \ {t, w} : pc'[u] = pc[u]
  <2>1. PICK w \in Waiting(S) :
              /\ w # t /\ pc'[w] = "lock"
              /\ \A u \in Threads \ {t, w} : pc'[u] = pc[u]
    BY <1>2
  <2>2. w \in S /\ w \notin Coming(S) /\ Coming(S)' = Coming(S) \cup {w}
    BY <2>1 DEF Coming, Waiting
  <2>3. Cardinality(Coming(S)') = Cardinality(Coming(S)) + 1
    BY <2>2, ComingFinite, FS_AddElement
  <2> QED
    BY <2>1, <2>3
<1> QED
  BY <1>1, <1>2, SignalFacts

\* The steps that leave the queue alone and send nobody of S to sleep or
\* away from the test.
LEMMA QuietStep ==
    ASSUME Shape, NoSleepOver, q' = q,
           \A u \in Producers \cup Consumers :
              /\ pc'[u] = "wait" => pc[u] = "wait"
              /\ pc[u] \in {"lock", "crit"} => pc'[u] \in {"lock", "crit"}
    PROVE  NoSleepOver'
<1>1. Producers \in SUBSET Threads /\ Consumers \in SUBSET Threads
  BY DEF Threads
<1>2. /\ Waiting(Consumers)' # {} => Waiting(Consumers) # {}
      /\ Cardinality(Coming(Consumers)) <= Cardinality(Coming(Consumers)')
      /\ Waiting(Producers)' # {} => Waiting(Producers) # {}
      /\ Cardinality(Coming(Producers)) <= Cardinality(Coming(Producers)')
  BY <1>1, MoreAwake
<1>3. /\ Cardinality(Coming(Consumers)) \in Nat
      /\ Cardinality(Coming(Consumers)') \in Nat
      /\ Cardinality(Coming(Producers)) \in Nat
      /\ Cardinality(Coming(Producers)') \in Nat
  BY <1>1, ComingFinite
<1>4. q.size \in 0 .. Capacity
  BY DEF Shape, RingOK, QueueType
<1> QED
  BY <1>2, <1>3, <1>4, CapacityAssumption
  DEF NoSleepOver, NoConsumerSleepsOverItem, NoProducerSleepsOverSlot

LEMMA NextNoSleepOver == Shape /\ NoSleepOver /\ [Next]_vars => NoSleepOver'
<1> SUFFICES ASSUME Shape, NoSleepOver, [Next]_vars
             PROVE  NoSleepOver'
  OBVIOUS
<1>0. /\ Producers \in SUBSET Threads /\ Consumers \in SUBSET Threads
      /\ Closers \in SUBSET Threads
      /\ Producers \cap Consumers = {} /\ Producers \cap Closers = {}
      /\ Consumers \cap Closers = {}
      /\ pc \in [Threads -> Places]
      /\ q.size \in 0 .. Capacity /\ Capacity \in Nat
      /\ RingOK(q)
  BY ThreadsAssumption, CapacityAssumption
  DEF Threads, Shape, TypeOK, RingOK, QueueType
<1>00. /\ Cardinality(Coming(Consumers)) \in Nat
       /\ Cardinality(Coming(Consumers)') \in Nat
       /\ Cardinality(Coming(Producers)) \in Nat
       /\ Cardinality(Coming(Producers)') \in Nat
  BY <1>0, ComingFinite
<1>1. ASSUME NEW t \in Threads, Lock(t)
      PROVE  NoSleepOver'
  BY <1>1, <1>0, QuietStep DEF Lock
<1>2. ASSUME NEW t \in Producers \cup Consumers, Spurious(t)
      PROVE  NoSleepOver'
  BY <1>2, <1>0, QuietStep DEF Spurious
<1>3. ASSUME NEW p \in Producers, ProduceCall(p)
      PROVE  NoSleepOver'
  BY <1>3, <1>0, QuietStep DEF ProduceCall
<1>4. ASSUME NEW p \in Producers, ProduceWait(p)
      PROVE  NoSleepOver'
  <2>1. q' = q /\ q.size = Capacity /\ \A u \in Consumers : pc'[u] = pc[u]
    BY <1>4, <1>0 DEF ProduceWait, queue_isfull
  <2>2. /\ Waiting(Consumers)' # {} => Waiting(Consumers) # {}
        /\ Cardinality(Coming(Consumers)) <= Cardinality(Coming(Consumers)')
    BY <1>0, <2>1, MoreAwake
  <2> QED
    BY <1>0, <1>00, <2>1, <2>2
    DEF NoSleepOver, NoConsumerSleepsOverItem, NoProducerSleepsOverSlot
<1>5. ASSUME NEW p \in Producers, ProduceEnqueue(p)
      PROVE  NoSleepOver'
  <2>1. /\ val[p] \in Item /\ pc[p] = "crit" /\ ~ queue_isfull(q)
        /\ Signal(Consumers, p, "idle")
    BY <1>5 DEF ProduceEnqueue, Shape, TypeOK
  <2>2. q'.size = q.size + 1
    BY <1>0, <1>5, <2>1, EnqueueFields DEF ProduceEnqueue
  <2>3. "idle" \in Places /\ p \in Threads /\ p \notin Consumers
    BY <1>0 DEF Places
  <2>4. \/ Waiting(Consumers)' = {}
        \/ /\ Waiting(Consumers) # {}
           /\ Cardinality(Coming(Consumers)') = Cardinality(Coming(Consumers)) + 1
    BY <1>0, <2>1, <2>3, OneMore
  <2>5. pc'[p] = "idle" /\ \A u \in Producers \ {p} : pc'[u] = pc[u]
    BY <1>0, <2>1, <2>3, SignalFacts DEF Waiting
  <2>6. /\ Waiting(Producers)' # {} => Waiting(Producers) # {}
        /\ Cardinality(Coming(Producers)') = Cardinality(Coming(Producers)) - 1
    BY <1>0, <2>1, <2>5, OneLess
  <2> QED
    BY <1>0, <1>00, <2>2, <2>4, <2>6
    DEF NoSleepOver, NoConsumerSleepsOverItem, NoProducerSleepsOverSlot
<1>6. ASSUME NEW c \in Consumers, ConsumeCall(c)
      PROVE  NoSleepOver'
  BY <1>6, <1>0, QuietStep DEF ConsumeCall
<1>7. ASSUME NEW c \in Consumers, ConsumeWait(c) \/ ConsumeLast(c)
      PROVE  NoSleepOver'
  <2>1. q' = q /\ q.size = 0 /\ \A u \in Producers : pc'[u] = pc[u]
    BY <1>7, <1>0 DEF ConsumeWait, ConsumeLast, queue_isempty
  <2>2. /\ Waiting(Producers)' # {} => Waiting(Producers) # {}
        /\ Cardinality(Coming(Producers)) <= Cardinality(Coming(Producers)')
    BY <1>0, <2>1, MoreAwake
  <2> QED
    BY <1>0, <1>00, <2>1, <2>2
    DEF NoSleepOver, NoConsumerSleepsOverItem, NoProducerSleepsOverSlot
<1>8. ASSUME NEW c \in Consumers, ConsumeDequeue(c)
      PROVE  NoSleepOver'
  <2>1. /\ pc[c] = "crit" /\ ~ queue_isempty(q)
        /\ Signal(Producers, c, "handle")
    BY <1>8 DEF ConsumeDequeue
  <2>2. q'.size = q.size - 1
    BY <1>0, <1>8, <2>1, DequeueFields DEF ConsumeDequeue
  <2>3. "handle" \in Places /\ c \in Threads /\ c \notin Producers
    BY <1>0 DEF Places
  <2>4. \/ Waiting(Producers)' = {}
        \/ /\ Waiting(Producers) # {}
           /\ Cardinality(Coming(Producers)') = Cardinality(Coming(Producers)) + 1
    BY <1>0, <2>1, <2>3, OneMore
  <2>5. pc'[c] = "handle" /\ \A u \in Consumers \ {c} : pc'[u] = pc[u]
    BY <1>0, <2>1, <2>3, SignalFacts DEF Waiting
  <2>6. /\ Waiting(Consumers)' # {} => Waiting(Consumers) # {}
        /\ Cardinality(Coming(Consumers)') = Cardinality(Coming(Consumers)) - 1
    BY <1>0, <2>1, <2>5, OneLess
  <2> QED
    BY <1>0, <1>00, <2>2, <2>4, <2>6
    DEF NoSleepOver, NoConsumerSleepsOverItem, NoProducerSleepsOverSlot
<1>9. ASSUME NEW c \in Consumers, Handle(c)
      PROVE  NoSleepOver'
  BY <1>9, <1>0, QuietStep DEF Handle
<1>10. ASSUME NEW k \in Closers, Close(k)
       PROVE  NoSleepOver'
  <2>1. q' = q
    BY <1>10 DEF Close, CloseCall, CloseSet, CloseBroadcast, CloseReturn
  <2>2. \A u \in Producers \cup Consumers :
           pc'[u] = pc[u] \/ (pc[u] = "wait" /\ pc'[u] = "lock")
    BY <1>10, <1>0
    DEF Close, CloseCall, CloseSet, CloseBroadcast, CloseReturn, Waiting
  <2> QED
    BY <2>1, <2>2, QuietStep
<1>11. ASSUME UNCHANGED vars
       PROVE  NoSleepOver'
  BY <1>11, QuietStep DEF vars
<1> QED
  BY <1>1, <1>2, <1>3, <1>4, <1>5, <1>6, <1>7, <1>8, <1>9, <1>10, <1>11
  DEF Next, Produce, Consume

\* No thread sleeps over work it could do: for any capacity and any number
\* of threads one signal per item is enough.
THEOREM NoLostWakeup == Spec => []NoSleepOver
<1>1. Init => NoSleepOver
  <2>1. Init => \A t \in Producers \cup Consumers : pc[t] = "idle"
    BY DEF Init, Threads
  <2> QED
    BY <2>1 DEF NoSleepOver, NoConsumerSleepsOverItem,
                NoProducerSleepsOverSlot, Waiting
<1> QED
  BY <1>1, NextNoSleepOver, AlwaysShape, PTL DEF Spec

\* A consequence: the producers and the consumers are never all asleep.
THEOREM NeverAllAsleep ==
    ASSUME Producers # {}, Consumers # {}
    PROVE  Spec => [](\E t \in Producers \cup Consumers : pc[t] # "wait")
<1>1. ASSUME Shape, NoSleepOver, \A t \in Producers \cup Consumers : pc[t] = "wait"
      PROVE  FALSE
  <2>1. Coming(Consumers) = {} /\ Coming(Producers) = {}
    BY <1>1 DEF Coming
  <2>2. Waiting(Consumers) # {} /\ Waiting(Producers) # {}
    BY <1>1 DEF Waiting
  <2>3. q.size <= 0 /\ Capacity - q.size <= 0
    BY <1>1, <2>1, <2>2, FS_EmptySet
    DEF NoSleepOver, NoConsumerSleepsOverItem, NoProducerSleepsOverSlot
  <2>4. q.size \in 0 .. Capacity
    BY <1>1 DEF Shape, RingOK, QueueType
  <2> QED
    BY <2>3, <2>4, CapacityAssumption
<1>2. Shape /\ NoSleepOver
      => \E t \in Producers \cup Consumers : pc[t] # "wait"
  BY <1>1
<1> QED
  BY <1>2, AlwaysShape, NoLostWakeup, PTL

-----------------------------------------------------------------------------
(***************************************************************************)
(* Ownership of the items.                                                 *)
(***************************************************************************)
LEMMA NextOwnedOnce == Shape /\ OwnedOnce /\ [Next]_vars => OwnedOnce'
<1> SUFFICES ASSUME Shape, OwnedOnce, [Next]_vars
             PROVE  OwnedOnce'
  OBVIOUS
<1>0. /\ RingOK(q) /\ q.size \in 0 .. Capacity
      /\ val \in [Producers -> Item \cup {NULL}]
      /\ got \in [Consumers -> Item \cup {NULL}]
      /\ NULL \notin Item
  BY ItemAssumption DEF Shape, TypeOK, RingOK, QueueType
<1>00. NULL \notin Live(q)
  BY <1>0, LiveSlotHoldsItem DEF Live
<1>1. ASSUME UNCHANGED <<q, val, got>>
      PROVE  OwnedOnce'
  BY <1>1 DEF OwnedOnce, Live, Pos, q_pos
<1>2. ASSUME NEW p \in Producers, ProduceCall(p)
      PROVE  OwnedOnce'
  <2>1. PICK x \in Item \ Live(q) :
           /\ \A o \in Producers : val[o] # x
           /\ \A c \in Consumers : got[c] # x
           /\ val' = [val EXCEPT ![p] = x]
    BY <1>2 DEF ProduceCall
  <2>2. q' = q /\ got' = got
    BY <1>2 DEF ProduceCall
  <2>3. \A o \in Producers : val'[o] = IF o = p THEN x ELSE val[o]
    BY <1>0, <2>1
  <2>4. Live(q)' = Live(q)
    BY <2>2 DEF Live, Pos, q_pos
  <2>5. \A i, j \in 0 .. q'.size - 1 :
           q'.items[Pos(q, i)'] = q'.items[Pos(q, j)'] => i = j
    BY <2>2 DEF OwnedOnce, Pos, q_pos
  <2>6. \A o, u \in Producers : val'[o] = val'[u] /\ val'[o] # NULL => o = u
    BY <2>1, <2>3 DEF OwnedOnce
  <2>7. \A o \in Producers : val'[o] \notin Live(q)
    BY <2>1, <2>3 DEF OwnedOnce
  <2>8. \A o \in Producers, c \in Consumers : val'[o] = got[c] => val'[o] = NULL
    BY <2>1, <2>3 DEF OwnedOnce
  <2> QED
    BY <2>2, <2>4, <2>5, <2>6, <2>7, <2>8 DEF OwnedOnce
<1>3. ASSUME NEW p \in Producers, ProduceEnqueue(p)
      PROVE  OwnedOnce'
  <2>1. val[p] \in Item /\ ~ queue_isfull(q)
    BY <1>3 DEF ProduceEnqueue, Shape, TypeOK
  <2>2. /\ got' = got
        /\ \A o \in Producers : val'[o] = IF o = p THEN NULL ELSE val[o]
    BY <1>0, <1>3 DEF ProduceEnqueue
  <2>3. /\ q'.size = q.size + 1
        /\ \A i \in 0 .. q.size - 1 : q'.items[Pos(q', i)] = q.items[Pos(q, i)]
        /\ q'.items[Pos(q', q.size)] = val[p]
        /\ Live(q') = Live(q) \cup {val[p]}
    <3>1. q' = queue_enqueue(q, val[p]).q
      BY <1>3 DEF ProduceEnqueue
    <3>2. q'.size = q.size + 1
      BY <1>0, <2>1, <3>1, EnqueueFields
    <3>3. /\ \A i \in 0 .. q.size - 1 : q'.items[Pos(q', i)] = q.items[Pos(q, i)]
          /\ q'.items[Pos(q', q.size)] = val[p]
          /\ Live(q') = Live(q) \cup {val[p]}
      BY <1>0, <2>1, <3>1, EnqueueContents
    <3> QED
      BY <3>2, <3>3
  <2>4. Live(q)' = Live(q') /\ \A i : Pos(q, i)' = Pos(q', i)
    BY DEF Live, Pos, q_pos
  <2>5. ASSUME NEW i \in 0 .. q'.size - 1, NEW j \in 0 .. q'.size - 1,
               q'.items[Pos(q', i)] = q'.items[Pos(q', j)]
        PROVE  i = j
    <3>1. /\ i \in 0 .. q.size - 1 \/ i = q.size
          /\ j \in 0 .. q.size - 1 \/ j = q.size
      BY <1>0, <2>3
    <3>2. \A k \in 0 .. q.size - 1 : q'.items[Pos(q', k)] # val[p]
      BY <2>3 DEF OwnedOnce, Live
    <3> QED
      BY <2>3, <2>5, <3>1, <3>2 DEF OwnedOnce
  <2> QED
    BY <1>0, <1>00, <2>1, <2>2, <2>3, <2>4, <2>5 DEF OwnedOnce
<1>4. ASSUME NEW c \in Consumers, ConsumeDequeue(c)
      PROVE  OwnedOnce'
  <2> DEFINE x == q.items[Pos(q, 0)]
  <2>1. ~ queue_isempty(q) /\ val' = val
    BY <1>4 DEF ConsumeDequeue
  <2>2. /\ x \in Item /\ q.size \in 1 .. Capacity /\ q'.size = q.size - 1
        /\ \A i \in 0 .. q'.size - 1 : q'.items[Pos(q', i)] = q.items[Pos(q, i + 1)]
        /\ queue_dequeue(q).ret = x
    BY <1>0, <1>4, <2>1, DequeueFields, DequeueContents DEF ConsumeDequeue
  <2>3. \A d \in Consumers : got'[d] = IF d = c THEN x ELSE got[d]
    BY <1>0, <1>4, <2>2 DEF ConsumeDequeue
  <2>4. Live(q)' = Live(q') /\ \A i : Pos(q, i)' = Pos(q', i)
    BY DEF Live, Pos, q_pos
  <2>5. 0 \in 0 .. q.size - 1
    BY <2>2
  <2>6. ASSUME NEW i \in 0 .. q'.size - 1
        PROVE  /\ i + 1 \in 0 .. q.size - 1 /\ i + 1 # 0
               /\ q'.items[Pos(q', i)] = q.items[Pos(q, i + 1)]
    BY <2>2
  <2>7. ASSUME NEW i \in 0 .. q'.size - 1, NEW j \in 0 .. q'.size - 1,
               q'.items[Pos(q', i)] = q'.items[Pos(q', j)]
        PROVE  i = j
    <3>1. i + 1 = j + 1
      BY <2>6, <2>7 DEF OwnedOnce
    <3> QED
      BY <2>2, <3>1
  <2>8. Live(q') \subseteq Live(q) /\ x \notin Live(q') /\ x \in Live(q)
    <3>1. Live(q') \subseteq Live(q) /\ x \in Live(q)
      BY <2>5, <2>6 DEF Live
    <3>2. ASSUME NEW i \in 0 .. q'.size - 1
          PROVE  q'.items[Pos(q', i)] # x
      BY <2>5, <2>6 DEF OwnedOnce
    <3> QED
      BY <3>1, <3>2 DEF Live
  <2> HIDE DEF x
  <2> QED
    BY <1>0, <1>00, <2>1, <2>2, <2>3, <2>4, <2>7, <2>8 DEF OwnedOnce
<1>5. ASSUME NEW c \in Consumers, Handle(c)
      PROVE  OwnedOnce'
  <2>1. /\ q' = q /\ val' = val
        /\ \A d \in Consumers : got'[d] = IF d = c THEN NULL ELSE got[d]
    BY <1>0, <1>5 DEF Handle
  <2>2. Live(q)' = Live(q) /\ \A i : Pos(q, i)' = Pos(q, i)
    BY <2>1 DEF Live, Pos, q_pos
  <2> QED
    BY <1>0, <1>00, <2>1, <2>2 DEF OwnedOnce
<1> QED
  BY <1>1, <1>2, <1>3, <1>4, <1>5
  DEF Next, Produce, Consume, Close, vars, Lock, Spurious, ProduceWait,
      ConsumeCall, ConsumeWait, ConsumeLast, CloseCall, CloseSet,
      CloseBroadcast, CloseReturn

\* Every item has one owner at a time, from the producer through one slot
\* of the buffer to one consumer.
THEOREM SingleOwner == Spec => []OwnedOnce
<1>1. Init => OwnedOnce
  BY DEF Init, OwnedOnce, queue_init, Live
<1> QED
  BY <1>1, NextOwnedOnce, AlwaysShape, PTL DEF Spec

-----------------------------------------------------------------------------
(***************************************************************************)
(* The refinement.  ProduceCall offers, ProduceEnqueue puts,               *)
(* ConsumeDequeue takes, Handle discards; every other step stutters.       *)
(***************************************************************************)
LEMMA StepRefines ==
    Shape /\ [Next]_vars => [Channel!Next]_<<Contents(q), val, got>>
<1> SUFFICES ASSUME Shape, [Next]_vars
             PROVE  Channel!Next \/ UNCHANGED <<Contents(q), val, got>>
  OBVIOUS
<1>0. /\ RingOK(q) /\ q.size \in 0 .. Capacity
      /\ val \in [Producers -> Item \cup {NULL}]
      /\ got \in [Consumers -> Item \cup {NULL}]
      /\ NULL \notin Item
  BY ItemAssumption DEF Shape, TypeOK, RingOK, QueueType
<1>00. /\ Len(Contents(q)) = q.size
       /\ \A k \in 1 .. q.size : Contents(q)[k] = q.items[Pos(q, k - 1)]
  BY <1>0 DEF Contents
<1>1. ASSUME UNCHANGED <<q, val, got>>
      PROVE  UNCHANGED <<Contents(q), val, got>>
  BY <1>1 DEF Contents, Pos, q_pos
<1>2. ASSUME NEW p \in Producers, ProduceCall(p)
      PROVE  Channel!Next
  <2>1. PICK x \in Item \ Live(q) :
           /\ \A o \in Producers : val[o] # x
           /\ \A c \in Consumers : got[c] # x
           /\ val' = [val EXCEPT ![p] = x]
    BY <1>2 DEF ProduceCall
  <2>2. q' = q /\ got' = got /\ val[p] = NULL
    BY <1>2 DEF ProduceCall, Shape, TypeOK
  <2>3. \A k \in 1 .. q.size : Contents(q)[k] # x
    <3> SUFFICES ASSUME NEW k \in 1 .. q.size
                 PROVE  Contents(q)[k] # x
      OBVIOUS
    <3>1. k - 1 \in 0 .. q.size - 1
      BY <1>0
    <3> QED
      BY <1>00, <2>1, <3>1 DEF Live
  <2>4. Contents(q)' = Contents(q)
    BY <2>2 DEF Contents, Pos, q_pos
  <2>5. Channel!Offer(p, x)
    BY <1>00, <2>1, <2>2, <2>3, <2>4 DEF Channel!Offer, Channel!Free
  <2> QED
    BY <2>5 DEF Channel!Next
<1>3. ASSUME NEW p \in Producers, ProduceEnqueue(p)
      PROVE  Channel!Next
  <2>1. val[p] \in Item /\ ~ queue_isfull(q) /\ got' = got
    BY <1>3 DEF ProduceEnqueue, Shape, TypeOK
  <2>2. Contents(q') = Append(Contents(q), val[p])
    BY <1>0, <1>3, <2>1, EnqueueContents DEF ProduceEnqueue
  <2>3. Contents(q)' = Contents(q')
    BY DEF Contents, Pos, q_pos
  <2>4. val' = [val EXCEPT ![p] = NULL]
    BY <1>3 DEF ProduceEnqueue
  <2>5. Len(Contents(q)) < Capacity
    BY <1>0, <1>00, <2>1, CapacityAssumption DEF queue_isfull
  <2>6. Channel!Put(p)
    BY <1>0, <2>1, <2>2, <2>3, <2>4, <2>5 DEF Channel!Put
  <2> QED
    BY <2>6 DEF Channel!Next
<1>4. ASSUME NEW c \in Consumers, ConsumeDequeue(c)
      PROVE  Channel!Next
  <2>1. ~ queue_isempty(q) /\ val' = val /\ got[c] = NULL
    BY <1>0, <1>4 DEF ConsumeDequeue, Shape, TypeOK
  <2>2. /\ Contents(q) # << >> /\ Contents(q') = Tail(Contents(q))
        /\ queue_dequeue(q).ret = Head(Contents(q))
    BY <1>0, <1>4, <2>1, DequeueContents DEF ConsumeDequeue
  <2>3. Contents(q)' = Contents(q')
    BY DEF Contents, Pos, q_pos
  <2>4. got' = [got EXCEPT ![c] = Head(Contents(q))]
    BY <1>4, <2>2 DEF ConsumeDequeue
  <2>5. Channel!Take(c)
    BY <2>1, <2>2, <2>3, <2>4 DEF Channel!Take
  <2> QED
    BY <2>5 DEF Channel!Next
<1>5. ASSUME NEW c \in Consumers, Handle(c)
      PROVE  Channel!Next
  <2>1. q' = q /\ val' = val /\ got' = [got EXCEPT ![c] = NULL] /\ got[c] # NULL
    BY <1>5 DEF Handle, Shape, TypeOK
  <2>2. Contents(q)' = Contents(q)
    BY <2>1 DEF Contents, Pos, q_pos
  <2>3. Channel!Discard(c)
    BY <2>1, <2>2 DEF Channel!Discard
  <2> QED
    BY <2>3 DEF Channel!Next
<1> QED
  BY <1>1, <1>2, <1>3, <1>4, <1>5
  DEF Next, Produce, Consume, Close, vars, Lock, Spurious, ProduceWait,
      ConsumeCall, ConsumeWait, ConsumeLast, CloseCall, CloseSet,
      CloseBroadcast, CloseReturn

\* For any capacity and any number of threads the producer-consumer queue
\* is a bounded channel, closed or not.
THEOREM QueueImplementsChannel == Spec => ImplementsChannel
<1>1. Init => Channel!Init
  BY InitOK DEF Init, Channel!Init
<1>2. Shape /\ [Next]_vars => [Channel!Next]_Channel!vars
  BY StepRefines DEF Channel!vars
<1> QED
  BY <1>1, <1>2, AlwaysShape, PTL DEF Spec, ImplementsChannel, Channel!Spec
-----------------------------------------------------------------------------

\* The queue is well formed, and only a cache in mode "lru" rewrites.
CacheShape ==
    /\ CacheTypeOK
    /\ RingOK(cache_queue)
    /\ \A t \in Workers : at[t] = "rewrite" => mode = "lru"

LEMMA CacheInitShape == CacheInit => CacheShape
<1> SUFFICES ASSUME CacheInit
             PROVE  CacheShape
  OBVIOUS
<1>1. RingOK(cache_queue) /\ cache_queue \in QueueType
  BY InitOK DEF CacheInit, RingOK
<1> QED
  BY <1>1 DEF CacheInit, CacheShape, CacheTypeOK, CachePlaces

\* The queue after any call is well formed.
LEMMA RingStaysOK ==
    ASSUME RingOK(cache_queue), NEW x \in Item
    PROVE  /\ RingOK(queue_enqueue(cache_queue, x).q) /\ RingOK(queue_dequeue(cache_queue).q)
           /\ RingOK(queue_requeue(cache_queue, x).q)
           /\ queue_enqueue(cache_queue, x).q \in QueueType
           /\ queue_dequeue(cache_queue).q \in QueueType
           /\ queue_requeue(cache_queue, x).q \in QueueType
<1>1. /\ RingOK(queue_enqueue(cache_queue, x).q) /\ RingOK(queue_dequeue(cache_queue).q)
      /\ RingOK(queue_requeue(cache_queue, x).q)
  BY EnqueueOK, DequeueOK, RequeueOK
<1> QED
  BY <1>1 DEF RingOK

\* What queue_search can return to get_cache.
LEMMA SearchReturns ==
    ASSUME CacheShape, NEW f, NEW junk \in SUBSET (Item \ Readable)
    PROVE  queue_search(cache_queue, Matches(f, junk)) \in Item \cup {NULL}
<1>1. Live(cache_queue) \subseteq Item
  BY LiveSlotHoldsItem DEF Live, CacheShape
<1>2. Matches(f, junk) \in SUBSET Item
  BY <1>1 DEF Matches, Readable, CacheShape, CacheTypeOK
<1> QED
  BY <1>2, SearchType DEF CacheShape

LEMMA CacheNextShape == CacheShape /\ [CacheNext]_cache_vars => CacheShape'
<1> SUFFICES ASSUME CacheShape, [CacheNext]_cache_vars
             PROVE  CacheShape'
  OBVIOUS
<1>0. mode' = mode
  BY DEF CacheNext, Step, cache_vars
<1> USE ItemAssumption, FilesAssumption, <1>0
<1>1. ASSUME NEW t \in Workers, NEW f \in Files, Request(t, f)
      PROVE  CacheShape'
  BY <1>1 DEF Request, CacheShape, CacheTypeOK, CachePlaces
<1>2. ASSUME NEW t \in Workers, Search(t)
      PROVE  CacheShape'
  <2>1. PICK junk \in SUBSET (Item \ Readable) :
           LET e == queue_search(cache_queue, Matches(want[t], junk))
           IN  IF e = NULL
               THEN /\ at' = [at EXCEPT ![t] = "load"]
                    /\ UNCHANGED <<entry, gone>>
               ELSE /\ at' = [at EXCEPT ![t] = AfterHit]
                    /\ entry' = [entry EXCEPT ![t] = e]
                    /\ gone' = [gone EXCEPT ![t] = e \notin heap]
    BY <1>2 DEF Search
  <2> DEFINE e == queue_search(cache_queue, Matches(want[t], junk))
  <2>2. e \in Item \cup {NULL}
    BY SearchReturns
  <2>3. AfterHit \in {"rewrite", "size"} /\ (AfterHit = "rewrite" => mode = "lru")
    BY DEF AfterHit
  <2> HIDE DEF e
  <2>4. CASE e = NULL
    BY <1>2, <2>1, <2>4 DEF Search, CacheShape, CacheTypeOK, CachePlaces, e
  <2>5. CASE e # NULL
    <3>1. /\ at' = [at EXCEPT ![t] = AfterHit]
          /\ entry' = [entry EXCEPT ![t] = e]
          /\ gone' = [gone EXCEPT ![t] = e \notin heap]
      BY <2>1, <2>5 DEF e
    <3>2. at[t] = "search" /\ UNCHANGED <<cache_queue, heap, file, want, mine, victim>>
      BY <1>2 DEF Search
    <3>3. (e \notin heap) \in BOOLEAN
      OBVIOUS
    <3>4. gone' \in [Workers -> BOOLEAN]
      BY <3>1, <3>3, Zenon DEF CacheShape, CacheTypeOK
    <3> QED
      BY <2>2, <2>3, <2>5, <3>1, <3>2, <3>4 DEF CacheShape, CacheTypeOK, CachePlaces
  <2> QED
    BY <2>4, <2>5
<1>3. ASSUME NEW t \in Workers, Rewrite(t)
      PROVE  CacheShape'
  <2>1. entry[t] \in Item
    BY <1>3 DEF Rewrite, CacheShape, CacheTypeOK
  <2>2. RingOK(cache_queue') /\ cache_queue' \in QueueType
    BY <1>3, <2>1, RingStaysOK DEF Rewrite, CacheShape
  <2>3. /\ t \in Workers /\ at[t] = "rewrite"
        /\ UNCHANGED <<mode, heap, file, want, mine, victim>>
    BY <1>0, <1>3 DEF Rewrite
  <2>4. CASE queue_requeue(cache_queue, entry[t]).ret = Failed
    <3>1. /\ at' = [at EXCEPT ![t] = "load"]
          /\ entry' = [entry EXCEPT ![t] = NULL]
          /\ gone' = [gone EXCEPT ![t] = FALSE]
      BY <1>3, <2>4 DEF Rewrite
    <3>2. CacheTypeOK'
      BY <2>2, <2>3, <3>1 DEF CacheShape, CacheTypeOK, CachePlaces
    <3> QED
      BY <2>2, <2>3, <3>1, <3>2 DEF CacheShape, CacheTypeOK
  <2>5. CASE queue_requeue(cache_queue, entry[t]).ret # Failed
    <3>1. at' = [at EXCEPT ![t] = "size"] /\ UNCHANGED <<entry, gone>>
      BY <1>3, <2>5 DEF Rewrite
    <3>2. CacheTypeOK'
      BY <2>2, <2>3, <3>1 DEF CacheShape, CacheTypeOK, CachePlaces
    <3> QED
      BY <2>2, <2>3, <3>1, <3>2 DEF CacheShape, CacheTypeOK
  <2> QED
    BY <2>4, <2>5
<1>4. ASSUME NEW t \in Workers, ReadSize(t)
      PROVE  CacheShape'
  <2>1. at[t] = "size" /\ UNCHANGED <<mode, cache_queue, heap, file, want, mine, victim>>
    BY <1>0, <1>4 DEF ReadSize
  <2>2. CASE at' = [at EXCEPT ![t] = "serve"] /\ UNCHANGED <<entry, gone>>
    BY <2>1, <2>2 DEF CacheShape, CacheTypeOK, CachePlaces
  <2>3. CASE /\ at' = [at EXCEPT ![t] = "load"]
             /\ entry' = [entry EXCEPT ![t] = NULL]
             /\ gone' = [gone EXCEPT ![t] = FALSE]
    BY <2>1, <2>3 DEF CacheShape, CacheTypeOK, CachePlaces
  <2> QED
    BY <1>4, <2>2, <2>3 DEF ReadSize
<1>5. ASSUME NEW t \in Workers, NotFound(t)
      PROVE  CacheShape'
  BY <1>5 DEF NotFound, CacheShape, CacheTypeOK, CachePlaces
<1>6. ASSUME NEW t \in Workers, Load(t)
      PROVE  CacheShape'
  BY <1>6 DEF Load, CacheShape, CacheTypeOK, CachePlaces
<1>7. ASSUME NEW t \in Workers, Write(t)
      PROVE  CacheShape'
  <2>1. mine[t] \in Item
    BY <1>7 DEF Write, CacheShape, CacheTypeOK
  <2>2. RingOK(cache_queue') /\ cache_queue' \in QueueType
    BY <1>7, <2>1, RingStaysOK DEF Write, CacheShape
  <2> QED
    BY <1>7, <2>1, <2>2 DEF Write, CacheShape, CacheTypeOK, CachePlaces
<1>8. ASSUME NEW t \in Workers, Evict(t)
      PROVE  CacheShape'
  <2>1. RingOK(cache_queue') /\ cache_queue' \in QueueType
    BY <1>8, DequeueOK DEF Evict, CacheShape, RingOK
  <2>2. CASE queue_isempty(cache_queue)
    <3>1. queue_dequeue(cache_queue).ret = NULL
      BY <2>2 DEF queue_dequeue
    <3> QED
      BY <1>8, <2>1, <2>2, <3>1 DEF Evict, CacheShape, CacheTypeOK, CachePlaces
  <2>3. CASE ~ queue_isempty(cache_queue)
    <3>1. queue_dequeue(cache_queue).ret \in Item
      BY <2>3, DequeueContents DEF CacheShape
    <3> QED
      BY <1>8, <2>1, <2>3, <3>1 DEF Evict, CacheShape, CacheTypeOK, CachePlaces
  <2> QED
    BY <2>2, <2>3
<1>9. ASSUME NEW t \in Workers, Free(t)
      PROVE  CacheShape'
  BY <1>9 DEF Free, CacheShape, CacheTypeOK, CachePlaces
<1>10. ASSUME NEW t \in Workers, Serve(t)
       PROVE  CacheShape'
  BY <1>10 DEF Serve, CacheShape, CacheTypeOK, CachePlaces
<1>11. ASSUME UNCHANGED cache_vars
       PROVE  CacheShape'
  BY <1>11 DEF cache_vars, CacheShape, CacheTypeOK
<1> QED
  BY <1>1, <1>2, <1>3, <1>4, <1>5, <1>6, <1>7, <1>8, <1>9, <1>10, <1>11
  DEF CacheNext, Step

\* Whatever the workers do between two operations of the cache's queue, it stays
\* well formed, and a thread holds a pointer where cache.c has one.
THEOREM CacheAlwaysShape == CacheSpec => []CacheShape
  BY CacheInitShape, CacheNextShape, PTL DEF CacheSpec

\* The variables keep their types, and a thread holds a pointer exactly in
\* the places where cache.c has one.
THEOREM CacheTypeCorrect == CacheSpec => []CacheTypeOK
<1>1. CacheShape => CacheTypeOK
  BY DEF CacheShape
<1> QED
  BY <1>1, CacheAlwaysShape, PTL

-----------------------------------------------------------------------------
(***************************************************************************)
(* Ownership of the entries.                                               *)
(***************************************************************************)

\* The steps that touch neither the queue nor the entries in hand.
LEMMA QuietOwned ==
    ASSUME EntryOwnedOnce, UNCHANGED <<cache_queue, heap, mine, victim>>
    PROVE  EntryOwnedOnce'
<1>1. Mine' = Mine /\ Victims' = Victims /\ Live(cache_queue)' = Live(cache_queue)
  BY DEF Mine, Victims, Live, Pos, q_pos
<1> QED
  BY <1>1 DEF EntryOwnedOnce, Pos, q_pos

LEMMA LiveType ==
    ASSUME RingOK(cache_queue)
    PROVE  Live(cache_queue) \subseteq Item /\ NULL \notin Live(cache_queue)
<1>1. Live(cache_queue) \subseteq Item
  BY LiveSlotHoldsItem DEF Live
<1> QED
  BY <1>1, ItemAssumption

\* EntryOwnedOnce in terms of Distinct.
LEMMA OwnedDistinct ==
    EntryOwnedOnce <=>
      /\ heap = Live(cache_queue) \cup Mine \cup Victims
      /\ Live(cache_queue) \cap (Mine \cup Victims) = {} /\ Mine \cap Victims = {}
      /\ \A t, u \in Workers :
            /\ mine[t] = mine[u] /\ mine[t] # NULL => t = u
            /\ victim[t] = victim[u] /\ victim[t] # NULL => t = u
      /\ Distinct(cache_queue)
  BY DEF EntryOwnedOnce, Distinct

LEMMA NextOwned == CacheShape /\ EntryOwnedOnce /\ [CacheNext]_cache_vars => EntryOwnedOnce'
<1> SUFFICES ASSUME CacheShape, EntryOwnedOnce, [CacheNext]_cache_vars
             PROVE  EntryOwnedOnce'
  OBVIOUS
<1>0. /\ RingOK(cache_queue) /\ NULL \notin Item
      /\ mine \in [Workers -> Item \cup {NULL}]
      /\ victim \in [Workers -> Item \cup {NULL}]
      /\ heap = Live(cache_queue) \cup Mine \cup Victims
      /\ Live(cache_queue) \cap (Mine \cup Victims) = {} /\ Mine \cap Victims = {}
      /\ Distinct(cache_queue) /\ Live(cache_queue) \subseteq Item /\ NULL \notin Live(cache_queue)
      /\ \A t, u \in Workers :
            /\ mine[t] = mine[u] /\ mine[t] # NULL => t = u
            /\ victim[t] = victim[u] /\ victim[t] # NULL => t = u
  BY OwnedDistinct, LiveType, ItemAssumption DEF CacheShape, CacheTypeOK
<1>00. /\ Live(cache_queue)' = Live(cache_queue') /\ (Distinct(cache_queue') <=> Distinct(cache_queue)')
  BY DEF Live, Distinct, Pos, q_pos
<1>1. ASSUME NEW t \in Workers, Rewrite(t)
      PROVE  EntryOwnedOnce'
  <2>1. entry[t] \in Item
    BY <1>1 DEF Rewrite, CacheShape, CacheTypeOK
  <2>2. Mine' = Mine /\ Victims' = Victims /\ UNCHANGED <<heap, mine, victim>>
    BY <1>1 DEF Rewrite, Mine, Victims
  <2>3. CASE Found(cache_queue, entry[t]) = {}
    <3>1. cache_queue' = cache_queue
      BY <1>1, <2>3 DEF Rewrite, queue_requeue, Found
    <3> QED
      BY <2>2, <3>1, QuietOwned
  <2>4. CASE Found(cache_queue, entry[t]) # {}
    <3>1. Distinct(cache_queue') /\ Live(cache_queue') = Live(cache_queue)
      BY <1>0, <1>1, <2>1, <2>4, RequeueDistinct DEF Rewrite
    <3> QED
      BY <1>0, <1>00, <2>2, <3>1, OwnedDistinct DEF EntryOwnedOnce, Distinct
  <2> QED
    BY <2>3, <2>4
<1>2. ASSUME NEW t \in Workers, Load(t)
      PROVE  EntryOwnedOnce'
  <2>1. PICK e \in Item \ heap :
           heap' = heap \cup {e} /\ mine' = [mine EXCEPT ![t] = e]
    BY <1>2 DEF Load
  <2>2. cache_queue' = cache_queue /\ victim' = victim /\ mine[t] = NULL
    BY <1>2 DEF Load, CacheShape, CacheTypeOK
  <2>3. Live(cache_queue)' = Live(cache_queue) /\ Victims' = Victims /\ Distinct(cache_queue)'
    <3>1. Live(cache_queue)' = Live(cache_queue)
      BY <2>2 DEF Live, Pos, q_pos
    <3>2. Victims' = Victims
      BY <2>2 DEF Victims
    <3>3. Distinct(cache_queue)'
      BY <1>0, <2>2 DEF Distinct, Pos, q_pos
    <3> QED
      BY <3>1, <3>2, <3>3
  <2>4. \A u \in Workers : mine'[u] = IF u = t THEN e ELSE mine[u]
    BY <1>0, <2>1
  <2>5. Mine' = Mine \cup {e}
    BY <1>0, <2>1, <2>2, <2>4 DEF Mine
  <2>6. \A u, v \in Workers : mine'[u] = mine'[v] /\ mine'[u] # NULL => u = v
    <3>1. \A u \in Workers : mine[u] # e
      BY <1>0, <2>1 DEF Mine
    <3> QED
      BY <1>0, <2>4, <3>1
  <2> QED
    BY <1>0, <2>1, <2>2, <2>3, <2>5, <2>6 DEF EntryOwnedOnce, Distinct
<1>3. ASSUME NEW t \in Workers, Write(t)
      PROVE  EntryOwnedOnce'
  <2> DEFINE x == mine[t]
  <2>1. x \in Item /\ x \in Mine /\ UNCHANGED <<heap, victim>>
    BY <1>0, <1>3 DEF Write, CacheShape, CacheTypeOK, Mine
  <2>2. CASE queue_isfull(cache_queue)
    <3>1. cache_queue' = cache_queue /\ mine' = mine
      BY <1>3, <2>2 DEF Write, queue_enqueue
    <3> QED
      BY <2>1, <3>1, QuietOwned
  <2>3. CASE ~ queue_isfull(cache_queue)
    <3>1. cache_queue' = queue_enqueue(cache_queue, x).q /\ mine' = [mine EXCEPT ![t] = NULL]
      BY <1>3, <2>3 DEF Write, queue_enqueue, OK, Failed
    <3>2. Distinct(cache_queue') /\ Live(cache_queue') = Live(cache_queue) \cup {x}
      BY <1>0, <2>1, <2>3, <3>1, EnqueueDistinct, EnqueueContents
    <3>3. \A u \in Workers : mine'[u] = IF u = t THEN NULL ELSE mine[u]
      BY <1>0, <3>1
    <3>4. Mine' = Mine \ {x}
      BY <1>0, <2>1, <3>3 DEF Mine
    <3>5. Victims' = Victims
      BY <2>1 DEF Victims
    <3> HIDE DEF x
    <3>6. \A u, v \in Workers :
             /\ mine'[u] = mine'[v] /\ mine'[u] # NULL => u = v
             /\ victim'[u] = victim'[v] /\ victim'[u] # NULL => u = v
      BY <1>0, <2>1, <3>3
    <3> QED
      BY <1>0, <1>00, <2>1, <3>2, <3>4, <3>5, <3>6 DEF EntryOwnedOnce, Distinct
  <2> QED
    BY <2>2, <2>3
<1>4. ASSUME NEW t \in Workers, Evict(t)
      PROVE  EntryOwnedOnce'
  <2> DEFINE x == queue_dequeue(cache_queue).ret
  <2>1. UNCHANGED <<heap, mine>> /\ victim[t] = NULL /\ Mine' = Mine
    BY <1>4 DEF Evict, CacheShape, CacheTypeOK, Mine
  <2>2. \A u \in Workers : victim'[u] = IF u = t THEN x ELSE victim[u]
    BY <1>0, <1>4 DEF Evict
  <2>3. CASE queue_isempty(cache_queue)
    <3>1. cache_queue' = cache_queue /\ x = NULL
      BY <1>4, <2>3 DEF Evict, queue_dequeue
    <3>2. victim' = victim
      BY <1>0, <1>4, <2>1, <3>1 DEF Evict
    <3> QED
      BY <2>1, <3>1, <3>2, QuietOwned
  <2>4. CASE ~ queue_isempty(cache_queue)
    <3>1. /\ Distinct(cache_queue') /\ x \in Live(cache_queue) /\ Live(cache_queue') = Live(cache_queue) \ {x}
      BY <1>0, <1>4, <2>4, DequeueDistinct DEF Evict
    <3> HIDE DEF x
    <3>2. Victims' = Victims \cup {x}
      BY <1>0, <2>1, <2>2, <3>1 DEF Victims
    <3>3. \A u, v \in Workers : victim'[u] = victim'[v] /\ victim'[u] # NULL => u = v
      <4>1. \A u \in Workers : victim[u] # x
        BY <1>0, <3>1 DEF Victims
      <4> QED
        BY <1>0, <2>2, <4>1
    <3> QED
      BY <1>0, <1>00, <2>1, <3>1, <3>2, <3>3 DEF EntryOwnedOnce, Distinct
  <2> QED
    BY <2>3, <2>4
<1>5. ASSUME NEW t \in Workers, Free(t)
      PROVE  EntryOwnedOnce'
  <2> DEFINE x == victim[t]
  <2>1. /\ cache_queue' = cache_queue /\ mine' = mine /\ x \in Item /\ x \in Victims
        /\ heap' = heap \ {x}
    BY <1>0, <1>5 DEF Free, CacheShape, CacheTypeOK, Victims
  <2>2. \A u \in Workers : victim'[u] = IF u = t THEN NULL ELSE victim[u]
    BY <1>0, <1>5 DEF Free
  <2>3. Live(cache_queue)' = Live(cache_queue) /\ Mine' = Mine /\ Distinct(cache_queue)'
    <3>1. Live(cache_queue)' = Live(cache_queue)
      BY <2>1 DEF Live, Pos, q_pos
    <3>2. Mine' = Mine
      BY <2>1 DEF Mine
    <3>3. Distinct(cache_queue)'
      BY <1>0, <2>1 DEF Distinct, Pos, q_pos
    <3> QED
      BY <3>1, <3>2, <3>3
  <2>4. Victims' = Victims \ {x}
    BY <1>0, <2>1, <2>2 DEF Victims
  <2> HIDE DEF x
  <2> QED
    BY <1>0, <2>1, <2>2, <2>3, <2>4 DEF EntryOwnedOnce, Distinct
<1>6. ASSUME UNCHANGED <<cache_queue, heap, mine, victim>>
      PROVE  EntryOwnedOnce'
  BY <1>6, QuietOwned
<1> QED
  BY <1>1, <1>2, <1>3, <1>4, <1>5, <1>6
  DEF CacheNext, Step, cache_vars, Request, Search, ReadSize, NotFound, Serve

\* No entry is freed twice, freed while it is in the cache, or leaked, for
\* any number of threads.
THEOREM CacheSingleOwner == CacheSpec => []EntryOwnedOnce
<1>1. CacheInit => EntryOwnedOnce
  <2> SUFFICES ASSUME CacheInit
               PROVE  EntryOwnedOnce
    OBVIOUS
  <2>1. Mine = {} /\ Victims = {} /\ Live(cache_queue) = {} /\ cache_queue.size = 0
    BY DEF CacheInit, Mine, Victims, Live, queue_init
  <2> QED
    BY <2>1 DEF CacheInit, EntryOwnedOnce
<1> QED
  BY <1>1, NextOwned, CacheAlwaysShape, PTL DEF CacheSpec

-----------------------------------------------------------------------------
(***************************************************************************)
(* When an eviction finds no entry.  A thread that has taken an entry off  *)
(* writes its own before it evicts again, so while some thread is about to *)
(* evict, the free places of the queue are no more than the threads about  *)
(* to write.  If it finds the queue empty, these are as many as the queue  *)
(* has places, and it is not among them: the cache has to have fewer       *)
(* entries than there are threads.                                         *)
(***************************************************************************)
Evicting == {t \in Workers : at[t] = "evict"}

RoomIsClaimed == Evicting # {} => Capacity <= cache_queue.size + Cardinality(Writing)

LEMMA WritingFinite ==
    /\ IsFiniteSet(Writing) /\ Cardinality(Writing) \in Nat
    /\ IsFiniteSet(Writing') /\ Cardinality(Writing') \in Nat
<1>1. Writing \in SUBSET Workers /\ Writing' \in SUBSET Workers
  BY DEF Writing
<1> QED
  BY <1>1, WorkersFinite, FS_Subset, FS_CardinalityType

\* The steps after which no more threads evict, no fewer write, and the
\* queue holds as many entries as before.
LEMMA QuietRoom ==
    ASSUME RingOK(cache_queue), RoomIsClaimed, cache_queue'.size = cache_queue.size,
           Evicting' \subseteq Evicting, Writing \subseteq Writing'
    PROVE  RoomIsClaimed'
<1>1. Cardinality(Writing) <= Cardinality(Writing')
  BY WritingFinite, FS_Subset
<1>2. cache_queue.size \in 0 .. Capacity
  BY DEF RingOK, QueueType
<1> QED
  BY <1>1, <1>2, WritingFinite, CapacityAssumption DEF RoomIsClaimed

LEMMA NextRoom == CacheShape /\ RoomIsClaimed /\ [CacheNext]_cache_vars => RoomIsClaimed'
<1> SUFFICES ASSUME CacheShape, RoomIsClaimed, [CacheNext]_cache_vars
             PROVE  RoomIsClaimed'
  OBVIOUS
<1>0. /\ RingOK(cache_queue) /\ cache_queue.size \in 0 .. Capacity
      /\ at \in [Workers -> CachePlaces]
  BY DEF CacheShape, CacheTypeOK, RingOK, QueueType
<1>1. ASSUME NEW t \in Workers, NEW place \in CachePlaces, cache_queue'.size = cache_queue.size,
             at[t] \notin {"evict", "write", "free"}, place # "evict",
             at' = [at EXCEPT ![t] = place]
      PROVE  RoomIsClaimed'
  <2>1. Evicting' \subseteq Evicting /\ Writing \subseteq Writing'
    BY <1>0, <1>1 DEF Evicting, Writing
  <2> QED
    BY <1>0, <1>1, <2>1, QuietRoom
<1>2. ASSUME NEW t \in Workers, Rewrite(t)
      PROVE  RoomIsClaimed'
  <2>1. cache_queue'.size = cache_queue.size
    BY <1>2 DEF Rewrite, queue_requeue
  <2>2. /\ "load" \in CachePlaces /\ "size" \in CachePlaces /\ at[t] = "rewrite"
        /\ \/ at' = [at EXCEPT ![t] = "load"]
           \/ at' = [at EXCEPT ![t] = "size"]
    BY <1>2 DEF Rewrite, CachePlaces
  <2> QED
    BY <1>1, <2>1, <2>2
<1>3. ASSUME NEW t \in Workers, NEW place \in CachePlaces \ {"evict"},
             at[t] \notin {"evict", "write", "free"}, cache_queue' = cache_queue,
             at' = [at EXCEPT ![t] = place]
      PROVE  RoomIsClaimed'
  BY <1>1, <1>3
<1>4. ASSUME NEW t \in Workers, Write(t)
      PROVE  RoomIsClaimed'
  <2>1. mine[t] \in Item /\ at[t] = "write"
    BY <1>4 DEF Write, CacheShape, CacheTypeOK
  <2>2. CASE queue_isfull(cache_queue)
    <3>1. cache_queue'.size = Capacity
      BY <1>4, <2>2 DEF Write, queue_enqueue, queue_isfull
    <3> QED
      BY <1>0, <3>1, WritingFinite, CapacityAssumption DEF RoomIsClaimed
  <2>3. CASE ~ queue_isfull(cache_queue)
    <3>1. cache_queue'.size = cache_queue.size + 1
      BY <1>0, <1>4, <2>1, <2>3, EnqueueFields DEF Write
    <3>2. at' = [at EXCEPT ![t] = "serve"]
      BY <1>4, <2>3 DEF Write, queue_enqueue, OK, Failed
    <3>3. Evicting' = Evicting /\ Writing' = Writing \ {t} /\ t \in Writing
      BY <1>0, <2>1, <3>2 DEF Evicting, Writing
    <3>4. Cardinality(Writing') = Cardinality(Writing) - 1
      BY <3>3, WritingFinite, FS_RemoveElement
    <3> QED
      BY <1>0, <3>1, <3>3, <3>4, WritingFinite, CapacityAssumption
      DEF RoomIsClaimed
  <2> QED
    BY <2>2, <2>3
<1>5. ASSUME NEW t \in Workers, Evict(t)
      PROVE  RoomIsClaimed'
  <2>1. at[t] = "evict"
    BY <1>5 DEF Evict
  <2>2. CASE queue_isempty(cache_queue)
    <3>1. cache_queue' = cache_queue /\ at' = [at EXCEPT ![t] = "fault"]
      BY <1>5, <2>2 DEF Evict, queue_dequeue
    <3>2. Evicting' \subseteq Evicting /\ Writing \subseteq Writing'
      BY <1>0, <2>1, <3>1 DEF Evicting, Writing
    <3> QED
      BY <1>0, <3>1, <3>2, QuietRoom
  <2>3. CASE ~ queue_isempty(cache_queue)
    <3>1. cache_queue'.size = cache_queue.size - 1
      BY <1>0, <1>5, <2>3, DequeueFields DEF Evict
    <3>2. at' = [at EXCEPT ![t] = "free"]
      BY <1>5, <2>3 DEF Evict
    <3>3. /\ Evicting' \subseteq Evicting /\ Writing' = Writing \cup {t}
          /\ t \notin Writing
      BY <1>0, <2>1, <3>2 DEF Evicting, Writing
    <3>4. Cardinality(Writing') = Cardinality(Writing) + 1
      BY <3>3, WritingFinite, FS_AddElement
    <3> QED
      BY <1>0, <3>1, <3>3, <3>4, WritingFinite, CapacityAssumption
      DEF RoomIsClaimed
  <2> QED
    BY <2>2, <2>3
<1>6. ASSUME NEW t \in Workers, Free(t)
      PROVE  RoomIsClaimed'
  <2>1. Evicting' = Evicting /\ Writing' = Writing /\ cache_queue' = cache_queue
    BY <1>0, <1>6 DEF Free, Evicting, Writing
  <2> QED
    BY <1>0, <2>1, QuietRoom
<1>7. ASSUME NEW t \in Workers,
             \/ \E f \in Files : Request(t, f)
             \/ Search(t) \/ ReadSize(t) \/ NotFound(t) \/ Load(t) \/ Serve(t)
      PROVE  RoomIsClaimed'
  <2>1. /\ at[t] \notin {"evict", "write", "free"} /\ cache_queue' = cache_queue
        /\ \E place \in CachePlaces \ {"evict"} : at' = [at EXCEPT ![t] = place]
    BY <1>7 DEF Request, Search, ReadSize, NotFound, Load, Serve, AfterHit, CachePlaces
  <2> QED
    BY <1>3, <2>1
<1>8. ASSUME UNCHANGED cache_vars
      PROVE  RoomIsClaimed'
  BY <1>8 DEF cache_vars, RoomIsClaimed, Evicting, Writing
<1> QED
  BY <1>2, <1>4, <1>5, <1>6, <1>7, <1>8 DEF CacheNext, Step

\* The NULL that queue_read may return in put_cache comes only when as many
\* other threads as the cache has entries are about to write, for any number
\* of entries and any finite set of threads.
THEOREM FaultNeedsCrowd == CacheSpec => []FaultsOnlyIfCrowded
<1>1. CacheInit => RoomIsClaimed /\ FaultsOnlyIfCrowded
  BY DEF CacheInit, RoomIsClaimed, Evicting, FaultsOnlyIfCrowded
<1>2. CacheShape /\ RoomIsClaimed /\ FaultsOnlyIfCrowded /\ [CacheNext]_cache_vars
      => FaultsOnlyIfCrowded'
  <2> SUFFICES ASSUME CacheShape, RoomIsClaimed, FaultsOnlyIfCrowded, [CacheNext]_cache_vars
               PROVE  FaultsOnlyIfCrowded'
    OBVIOUS
  <2>0. at \in [Workers -> CachePlaces] /\ cache_queue.size \in 0 .. Capacity
    BY DEF CacheShape, CacheTypeOK, RingOK, QueueType
  <2>1. ASSUME NEW t \in Workers, Evict(t), queue_isempty(cache_queue)
        PROVE  FaultsOnlyIfCrowded'
    <3>1. at[t] = "evict" /\ at' = [at EXCEPT ![t] = "fault"]
      BY <2>1 DEF Evict
    <3>2. Capacity <= Cardinality(Writing)
      BY <2>0, <2>1, <3>1, WritingFinite, CapacityAssumption
      DEF RoomIsClaimed, Evicting, queue_isempty
    <3>3. Writing' = Writing
      BY <2>0, <3>1 DEF Writing
    <3> QED
      BY <3>2, <3>3 DEF FaultsOnlyIfCrowded
  <2>2. ASSUME NEW t \in Workers, Step(t), ~ (Evict(t) /\ queue_isempty(cache_queue)), Running
        PROVE  FaultsOnlyIfCrowded'
    <3>1. \E place \in CachePlaces \ {"fault"} : at' = [at EXCEPT ![t] = place]
      BY <2>2 DEF Step, Request, Search, Rewrite, ReadSize, NotFound, Load,
                  Write, Evict, Free, Serve, AfterHit, CachePlaces
    <3> QED
      BY <2>0, <2>2, <3>1 DEF FaultsOnlyIfCrowded, Running
  <2>3. ASSUME UNCHANGED cache_vars
        PROVE  FaultsOnlyIfCrowded'
    BY <2>3 DEF cache_vars, FaultsOnlyIfCrowded, Writing
  <2> QED
    BY <2>1, <2>2, <2>3 DEF CacheNext
<1> QED
  BY <1>1, <1>2, NextRoom, CacheAlwaysShape, PTL DEF CacheSpec

-----------------------------------------------------------------------------
(***************************************************************************)
(* The loop of put_cache.  A thread that has failed is still in the loop;  *)
(* back before its queue_write it has made room, and no write has filled   *)
(* it: a write that succeeds empties the set of those who have failed.     *)
(***************************************************************************)
PutLoop == {"write", "evict", "free", "fault"}

RoomForFailed ==
    /\ failed \in SUBSET Workers
    /\ \A t \in failed :
          /\ at[t] \in PutLoop
          /\ at[t] \in {"free", "write"} => cache_queue.size < Capacity

\* What the steps outside the loop have in common.
LEMMA OutsideLoop ==
    ASSUME CacheShape, NEW t \in Workers, Step(t), ~ Write(t), ~ Evict(t), ~ Free(t)
    PROVE  /\ at[t] \notin PutLoop /\ cache_queue'.size = cache_queue.size
           /\ \E place \in CachePlaces : at' = [at EXCEPT ![t] = place]
<1>1. CASE Rewrite(t)
  <2>1. cache_queue'.size = cache_queue.size
    BY <1>1 DEF Rewrite, queue_requeue
  <2> QED
    BY <1>1, <2>1 DEF Rewrite, PutLoop, CachePlaces
<1>2. CASE \/ \E f \in Files : Request(t, f)
           \/ Search(t) \/ ReadSize(t) \/ NotFound(t) \/ Load(t) \/ Serve(t)
  BY <1>2 DEF Request, Search, ReadSize, NotFound, Load, Serve, AfterHit, PutLoop, CachePlaces
<1> QED
  BY <1>1, <1>2 DEF Step

LEMMA NextRoomForFailed ==
    CacheShape /\ RoomForFailed /\ [RetryNext]_retry_vars => RoomForFailed'
<1> SUFFICES ASSUME CacheShape, RoomForFailed, [RetryNext]_retry_vars
             PROVE  RoomForFailed'
  OBVIOUS
<1>0. /\ RingOK(cache_queue) /\ cache_queue.size \in 0 .. Capacity
      /\ at \in [Workers -> CachePlaces]
  BY DEF CacheShape, CacheTypeOK, RingOK, QueueType
<1>1. ASSUME NEW t \in Workers, Step(t), Remember, ~ Write(t), ~ Evict(t), ~ Free(t)
      PROVE  RoomForFailed'
  <2>1. PICK place \in CachePlaces :
           /\ at[t] \notin PutLoop /\ cache_queue'.size = cache_queue.size
           /\ at' = [at EXCEPT ![t] = place]
    BY <1>1, OutsideLoop
  <2>2. failed' = failed
    BY <1>0, <1>1, <2>1 DEF Remember, WriteFails, WriteSucceeds, PutLoop
  <2> QED
    BY <1>0, <2>1, <2>2 DEF RoomForFailed
<1>2. ASSUME NEW t \in Workers, Write(t), Remember
      PROVE  RoomForFailed'
  <2>1. CASE queue_isfull(cache_queue)
    <3>1. at[t] = "write" /\ at' = [at EXCEPT ![t] = "evict"] /\ cache_queue' = cache_queue
      BY <1>2, <2>1 DEF Write, queue_enqueue
    <3>2. failed' = failed \cup {t}
      BY <1>0, <1>2, <3>1 DEF Remember, WriteFails, WriteSucceeds
    <3> QED
      BY <1>0, <3>1, <3>2 DEF RoomForFailed, PutLoop
  <2>2. CASE ~ queue_isfull(cache_queue)
    <3>1. at[t] = "write" /\ at' = [at EXCEPT ![t] = "serve"]
      BY <1>2, <2>2 DEF Write, queue_enqueue, OK, Failed
    <3>2. failed' = {}
      BY <1>0, <1>2, <3>1 DEF Remember, WriteSucceeds
    <3> QED
      BY <3>2 DEF RoomForFailed
  <2> QED
    BY <2>1, <2>2
<1>3. ASSUME NEW t \in Workers, Evict(t), Remember
      PROVE  RoomForFailed'
  <2>1. failed' = failed
    BY <1>0, <1>3 DEF Evict, Remember, WriteFails, WriteSucceeds
  <2>2. CASE queue_isempty(cache_queue)
    BY <1>0, <1>3, <2>1, <2>2, CapacityAssumption
    DEF Evict, queue_dequeue, queue_isempty, RoomForFailed, PutLoop
  <2>3. CASE ~ queue_isempty(cache_queue)
    <3>1. cache_queue'.size = cache_queue.size - 1
      BY <1>0, <1>3, <2>3, DequeueFields DEF Evict
    <3>2. cache_queue'.size < Capacity
      BY <1>0, <3>1, CapacityAssumption
    <3> QED
      BY <1>0, <1>3, <2>1, <2>3, <3>2 DEF Evict, RoomForFailed, PutLoop
  <2> QED
    BY <2>2, <2>3
<1>4. ASSUME NEW t \in Workers, Free(t), Remember
      PROVE  RoomForFailed'
  <2>1. failed' = failed
    BY <1>0, <1>4 DEF Free, Remember, WriteFails, WriteSucceeds
  <2> QED
    BY <1>0, <1>4, <2>1 DEF Free, RoomForFailed, PutLoop
<1>5. ASSUME UNCHANGED retry_vars
      PROVE  RoomForFailed'
  BY <1>5 DEF retry_vars, cache_vars, RoomForFailed
<1> QED
  BY <1>1, <1>2, <1>3, <1>4, <1>5 DEF RetryNext, CacheNext

\* A thread whose queue_write fails in put_cache, and that has made room,
\* fails again only if another thread has written in between; for any number
\* of entries and any finite set of threads.
THEOREM PutLoopIsLockFree == RetrySpec => FailsAgainOnlyIfOvertaken
<1>1. RetryInit => RoomForFailed
  BY DEF RetryInit, RoomForFailed
<1>2. CacheShape /\ RoomForFailed /\ [RetryNext]_retry_vars
      => [\A t \in failed : ~ WriteFails(t)]_retry_vars
  <2> SUFFICES ASSUME CacheShape, RoomForFailed, NEW t \in Workers, Step(t),
                      NEW u \in failed, WriteFails(u)
               PROVE  FALSE
    BY DEF RetryNext, CacheNext
  <2>0. /\ at \in [Workers -> CachePlaces] /\ u \in Workers /\ at[u] = "write"
        /\ cache_queue.size < Capacity /\ cache_queue.size \in 0 .. Capacity
    BY DEF CacheShape, CacheTypeOK, RingOK, QueueType, RoomForFailed, WriteFails
  <2>1. ASSUME Write(t)
        PROVE  FALSE
    <3>1. ~ queue_isfull(cache_queue)
      BY <2>0, CapacityAssumption DEF queue_isfull
    <3>2. at' = [at EXCEPT ![t] = "serve"]
      BY <2>1, <3>1 DEF Write, queue_enqueue, OK, Failed
    <3> QED
      BY <2>0, <3>2 DEF WriteFails
  <2>2. ASSUME Evict(t) \/ Free(t)
        PROVE  FALSE
    BY <2>0, <2>2 DEF Evict, Free, WriteFails
  <2>3. ASSUME ~ Write(t), ~ Evict(t), ~ Free(t)
        PROVE  FALSE
    BY <2>0, <2>3, OutsideLoop DEF PutLoop, WriteFails
  <2> QED
    BY <2>1, <2>2, <2>3
<1>3. RetrySpec => CacheSpec
  <2>1. RetryInit => CacheInit
    BY DEF RetryInit
  <2>2. [RetryNext]_retry_vars => [CacheNext]_cache_vars
    BY DEF RetryNext, retry_vars
  <2> QED
    BY <2>1, <2>2, PTL DEF RetrySpec, CacheSpec
<1> QED
  BY <1>1, <1>2, <1>3, NextRoomForFailed, CacheAlwaysShape, PTL
  DEF RetrySpec, FailsAgainOnlyIfOvertaken

-----------------------------------------------------------------------------
(***************************************************************************)
(* The refinement.  Load allocates, Write inserts, Evict evicts and Free   *)
(* releases.  In mode "oldest" Search is the hit, in mode "lru" Rewrite.   *)
(* Serve answers, and ReadSize does when what it reads is -1.  Every other *)
(* step stutters, and so do the calls that fail.                           *)
(***************************************************************************)
LEMMA SameOperators ==
    /\ \A S : Eviction!Min(S) = Min(S)
    /\ \A s, i : Eviction!RemoveAt(s, i) = RemoveAt(s, i)
  BY DEF Eviction!Min, Min, Eviction!RemoveAt, RemoveAt

LEMMA ListedIsLive ==
    ASSUME RingOK(cache_queue)
    PROVE  Eviction!Listed = Live(cache_queue) /\ Len(Contents(cache_queue)) = cache_queue.size
  BY ContentsAreLive, ContentsShape DEF Eviction!Listed

\* The steps of a thread that neither takes an answer nor gives one up.
LEMMA SameAnswers ==
    ASSUME CacheShape, NEW t \in Workers, NEW place \in CachePlaces,
           at' = [at EXCEPT ![t] = place], UNCHANGED entry,
           entry[t] # NULL => (place = "rewrite" <=> at[t] = "rewrite")
    PROVE  Answers' = Answers
<1>1. at \in [Workers -> CachePlaces] /\ entry \in [Workers -> Item \cup {NULL}]
  BY DEF CacheShape, CacheTypeOK
<1>2. \A u \in Workers : (IF at'[u] = "rewrite" THEN NULL ELSE entry'[u])
                         = (IF at[u] = "rewrite" THEN NULL ELSE entry[u])
  BY <1>1
<1> QED
  BY <1>2 DEF Answers

\* A thread that comes to have entry e, or none, past queue_rewrite.
LEMMA NewAnswer ==
    ASSUME CacheShape, NEW t \in Workers, NEW place \in CachePlaces \ {"rewrite"},
           NEW e \in Item \cup {NULL},
           at' = [at EXCEPT ![t] = place], entry' = [entry EXCEPT ![t] = e]
    PROVE  Answers' = [Answers EXCEPT ![t] = e]
<1>1. at \in [Workers -> CachePlaces] /\ entry \in [Workers -> Item \cup {NULL}]
  BY DEF CacheShape, CacheTypeOK
<1>2. \A u \in Workers : (IF at'[u] = "rewrite" THEN NULL ELSE entry'[u])
                         = (IF u = t THEN e ELSE IF at[u] = "rewrite" THEN NULL ELSE entry[u])
  BY <1>1
<1> QED
  BY <1>2 DEF Answers

LEMMA CacheStepRefines ==
    CacheShape /\ EntryOwnedOnce /\ [CacheNext]_cache_vars
    => Eviction!Step \/ UNCHANGED <<Contents(cache_queue), heap, Answers>>
<1> SUFFICES ASSUME CacheShape, EntryOwnedOnce, [CacheNext]_cache_vars
             PROVE  Eviction!Step \/ UNCHANGED <<Contents(cache_queue), heap, Answers>>
  OBVIOUS
<1>0. /\ RingOK(cache_queue) /\ cache_queue.size \in 0 .. Capacity
      /\ Eviction!Listed = Live(cache_queue) /\ Len(Contents(cache_queue)) = cache_queue.size
      /\ Contents(cache_queue)' = Contents(cache_queue')
      /\ mode \in {"oldest", "lru"}
  BY ListedIsLive DEF CacheShape, CacheTypeOK, RingOK, QueueType, Contents, Pos, q_pos
<1>00. /\ \A t \in Workers : Answers[t] = IF at[t] = "rewrite" THEN NULL ELSE entry[t]
       /\ \A t \in Workers : entry[t] # NULL <=> at[t] \in {"rewrite", "size", "serve"}
       /\ entry \in [Workers -> Item \cup {NULL}]
  BY DEF Answers, CacheShape, CacheTypeOK
<1>1. ASSUME UNCHANGED <<cache_queue, heap, Answers>>
      PROVE  UNCHANGED <<Contents(cache_queue), heap, Answers>>
  BY <1>1 DEF Contents, Pos, q_pos
<1>2. ASSUME NEW t \in Workers, Load(t)
      PROVE  Eviction!Step
  <2>1. PICK e \in Item \ heap : heap' = heap \cup {e}
    BY <1>2 DEF Load
  <2>2. cache_queue' = cache_queue /\ Answers' = Answers
    BY <1>2, <1>00, SameAnswers DEF Load, CachePlaces
  <2>3. Eviction!Allocate(e)
    BY <1>0, <2>1, <2>2 DEF Eviction!Allocate
  <2> QED
    BY <2>1, <2>3 DEF Eviction!Step
<1>3. ASSUME NEW t \in Workers, Write(t)
      PROVE  Eviction!Step \/ UNCHANGED <<cache_queue, heap, Answers>>
  <2>1. mine[t] \in Item /\ heap' = heap
    BY <1>3 DEF Write, CacheShape, CacheTypeOK
  <2>2. CASE queue_isfull(cache_queue)
    <3>1. UNCHANGED <<cache_queue, entry>> /\ at' = [at EXCEPT ![t] = "evict"] /\ at[t] = "write"
      BY <1>3, <2>2 DEF Write, queue_enqueue
    <3>2. Answers' = Answers
      BY <3>1, SameAnswers DEF CachePlaces
    <3> QED
      BY <2>1, <3>1, <3>2
  <2>3. CASE ~ queue_isfull(cache_queue)
    <3>1. Contents(cache_queue)' = Append(Contents(cache_queue), mine[t])
      BY <1>0, <1>3, <2>1, <2>3, EnqueueContents DEF Write
    <3>2. mine[t] \in heap \ Live(cache_queue)
      <4>1. mine[t] \in Mine
        BY <2>1, ItemAssumption DEF Mine
      <4> QED
        BY <4>1 DEF EntryOwnedOnce
    <3>3. Len(Contents(cache_queue)) < Capacity
      BY <1>0, <2>3, CapacityAssumption DEF queue_isfull
    <3>4. Answers[t] = NULL /\ Answers' = [Answers EXCEPT ![t] = mine[t]]
      <4>1. /\ entry' = [entry EXCEPT ![t] = mine[t]] /\ at' = [at EXCEPT ![t] = "serve"]
            /\ at[t] = "write"
        BY <1>3, <2>3 DEF Write, queue_enqueue, OK, Failed
      <4> QED
        BY <1>00, <2>1, <4>1, NewAnswer DEF CachePlaces
    <3>5. Eviction!Insert(t, mine[t])
      BY <1>0, <2>1, <3>1, <3>2, <3>3, <3>4 DEF Eviction!Insert, Eviction!AnswersFrom
    <3> QED
      BY <2>1, <3>5 DEF Eviction!Step
  <2> QED
    BY <2>2, <2>3
<1>4. ASSUME NEW t \in Workers, Evict(t)
      PROVE  Eviction!Step \/ UNCHANGED <<cache_queue, heap, Answers>>
  <2>1. /\ heap' = heap /\ cache_queue' = queue_dequeue(cache_queue).q
        /\ Answers' = Answers
    BY <1>4, SameAnswers DEF Evict, CachePlaces
  <2>2. CASE queue_isempty(cache_queue)
    BY <2>1, <2>2 DEF queue_dequeue
  <2>3. CASE ~ queue_isempty(cache_queue)
    <3>1. Contents(cache_queue') = Tail(Contents(cache_queue)) /\ Contents(cache_queue) # << >>
      BY <1>0, <2>1, <2>3, DequeueContents
    <3> QED
      BY <1>0, <2>1, <3>1 DEF Eviction!Evict, Eviction!Step
  <2> QED
    BY <2>2, <2>3
<1>5. ASSUME NEW t \in Workers, Rewrite(t)
      PROVE  Eviction!Step \/ UNCHANGED <<cache_queue, heap, Answers>>
  <2> DEFINE x == entry[t]
  <2>1. /\ x \in Item /\ heap' = heap /\ mode = "lru" /\ at[t] = "rewrite"
        /\ cache_queue' = queue_requeue(cache_queue, x).q
    BY <1>5 DEF Rewrite, CacheShape, CacheTypeOK
  <2>2. CASE Found(cache_queue, x) = {}
    <3>1. /\ cache_queue' = cache_queue
          /\ at' = [at EXCEPT ![t] = "load"] /\ entry' = [entry EXCEPT ![t] = NULL]
      BY <1>5, <2>1, <2>2 DEF Rewrite, queue_requeue, Found
    <3>2. Answers' = [Answers EXCEPT ![t] = NULL]
      BY <3>1, NewAnswer DEF CachePlaces
    <3>3. Answers[t] = NULL
      BY <1>00, <2>1
    <3> QED
      BY <2>1, <3>1, <3>2, <3>3 DEF Answers
  <2>3. CASE Found(cache_queue, x) # {}
    <3> DEFINE places == {k \in 1 .. Len(Contents(cache_queue)) : Contents(cache_queue)[k] = x}
    <3>1. Contents(cache_queue') = Append(RemoveAt(Contents(cache_queue), Min(Found(cache_queue, x)) + 1), x)
      BY <1>0, <2>1, <2>3, RequeueContents
    <3>2. Min(places) = Min(Found(cache_queue, x)) + 1
      <4>1. /\ Found(cache_queue, x) = {i \in 0 .. cache_queue.size - 1 : cache_queue.items[Pos(cache_queue, i)] \in {x}}
            /\ places = {k \in 1 .. Len(Contents(cache_queue)) : Contents(cache_queue)[k] \in {x}}
        BY DEF Found
      <4> HIDE DEF places
      <4> QED
        BY <1>0, <2>3, <4>1, PlacesAreLive
    <3>3. x \in Live(cache_queue)
      BY <2>3, FoundIsLive
    <3>4. Answers[t] = NULL /\ Answers' = [Answers EXCEPT ![t] = x]
      <4>1. at' = [at EXCEPT ![t] = "size"] /\ UNCHANGED entry
        BY <1>5, <2>3 DEF Rewrite, queue_requeue, Found, OK, Failed
      <4>2. entry' = [entry EXCEPT ![t] = x]
        BY <1>00, <4>1
      <4> QED
        BY <1>00, <2>1, <4>1, <4>2, NewAnswer DEF CachePlaces
    <3>5. Eviction!LruHit(t, x)
      BY <1>0, <2>1, <3>1, <3>2, <3>3, <3>4, SameOperators
      DEF Eviction!LruHit, Eviction!AnswersFrom
    <3> QED
      BY <2>1, <3>5 DEF Eviction!Step
  <2> QED
    BY <2>2, <2>3
<1>6. ASSUME NEW t \in Workers, Free(t)
      PROVE  Eviction!Step
  <2>1. /\ victim[t] \in Item /\ heap' = heap \ {victim[t]} /\ cache_queue' = cache_queue
        /\ Answers' = Answers
    BY <1>6, SameAnswers DEF Free, CacheShape, CacheTypeOK, CachePlaces
  <2>2. victim[t] \in heap \ Live(cache_queue)
    <3>1. victim[t] \in Victims
      BY <2>1, ItemAssumption DEF Victims
    <3> QED
      BY <3>1 DEF EntryOwnedOnce
  <2>3. Eviction!Release(victim[t])
    BY <1>0, <2>1, <2>2 DEF Eviction!Release
  <2> QED
    BY <2>1, <2>3 DEF Eviction!Step
<1>7. ASSUME NEW t \in Workers, Search(t)
      PROVE  Eviction!Step \/ UNCHANGED <<cache_queue, heap, Answers>>
  <2>1. PICK junk \in SUBSET (Item \ Readable) :
           LET e == queue_search(cache_queue, Matches(want[t], junk))
           IN  IF e = NULL
               THEN /\ at' = [at EXCEPT ![t] = "load"]
                    /\ UNCHANGED <<entry, gone>>
               ELSE /\ at' = [at EXCEPT ![t] = AfterHit]
                    /\ entry' = [entry EXCEPT ![t] = e]
                    /\ gone' = [gone EXCEPT ![t] = e \notin heap]
    BY <1>7 DEF Search
  <2> DEFINE e == queue_search(cache_queue, Matches(want[t], junk))
  <2>2. e \in Item \cup {NULL} /\ UNCHANGED <<cache_queue, heap>> /\ at[t] = "search"
    BY <1>7, SearchReturns DEF Search
  <2>3. entry[t] = NULL /\ Answers[t] = NULL
    BY <1>00, <2>2
  <2>4. CASE e = NULL
    <3>1. at' = [at EXCEPT ![t] = "load"] /\ UNCHANGED entry
      BY <2>1, <2>4
    <3> QED
      BY <2>2, <2>3, <3>1, SameAnswers DEF CachePlaces
  <2>5. CASE e # NULL /\ mode = "oldest"
    <3>1. at' = [at EXCEPT ![t] = "size"] /\ entry' = [entry EXCEPT ![t] = e]
      BY <2>1, <2>5 DEF AfterHit
    <3> HIDE DEF e
    <3>2. Answers' = [Answers EXCEPT ![t] = e]
      BY <2>2, <3>1, NewAnswer DEF CachePlaces
    <3>3. Contents(cache_queue)' = Contents(cache_queue)
      BY <1>0, <2>2
    <3>4. Eviction!OldestHit(t, e)
      BY <2>2, <2>3, <2>5, <3>2, <3>3 DEF Eviction!OldestHit, Eviction!AnswersFrom
    <3> QED
      BY <2>2, <2>5, <3>4 DEF Eviction!Step
  <2>6. CASE e # NULL /\ mode = "lru"
    <3>1. at' = [at EXCEPT ![t] = "rewrite"] /\ entry' = [entry EXCEPT ![t] = e]
      BY <2>1, <2>6 DEF AfterHit
    <3>2. at \in [Workers -> CachePlaces]
      BY DEF CacheShape, CacheTypeOK
    <3> HIDE DEF e
    <3>3. \A u \in Workers : (IF at'[u] = "rewrite" THEN NULL ELSE entry'[u])
                             = (IF at[u] = "rewrite" THEN NULL ELSE entry[u])
      BY <1>00, <2>3, <3>1, <3>2
    <3>4. Answers' = Answers
      BY <3>3 DEF Answers
    <3> QED
      BY <2>2, <3>4
  <2> QED
    BY <1>0, <2>4, <2>5, <2>6
<1>8. ASSUME NEW t \in Workers, ReadSize(t) \/ Serve(t)
      PROVE  Eviction!Step \/ UNCHANGED <<cache_queue, heap, Answers>>
  <2>1. UNCHANGED <<cache_queue, heap>> /\ at[t] \in {"size", "serve"}
    BY <1>8 DEF ReadSize, Serve
  <2>2. CASE at' = [at EXCEPT ![t] = "serve"] /\ UNCHANGED entry
    BY <2>1, <2>2, SameAnswers DEF CachePlaces
  <2>3. CASE /\ at' = [at EXCEPT ![t] = "load"] \/ at' = [at EXCEPT ![t] = "idle"]
             /\ entry' = [entry EXCEPT ![t] = NULL]
    <3>1. Answers' = [Answers EXCEPT ![t] = NULL]
      BY <2>3, NewAnswer DEF CachePlaces
    <3>2. Answers[t] # NULL
      BY <1>00, <2>1
    <3>3. Contents(cache_queue)' = Contents(cache_queue)
      BY <1>0, <2>1
    <3>4. Eviction!Answered(t)
      BY <2>1, <3>1, <3>2, <3>3 DEF Eviction!Answered
    <3> QED
      BY <3>4 DEF Eviction!Step
  <2> QED
    BY <1>8, <2>2, <2>3 DEF ReadSize, Serve
<1>9. ASSUME NEW t \in Workers, NotFound(t) \/ \E f \in Files : Request(t, f)
      PROVE  UNCHANGED <<cache_queue, heap, Answers>>
  <2>1. /\ UNCHANGED <<cache_queue, heap, entry>> /\ at[t] \in {"idle", "load"}
        /\ at' = [at EXCEPT ![t] = "idle"] \/ at' = [at EXCEPT ![t] = "search"]
    BY <1>9 DEF NotFound, Request
  <2> QED
    BY <2>1, SameAnswers DEF CachePlaces
<1>10. ASSUME UNCHANGED cache_vars
       PROVE  UNCHANGED <<cache_queue, heap, Answers>>
  BY <1>10 DEF cache_vars, Answers
<1> QED
  BY <1>1, <1>2, <1>3, <1>4, <1>5, <1>6, <1>7, <1>8, <1>9, <1>10 DEF CacheNext, Step

\* For any size and any number of threads the cache evicts its oldest entry,
\* or in mode "lru" the one that was written, or moved by a hit, before every
\* other; a hit is never answered from in mode "lru" before it has moved its
\* entry, and nothing listed is freed.
THEOREM CacheImplementsList == CacheSpec => ImplementsEvictionList
<1>1. CacheInit => Eviction!Init
  <2> SUFFICES ASSUME CacheInit
               PROVE  Eviction!Init
    OBVIOUS
  <2>1. Answers = [t \in Workers |-> NULL]
    BY DEF CacheInit, Answers
  <2> QED
    BY <2>1, InitOK DEF CacheInit, Eviction!Init
<1>2. CacheShape /\ EntryOwnedOnce /\ [CacheNext]_cache_vars => [Eviction!Next]_Eviction!vars
  BY CacheStepRefines DEF Eviction!vars, Eviction!Next, CacheNext, Step, cache_vars
<1> QED
  BY <1>1, <1>2, CacheAlwaysShape, CacheSingleOwner, PTL
  DEF CacheSpec, ImplementsEvictionList, Eviction!Spec
=============================================================================
