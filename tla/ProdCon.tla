------------------------------ MODULE ProdCon ------------------------------
(***************************************************************************)
(* The producer-consumer queue of queue.c, lines 145-254: a queue_t under  *)
(* one mutex mx, with the condition variable full_cv on which consumers    *)
(* wait, empty_cv on which producers wait, and the flag consume_all.       *)
(*                                                                         *)
(* Producers are the threads that call queue_produce over and over (the    *)
(* dispatchers of server.c for the request queue), Consumers those that    *)
(* call queue_consume until it returns -1 (the workers), and a closer      *)
(* calls queue_consume_all once (the SIGINT handler).  pc[t] says where    *)
(* thread t is:                                                            *)
(*    idle    outside the queue, about to call                             *)
(*    lock    blocked in pthread_mutex_lock, or awake in pthread_cond_wait *)
(*            and waiting for the mutex                                    *)
(*    crit    owner of the mutex, about to test the loop's condition       *)
(*    wait    asleep on its condition variable                             *)
(*    handle  (consumer) back from queue_consume with an item              *)
(*    drain   (closer) in the loop of queue_consume_all                    *)
(*    done    (consumer) exited on -1, (closer) back from the call         *)
(* Everything a thread does between taking the mutex and releasing it is   *)
(* one step, since no other thread can see it.                             *)
(***************************************************************************)
EXTENDS RingQueue

CONSTANTS Producers, Consumers, Closers,
          Nobody,        \* the owner of a free mutex
          MaxSpurious    \* bound on spurious wakeups

Threads == Producers \cup Consumers \cup Closers

ASSUME ThreadsAssumption ==
    /\ IsFiniteSet(Threads)
    /\ Nobody \notin Threads
    /\ Producers \cap Consumers = {}
    /\ Producers \cap Closers = {}
    /\ Consumers \cap Closers = {}
ASSUME SpuriousAssumption == MaxSpurious \in Nat

VARIABLES
    q, consume_all,   \* the fields of prodcon_queue_t that hold data
    mx,               \* the thread that holds the mutex, or Nobody
    pc,
    val,              \* val[p]: the argument of p's call, NULL outside it
    got,              \* got[c]: the item that c works on, or NULL
    spurious          \* how many spurious wakeups there have been

vars == <<q, consume_all, mx, pc, val, got, spurious>>

Waiting(S) == {t \in S : pc[t] = "wait"}

\* prodcon_queue_init has run; no thread has called yet.
Init ==
    /\ q = queue_init
    /\ consume_all = FALSE
    /\ mx = Nobody
    /\ pc = [t \in Threads |-> "idle"]
    /\ val = [p \in Producers |-> NULL]
    /\ got = [c \in Consumers |-> NULL]
    /\ spurious = 0

-----------------------------------------------------------------------------
\* Thread t goes on at place, and one thread asleep on the condition
\* variable, the threads of S, is woken if there is one.
Signal(S, t, place) ==
    IF Waiting(S) = {}
    THEN pc' = [pc EXCEPT ![t] = place]
    ELSE \E w \in Waiting(S) :
            pc' = [pc EXCEPT ![t] = place, ![w] = "lock"]

Lock(t) ==
    /\ pc[t] = "lock" /\ mx = Nobody
    /\ mx' = t
    /\ pc' = [pc EXCEPT ![t] = "crit"]
    /\ UNCHANGED <<q, consume_all, val, got, spurious>>

\* pthread_cond_wait may return although nobody signalled.
Spurious(t) ==
    /\ pc[t] = "wait" /\ spurious < MaxSpurious
    /\ spurious' = spurious + 1
    /\ pc' = [pc EXCEPT ![t] = "lock"]
    /\ UNCHANGED <<q, consume_all, mx, val, got>>

\* A producer allocates an item, at an address not in use, and calls.
ProduceCall(p) ==
    /\ pc[p] = "idle"
    /\ \E x \in Item \ Live(q) :
          /\ \A o \in Producers : val[o] # x
          /\ \A c \in Consumers : got[c] # x
          /\ val' = [val EXCEPT ![p] = x]
    /\ pc' = [pc EXCEPT ![p] = "lock"]
    /\ UNCHANGED <<q, consume_all, mx, got, spurious>>

ProduceWait(p) ==
    /\ pc[p] = "crit" /\ queue_isfull(q)
    /\ mx' = Nobody
    /\ pc' = [pc EXCEPT ![p] = "wait"]
    /\ UNCHANGED <<q, consume_all, val, got, spurious>>

\* Slips: the loop's condition is not tested again after a wakeup; waiters
\* are signalled only when the queue was empty; the wrong condition variable
\* is signalled.
ProduceEnqueue_NoRecheck(p) ==
    /\ pc[p] = "crit"
    /\ q' = queue_enqueue(q, val[p]).q
    /\ val' = [val EXCEPT ![p] = NULL]
    /\ Signal(Consumers, p, "idle")
    /\ mx' = Nobody
    /\ UNCHANGED <<consume_all, got, spurious>>

ProduceEnqueue_SignalsIfEmpty(p) ==
    /\ pc[p] = "crit" /\ ~ queue_isfull(q)
    /\ q' = queue_enqueue(q, val[p]).q
    /\ val' = [val EXCEPT ![p] = NULL]
    /\ IF queue_isempty(q) THEN Signal(Consumers, p, "idle")
                           ELSE pc' = [pc EXCEPT ![p] = "idle"]
    /\ mx' = Nobody
    /\ UNCHANGED <<consume_all, got, spurious>>

ProduceEnqueue_WrongCV(p) ==
    /\ pc[p] = "crit" /\ ~ queue_isfull(q)
    /\ q' = queue_enqueue(q, val[p]).q
    /\ val' = [val EXCEPT ![p] = NULL]
    /\ Signal(Producers, p, "idle")
    /\ mx' = Nobody
    /\ UNCHANGED <<consume_all, got, spurious>>

ProduceEnqueue(p) ==
    /\ pc[p] = "crit" /\ ~ queue_isfull(q)
    /\ q' = queue_enqueue(q, val[p]).q
    /\ val' = [val EXCEPT ![p] = NULL]
    /\ Signal(Consumers, p, "idle")
    /\ mx' = Nobody
    /\ UNCHANGED <<consume_all, got, spurious>>

ConsumeCall(c) ==
    /\ pc[c] = "idle"
    /\ pc' = [pc EXCEPT ![c] = "lock"]
    /\ UNCHANGED <<q, consume_all, mx, val, got, spurious>>

ConsumeWait(c) ==
    /\ pc[c] = "crit" /\ queue_isempty(q) /\ ~ consume_all
    /\ mx' = Nobody
    /\ pc' = [pc EXCEPT ![c] = "wait"]
    /\ UNCHANGED <<q, consume_all, val, got, spurious>>

\* Slip: consume_all is tested before the queue.
ConsumeLast_FlagFirst(c) ==
    /\ pc[c] = "crit" /\ consume_all
    /\ pc' = [pc EXCEPT ![c] = "done"]
    /\ UNCHANGED <<q, consume_all, mx, val, got, spurious>>

\* queue_consume returns -1 and its caller exits: the mutex stays locked.
ConsumeLast(c) ==
    /\ pc[c] = "crit" /\ queue_isempty(q) /\ consume_all
    /\ pc' = [pc EXCEPT ![c] = "done"]
    /\ UNCHANGED <<q, consume_all, mx, val, got, spurious>>

\* Slip: the queue is not tested again after a wakeup.
ConsumeDequeue_NoRecheck(c) ==
    /\ pc[c] = "crit"
    /\ q' = queue_dequeue(q).q
    /\ got' = [got EXCEPT ![c] = queue_dequeue(q).ret]
    /\ Signal(Producers, c, "handle")
    /\ mx' = Nobody
    /\ UNCHANGED <<consume_all, val, spurious>>

ConsumeDequeue(c) ==
    /\ pc[c] = "crit" /\ ~ queue_isempty(q)
    /\ q' = queue_dequeue(q).q
    /\ got' = [got EXCEPT ![c] = queue_dequeue(q).ret]
    /\ Signal(Producers, c, "handle")
    /\ mx' = Nobody
    /\ UNCHANGED <<consume_all, val, spurious>>

\* The caller has dealt with the item and frees it.
Handle(c) ==
    /\ pc[c] = "handle"
    /\ got' = [got EXCEPT ![c] = NULL]
    /\ pc' = [pc EXCEPT ![c] = "idle"]
    /\ UNCHANGED <<q, consume_all, mx, val, spurious>>

CloseCall(k) ==
    /\ pc[k] = "idle"
    /\ pc' = [pc EXCEPT ![k] = "lock"]
    /\ UNCHANGED <<q, consume_all, mx, val, got, spurious>>

CloseSet(k) ==
    /\ pc[k] = "crit"
    /\ consume_all' = TRUE
    /\ pc' = [pc EXCEPT ![k] = "drain"]
    /\ UNCHANGED <<q, mx, val, got, spurious>>

\* One turn of the loop: a broadcast on full_cv, with the mutex held.
CloseBroadcast(k) ==
    /\ pc[k] = "drain" /\ ~ queue_isempty(q)
    /\ pc' = [t \in Threads |-> IF t \in Waiting(Consumers) THEN "lock"
                                                            ELSE pc[t]]
    /\ UNCHANGED <<q, consume_all, mx, val, got, spurious>>

CloseReturn(k) ==
    /\ pc[k] = "drain" /\ queue_isempty(q)
    /\ mx' = Nobody
    /\ pc' = [pc EXCEPT ![k] = "done"]
    /\ UNCHANGED <<q, consume_all, val, got, spurious>>

-----------------------------------------------------------------------------
Produce(p) == ProduceCall(p) \/ ProduceWait(p) \/ ProduceEnqueue(p)

Consume(c) ==
    \/ ConsumeCall(c) \/ ConsumeWait(c) \/ ConsumeLast(c)
    \/ ConsumeDequeue(c) \/ Handle(c)

Close(k) ==
    CloseCall(k) \/ CloseSet(k) \/ CloseBroadcast(k) \/ CloseReturn(k)

Next ==
    \/ \E p \in Producers : Produce(p)
    \/ \E c \in Consumers : Consume(c)
    \/ \E k \in Closers : Close(k)
    \/ \E t \in Threads : Lock(t)
    \/ \E t \in Producers \cup Consumers : Spurious(t)

Spec == Init /\ [][Next]_vars

\* The machine does not stop while some thread can move; nothing is said of
\* which thread gets the mutex.
ProgressSpec == Spec /\ WF_vars(Next)

-----------------------------------------------------------------------------
Places == {"idle", "lock", "crit", "wait", "handle", "drain", "done"}

\* The variables keep their types; a consumer that queue_consume has handed
\* control back to always has an item, and a producer has one to give
\* exactly during its call.
TypeOK ==
    /\ q \in QueueType
    /\ consume_all \in BOOLEAN
    /\ mx \in Threads \cup {Nobody}
    /\ pc \in [Threads -> Places]
    /\ val \in [Producers -> Item \cup {NULL}]
    /\ got \in [Consumers -> Item \cup {NULL}]
    /\ spurious \in 0 .. MaxSpurious
    /\ \A p \in Producers : val[p] = NULL <=> pc[p] = "idle"
    /\ \A c \in Consumers : got[c] # NULL <=> pc[c] = "handle"

\* The queue is used under the mutex only: whoever is between lock and
\* unlock owns it, so there is at most one such thread.
MutexOwned == \A t \in Threads : pc[t] \in {"crit", "drain"} => mx = t

\* An item is in one place: in the hands of one producer, in one slot of
\* the queue, or with one consumer; so no item is handled or freed twice.
OwnedOnce ==
    /\ \A p, o \in Producers : val[p] = val[o] /\ val[p] # NULL => p = o
    /\ \A i, j \in 0 .. q.size - 1 :
          q.items[Pos(q, i)] = q.items[Pos(q, j)] => i = j
    /\ \A c, d \in Consumers : got[c] = got[d] /\ got[c] # NULL => c = d
    /\ \A p \in Producers : val[p] \notin Live(q)
    /\ \A c \in Consumers : got[c] \notin Live(q)
    /\ \A p \in Producers, c \in Consumers : val[p] = got[c] => val[p] = NULL

\* Threads of S that are on their way to the test of the loop.
Coming(S) == {t \in S : pc[t] \in {"lock", "crit"}}

\* No consumer sleeps over an item: while one waits on full_cv, every item
\* in the queue has a consumer of its own on the way to it, although
\* queue_produce wakes a single waiter and any consumer may get there first.
NoConsumerSleepsOverItem ==
    Waiting(Consumers) # {} => q.size <= Cardinality(Coming(Consumers))

\* No producer sleeps over a free slot: the dual for empty_cv.
NoProducerSleepsOverSlot ==
    Waiting(Producers) # {} => Capacity - q.size <= Cardinality(Coming(Producers))

\* No wake-up is lost: one signal for each item and each slot is enough,
\* however the woken threads and the others come to the mutex.
NoSleepOver == NoConsumerSleepsOverItem /\ NoProducerSleepsOverSlot

\* A consumer is told to exit only when the queue has been closed and
\* nothing is left in it, and nothing is put in it any more.
ExitMeansDrained ==
    \A c \in Consumers : pc[c] = "done" => consume_all /\ queue_isempty(q)

\* The queue is a bounded channel: nothing is lost, duplicated, made up or
\* reordered between queue_produce and queue_consume.
Channel == INSTANCE BoundedChannel WITH buf <- Contents(q)

ImplementsChannel == Channel!Spec

\* While nobody closes the queue, a consumer eventually takes from it
\* whenever it stays non-empty, and so every item that is accepted is
\* eventually taken, whichever threads win the mutex.
ChannelKeepsMoving == Channel!FairSpec

EveryItemTaken == \A x \in Item : x \in Live(q) ~> x \notin Live(q)
=============================================================================
