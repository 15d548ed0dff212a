------------------------------ MODULE FifoList ------------------------------
(***************************************************************************)
(* What queue.h promises of a queue_t, with no buffer behind it: a list of *)
(* at most Capacity items, oldest first.  list is the list, ret is what    *)
(* the last call returned.  queue_search is promised to return the oldest  *)
(* item that matches; of a search that no item of the list matches, only   *)
(* that its answer, if not NULL, is an item that matches.                  *)
(***************************************************************************)
EXTENDS Integers, Sequences, SequencesExt, FiniteSetsExt

CONSTANTS Capacity, Item, NULL

VARIABLES list, ret

OK == 0
Failed == -1

Init == list = << >> /\ ret = NULL

Enqueue(x) ==
    IF Len(list) = Capacity
    THEN ret' = Failed /\ UNCHANGED list
    ELSE ret' = OK /\ list' = Append(list, x)

Dequeue ==
    IF list = << >>
    THEN ret' = NULL /\ UNCHANGED list
    ELSE ret' = Head(list) /\ list' = Tail(list)

\* The places of the list that hold an item of S.
Places(S) == {k \in 1 .. Len(list) : list[k] \in S}

Requeue(x) ==
    IF Places({x}) = {}
    THEN ret' = Failed /\ UNCHANGED list
    ELSE /\ ret' = OK
         /\ list' = Append(RemoveAt(list, Min(Places({x}))), x)

Search(hits) ==
    /\ IF Places(hits) = {}
       THEN ret' \in hits \cup {NULL}
       ELSE ret' = list[Min(Places(hits))]
    /\ UNCHANGED list

Next ==
    \/ \E x \in Item : Enqueue(x) \/ Requeue(x)
    \/ Dequeue
    \/ \E hits \in SUBSET Item : Search(hits)

Spec == Init /\ [][Next]_<<list, ret>>
=============================================================================
