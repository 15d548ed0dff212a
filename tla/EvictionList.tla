--------------------------- MODULE EvictionList ---------------------------
(***************************************************************************)
(* What the file cache of README.txt 64-68 promises, with no buffer, lock  *)
(* or loop behind it: entries are allocated, listed in a list of at most   *)
(* Capacity places, unlisted from its old end to make room, and released   *)
(* when no longer listed.  answer[u] is the entry user u answers a request *)
(* from, Nothing while it has none; it gets one by a hit or by listing one.*)
(*                                                                         *)
(* In mode "lru" a hit and the move of the entry to the new end are one    *)
(* step, so that the list is always in the order in which entries were     *)
(* last used: the one at the old end was listed, or answered from for the  *)
(* last time, before every other.  In mode "oldest" a hit leaves the order *)
(* of entry alone.  There it may be of an entry that has left the list:    *)
(* the search of queue.c finds such entries after a wrap.                  *)
(***************************************************************************)
EXTENDS Integers, Sequences, SequencesExt, FiniteSetsExt

CONSTANTS Capacity, Item, Users, Nothing

VARIABLES list, heap, answer, mode

vars == <<list, heap, answer, mode>>

Listed == {list[k] : k \in 1 .. Len(list)}

Init ==
    /\ list = << >>
    /\ heap = {}
    /\ answer = [u \in Users |-> Nothing]
    /\ mode \in {"oldest", "lru"}

Allocate(e) ==
    /\ e \notin heap
    /\ heap' = heap \cup {e}
    /\ UNCHANGED <<list, answer>>

\* u answers from e.
AnswersFrom(u, e) ==
    /\ answer[u] = Nothing
    /\ answer' = [answer EXCEPT ![u] = e]
    /\ UNCHANGED heap

Insert(u, e) ==
    /\ e \in heap \ Listed /\ Len(list) < Capacity
    /\ list' = Append(list, e)
    /\ AnswersFrom(u, e)

LruHit(u, e) ==
    /\ mode = "lru" /\ e \in Listed
    /\ list' = Append(RemoveAt(list, Min({k \in 1 .. Len(list) : list[k] = e})), e)
    /\ AnswersFrom(u, e)

OldestHit(u, e) ==
    /\ mode = "oldest"
    /\ UNCHANGED list
    /\ AnswersFrom(u, e)

\* u has sent its answer, or gives it up.
Answered(u) ==
    /\ answer[u] # Nothing
    /\ answer' = [answer EXCEPT ![u] = Nothing]
    /\ UNCHANGED <<list, heap>>

Evict ==
    /\ list # << >>
    /\ list' = Tail(list)
    /\ UNCHANGED <<heap, answer>>

Release(e) ==
    /\ e \in heap \ Listed
    /\ heap' = heap \ {e}
    /\ UNCHANGED <<list, answer>>

Step ==
    \/ \E e \in Item : Allocate(e) \/ Release(e)
    \/ \E u \in Users, e \in Item :
          Insert(u, e) \/ LruHit(u, e) \/ OldestHit(u, e)
    \/ \E u \in Users : Answered(u)
    \/ Evict

Next == Step /\ UNCHANGED mode

Spec == Init /\ [][Next]_vars
=============================================================================
