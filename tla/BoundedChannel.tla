--------------------------- MODULE BoundedChannel ---------------------------
(***************************************************************************)
(* What a prodcon_queue_t is for, without its buffer, mutex and condition  *)
(* variables: producers hand heap objects to consumers through a channel   *)
(* of Capacity places, in order, each object to exactly one consumer.      *)
(* val[p] is the object producer p offers, got[c] the one consumer c       *)
(* works on, and NULL says there is none.                                  *)
(***************************************************************************)
EXTENDS Integers, Sequences

CONSTANTS Producers, Consumers, Capacity, Item, NULL

VARIABLES buf, val, got

vars == <<buf, val, got>>

Init ==
    /\ buf = << >>
    /\ val = [p \in Producers |-> NULL]
    /\ got = [c \in Consumers |-> NULL]

\* An object that a producer allocates is no object still in use.
Free(x) ==
    /\ \A p \in Producers : val[p] # x
    /\ \A i \in 1 .. Len(buf) : buf[i] # x
    /\ \A c \in Consumers : got[c] # x

Offer(p, x) ==
    /\ val[p] = NULL /\ Free(x)
    /\ val' = [val EXCEPT ![p] = x]
    /\ UNCHANGED <<buf, got>>

Put(p) ==
    /\ val[p] # NULL /\ Len(buf) < Capacity
    /\ buf' = Append(buf, val[p])
    /\ val' = [val EXCEPT ![p] = NULL]
    /\ UNCHANGED got

Take(c) ==
    /\ got[c] = NULL /\ buf # << >>
    /\ got' = [got EXCEPT ![c] = Head(buf)]
    /\ buf' = Tail(buf)
    /\ UNCHANGED val

Discard(c) ==
    /\ got[c] # NULL
    /\ got' = [got EXCEPT ![c] = NULL]
    /\ UNCHANGED <<buf, val>>

Next ==
    \/ \E p \in Producers : Put(p) \/ \E x \in Item : Offer(p, x)
    \/ \E c \in Consumers : Take(c) \/ Discard(c)

Spec == Init /\ [][Next]_vars

\* A channel that is not empty is eventually taken from.
FairSpec == Spec /\ WF_vars(\E c \in Consumers : Take(c))
=============================================================================
