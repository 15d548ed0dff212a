----------------------------- MODULE MCProdCon -----------------------------
(***************************************************************************)
(* Instances of ProdCon for TLC.  There is an item for every place an item *)
(* can be in at once, so that a producer never lacks a free address; the   *)
(* items are interchangeable, and in the runs that check safety only so    *)
(* are the producers and the consumers.                                    *)
(***************************************************************************)
EXTENDS ProdCon, TLC

Symmetry ==
    Permutations(Item) \cup Permutations(Producers) \cup Permutations(Consumers)
=============================================================================
