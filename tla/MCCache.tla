----------------------------- MODULE MCCache -----------------------------
(***************************************************************************)
(* Instances of Cache for TLC.  Threads, addresses and files are           *)
(* interchangeable.  With two entries listed and one being put by each of  *)
(* three threads five addresses are in use; what is cut off with five are  *)
(* the states where threads have more entries taken off, not freed yet,    *)
(* and replaced already.                                                   *)
(***************************************************************************)
EXTENDS CacheRetries, TLC

Symmetry == Permutations(Item) \cup Permutations(Workers) \cup Permutations(Files)
=============================================================================
