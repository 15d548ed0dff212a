---------------------------- MODULE MCWebServer ----------------------------
(***************************************************************************)
(* Instances of WebServer for TLC.  Clients are interchangeable, and so    *)
(* are the threads of a kind; descriptor numbers are not.                  *)
(***************************************************************************)
EXTENDS WebServer, TLC

Symmetry ==
    Permutations(Clients) \cup Permutations(Dispatchers) \cup Permutations(Workers)
=============================================================================
