------------------------------- MODULE MCLcs -------------------------------
(* Small strings for Lcs.  5 by 5 cells on 2 threads have a last block and a
   last band that are cut; on 3 the blocks are one column wide.  2 rows on 4
   threads leave bands behind the grid.  Strings of different lengths are
   compared beyond the end of the shorter one.  By diagonals, rows are as long
   as the columns, shorter, and too long for their memory. *)
EXTENDS Lcs

Strings(k) == {t \in [1 .. k -> {"a", "b"}] : t[1] = "a"}

Some5 == {<<"a", "b", "c", "a", "b">>, <<"b", "a", "a", "c", "b">>}

Input(v, p, m, n, s, t) == [version |-> v, p |-> p, m |-> m, n |-> n, s1 |-> s, s2 |-> t]

MCInputs ==
     {Input(v, p, 3, 3, s, t) : v \in {"threads", "mpi"}, p \in {1, 2, 3}, s \in Strings(3), t \in Strings(3)}
  \cup {Input(v, p, 5, 5, s, t) : v \in {"threads", "mpi"}, p \in {2, 3}, s \in Some5, t \in Some5}
  \cup {Input("threads", 4, 2, 2, s, t) : s \in Strings(2), t \in {<<"a", "b">>, <<"b", "b">>}}
  \cup {Input("diagonals", 1, 3, 3, s, t) : s \in Strings(3), t \in Strings(3)}
  \cup {Input("diagonals", 1, m, n, s \o <<"b">>, <<"b", "a", "b", "b", "b">>) : m \in {1, 3, 5}, n \in {2, 4}, s \in Strings(4)}
  \cup {Input("threads", 2, m, 4, s, <<"b", "a", "b", "b">>) : m \in {2, 3}, s \in Strings(4)}
=============================================================================
