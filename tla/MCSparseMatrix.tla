--------------------------- MODULE MCSparseMatrix ---------------------------
(* Small jobs for SparseMatrix: one rank; even shares; a last share with slack
   (2 ranks, 5 rows; 3 ranks, 7 rows); shares the assertion refuses (3 rows on
   2 ranks, 2 rows on 3 ranks); a file whose rows are not sorted. *)
EXTENDS SparseMatrix

(* The lines of a file with the cells S, row by row, the last column first. *)
Cells(n, S) ==
  LET all == [k \in 1 .. n * n |-> <<(k - 1) \div n, n - 1 - ((k - 1) % n)>>]
      kept == SelectSeq(all, LAMBDA c : c \in S)
  IN  [k \in DOMAIN kept |-> [i |-> kept[k][1], j |-> kept[k][2], val |-> 1 + kept[k][1] + kept[k][2]]]

Job(p, n, S) == [p |-> p, n |-> n,
                 cells |-> Cells(n, S),
                 x |-> [k \in 1 .. n |-> 2 ^ k]]

Squares(n) == {0 .. n - 1, {0}, {n - 1}, {0, n - 1}, {n \div 2, n - 1}}
Blocks(n) == {S \X T : S \in Squares(n), T \in Squares(n)}

Unsorted == [Job(2, 2, {<<0, 0>>, <<1, 1>>}) EXCEPT !.cells = <<@[2], @[1]>>]

MCInputs ==
  {Job(3, 3, S) : S \in Blocks(3) \cup SUBSET {<<0, 1>>, <<0, 2>>, <<1, 0>>, <<1, 2>>, <<2, 0>>, <<2, 1>>}}
    \cup {Job(1, 2, S) : S \in Blocks(2)} \cup {Job(2, 2, S) : S \in Blocks(2)}
    \cup {Job(2, 5, S) : S \in Blocks(5)} \cup {Job(3, 7, S) : S \in Blocks(7)}
    \cup {Job(2, 3, {<<2, 0>>}), Job(3, 2, {<<1, 0>>}), Job(3, 5, {<<1, 4>>}), Unsorted}
=============================================================================
