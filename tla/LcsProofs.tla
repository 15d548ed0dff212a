------------------------------ MODULE LcsProofs ------------------------------
(***************************************************************************)
(* Proofs about Lcs, for any input of any version: strings of any length,  *)
(* and any number of threads or ranks.                                     *)
(*                                                                         *)
(* The serial grid D is the only table of its recurrence (OneTable), and   *)
(* its last cell is the length of a longest common subsequence, which the  *)
(* serial path spells (SerialIsLongest).  The parallel programs keep an    *)
(* invariant, IInv: every cell computed so far is D's, because the blocks  *)
(* a band may compute are chained without a gap behind the one it is at,   *)
(* up to the one the band above is at; and the way back is at one place    *)
(* of the serial path, in the hands of one thread or rank.                 *)
(***************************************************************************)
EXTENDS Lcs, SequenceTheorems, WellFoundedInduction, TLAPS

(* What the threads and ranks hold *)

W == CeilDiv(input.m, input.p * input.p)
Mpi == input.version = "mpi"
D == lcs_length_serial
Right == Diagonals => input.m <= input.n

\* The block that follows the block at x, 0 for none: the last is followed by
\* the end; and how wide a block is.
Following(x) == IF x = 0 THEN 1 ELSE IF x + W > input.m THEN input.m + 1 ELSE x + W
Width(x) == IF x + W > input.m THEN input.m - x + 1 ELSE W

\* The height of the band when it is cut, and its rows.
CutHeight(r) == IF y(r) + Height > input.n THEN input.n - y(r) + 1 ELSE Height
Band(r) == {i \in 1 .. input.n : y(r) <= i /\ i < y(r) + Height}

Setup == {"init1", "barrier1"}
Computing == {"next", "cells", "pass"}
Middle == Computing \cup {"destroy1", "init2", "barrier2"}
Final == {"take", "back", "destroy2", "done"}

LabelsOf == IF Threads THEN Setup \cup Middle \cup Final
            ELSE IF Diagonals THEN {"diagonal", "take", "back", "done"}
            ELSE Computing \cup {"take", "back", "done"}

Place(r) ==
  /\ next[r] \in 0 .. input.m + 1
  /\ pc[r] = "diagonal" => cur[r] \in (1 .. input.n) \X (1 .. input.m)
  /\ pc[r] \in Setup => next[r] = 0
  /\ pc[r] = "next" => next[r] <= input.m
  /\ pc[r] = "cells" => next[r] \in 1 .. input.m
  /\ pc[r] = "pass" => next[r] > 0 /\ (Mpi => next[r] <= input.m)
  /\ Threads /\ pc[r] \in {"destroy1", "init2", "barrier2"} \cup Final => next[r] = input.m + 1
  /\ Mpi /\ pc[r] \in Final => next[r] \in 1 .. input.m /\ Following(next[r]) = input.m + 1

\* The block a thread or rank is at.
BlockAt(r) ==
  /\ next[r] = 0 => w[r] = W /\ h[r] = Height
  /\ next[r] \in 1 .. input.m => w[r] = Width(next[r])
  /\ next[r] > 0 => h[r] = CutHeight(r)
  /\ pc[r] = "cells" => cur[r] \in (y(r) .. y(r) + h[r] - 1) \X (next[r] .. next[r] + w[r] - 1)

Shape ==
  /\ input \in Inputs
  /\ pc \in [Ranks -> LabelsOf]
  /\ next \in [Ranks -> Int] /\ w \in [Ranks -> Int] /\ h \in [Ranks -> Int]
  /\ cur \in [Ranks -> Int \X Int]
  /\ state = [r \in Ranks |-> state[r]]
  /\ \A r \in Ranks : Place(r) /\ (~Diagonals => BlockAt(r))

\* The barriers keep the threads in one phase.
Together ==
  Threads => \A r, t \in Ranks : /\ pc[r] \in Setup => pc[t] \in Setup
                                 /\ pc[r] \in Final => pc[t] \in Final

Cell == [len : Nat, dir : {"none", "up", "left", "upleft"}]

\* A place on the serial path.
Steps == [i : Nat, j : Nat, res : Seq(STRING)]
Queue == [capacity : Nat, items : Seq(Nat \cup Steps)]
Messages == Seq(Seq(Cell) \cup Steps)

\* The queues of the threads.
QueueAt(r) ==
  /\ pc[r] \in Setup \cup {"init2", "barrier2"} => q[r].items = <<>>
  /\ r = 0 /\ pc[r] \in Middle => q[r].items = <<>>
  /\ pc[r] \in Computing \cup {"barrier1", "destroy1"} => q[r].capacity = CeilDiv(input.m, W)
  /\ pc[r] \in {"barrier2", "take", "back", "destroy2"} => q[r].capacity = 2

Queues ==
  /\ q \in [Ranks -> Queue]
  /\ net \in [{"block", "state"} -> [Ranks -> Messages]]
  /\ Threads => \A r \in Ranks : QueueAt(r)

\* s lists the blocks that band r may compute, and has not begun: by their first
\* columns in a queue, by the cells above them in messages.
Waiting(r, s) ==
  IF Threads THEN q[r].items = s
  ELSE /\ Len(net["block"][r]) = Len(s)
       /\ \A k \in 1 .. Len(s) :
            net["block"][r][k] = [c \in 1 .. Width(s[k]) |-> D[<<y(r) - 1, s[k] + c - 1>>]]

\* The blocks after x, in order, up to z.
Chain(x, s, z) ==
  /\ s = <<>> => x = z
  /\ s # <<>> => x <= input.m /\ s[1] = Following(x) /\ s[Len(s)] = z
  /\ \A k \in 1 .. Len(s) - 1 : s[k] <= input.m /\ s[k + 1] = Following(s[k])

\* With the block that the band above is at.
Line(r, s) == IF pc[r - 1] \in {"cells", "pass"} THEN Append(s, next[r - 1]) ELSE s

Linked(r) == \E s \in Seq(1 .. input.m + 1) : Waiting(r, s) /\ Chain(next[r], Line(r, s), next[r - 1])

Chained == \A r \in 1 .. input.p - 1 : (Threads => pc[r] \in Middle) => Linked(r)

\* The first rank is sent no cells.
NoneSent == net["block"][0] = << >>

\* The cells that have been computed.
Filled(r, i, j) ==
  IF Diagonals THEN
    \/ pc[r] # "diagonal"
    \/ i + j < cur[r][1] + cur[r][2]
    \/ i + j = cur[r][1] + cur[r][2] /\ i < cur[r][1]
  ELSE
    \/ j < next[r]
    \/ /\ next[r] # 0 /\ j < next[r] + w[r]
       /\ pc[r] = "cells" => i < cur[r][1] \/ (i = cur[r][1] /\ j < cur[r][2])

BandRight(r) ==
  \A i \in Band(r), j \in 1 .. input.m : Filled(r, i, j) => grid[G(r)][<<i, j>>] = D[<<i, j>>]

\* What a rank has received of the row above its band.
RowRight(r) ==
  Mpi /\ r > 0 /\ next[r] # 0 =>
    \A j \in 1 .. input.m : j < next[r] + w[r] => grid[r][<<y(r) - 1, j>>] = D[<<y(r) - 1, j>>]

Borders(g) == \A c \in Cells : c[1] = 0 \/ c[2] = 0 => g[c] = NoCell

GridRight ==
  /\ grid \in [{G(r) : r \in Ranks} -> [Cells -> Cell]]
  /\ \A r \in Ranks : Borders(grid[G(r)]) /\ BandRight(r) /\ RowRight(r)

\* The backtracking goes from hand to hand.
Gone == {"destroy2", "done"}
Handed(r) == IF Threads THEN q[r].items ELSE net["state"][r]

\* The places on the serial path that the thread or rank of band r may be given.
Held(r) == {s \in Steps : /\ \E k \in 0 .. input.n + input.m : s = lcs_backtrack_steps[k]
                          /\ Mpi => s.j = 0 \/ s.i <= (r + 1) * Height}

Bearer(r) ==
  /\ pc[r] \in {"back"} \cup Gone => Handed(r) = <<>> /\ \A t \in Ranks : t > r => pc[t] \in Gone
  /\ pc[r] \notin {"back"} \cup Gone /\ (Threads => pc[r] = "take") =>
       IF r = input.p - 1 \/ pc[r + 1] \notin Gone THEN Handed(r) = <<>>
       ELSE \E s \in Held(r) : Handed(r) = <<s>>
  /\ pc[r] = "back" => state[r] \in Held(r)

Baton == \A r \in Ranks : Bearer(r)

Printed == pc[0] \in Gone => result = lcs_backtrack_serial

IInv == Shape /\ Together /\ Queues /\ Chained /\ NoneSent /\ (Right => GridRight /\ Baton /\ Printed)
-----------------------------------------------------------------------------
LEMMA Induction ==
    ASSUME NEW S, 0 \in S, \A k \in Nat : k \in S => k + 1 \in S
    PROVE  \A k \in Nat : k \in S
<1> SUFFICES ASSUME NEW l \in Nat, l \notin S
             PROVE  FALSE
  OBVIOUS
<1> DEFINE T == {k \in Nat : k \notin S}
<1>1. PICK x \in T : \A k \in T : <<k, x>> \notin OpToRel(<, Nat)
  BY NatLessThanWellFounded, WFMin
<1>2. x # 0 /\ x - 1 \in Nat
  OBVIOUS
<1>3. <<x - 1, x>> \in OpToRel(<, Nat)
  BY <1>2 DEF OpToRel
<1>4. x - 1 \in S
  BY <1>1, <1>2, <1>3
<1> QED
  BY <1>2, <1>4

\* A function on the numbers, each value from the one before.
Iterated(F, z, N) == F = [k \in Nat |-> IF k = 0 THEN z ELSE N[<<k, F[k - 1]>>]]

LEMMA Iteration ==
    ASSUME NEW R, NEW z \in R, NEW N \in [(Nat \ {0}) \X R -> R]
    PROVE  \E F \in [Nat -> R] : Iterated(F, z, N)
<1> DEFINE Begun(f, l) == f[0] = z /\ \A k \in 1 .. l : f[k] = N[<<k, f[k - 1]>>]
           Have == {l \in Nat : \E f \in [Nat -> R] : Begun(f, l)}
           Same == {k \in Nat : \A f, g \in [Nat -> R] : \A l \in Nat :
                      k <= l /\ Begun(f, l) /\ Begun(g, k) => f[k] = g[k]}
<1>1. \A l \in Nat : l \in Have
  <2>1. 0 \in Have
    <3>1. [k \in Nat |-> z] \in [Nat -> R] /\ Begun([k \in Nat |-> z], 0)
      OBVIOUS
    <3> QED
      BY <3>1
  <2>2. ASSUME NEW l \in Nat, l \in Have
        PROVE  l + 1 \in Have
    <3>1. PICK f \in [Nat -> R] : Begun(f, l)
      BY <2>2
    <3> DEFINE g == [f EXCEPT ![l + 1] = N[<<l + 1, f[l]>>]]
    <3>2. N[<<l + 1, f[l]>>] \in R
      <4>1. <<l + 1, f[l]>> \in (Nat \ {0}) \X R
        BY <3>1
      <4> QED
        BY <4>1
    <3>3. g \in [Nat -> R] /\ g[0] = z
      BY <3>1, <3>2
    <3>4. ASSUME NEW k \in 1 .. l + 1
          PROVE  g[k] = N[<<k, g[k - 1]>>]
      <4>1. CASE k = l + 1
        BY <4>1, <3>1
      <4>2. CASE k # l + 1
        <5>1. k \in 1 .. l /\ g[k] = f[k] /\ g[k - 1] = f[k - 1]
          BY <4>2, <3>1
        <5> QED
          BY <5>1, <3>1
      <4> QED
        BY <4>1, <4>2
    <3>5. Begun(g, l + 1)
      BY <3>3, <3>4
    <3> HIDE DEF g, Begun
    <3> QED
      BY <3>3, <3>5
  <2> HIDE DEF Have
  <2> QED
    BY <2>1, <2>2, Induction
<1>2. \A k \in Nat : k \in Same
  <2>1. 0 \in Same
    OBVIOUS
  <2>2. ASSUME NEW k \in Nat, k \in Same
        PROVE  k + 1 \in Same
    <3> HIDE DEF Begun
    <3> SUFFICES ASSUME NEW f \in [Nat -> R], NEW g \in [Nat -> R], NEW l \in Nat,
                        k + 1 <= l, Begun(f, l), Begun(g, k + 1)
                 PROVE  f[k + 1] = g[k + 1]
      OBVIOUS
    <3> USE DEF Begun
    <3>1. Begun(g, k) /\ k <= l
      OBVIOUS
    <3>2. f[k] = g[k]
      BY <2>2, <3>1
    <3>3. f[k + 1] = N[<<k + 1, f[k]>>] /\ g[k + 1] = N[<<k + 1, g[k]>>]
      <4>1. k + 1 \in 1 .. l /\ k + 1 \in 1 .. k + 1 /\ (k + 1) - 1 = k
        OBVIOUS
      <4> QED
        BY <4>1
    <3> QED
      BY <3>2, <3>3
  <2> HIDE DEF Same
  <2> QED
    BY <2>1, <2>2, Induction
<1> DEFINE Upto(l) == CHOOSE f \in [Nat -> R] : Begun(f, l)
           F == [k \in Nat |-> Upto(k)[k]]
<1>3. ASSUME NEW l \in Nat
      PROVE  Upto(l) \in [Nat -> R] /\ Begun(Upto(l), l)
  <2>1. \E f \in [Nat -> R] : Begun(f, l)
    BY <1>1
  <2> HIDE DEF Begun
  <2> QED
    BY <2>1
<1> HIDE DEF Upto
<1>4. F \in [Nat -> R]
  BY <1>3
<1>5. F[0] = z
  BY <1>3
<1>6. ASSUME NEW k \in Nat \ {0}
      PROVE  F[k] = N[<<k, F[k - 1]>>]
  <2>1. k - 1 \in Nat /\ k - 1 <= k /\ k \in 1 .. k
    OBVIOUS
  <2>2. Upto(k)[k] = N[<<k, Upto(k)[k - 1]>>]
    BY <1>3, <2>1
  <2>3. k - 1 \in Same
    BY <1>2, <2>1
  <2>4. Upto(k)[k - 1] = Upto(k - 1)[k - 1]
    BY <1>3, <2>1, <2>3
  <2>5. F[k] = Upto(k)[k] /\ F[k - 1] = Upto(k - 1)[k - 1]
    BY <2>1
  <2> QED
    BY <2>2, <2>4, <2>5
<1>7. F = [k \in Nat |-> IF k = 0 THEN z ELSE N[<<k, F[k - 1]>>]]
  <2> HIDE DEF F
  <2> QED
    BY <1>4, <1>5, <1>6
<1> QED
  BY <1>4, <1>7 DEF Iterated

-----------------------------------------------------------------------------
(* The cut into bands and blocks *)

Nonzero == Nat \ {0}

LEMMA InputOK ==
    ASSUME input \in Inputs
    PROVE  /\ input.p \in Nonzero /\ input.m \in Nonzero /\ input.n \in Nonzero
           /\ input.version \in {"threads", "mpi", "diagonals"}
           /\ Diagonals => input.p = 1
           /\ input.s1 \in Seq(STRING) /\ input.s2 \in Seq(STRING)
           /\ Len(input.s1) >= input.n /\ Len(input.s1) >= input.m
           /\ Len(input.s2) >= input.n /\ Len(input.s2) >= input.m
           /\ Mpi => (input.p - 1) * Height <= input.n
  BY InputsAssumption DEF Diagonals, Mpi, Height, CeilDiv, Nonzero

LEMMA FunctionIsSeq ==
    ASSUME NEW V, NEW n \in Nat, NEW f \in [1 .. n -> V]
    PROVE  f \in Seq(V)
  BY SeqDef

LEMMA InputSizes ==
    ASSUME input \in Inputs
    PROVE  /\ input.p \in Nat /\ input.p > 0 /\ input.m \in Nat /\ input.m > 0
           /\ input.n \in Nat /\ input.n > 0
  BY InputOK DEF Nonzero

\* What Shape says of one band.
LEMMA ShapeAt ==
    ASSUME Shape, NEW r \in Ranks
    PROVE  /\ input \in Inputs /\ Place(r) /\ pc[r] \in LabelsOf
           /\ next[r] \in 0 .. input.m + 1 /\ (~Diagonals => BlockAt(r))
<1>1. input \in Inputs /\ Place(r) /\ pc[r] \in LabelsOf /\ (~Diagonals => BlockAt(r))
  BY DEF Shape
<1>2. next[r] \in 0 .. input.m + 1
  BY <1>1 DEF Place
<1> QED
  BY <1>1, <1>2

LEMMA Letter ==
    ASSUME input \in Inputs
    PROVE  /\ \A i \in 1 .. input.n : input.s1[i] \in STRING
           /\ \A j \in 1 .. input.m : input.s2[j] \in STRING
<1>1. \A i \in 1 .. input.n : i \in 1 .. Len(input.s1)
  BY InputOK, LenProperties DEF Nonzero
<1>2. \A j \in 1 .. input.m : j \in 1 .. Len(input.s2)
  BY InputOK, LenProperties DEF Nonzero
<1> QED
  BY <1>1, <1>2, InputOK, ElementOfSeq

LEMMA CeilDivision ==
    ASSUME NEW a \in Nonzero, NEW b \in Nonzero
    PROVE  CeilDiv(a, b) \in Nonzero /\ b * CeilDiv(a, b) >= a
<1> DEFINE c == CeilDiv(a, b)
           e == (a + b - 1) % b
<1>1. /\ a + b - 1 \in Nat /\ c \in Int /\ e \in 0 .. b - 1
      /\ a + b - 1 = b * c + e
  BY DEF CeilDiv, Nonzero
<1>2. b * c >= a /\ b * c \in Int
  BY <1>1 DEF Nonzero
<1>3. c > 0
  <2> SUFFICES ASSUME c <= 0
               PROVE  FALSE
    BY <1>1
  <2> HIDE DEF c
  <2>1. b * c <= 0
    BY <1>1 DEF Nonzero
  <2> QED
    BY <1>2, <2>1 DEF Nonzero
<1> QED
  BY <1>1, <1>2, <1>3 DEF Nonzero

LEMMA Sizes ==
    ASSUME input \in Inputs
    PROVE  /\ W \in Nonzero /\ Height \in Nonzero /\ input.p * Height >= input.n
           /\ CeilDiv(input.m, W) \in Nonzero
<1>1. input.p \in Nonzero /\ input.m \in Nonzero /\ input.n \in Nonzero
  BY InputOK
<1>2. input.p * input.p \in Nonzero
  BY <1>1 DEF Nonzero
<1>3. W \in Nonzero
  BY <1>1, <1>2, CeilDivision DEF W
<1>4. Height \in Nonzero /\ input.p * Height >= input.n
  BY <1>1, CeilDivision DEF Height
<1> QED
  BY <1>1, <1>3, <1>4, CeilDivision

LEMMA Bands ==
    ASSUME input \in Inputs
    PROVE  /\ \A r \in Ranks : y(r) \in Nonzero /\ y(r) - 1 = r * Height
           /\ y(0) = 1
           /\ \A r \in Ranks : r > 0 => y(r) = y(r - 1) + Height
           /\ \A r, t \in Ranks : r < t => y(r) + Height <= y(t)
           /\ \A i \in 1 .. input.n : \E r \in Ranks : i \in Band(r)
           /\ Mpi => \A r \in Ranks : y(r) - 1 <= input.n
           /\ Mpi => \A r \in Ranks : r < input.p - 1 => CutHeight(r) = Height
<1> DEFINE H == Height
           P == input.p
<1>1. P \in Nonzero /\ H \in Nonzero /\ P * H >= input.n /\ input.n \in Nonzero
  BY InputOK, Sizes
<1> HIDE DEF H, P
<1>2. \A r \in Ranks : r \in Nat /\ r < P /\ r * H \in Nat /\ y(r) = r * H + 1
  BY <1>1 DEF Ranks, y, H, P, Nonzero
<1>3. ASSUME NEW r \in Ranks, NEW t \in Ranks, r < t
      PROVE  r * H + H <= t * H
  <2>1. (t - r) \in Nonzero /\ t * H = r * H + (t - r) * H
    BY <1>1, <1>2, <1>3 DEF Nonzero
  <2>2. (t - r) * H = H + (t - r - 1) * H /\ (t - r - 1) * H >= 0
    BY <1>1, <2>1 DEF Nonzero
  <2>3. r * H \in Int /\ t * H \in Int /\ (t - r - 1) * H \in Int /\ (t - r) * H \in Int
    BY <1>1, <1>2, <2>1 DEF Nonzero
  <2> QED
    BY <1>1, <2>1, <2>2, <2>3 DEF Nonzero
<1>4. ASSUME NEW r \in Ranks, r > 0
      PROVE  y(r) = y(r - 1) + Height
  <2>1. r - 1 \in Ranks /\ r * H = (r - 1) * H + H
    BY <1>1, <1>2, <1>4 DEF Ranks, Nonzero, P
  <2> QED
    BY <1>1, <1>2, <2>1, <1>4 DEF H, Nonzero
<1>5. ASSUME NEW i \in 1 .. input.n
      PROVE  \E r \in Ranks : i \in Band(r)
  <2> DEFINE r == (i - 1) \div H
             e == (i - 1) % H
  <2>1. r \in Nat /\ e \in 0 .. H - 1 /\ i - 1 = H * r + e
    BY <1>1 DEF Nonzero
  <2> HIDE DEF r, e
  <2>2. H * r = r * H /\ r * H \in Nat
    BY <1>1, <2>1 DEF Nonzero
  <2>3. r < P
    <3> SUFFICES ASSUME r >= P
                 PROVE  FALSE
      BY <1>1, <2>1 DEF Nonzero
    <3>1. r * H = P * H + (r - P) * H /\ (r - P) * H >= 0
      BY <1>1, <2>1 DEF Nonzero
    <3>2. P * H \in Int /\ (r - P) * H \in Int
      BY <1>1, <2>1 DEF Nonzero
    <3> QED
      BY <1>1, <2>1, <2>2, <3>1, <3>2 DEF Nonzero
  <2>4. r \in Ranks
    BY <1>1, <2>1, <2>3 DEF Ranks, P, Nonzero
  <2>5. y(r) <= i /\ i < y(r) + H
    BY <1>1, <1>2, <2>1, <2>2, <2>4 DEF Nonzero
  <2> QED
    BY <2>4, <2>5 DEF Band, H
<1>6. ASSUME Mpi, NEW r \in Ranks
      PROVE  y(r) - 1 <= input.n
  <2>1. (P - 1) * H <= input.n /\ P - 1 \in Ranks
    BY <1>1, <1>6, InputOK DEF P, H, Ranks, Nonzero
  <2>2. r = P - 1 \/ r < P - 1
    BY <1>1, <1>2 DEF Nonzero
  <2>3. r * H <= (P - 1) * H
    BY <1>1, <1>2, <1>3, <2>1, <2>2 DEF Nonzero
  <2> QED
    BY <1>1, <1>2, <2>1, <2>3 DEF Nonzero
<1>7. ASSUME Mpi, NEW r \in Ranks, r < input.p - 1
      PROVE  CutHeight(r) = Height
  <2>1. r + 1 \in Ranks /\ r + 1 > 0
    BY <1>1, <1>2, <1>7 DEF Ranks, P, Nonzero
  <2>2. y(r + 1) = y(r) + Height /\ y(r + 1) - 1 <= input.n
    <3>1. (r + 1) - 1 = r
      BY <1>2
    <3> QED
      BY <2>1, <1>4, <1>6, <1>7, <3>1
  <2>3. y(r) + Height > input.n => input.n - y(r) + 1 = Height
    <3>1. y(r) \in Int /\ y(r) + Height - 1 <= input.n
      BY <1>1, <1>2, <2>2 DEF H, Nonzero
    <3> QED
      BY <1>1, <3>1 DEF H, Nonzero
  <2> QED
    BY <2>3 DEF CutHeight
<1>8. /\ \A r \in Ranks : y(r) \in Nonzero /\ y(r) - 1 = r * Height
      /\ y(0) = 1
  <2>1. 0 \in Ranks /\ 0 * H = 0
    BY <1>1 DEF Ranks, P, Nonzero
  <2>2. y(0) = 1
    BY <1>1, <1>2, <2>1
  <2>3. \A r \in Ranks : y(r) \in Nonzero /\ y(r) - 1 = r * H
    BY <1>2 DEF Nonzero
  <2> QED
    BY <2>2, <2>3 DEF H
<1>9. ASSUME NEW r \in Ranks, NEW t \in Ranks, r < t
      PROVE  y(r) + Height <= y(t)
  BY <1>1, <1>2, <1>3, <1>9 DEF H, Nonzero
<1> QED
  BY <1>4, <1>5, <1>6, <1>7, <1>8, <1>9

LEMMA Blocks ==
    ASSUME input \in Inputs, NEW x \in 0 .. input.m + 1
    PROVE  /\ Following(x) \in 1 .. input.m + 1
           /\ x <= input.m => Following(x) > x
           /\ x \in 1 .. input.m => /\ Width(x) \in Nonzero /\ Width(x) <= W
                                    /\ Following(x) = x + Width(x)
                                    /\ Following(x) <= input.m => Width(x) = W
<1>1. W \in Nat /\ W > 0 /\ input.m \in Nat /\ input.m > 0
  BY InputOK, Sizes DEF Nonzero
<1> QED
  BY <1>1 DEF Following, Width, Nonzero

-----------------------------------------------------------------------------
(* The grid of the serial program *)

IsTable(g) ==
  /\ g \in [Cells -> Cell]
  /\ \A c \in Cells : c[1] = 0 \/ c[2] = 0 => g[c] = NoCell
  /\ \A i \in 1 .. input.n, j \in 1 .. input.m : g[<<i, j>>] = lcs_cell(g, i, j)

LEMMA Neighbours ==
    ASSUME input \in Inputs, NEW i \in 1 .. input.n, NEW j \in 1 .. input.m
    PROVE  /\ <<i, j>> \in Cells /\ <<i - 1, j>> \in Cells
           /\ <<i, j - 1>> \in Cells /\ <<i - 1, j - 1>> \in Cells
<1>1. input.n \in Nat /\ input.m \in Nat
  BY InputOK DEF Nonzero
<1> QED
  BY <1>1 DEF Cells

LEMMA CellMade ==
    ASSUME input \in Inputs, NEW g \in [Cells -> Cell], NEW i \in 1 .. input.n, NEW j \in 1 .. input.m
    PROVE  /\ lcs_cell(g, i, j) \in Cell
           /\ lcs_cell(g, i, j).dir # "none"
<1>1. g[<<i - 1, j>>] \in Cell /\ g[<<i, j - 1>>] \in Cell /\ g[<<i - 1, j - 1>>] \in Cell
  BY Neighbours
<1> QED
  BY <1>1 DEF lcs_cell, Cell

\* A cell depends on three others.
LEMMA CellSame ==
    ASSUME input \in Inputs, NEW f, NEW g, NEW i, NEW j,
           f[<<i - 1, j>>] = g[<<i - 1, j>>], f[<<i, j - 1>>] = g[<<i, j - 1>>],
           f[<<i - 1, j - 1>>] = g[<<i - 1, j - 1>>]
    PROVE  lcs_cell(f, i, j) = lcs_cell(g, i, j)
  BY DEF lcs_cell

\* In which step the two loops come to a cell.
StepOf(i, j) == (i - 1) * input.m + j

LEMMA StepOrder ==
    ASSUME input \in Inputs,
           NEW i \in 1 .. input.n, NEW j \in 1 .. input.m, NEW a \in 1 .. input.n, NEW b \in 1 .. input.m
    PROVE  /\ StepOf(i, j) \in 1 .. input.n * input.m
           /\ i < a => StepOf(i, j) < StepOf(a, b)
           /\ i = a /\ j < b => StepOf(i, j) < StepOf(a, b)
<1> DEFINE m == input.m
           n == input.n
<1>1. m \in Nonzero /\ n \in Nonzero /\ i \in 1 .. n /\ j \in 1 .. m /\ a \in 1 .. n /\ b \in 1 .. m
  BY InputOK
<1>2. StepOf(i, j) = (i - 1) * m + j /\ StepOf(a, b) = (a - 1) * m + b
  BY DEF StepOf
<1> HIDE DEF m, n
<1>3. (i - 1) * m \in Nat /\ (a - 1) * m \in Nat /\ (n - i) * m \in Nat
  BY <1>1 DEF Nonzero
<1>4. n * m = (i - 1) * m + m + (n - i) * m
  BY <1>1 DEF Nonzero
<1>5. StepOf(i, j) \in 1 .. n * m
  BY <1>1, <1>2, <1>3, <1>4 DEF Nonzero
<1>6. ASSUME i < a
      PROVE  StepOf(i, j) < StepOf(a, b)
  <2>1. (a - 1) * m = (i - 1) * m + m + (a - 1 - i) * m
    BY <1>1 DEF Nonzero
  <2>2. (a - 1 - i) * m \in Nat
    BY <1>1, <1>6 DEF Nonzero
  <2> QED
    BY <1>1, <1>2, <1>3, <2>1, <2>2 DEF Nonzero
<1>7. i = a /\ j < b => StepOf(i, j) < StepOf(a, b)
  BY <1>1, <1>2, <1>3
<1> QED
  BY <1>5, <1>6, <1>7 DEF m, n

LEMMA StepCell ==
    ASSUME input \in Inputs, NEW k \in Nat \ {0}
    PROVE  /\ 1 + (k - 1) \div input.m \in Nat \ {0} /\ 1 + ((k - 1) % input.m) \in 1 .. input.m
           /\ StepOf(1 + (k - 1) \div input.m, 1 + ((k - 1) % input.m)) = k
<1> DEFINE m == input.m
           d == (k - 1) \div m
           e == (k - 1) % m
<1>1. m \in Nonzero
  BY InputOK
<1> HIDE DEF m
<1>2. d \in Nat /\ e \in 0 .. m - 1 /\ k - 1 = m * d + e
  BY <1>1 DEF Nonzero
<1>3. StepOf(1 + d, 1 + e) = d * m + 1 + e
  BY <1>1, <1>2 DEF StepOf, m, Nonzero
<1> HIDE DEF d, e
<1>4. d * m = m * d
  BY <1>1, <1>2 DEF Nonzero
<1>5. 1 + d \in Nat \ {0} /\ 1 + e \in 1 .. m /\ StepOf(1 + d, 1 + e) = k
  BY <1>1, <1>2, <1>3, <1>4 DEF Nonzero
<1> QED
  BY <1>5 DEF d, e, m

Loop(k, g) ==
  LET i == 1 + (k - 1) \div input.m
      j == 1 + ((k - 1) % input.m)
  IN  [g EXCEPT ![<<i, j>>] = lcs_cell(g, i, j)]

LEMMA LengthSteps ==
    ASSUME input \in Inputs
    PROVE  /\ lcs_length_steps \in [Nat -> [Cells -> Cell]]
           /\ lcs_length_steps[0] = grid_init
           /\ \A k \in Nat \ {0} : lcs_length_steps[k] = Loop(k, lcs_length_steps[k - 1])
<1> DEFINE R == [Cells -> Cell]
           N == [kg \in (Nat \ {0}) \X R |-> Loop(kg[1], kg[2])]
<1>1. grid_init \in R
  BY DEF grid_init, NoCell, Cell
<1>2. ASSUME NEW k \in Nat \ {0}, NEW g \in R
      PROVE  Loop(k, g) \in R
  <2> DEFINE i == 1 + (k - 1) \div input.m
             j == 1 + ((k - 1) % input.m)
  <2>1. i \in Nat \ {0} /\ j \in 1 .. input.m
    BY StepCell
  <2> HIDE DEF i, j
  <2>2. <<i, j>> \in Cells => lcs_cell(g, i, j) \in Cell
    <3>1. <<i, j>> \in Cells => i \in 1 .. input.n
      BY <2>1 DEF Cells
    <3> QED
      BY <2>1, <3>1, CellMade
  <2>3. [g EXCEPT ![<<i, j>>] = lcs_cell(g, i, j)] \in R
    BY <2>2
  <2> QED
    BY <2>3 DEF Loop, i, j
<1>3. N \in [(Nat \ {0}) \X R -> R]
  BY <1>2
<1>4. PICK F \in [Nat -> R] : Iterated(F, grid_init, N)
  <2> HIDE DEF N, R
  <2> QED
    BY <1>1, <1>3, Iteration
<1>5. F = [k \in Nat |-> IF k = 0 THEN grid_init ELSE Loop(k, F[k - 1])]
  <2>1. \A k \in Nat \ {0} : N[<<k, F[k - 1]>>] = Loop(k, F[k - 1])
    <3> SUFFICES ASSUME NEW k \in Nat \ {0}
                 PROVE  N[<<k, F[k - 1]>>] = Loop(k, F[k - 1])
      OBVIOUS
    <3>1. <<k, F[k - 1]>> \in (Nat \ {0}) \X R
      BY <1>4
    <3> HIDE DEF R
    <3> QED
      BY <3>1
  <2>2. F = [k \in Nat |-> IF k = 0 THEN grid_init ELSE N[<<k, F[k - 1]>>]]
    BY <1>4 DEF Iterated
  <2> HIDE DEF N, R
  <2> QED
    BY <2>1, <2>2
<1>6. lcs_length_steps = CHOOSE f : f = [k \in Nat |-> IF k = 0 THEN grid_init ELSE Loop(k, f[k - 1])]
  BY DEF lcs_length_steps, Loop
<1>7. lcs_length_steps = [k \in Nat |-> IF k = 0 THEN grid_init ELSE Loop(k, lcs_length_steps[k - 1])]
  <2>1. \E f : f = [k \in Nat |-> IF k = 0 THEN grid_init ELSE Loop(k, f[k - 1])]
    BY <1>5
  <2> QED
    BY <1>6, <2>1
<1>8. \A k \in Nat : lcs_length_steps[k] \in R
  <2> DEFINE S == {k \in Nat : lcs_length_steps[k] \in R}
  <2>1. 0 \in S
    BY <1>1, <1>7
  <2>2. ASSUME NEW k \in Nat, k \in S
        PROVE  k + 1 \in S
    <3>1. lcs_length_steps[k + 1] = Loop(k + 1, lcs_length_steps[k])
      BY <1>7
    <3> QED
      BY <2>2, <3>1, <1>2
  <2> HIDE DEF S
  <2>3. \A k \in Nat : k \in S
    BY <2>1, <2>2, Induction
  <2> QED
    BY <2>3 DEF S
<1>9. DOMAIN lcs_length_steps = Nat /\ lcs_length_steps = [k \in Nat |-> lcs_length_steps[k]]
  BY <1>7
<1> HIDE DEF R
<1>10. lcs_length_steps \in [Nat -> R]
  BY <1>8, <1>9
<1> QED
  BY <1>7, <1>10 DEF R
LEMMA Table ==
    ASSUME input \in Inputs
    PROVE  IsTable(D)
<1> DEFINE F == lcs_length_steps
           Made(k) == /\ F[k] \in [Cells -> Cell]
                      /\ \A c \in Cells : c[1] = 0 \/ c[2] = 0 => F[k][c] = NoCell
                      /\ \A i \in 1 .. input.n, j \in 1 .. input.m :
                           StepOf(i, j) <= k => F[k][<<i, j>>] = lcs_cell(F[k], i, j)
           S == {k \in Nat : Made(k)}
<1>0. input.m \in Nat /\ input.n \in Nat /\ input.m > 0 /\ input.n > 0
  BY InputOK DEF Nonzero
<1>1. 0 \in S
  <2>1. F[0] = grid_init /\ F[0] \in [Cells -> Cell]
    BY LengthSteps
  <2>2. \A i \in 1 .. input.n, j \in 1 .. input.m : ~ (StepOf(i, j) <= 0)
    BY StepOrder, <1>0
  <2> QED
    BY <2>1, <2>2 DEF grid_init
<1>2. ASSUME NEW k \in Nat, k \in S
      PROVE  k + 1 \in S
  <2> DEFINE a == 1 + k \div input.m
             b == 1 + (k % input.m)
  <2>1. F[k + 1] = Loop(k + 1, F[k]) /\ F[k + 1] \in [Cells -> Cell] /\ F[k] \in [Cells -> Cell]
    BY LengthSteps
  <2>2. /\ a \in Nat \ {0} /\ b \in 1 .. input.m /\ StepOf(a, b) = k + 1
    <3>1. k + 1 \in Nat \ {0} /\ (k + 1) - 1 = k
      OBVIOUS
    <3> QED
      BY <3>1, StepCell
  <2>3. F[k + 1] = [F[k] EXCEPT ![<<a, b>>] = lcs_cell(F[k], a, b)]
    <3>1. (k + 1) - 1 = k
      OBVIOUS
    <3> QED
      BY <2>1, <3>1 DEF Loop
  <2> HIDE DEF a, b, F
  <2>4. \A c \in Cells : c # <<a, b>> => F[k + 1][c] = F[k][c]
    BY <2>1, <2>3
  <2>5. \A c \in Cells : c[1] = 0 \/ c[2] = 0 => F[k + 1][c] = NoCell
    <3> SUFFICES ASSUME NEW c \in Cells, c[1] = 0 \/ c[2] = 0
                 PROVE  F[k + 1][c] = NoCell
      OBVIOUS
    <3>1. c # <<a, b>>
      BY <2>2
    <3> QED
      BY <1>2, <2>4, <3>1
  <2>6. ASSUME NEW i \in 1 .. input.n, NEW j \in 1 .. input.m, StepOf(i, j) <= k + 1
        PROVE  F[k + 1][<<i, j>>] = lcs_cell(F[k + 1], i, j)
    <3>1. ASSUME NEW u \in 0 .. input.n, NEW v \in 0 .. input.m,
                 <<u, v>> \in {<<i - 1, j>>, <<i, j - 1>>, <<i - 1, j - 1>>}
          PROVE  F[k + 1][<<u, v>>] = F[k][<<u, v>>]
      <4>1. <<u, v>> # <<a, b>>
        <5> SUFFICES ASSUME u = a, v = b
                     PROVE  FALSE
          OBVIOUS
        <5>1. u \in 1 .. input.n /\ v \in 1 .. input.m
          BY <2>2, <1>0
        <5>2. u < i \/ (u = i /\ v < j)
          BY <3>1, <1>0
        <5>3. StepOf(u, v) < StepOf(i, j) /\ StepOf(i, j) \in Int /\ StepOf(u, v) \in Int
          BY <5>1, <5>2, StepOrder
        <5> QED
          BY <2>2, <2>6, <5>3
      <4>2. <<u, v>> \in Cells
        BY DEF Cells
      <4> QED
        BY <2>4, <4>1, <4>2
    <3>2. /\ i - 1 \in 0 .. input.n /\ i \in 0 .. input.n
          /\ j - 1 \in 0 .. input.m /\ j \in 0 .. input.m
      BY <1>0
    <3>3. /\ F[k + 1][<<i - 1, j>>] = F[k][<<i - 1, j>>]
          /\ F[k + 1][<<i, j - 1>>] = F[k][<<i, j - 1>>]
          /\ F[k + 1][<<i - 1, j - 1>>] = F[k][<<i - 1, j - 1>>]
      BY <3>1, <3>2
    <3>4. lcs_cell(F[k + 1], i, j) = lcs_cell(F[k], i, j)
      BY <3>3, CellSame
    <3>5. <<i, j>> \in Cells
      BY Neighbours
    <3>6. CASE i = a /\ j = b
      BY <2>1, <2>3, <3>4, <3>5, <3>6
    <3>7. CASE ~ (i = a /\ j = b)
      <4>1. StepOf(i, j) # k + 1
        <5>1. CASE a \in 1 .. input.n
          <6>1. i < a \/ a < i \/ (i = a /\ (j < b \/ b < j))
            BY <3>7, <2>2, <1>0
          <6>2. StepOf(i, j) \in Int /\ StepOf(a, b) \in Int
            BY <2>2, <5>1, StepOrder
          <6> QED
            BY <2>2, <5>1, <6>1, <6>2, StepOrder
        <5>2. CASE a \notin 1 .. input.n
          <6> SUFFICES ASSUME StepOf(i, j) = k + 1
                       PROVE  FALSE
            OBVIOUS
          <6> DEFINE m == input.m
          <6>1. a > input.n /\ i < a
            BY <2>2, <5>2, <1>0
          <6>2. (a - 1) * m = (i - 1) * m + m + (a - 1 - i) * m
            BY <2>2, <1>0
          <6>3. (a - 1 - i) * m >= 0 /\ (i - 1) * m \in Int /\ (a - 1 - i) * m \in Int
            BY <2>2, <1>0, <6>1
          <6>4. StepOf(i, j) = (i - 1) * m + j /\ StepOf(a, b) = (a - 1) * m + b
            BY DEF StepOf
          <6> HIDE DEF m
          <6>5. j <= m /\ m \in Int /\ b >= 1 /\ b \in Int /\ j \in Int
            BY <2>2, <1>0 DEF m
          <6> QED
            BY <2>2, <6>2, <6>3, <6>4, <6>5
        <5> QED
          BY <5>1, <5>2
      <4>2. StepOf(i, j) <= k
        <5>1. StepOf(i, j) \in Int
          BY StepOrder
        <5> QED
          BY <2>6, <4>1, <5>1
      <4> QED
        BY <1>2, <2>4, <3>4, <3>5, <3>7, <4>2
    <3> QED
      BY <3>6, <3>7
  <2> QED
    BY <2>1, <2>5, <2>6
<1>3. \A k \in Nat : k \in S
  <2> HIDE DEF S
  <2> QED
    BY <1>1, <1>2, Induction
<1>4. input.n * input.m \in Nat
  BY <1>0
<1>5. Made(input.n * input.m)
  <2> HIDE DEF Made
  <2> QED
    BY <1>3, <1>4
<1>6. \A i \in 1 .. input.n, j \in 1 .. input.m : StepOf(i, j) <= input.n * input.m
  BY StepOrder
<1> QED
  BY <1>5, <1>6 DEF IsTable, D, lcs_length_serial

\* The table is the only one.
LEMMA OneTable ==
    ASSUME input \in Inputs, NEW f, IsTable(f), NEW g, IsTable(g)
    PROVE  f = g
<1> DEFINE S == {k \in Nat : \A c \in Cells : c[1] + c[2] <= k => f[c] = g[c]}
<1>0. input.m \in Nat /\ input.n \in Nat
  BY InputOK DEF Nonzero
<1>1. 0 \in S
  <2> SUFFICES ASSUME NEW c \in Cells, c[1] + c[2] <= 0
               PROVE  f[c] = g[c]
    OBVIOUS
  <2>1. c[1] = 0
    BY <1>0 DEF Cells
  <2> QED
    BY <2>1 DEF IsTable
<1>2. ASSUME NEW k \in Nat, k \in S
      PROVE  k + 1 \in S
  <2> SUFFICES ASSUME NEW i \in 0 .. input.n, NEW j \in 0 .. input.m, i + j <= k + 1
               PROVE  f[<<i, j>>] = g[<<i, j>>]
    BY DEF Cells
  <2>1. CASE i = 0 \/ j = 0
    <3>1. <<i, j>> \in Cells
      BY DEF Cells
    <3> QED
      BY <2>1, <3>1 DEF IsTable
  <2>2. CASE i # 0 /\ j # 0
    <3>1. i \in 1 .. input.n /\ j \in 1 .. input.m
      BY <2>2, <1>0
    <3>2. /\ i - 1 + j <= k /\ i + (j - 1) <= k /\ (i - 1) + (j - 1) <= k
      BY <1>0
    <3>3. /\ <<i - 1, j>> \in Cells /\ <<i, j - 1>> \in Cells /\ <<i - 1, j - 1>> \in Cells
      BY <3>1, Neighbours
    <3>4. /\ f[<<i - 1, j>>] = g[<<i - 1, j>>]
          /\ f[<<i, j - 1>>] = g[<<i, j - 1>>]
          /\ f[<<i - 1, j - 1>>] = g[<<i - 1, j - 1>>]
      BY <1>2, <3>2, <3>3
    <3>5. lcs_cell(f, i, j) = lcs_cell(g, i, j)
      BY <3>4, CellSame
    <3> QED
      BY <3>1, <3>5 DEF IsTable
  <2> QED
    BY <2>1, <2>2
<1>3. \A k \in Nat : k \in S
  <2> HIDE DEF S
  <2> QED
    BY <1>1, <1>2, Induction
<1>4. ASSUME NEW c \in Cells
      PROVE  f[c] = g[c]
  <2>1. c[1] + c[2] \in Nat
    BY <1>0 DEF Cells
  <2> QED
    BY <1>3, <2>1
<1> QED
  BY <1>4 DEF IsTable

LEMMA TableStays ==
    ASSUME input \in Inputs, input' = input
    PROVE  D' = D
<1>1. (input \in Inputs => IsTable(D))'
  BY Table, PTL
<1>3. IsTable(D)'
  BY <1>1
<1>4. /\ D' \in [Cells -> Cell]
      /\ \A c \in Cells : c[1] = 0 \/ c[2] = 0 => D'[c] = NoCell
  BY <1>3 DEF IsTable, Cells
<1>5. \A i \in 1 .. input.n, j \in 1 .. input.m : D'[<<i, j>>] = lcs_cell(D', i, j)
  BY <1>3 DEF IsTable, lcs_cell
<1>2. IsTable(D')
  BY <1>4, <1>5, Zenon DEF IsTable
<1> QED
  BY <1>2, Table, OneTable

\* Neighbouring cells differ by one at most.
LEMMA Close ==
    ASSUME input \in Inputs, NEW i \in 0 .. input.n, NEW j \in 0 .. input.m
    PROVE  /\ i > 0 => D[<<i, j>>].len \in {D[<<i - 1, j>>].len, D[<<i - 1, j>>].len + 1}
           /\ j > 0 => D[<<i, j>>].len \in {D[<<i, j - 1>>].len, D[<<i, j - 1>>].len + 1}
<1> DEFINE l(a, b) == D[<<a, b>>].len
           P(a, b) == /\ a > 0 => l(a, b) \in {l(a - 1, b), l(a - 1, b) + 1}
                      /\ b > 0 => l(a, b) \in {l(a, b - 1), l(a, b - 1) + 1}
           S == {k \in Nat : \A a \in 0 .. input.n, b \in 0 .. input.m : a + b <= k => P(a, b)}
<1>0. input.m \in Nat /\ input.n \in Nat
  BY InputOK DEF Nonzero
<1>1. \A a \in 0 .. input.n, b \in 0 .. input.m :
        l(a, b) \in Nat /\ (a = 0 \/ b = 0 => l(a, b) = 0)
  <2> SUFFICES ASSUME NEW a \in 0 .. input.n, NEW b \in 0 .. input.m
               PROVE  l(a, b) \in Nat /\ (a = 0 \/ b = 0 => l(a, b) = 0)
    OBVIOUS
  <2>1. <<a, b>> \in Cells
    BY DEF Cells
  <2> QED
    BY <2>1, Table DEF IsTable, Cell, NoCell
<1>2. \A a \in 1 .. input.n, b \in 1 .. input.m :
        \/ l(a, b) = l(a - 1, b - 1) + 1
        \/ l(a, b) = l(a - 1, b) /\ l(a - 1, b) >= l(a, b - 1)
        \/ l(a, b) = l(a, b - 1) /\ ~ (l(a - 1, b) >= l(a, b - 1))
  <2> SUFFICES ASSUME NEW a \in 1 .. input.n, NEW b \in 1 .. input.m
               PROVE  \/ l(a, b) = l(a - 1, b - 1) + 1
                      \/ l(a, b) = l(a - 1, b) /\ l(a - 1, b) >= l(a, b - 1)
                      \/ l(a, b) = l(a, b - 1) /\ ~ (l(a - 1, b) >= l(a, b - 1))
    OBVIOUS
  <2>1. D[<<a, b>>] = lcs_cell(D, a, b)
    BY Table DEF IsTable
  <2> QED
    BY <2>1 DEF lcs_cell
<1> HIDE DEF l
<1>3. 0 \in S
  BY <1>0
<1>4. ASSUME NEW k \in Nat, k \in S
      PROVE  k + 1 \in S
  <2> SUFFICES ASSUME NEW a \in 0 .. input.n, NEW b \in 0 .. input.m, a + b <= k + 1
               PROVE  P(a, b)
    OBVIOUS
  <2>1. CASE a = 0 \/ b = 0
    <3>1. a > 0 => a - 1 \in 0 .. input.n
      BY <1>0
    <3>2. b > 0 => b - 1 \in 0 .. input.m
      BY <1>0
    <3> QED
      BY <2>1, <1>1, <3>1, <3>2
  <2>2. CASE a # 0 /\ b # 0
    <3>1. /\ a \in 1 .. input.n /\ b \in 1 .. input.m
          /\ a - 1 \in 0 .. input.n /\ b - 1 \in 0 .. input.m
      BY <2>2, <1>0
    <3>2. P(a - 1, b) /\ P(a, b - 1)
      <4>1. (a - 1) + b <= k /\ a + (b - 1) <= k
        BY <1>0
      <4> HIDE DEF P
      <4> QED
        BY <1>4, <3>1, <4>1
    <3>3. /\ l(a, b) \in Nat /\ l(a - 1, b) \in Nat /\ l(a, b - 1) \in Nat /\ l(a - 1, b - 1) \in Nat
      BY <1>1, <3>1
    <3>4. /\ l(a - 1, b) \in {l(a - 1, b - 1), l(a - 1, b - 1) + 1}
          /\ l(a, b - 1) \in {l(a - 1, b - 1), l(a - 1, b - 1) + 1}
      BY <3>1, <3>2
    <3> QED
      BY <1>2, <3>1, <3>3, <3>4
  <2> QED
    BY <2>1, <2>2
<1>5. \A k \in Nat : k \in S
  <2> HIDE DEF S
  <2> QED
    BY <1>3, <1>4, Induction
<1>6. i + j \in Nat
  BY <1>0
<1>7. P(i, j)
  <2> HIDE DEF P
  <2> QED
    BY <1>5, <1>6
<1> QED
  BY <1>7 DEF l
-----------------------------------------------------------------------------
(* Common subsequences *)

Spelled(V, s, S) ==
  /\ Letters(s, 0, S) = << >>
  /\ \A k \in Nat : Letters(s, k, S) \in Seq(V)
  /\ \A k \in Nat : Letters(s, k + 1, S) = IF k + 1 \in S THEN Append(Letters(s, k, S), s[k + 1])
                                           ELSE Letters(s, k, S)

LEMMA LettersSteps ==
    ASSUME NEW V, NEW s, \A k \in Nat : s[k] \in V, NEW S
    PROVE  Spelled(V, s, S)
<1> DEFINE N == [kt \in (Nat \ {0}) \X Seq(V) |-> IF kt[1] \in S THEN Append(kt[2], s[kt[1]]) ELSE kt[2]]
           B(k, t) == IF k \in S THEN Append(t, s[k]) ELSE t
           L == CHOOSE f : f = [k \in Nat |-> IF k = 0 THEN << >> ELSE B(k, f[k - 1])]
<1>1. N \in [(Nat \ {0}) \X Seq(V) -> Seq(V)]
  <2> SUFFICES ASSUME NEW k \in Nat \ {0}, NEW t \in Seq(V)
               PROVE  (IF k \in S THEN Append(t, s[k]) ELSE t) \in Seq(V)
    OBVIOUS
  <2>1. Append(t, s[k]) \in Seq(V)
    BY AppendProperties
  <2> QED
    BY <2>1
<1>2. PICK F \in [Nat -> Seq(V)] : Iterated(F, << >>, N)
  <2>1. << >> \in Seq(V)
    BY EmptySeq
  <2> HIDE DEF N
  <2> QED
    BY <1>1, <2>1, Iteration
<1>3. F = [k \in Nat |-> IF k = 0 THEN << >> ELSE B(k, F[k - 1])]
  <2>1. ASSUME NEW k \in Nat \ {0}
        PROVE  N[<<k, F[k - 1]>>] = B(k, F[k - 1])
    <3>1. <<k, F[k - 1]>> \in (Nat \ {0}) \X Seq(V)
      <4>1. k - 1 \in Nat
        OBVIOUS
      <4>2. F[k - 1] \in Seq(V)
        BY <1>2, <4>1
      <4> QED
        BY <4>2
    <3> QED
      BY <3>1
  <2>2. F = [k \in Nat |-> IF k = 0 THEN << >> ELSE N[<<k, F[k - 1]>>]]
    BY <1>2 DEF Iterated
  <2> HIDE DEF N, B
  <2> QED
    BY <2>1, <2>2
<1>4. L = [k \in Nat |-> IF k = 0 THEN << >> ELSE B(k, L[k - 1])]
  <2>1. \E f : f = [k \in Nat |-> IF k = 0 THEN << >> ELSE B(k, f[k - 1])]
    BY <1>3
  <2> HIDE DEF B
  <2> QED
    BY <2>1
<1>5. \A k : Letters(s, k, S) = L[k]
  BY DEF Letters
<1> HIDE DEF L
<1>6. \A k \in Nat : L[k] \in Seq(V)
  <2> DEFINE T == {k \in Nat : L[k] \in Seq(V)}
  <2>1. 0 \in T
    BY <1>4, EmptySeq
  <2>2. ASSUME NEW k \in Nat, k \in T
        PROVE  k + 1 \in T
    <3>1. L[k + 1] = B(k + 1, L[k])
      <4>1. k + 1 # 0 /\ (k + 1) - 1 = k /\ k + 1 \in Nat
        OBVIOUS
      <4> HIDE DEF B
      <4> QED
        BY <1>4, <4>1
    <3>2. Append(L[k], s[k + 1]) \in Seq(V)
      BY <2>2, AppendProperties
    <3>3. L[k + 1] \in Seq(V)
      BY <2>2, <3>1, <3>2
    <3> QED
      BY <3>3
  <2> HIDE DEF T
  <2>3. \A k \in Nat : k \in T
    BY <2>1, <2>2, Induction
  <2> QED
    BY <2>3 DEF T
<1>7. ASSUME NEW k \in Nat
      PROVE  L[k + 1] = B(k + 1, L[k])
  <2>1. k + 1 # 0 /\ (k + 1) - 1 = k /\ k + 1 \in Nat
    OBVIOUS
  <2> HIDE DEF B
  <2> QED
    BY <1>4, <2>1
<1> QED
  BY <1>4, <1>5, <1>6, <1>7 DEF Spelled

\* A place in front of all others.
Led(s, i, S) ==
  /\ \A k \in Nat : k <= i => Letters(s, k, S) = << >>
  /\ \A k \in Nat : k >= i => Letters(s, k, {i} \cup S) = <<s[i]>> \o Letters(s, k, S)

LEMMA LettersFront ==
    ASSUME NEW V, NEW s, \A k \in Nat : s[k] \in V,
           NEW i \in Nat \ {0}, NEW S \in SUBSET Nat, \A k \in S : k > i
    PROVE  Led(s, i, S)
<1> DEFINE L(k) == Letters(s, k, S)
           M(k) == Letters(s, k, {i} \cup S)
           T == {k \in Nat : /\ k <= i => L(k) = << >>
                             /\ k < i => M(k) = << >>
                             /\ k >= i => M(k) = <<s[i]>> \o L(k)}
<1>1. /\ L(0) = << >> /\ \A k \in Nat : L(k) \in Seq(V)
      /\ \A k \in Nat : L(k + 1) = IF k + 1 \in S THEN Append(L(k), s[k + 1]) ELSE L(k)
  <2>1. Spelled(V, s, S)
    BY LettersSteps
  <2> QED
    BY <2>1 DEF Spelled
<1>2. /\ M(0) = << >> /\ \A k \in Nat : M(k) \in Seq(V)
      /\ \A k \in Nat : M(k + 1) = IF k + 1 \in {i} \cup S THEN Append(M(k), s[k + 1]) ELSE M(k)
  <2>1. Spelled(V, s, {i} \cup S)
    BY LettersSteps
  <2> QED
    BY <2>1 DEF Spelled
<1> HIDE DEF L, M
<1>3. 0 \in T
  BY <1>1, <1>2
<1>4. ASSUME NEW k \in Nat, k \in T
      PROVE  k + 1 \in T
  <2>1. CASE k + 1 < i
    <3>1. k + 1 \notin S /\ k + 1 \notin {i} \cup S
      BY <2>1
    <3> QED
      BY <1>1, <1>2, <1>4, <2>1, <3>1
  <2>2. CASE k + 1 = i
    <3>1. k + 1 \notin S /\ L(k + 1) = << >>
      BY <1>1, <1>4, <2>2
    <3>2. M(k) = << >> /\ M(k + 1) = Append(<< >>, s[i])
      <4>1. M(k) = << >>
        BY <1>4, <2>2
      <4>2. k + 1 \in {i} \cup S
        BY <2>2
      <4>3. M(k + 1) = Append(M(k), s[k + 1])
        BY <1>2, <4>2
      <4> QED
        BY <4>1, <4>3, <2>2
    <3>3. Append(<< >>, s[i]) = <<s[i]>> /\ <<s[i]>> \o << >> = <<s[i]>>
      OBVIOUS
    <3>4. M(k + 1) = <<s[i]>> \o L(k + 1)
      BY <3>1, <3>2, <3>3
    <3> QED
      BY <2>2, <3>1, <3>4
  <2>3. CASE k + 1 > i
    <3>1. k >= i /\ M(k) = <<s[i]>> \o L(k)
      BY <1>4, <2>3
    <3>2. k + 1 # i /\ ~ (k + 1 <= i) /\ ~ (k + 1 < i)
      BY <2>3
    <3>3. M(k + 1) = IF k + 1 \in S THEN Append(M(k), s[k + 1]) ELSE M(k)
      BY <1>2, <3>2
    <3>4. Append(<<s[i]>> \o L(k), s[k + 1]) = <<s[i]>> \o Append(L(k), s[k + 1])
      <4>0. s[i] \in V /\ s[k + 1] \in V /\ L(k) \in Seq(V)
        <5>1. i \in Nat /\ k + 1 \in Nat
          OBVIOUS
        <5>2. L(k) \in Seq(V)
          BY <1>1
        <5>3. s[i] \in V /\ s[k + 1] \in V
          BY <5>1, Zenon
        <5> QED
          BY <5>2, <5>3
      <4>1. <<s[i]>> \in Seq(V) /\ <<s[k + 1]>> \in Seq(V) /\ L(k) \in Seq(V)
        BY <4>0
      <4>2. Append(L(k), s[k + 1]) = L(k) \o <<s[k + 1]>>
        BY <4>0, AppendIsConcat
      <4>3. Append(<<s[i]>> \o L(k), s[k + 1]) = (<<s[i]>> \o L(k)) \o <<s[k + 1]>>
        <5>1. <<s[i]>> \o L(k) \in Seq(V)
          BY <4>1, ConcatProperties
        <5> QED
          BY <4>0, <5>1, AppendIsConcat
      <4> QED
        BY <4>1, <4>2, <4>3, ConcatAssociative
    <3>5. M(k + 1) = <<s[i]>> \o L(k + 1)
      BY <1>1, <3>1, <3>3, <3>4
    <3> QED
      BY <3>2, <3>5, <2>3
  <2> QED
    BY <2>1, <2>2, <2>3
<1>5. \A k \in Nat : k \in T
  <2> HIDE DEF T
  <2> QED
    BY <1>3, <1>4, Induction
<1> QED
  BY <1>5 DEF L, M, Led

Characters == {input.s1[k] : k \in Nat} \cup {input.s2[k] : k \in Nat}

\* No common subsequence is longer than the table says.
LEMMA NoneLonger ==
    ASSUME input \in Inputs, NEW S, NEW T, NEW i \in 0 .. input.n, NEW j \in 0 .. input.m,
           Letters(input.s1, i, S) = Letters(input.s2, j, T)
    PROVE  Len(Letters(input.s1, i, S)) <= D[<<i, j>>].len
<1> DEFINE A(k) == Letters(input.s1, k, S)
           B(k) == Letters(input.s2, k, T)
           P(a, b) == A(a) = B(b) => Len(A(a)) <= D[<<a, b>>].len
           Q == {k \in Nat : \A a \in 0 .. input.n, b \in 0 .. input.m : a + b <= k => P(a, b)}
<1>0. input.m \in Nat /\ input.n \in Nat
  BY InputOK DEF Nonzero
<1>1. /\ A(0) = << >> /\ \A k \in Nat : A(k) \in Seq(Characters)
      /\ \A k \in Nat : A(k + 1) = IF k + 1 \in S THEN Append(A(k), input.s1[k + 1]) ELSE A(k)
  <2>1. \A k \in Nat : input.s1[k] \in Characters
    BY DEF Characters
  <2>2. Spelled(Characters, input.s1, S)
    BY <2>1, LettersSteps
  <2> QED
    BY <2>2 DEF Spelled
<1>2. /\ B(0) = << >> /\ \A k \in Nat : B(k) \in Seq(Characters)
      /\ \A k \in Nat : B(k + 1) = IF k + 1 \in T THEN Append(B(k), input.s2[k + 1]) ELSE B(k)
  <2>1. \A k \in Nat : input.s2[k] \in Characters
    BY DEF Characters
  <2>2. Spelled(Characters, input.s2, T)
    BY <2>1, LettersSteps
  <2> QED
    BY <2>2 DEF Spelled
<1> HIDE DEF A, B
<1>3. \A a \in 0 .. input.n, b \in 0 .. input.m : D[<<a, b>>].len \in Nat
  <2> SUFFICES ASSUME NEW a \in 0 .. input.n, NEW b \in 0 .. input.m
               PROVE  D[<<a, b>>].len \in Nat
    OBVIOUS
  <2>1. <<a, b>> \in Cells
    BY DEF Cells
  <2> QED
    BY <2>1, Table DEF IsTable, Cell
<1>4. ASSUME NEW a \in 0 .. input.n, NEW b \in 0 .. input.m, a = 0 \/ b = 0
      PROVE  P(a, b)
  <2>1. A(a) = B(b) => A(a) = << >>
    BY <1>1, <1>2, <1>4
  <2>2. Len(<< >>) = 0
    OBVIOUS
  <2> QED
    BY <1>3, <2>1, <2>2
<1>5. 0 \in Q
  <2> SUFFICES ASSUME NEW a \in 0 .. input.n, NEW b \in 0 .. input.m, a + b <= 0
               PROVE  P(a, b)
    OBVIOUS
  <2> QED
    BY <1>4
<1>6. ASSUME NEW k \in Nat, k \in Q
      PROVE  k + 1 \in Q
  <2> SUFFICES ASSUME NEW a \in 0 .. input.n, NEW b \in 0 .. input.m, a + b <= k + 1
               PROVE  P(a, b)
    OBVIOUS
  <2>1. CASE a = 0 \/ b = 0
    BY <1>4, <2>1
  <2>2. CASE a # 0 /\ b # 0
    <3> SUFFICES ASSUME A(a) = B(b)
                 PROVE  Len(A(a)) <= D[<<a, b>>].len
      OBVIOUS
    <3>1. /\ a \in 1 .. input.n /\ b \in 1 .. input.m
          /\ a - 1 \in 0 .. input.n /\ b - 1 \in 0 .. input.m
          /\ a - 1 \in Nat /\ b - 1 \in Nat /\ (a - 1) + 1 = a /\ (b - 1) + 1 = b
          /\ (a - 1) + b <= k /\ a + (b - 1) <= k /\ (a - 1) + (b - 1) <= k
      BY <2>2, <1>0
    <3>2. P(a - 1, b) /\ P(a, b - 1) /\ P(a - 1, b - 1)
      <4> HIDE DEF P
      <4> QED
        BY <1>6, <3>1
    <3>3. /\ A(a) = IF a \in S THEN Append(A(a - 1), input.s1[a]) ELSE A(a - 1)
          /\ B(b) = IF b \in T THEN Append(B(b - 1), input.s2[b]) ELSE B(b - 1)
      BY <1>1, <1>2, <3>1
    <3>4. /\ D[<<a, b>>].len \in Nat /\ D[<<a - 1, b>>].len \in Nat
          /\ D[<<a, b - 1>>].len \in Nat /\ D[<<a - 1, b - 1>>].len \in Nat
      <4>1. /\ a \in 0 .. input.n /\ a - 1 \in 0 .. input.n
            /\ b \in 0 .. input.m /\ b - 1 \in 0 .. input.m
        BY <3>1
      <4> QED
        BY <1>3, <4>1, Zenon
    <3>5. D[<<a - 1, b>>].len <= D[<<a, b>>].len /\ D[<<a, b - 1>>].len <= D[<<a, b>>].len
      <4>1. a > 0 /\ b > 0
        BY <3>1
      <4>2. /\ D[<<a, b>>].len \in {D[<<a - 1, b>>].len, D[<<a - 1, b>>].len + 1}
            /\ D[<<a, b>>].len \in {D[<<a, b - 1>>].len, D[<<a, b - 1>>].len + 1}
        BY <4>1, Close
      <4> QED
        BY <3>4, <4>2
    <3>6. Len(A(a - 1)) \in Nat /\ Len(A(a)) \in Nat
      BY <1>1, <3>1, LenProperties
    <3>7. CASE a \notin S
      <4>1. A(a) = A(a - 1) /\ A(a - 1) = B(b)
        BY <3>3, <3>7
      <4>2. Len(A(a)) <= D[<<a - 1, b>>].len
        BY <3>2, <4>1
      <4> DEFINE u == Len(A(a))
                 v == D[<<a - 1, b>>].len
                 x == D[<<a, b>>].len
      <4>3. u \in Nat /\ v \in Nat /\ x \in Nat /\ u <= v /\ v <= x
        BY <3>4, <3>5, <3>6, <4>2
      <4> HIDE DEF u, v, x
      <4>4. u <= x
        BY <4>3
      <4> QED
        BY <4>4 DEF u, x
    <3>8. CASE b \notin T
      <4>1. A(a) = B(b - 1)
        BY <3>3, <3>8
      <4>2. Len(A(a)) <= D[<<a, b - 1>>].len
        BY <3>2, <4>1
      <4> DEFINE u == Len(A(a))
                 v == D[<<a, b - 1>>].len
                 x == D[<<a, b>>].len
      <4>3. u \in Nat /\ v \in Nat /\ x \in Nat /\ u <= v /\ v <= x
        BY <3>4, <3>5, <3>6, <4>2
      <4> HIDE DEF u, v, x
      <4>4. u <= x
        BY <4>3
      <4> QED
        BY <4>4 DEF u, x
    <3>9. CASE a \in S /\ b \in T
      <4>1. /\ A(a - 1) \in Seq(Characters) /\ B(b - 1) \in Seq(Characters)
            /\ input.s1[a] \in Characters /\ input.s2[b] \in Characters
        <5>1. A(a - 1) \in Seq(Characters) /\ B(b - 1) \in Seq(Characters)
          BY <1>1, <1>2, <3>1
        <5>2. a \in Nat /\ b \in Nat
          BY <3>1
        <5>3. input.s1[a] \in Characters /\ input.s2[b] \in Characters
          BY <5>2 DEF Characters
        <5> QED
          BY <5>1, <5>3
      <4>2. A(a - 1) = B(b - 1) /\ input.s1[a] = input.s2[b]
        <5>1. Append(A(a - 1), input.s1[a]) = Append(B(b - 1), input.s2[b])
          BY <3>3, <3>9
        <5> QED
          BY <4>1, <5>1, AppendInjective
      <4>3. Len(A(a)) = Len(A(a - 1)) + 1
        BY <3>3, <3>9, <4>1, AppendProperties
      <4>4. D[<<a, b>>] = lcs_cell(D, a, b)
        BY <3>1, Table DEF IsTable
      <4>5. D[<<a, b>>].len = D[<<a - 1, b - 1>>].len + 1
        BY <4>2, <4>4 DEF lcs_cell
      <4>6. Len(A(a - 1)) <= D[<<a - 1, b - 1>>].len
        BY <3>2, <4>2
      <4> QED
        BY <3>4, <3>6, <4>3, <4>5, <4>6
    <3> QED
      BY <3>7, <3>8, <3>9
  <2> QED
    BY <2>1, <2>2
<1>7. \A k \in Nat : k \in Q
  <2> HIDE DEF Q
  <2> QED
    BY <1>5, <1>6, Induction
<1>8. i + j \in Nat
  BY <1>0
<1>9. P(i, j)
  <2>1. i + j \in Q
    BY <1>7, <1>8
  <2>2. i + j <= i + j
    BY <1>8
  <2> HIDE DEF P
  <2> QED
    BY <2>1, <2>2
<1> QED
  BY <1>9 DEF A, B
-----------------------------------------------------------------------------
(* The path of the serial program *)

LEMMA ReverseLength ==
    ASSUME NEW V, NEW s \in Seq(V)
    PROVE  Reverse(s) \in Seq(V) /\ Len(Reverse(s)) = Len(s)
<1>1. /\ Len(s) \in Nat /\ \A k \in 1 .. Len(s) : s[k] \in V
  BY LenProperties, ElementOfSeq
<1>2. Reverse(s) \in [1 .. Len(s) -> V]
  BY <1>1 DEF Reverse
<1> QED
  BY <1>1, <1>2

LEMMA ReverseAppend ==
    ASSUME NEW V, NEW s \in Seq(V), NEW e \in V
    PROVE  Reverse(Append(s, e)) = <<e>> \o Reverse(s)
<1>1. /\ Len(s) \in Nat /\ \A k \in 1 .. Len(s) : s[k] \in V
  BY LenProperties, ElementOfSeq
<1>2. Reverse(s) \in Seq(V) /\ Len(Reverse(s)) = Len(s)
  BY ReverseLength
<1>3. /\ Append(s, e) \in Seq(V) /\ Len(Append(s, e)) = Len(s) + 1
      /\ \A k \in 1 .. Len(s) : Append(s, e)[k] = s[k]
      /\ Append(s, e)[Len(s) + 1] = e
  BY AppendProperties
<1> DEFINE a == Append(s, e)
           l == Reverse(a)
           u == Reverse(s)
<1>4. l = [k \in 1 .. Len(s) + 1 |-> a[(Len(s) + 1 - k) + 1]]
  BY <1>3 DEF Reverse
<1>5. <<e>> \in Seq(V) /\ Len(<<e>>) = 1 /\ <<e>>[1] = e
  OBVIOUS
<1>6. /\ <<e>> \o u \in Seq(V) /\ Len(<<e>> \o u) = Len(s) + 1
      /\ \A k \in 1 .. Len(s) + 1 : (<<e>> \o u)[k] = IF k <= 1 THEN <<e>>[k] ELSE u[k - 1]
  BY <1>1, <1>2, <1>5, ConcatProperties
<1>7. l \in Seq(V) /\ Len(l) = Len(s) + 1
  <2>1. l \in [1 .. Len(s) + 1 -> V]
    <3> SUFFICES ASSUME NEW k \in 1 .. Len(s) + 1
                 PROVE  a[(Len(s) + 1 - k) + 1] \in V
      BY <1>4
    <3>1. (Len(s) + 1 - k) + 1 \in 1 .. Len(a)
      BY <1>1, <1>3
    <3> HIDE DEF a
    <3> QED
      BY <1>3, <3>1, ElementOfSeq DEF a
  <2> HIDE DEF l
  <2> QED
    BY <1>1, <2>1
<1>8. ASSUME NEW k \in 1 .. Len(s) + 1
      PROVE  l[k] = (<<e>> \o u)[k]
  <2>1. l[k] = a[(Len(s) + 1 - k) + 1]
    BY <1>4
  <2>2. CASE k = 1
    <3>1. (Len(s) + 1 - k) + 1 = Len(s) + 1
      BY <1>1, <2>2
    <3> QED
      BY <1>3, <1>5, <1>6, <2>1, <2>2, <3>1
  <2>3. CASE k > 1
    <3>1. k - 1 \in 1 .. Len(s) /\ (Len(s) + 1 - k) + 1 = (Len(s) - (k - 1)) + 1
          /\ (Len(s) - (k - 1)) + 1 \in 1 .. Len(s)
      BY <1>1, <2>3
    <3>2. u[k - 1] = s[(Len(s) - (k - 1)) + 1]
      BY <3>1 DEF Reverse
    <3>3. a[(Len(s) + 1 - k) + 1] = s[(Len(s) - (k - 1)) + 1]
      BY <1>3, <3>1
    <3>4. (<<e>> \o u)[k] = u[k - 1]
      BY <1>6, <2>3
    <3> HIDE DEF a, l, u
    <3> QED
      BY <2>1, <3>2, <3>3, <3>4
  <2>4. k = 1 \/ k > 1
    BY <1>1
  <2> HIDE DEF l, u
  <2> QED
    BY <2>2, <2>3, <2>4
<1>9. l = <<e>> \o u
  <2> HIDE DEF l, u
  <2> QED
    BY <1>1, <1>6, <1>7, <1>8, SeqEqual
<1> QED
  BY <1>9

PathPlaces == [i : 0 .. input.n, j : 0 .. input.m, res : Seq(STRING)]

Back(s) == IF s.i > 0 /\ s.j > 0 THEN StepBack(s, D[<<s.i, s.j>>].dir) ELSE s

LEMMA OneStepBack ==
    ASSUME input \in Inputs, NEW s \in PathPlaces, s.i > 0, s.j > 0
    PROVE  /\ Back(s) \in PathPlaces
           /\ D[<<s.i, s.j>>].dir # "none"
           /\ \/ /\ Back(s) = [i |-> s.i - 1, j |-> s.j - 1, res |-> Append(s.res, input.s1[s.i])]
                 /\ input.s1[s.i] = input.s2[s.j]
                 /\ D[<<s.i, s.j>>].len = D[<<s.i - 1, s.j - 1>>].len + 1
              \/ /\ Back(s) = [i |-> s.i - 1, j |-> s.j, res |-> s.res]
                 /\ D[<<s.i, s.j>>].len = D[<<s.i - 1, s.j>>].len
              \/ /\ Back(s) = [i |-> s.i, j |-> s.j - 1, res |-> s.res]
                 /\ D[<<s.i, s.j>>].len = D[<<s.i, s.j - 1>>].len
<1>0. input.m \in Nat /\ input.n \in Nat
  BY InputOK DEF Nonzero
<1> DEFINE i == s.i
           j == s.j
           d == D[<<i, j>>]
<1>1. i \in 1 .. input.n /\ j \in 1 .. input.m /\ s.res \in Seq(STRING) /\ s = [i |-> i, j |-> j, res |-> s.res]
  BY <1>0 DEF PathPlaces
<1>2. d = lcs_cell(D, i, j)
  BY <1>1, Table DEF IsTable
<1>3. Back(s) = StepBack(s, d.dir)
  BY DEF Back
<1> HIDE DEF d, i, j
<1>4. \/ input.s1[i] = input.s2[j] /\ d = [len |-> D[<<i - 1, j - 1>>].len + 1, dir |-> "upleft"]
      \/ d = [len |-> D[<<i - 1, j>>].len, dir |-> "up"]
      \/ d = [len |-> D[<<i, j - 1>>].len, dir |-> "left"]
  BY <1>2 DEF lcs_cell
<1>5. input.s1[i] \in STRING
  BY <1>1, Letter
<1>6. CASE input.s1[i] = input.s2[j] /\ d = [len |-> D[<<i - 1, j - 1>>].len + 1, dir |-> "upleft"]
  <2>1. Back(s) = [i |-> i - 1, j |-> j - 1, res |-> Append(s.res, input.s1[i])]
    BY <1>3, <1>6 DEF StepBack, i, j
  <2>2. Append(s.res, input.s1[i]) \in Seq(STRING)
    BY <1>1, <1>5, AppendProperties
  <2>3. Back(s) \in PathPlaces
    BY <1>0, <1>1, <2>1, <2>2 DEF PathPlaces
  <2> QED
    BY <1>6, <2>1, <2>3 DEF d, i, j
<1>7. CASE d = [len |-> D[<<i - 1, j>>].len, dir |-> "up"]
  <2>1. Back(s) = [i |-> i - 1, j |-> j, res |-> s.res]
    <3>1. Back(s) = [s EXCEPT !.i = @ - 1]
      BY <1>3, <1>7 DEF StepBack
    <3> QED
      BY <1>1, <3>1
  <2>2. Back(s) \in PathPlaces
    BY <1>0, <1>1, <2>1 DEF PathPlaces
  <2> QED
    BY <1>7, <2>1, <2>2 DEF d, i, j
<1>8. CASE d = [len |-> D[<<i, j - 1>>].len, dir |-> "left"]
  <2>1. Back(s) = [i |-> i, j |-> j - 1, res |-> s.res]
    <3>1. Back(s) = [s EXCEPT !.j = @ - 1]
      BY <1>3, <1>8 DEF StepBack
    <3> QED
      BY <1>1, <3>1
  <2>2. Back(s) \in PathPlaces
    BY <1>0, <1>1, <2>1 DEF PathPlaces
  <2> QED
    BY <1>8, <2>1, <2>2 DEF d, i, j
<1> QED
  BY <1>4, <1>6, <1>7, <1>8

Start == [i |-> input.n, j |-> input.m, res |-> << >>]

LEMMA BacktrackSteps ==
    ASSUME input \in Inputs
    PROVE  /\ lcs_backtrack_steps[0] = Start
           /\ \A k \in Nat : lcs_backtrack_steps[k] \in PathPlaces
           /\ \A k \in Nat : lcs_backtrack_steps[k + 1] = Back(lcs_backtrack_steps[k])
<1> DEFINE R == PathPlaces
           N == [ks \in (Nat \ {0}) \X R |-> Back(ks[2])]
           L == lcs_backtrack_steps
<1>1. Start \in R
  BY InputOK, EmptySeq DEF Start, PathPlaces, Nonzero
<1>2. \A s \in R : Back(s) \in R
  <2> SUFFICES ASSUME NEW s \in R
               PROVE  Back(s) \in R
    OBVIOUS
  <2>1. CASE s.i > 0 /\ s.j > 0
    BY <2>1, OneStepBack
  <2>2. CASE ~ (s.i > 0 /\ s.j > 0)
    BY <2>2 DEF Back
  <2> QED
    BY <2>1, <2>2
<1>3. N \in [(Nat \ {0}) \X R -> R]
  BY <1>2
<1>4. PICK F \in [Nat -> R] : Iterated(F, Start, N)
  <2> HIDE DEF N, R
  <2> QED
    BY <1>1, <1>3, Iteration
<1>5. F = [k \in Nat |-> IF k = 0 THEN Start ELSE Back(F[k - 1])]
  <2>1. ASSUME NEW k \in Nat \ {0}
        PROVE  N[<<k, F[k - 1]>>] = Back(F[k - 1])
    <3>1. <<k, F[k - 1]>> \in (Nat \ {0}) \X R
      BY <1>4
    <3> HIDE DEF R
    <3> QED
      BY <3>1
  <2>2. F = [k \in Nat |-> IF k = 0 THEN Start ELSE N[<<k, F[k - 1]>>]]
    BY <1>4 DEF Iterated
  <2> HIDE DEF N, R
  <2> QED
    BY <2>1, <2>2
<1>6. L = CHOOSE f : f = [k \in Nat |-> IF k = 0 THEN Start ELSE Back(f[k - 1])]
  BY DEF lcs_backtrack_steps, Start, Back, D
<1>7. L = [k \in Nat |-> IF k = 0 THEN Start ELSE Back(L[k - 1])]
  <2>1. \E f : f = [k \in Nat |-> IF k = 0 THEN Start ELSE Back(f[k - 1])]
    BY <1>5
  <2> HIDE DEF L
  <2> QED
    BY <1>6, <2>1
<1> HIDE DEF L
<1>8. ASSUME NEW k \in Nat
      PROVE  L[k + 1] = Back(L[k])
  <2>1. k + 1 # 0 /\ (k + 1) - 1 = k /\ k + 1 \in Nat
    OBVIOUS
  <2> QED
    BY <1>7, <2>1
<1>9. \A k \in Nat : L[k] \in R
  <2> DEFINE T == {k \in Nat : L[k] \in R}
  <2>1. 0 \in T
    BY <1>1, <1>7
  <2>2. ASSUME NEW k \in Nat, k \in T
        PROVE  k + 1 \in T
    <3>1. L[k] \in R
      BY <2>2
    <3>2. L[k + 1] \in R
      BY <3>1, <1>2, <1>8
    <3> QED
      BY <3>2
  <2> HIDE DEF T
  <2>3. \A k \in Nat : k \in T
    BY <2>1, <2>2, Induction
  <2> QED
    BY <2>3 DEF T
<1>10. L[0] = Start
  BY <1>7
<1> QED
  BY <1>8, <1>9, <1>10 DEF L

AtEnd(s) == s.i = 0 \/ s.j = 0

\* Each step is one nearer to the end, where the path stays.
LEMMA PathEnds ==
    ASSUME input \in Inputs
    PROVE  /\ \A k \in Nat : LET s == lcs_backtrack_steps[k]
                             IN  AtEnd(s) \/ k <= (input.n - s.i) + (input.m - s.j)
           /\ \A k, l \in Nat : k <= l /\ AtEnd(lcs_backtrack_steps[k])
                => lcs_backtrack_steps[l] = lcs_backtrack_steps[k]
<1> DEFINE L == lcs_backtrack_steps
           T == {k \in Nat : AtEnd(L[k]) \/ k <= (input.n - L[k].i) + (input.m - L[k].j)}
<1>0. input.m \in Nat /\ input.n \in Nat
  BY InputOK DEF Nonzero
<1>1. /\ L[0] = Start /\ \A k \in Nat : L[k] \in PathPlaces /\ L[k + 1] = Back(L[k])
  BY BacktrackSteps
<1> HIDE DEF L
<1>2. 0 \in T
  <2>1. L[0].i = input.n /\ L[0].j = input.m
    BY <1>1 DEF Start
  <2>2. 0 <= (input.n - L[0].i) + (input.m - L[0].j)
    BY <1>0, <2>1
  <2> QED
    BY <2>2
<1>3. ASSUME NEW k \in Nat, k \in T
      PROVE  k + 1 \in T
  <2>1. L[k] \in PathPlaces /\ L[k + 1] = Back(L[k])
    BY <1>1
  <2>2. L[k].i \in 0 .. input.n /\ L[k].j \in 0 .. input.m
    BY <2>1 DEF PathPlaces
  <2>3. CASE AtEnd(L[k])
    <3>1. L[k + 1] = L[k]
      BY <2>1, <2>2, <2>3 DEF Back, AtEnd
    <3> QED
      BY <2>3, <3>1
  <2>4. CASE ~ AtEnd(L[k])
    <3>1. L[k].i > 0 /\ L[k].j > 0
      BY <1>0, <2>2, <2>4 DEF AtEnd
    <3>2. \/ L[k + 1].i = L[k].i - 1 /\ L[k + 1].j = L[k].j - 1
          \/ L[k + 1].i = L[k].i - 1 /\ L[k + 1].j = L[k].j
          \/ L[k + 1].i = L[k].i /\ L[k + 1].j = L[k].j - 1
      <4> DEFINE s == L[k]
                 b == Back(s)
      <4>1. \/ b = [i |-> s.i - 1, j |-> s.j - 1, res |-> Append(s.res, input.s1[s.i])]
            \/ b = [i |-> s.i - 1, j |-> s.j, res |-> s.res]
            \/ b = [i |-> s.i, j |-> s.j - 1, res |-> s.res]
        BY <2>1, <3>1, OneStepBack
      <4>2. L[k + 1] = b
        BY <2>1
      <4> HIDE DEF b, s
      <4>3. \/ b.i = s.i - 1 /\ b.j = s.j - 1
            \/ b.i = s.i - 1 /\ b.j = s.j
            \/ b.i = s.i /\ b.j = s.j - 1
        BY <4>1
      <4> QED
        BY <4>2, <4>3 DEF s
    <3>3. k <= (input.n - L[k].i) + (input.m - L[k].j)
      BY <1>3, <2>4
    <3>4. k + 1 <= (input.n - L[k + 1].i) + (input.m - L[k + 1].j)
      BY <1>0, <2>2, <3>2, <3>3
    <3> QED
      BY <3>4
  <2> QED
    BY <2>3, <2>4
<1>4. \A k \in Nat : k \in T
  <2> HIDE DEF T
  <2> QED
    BY <1>2, <1>3, Induction
<1>5. ASSUME NEW k \in Nat, NEW l \in Nat, k <= l, AtEnd(L[k])
      PROVE  L[l] = L[k]
  <2> DEFINE U == {e \in Nat : L[k + e] = L[k]}
  <2>1. 0 \in U
    OBVIOUS
  <2>2. ASSUME NEW e \in Nat, e \in U
        PROVE  e + 1 \in U
    <3>1. k + e \in Nat /\ (k + e) + 1 = k + (e + 1) /\ L[k + e] = L[k]
      BY <2>2
    <3>2. L[k + (e + 1)] = Back(L[k])
      BY <1>1, <3>1
    <3>3. L[k].i \in 0 .. input.n /\ L[k].j \in 0 .. input.m
      BY <1>1 DEF PathPlaces
    <3>4. Back(L[k]) = L[k]
      BY <1>0, <1>5, <3>3 DEF Back, AtEnd
    <3> QED
      BY <3>2, <3>4
  <2> HIDE DEF U
  <2>3. \A e \in Nat : e \in U
    BY <2>1, <2>2, Induction
  <2>4. l - k \in U /\ k + (l - k) = l
    BY <1>5, <2>3
  <2> QED
    BY <2>4 DEF U
<1> QED
  BY <1>4, <1>5 DEF L
\* What has been collected on the way is a common subsequence of the rest of
\* both strings, and the table tells how much is to come.
LEMMA Collected ==
    ASSUME input \in Inputs, NEW k \in Nat
    PROVE  LET s == lcs_backtrack_steps[k]
           IN  /\ Len(s.res) + D[<<s.i, s.j>>].len = D[<<input.n, input.m>>].len
               /\ \E S \in SUBSET (s.i + 1 .. input.n), T \in SUBSET (s.j + 1 .. input.m) :
                    /\ Reverse(s.res) = Letters(input.s1, input.n, S)
                    /\ Reverse(s.res) = Letters(input.s2, input.m, T)
<1> DEFINE L == lcs_backtrack_steps
           Holds(s) == /\ Len(s.res) + D[<<s.i, s.j>>].len = D[<<input.n, input.m>>].len
                       /\ \E S \in SUBSET (s.i + 1 .. input.n), T \in SUBSET (s.j + 1 .. input.m) :
                            /\ Reverse(s.res) = Letters(input.s1, input.n, S)
                            /\ Reverse(s.res) = Letters(input.s2, input.m, T)
           Q == {l \in Nat : Holds(L[l])}
<1>0. input.m \in Nat /\ input.n \in Nat /\ input.m > 0 /\ input.n > 0
  BY InputOK DEF Nonzero
<1>1. /\ L[0] = Start /\ \A l \in Nat : L[l] \in PathPlaces /\ L[l + 1] = Back(L[l])
  BY BacktrackSteps
<1> HIDE DEF L
<1>2. \A c \in Cells : D[c].len \in Nat
  BY Table DEF IsTable, Cell
<1>3. /\ \A l \in Nat : input.s1[l] \in Characters
      /\ \A l \in Nat : input.s2[l] \in Characters
  BY DEF Characters
<1>4. 0 \in Q
  <2>1. Start.res = << >> /\ Start.i = input.n /\ Start.j = input.m
    BY DEF Start
  <2>2. D[<<input.n, input.m>>].len \in Nat
    BY <1>0, <1>2 DEF Cells
  <2>3. Reverse(<< >>) = << >>
    <3>1. << >> \in Seq(STRING) /\ Len(<< >>) = 0
      BY EmptySeq
    <3>2. Len(Reverse(<< >>)) = 0 /\ Reverse(<< >>) \in Seq(STRING)
      BY <3>1, ReverseLength
    <3> QED
      BY <3>2, EmptySeq
  <2>4. Letters(input.s1, input.n, {}) = << >>
    <3>1. /\ input.n \in Nat \ {0} /\ {} \in SUBSET Nat /\ \A x \in {} : x > input.n
          /\ input.n <= input.n
      BY <1>0
    <3>2. Led(input.s1, input.n, {})
      BY <1>3, <3>1, LettersFront
    <3> QED
      BY <3>1, <3>2 DEF Led
  <2>5. Letters(input.s2, input.m, {}) = << >>
    <3>1. /\ input.m \in Nat \ {0} /\ {} \in SUBSET Nat /\ \A x \in {} : x > input.m
          /\ input.m <= input.m
      BY <1>0
    <3>2. Led(input.s2, input.m, {})
      BY <1>3, <3>1, LettersFront
    <3> QED
      BY <3>1, <3>2 DEF Led
  <2>6. Holds(Start)
    <3>1. Len(Start.res) + D[<<Start.i, Start.j>>].len = D[<<input.n, input.m>>].len
      BY <2>1, <2>2
    <3>2. {} \in SUBSET (Start.i + 1 .. input.n) /\ {} \in SUBSET (Start.j + 1 .. input.m)
      OBVIOUS
    <3> QED
      BY <2>1, <2>3, <2>4, <2>5, <3>1, <3>2
  <2> HIDE DEF Holds
  <2> QED
    BY <1>1, <2>6
<1>5. ASSUME NEW l \in Nat, l \in Q
      PROVE  l + 1 \in Q
  <2> DEFINE s == L[l]
             i == s.i
             j == s.j
  <2>1. s \in PathPlaces /\ Holds(s) /\ L[l + 1] = Back(s)
    BY <1>1, <1>5
  <2> HIDE DEF s
  <2>2. i \in 0 .. input.n /\ j \in 0 .. input.m /\ s.res \in Seq(STRING)
    BY <2>1 DEF PathPlaces
  <2>3. Holds(Back(s))
    <3>1. CASE ~ (s.i > 0 /\ s.j > 0)
      BY <2>1, <3>1 DEF Back
    <3>2. CASE s.i > 0 /\ s.j > 0
      <4>1. /\ i \in 1 .. input.n /\ j \in 1 .. input.m
            /\ i - 1 \in 0 .. input.n /\ j - 1 \in 0 .. input.m
            /\ (i - 1) + 1 = i /\ (j - 1) + 1 = j
        BY <1>0, <2>2, <3>2
      <4>2. /\ D[<<i, j>>].len \in Nat /\ D[<<i - 1, j>>].len \in Nat /\ D[<<i, j - 1>>].len \in Nat
            /\ D[<<i - 1, j - 1>>].len \in Nat /\ Len(s.res) \in Nat
            /\ Len(s.res) + D[<<i, j>>].len = D[<<input.n, input.m>>].len
        <5>1. /\ <<i, j>> \in Cells /\ <<i - 1, j>> \in Cells
              /\ <<i, j - 1>> \in Cells /\ <<i - 1, j - 1>> \in Cells
          BY <4>1, Neighbours
        <5>2. Len(s.res) \in Nat
          BY <2>2, LenProperties
        <5> QED
          BY <1>2, <2>1, <5>1, <5>2
      <4>3. PICK S \in SUBSET (i + 1 .. input.n), T \in SUBSET (j + 1 .. input.m) :
              /\ Reverse(s.res) = Letters(input.s1, input.n, S)
              /\ Reverse(s.res) = Letters(input.s2, input.m, T)
        BY <2>1
      <4>4. CASE /\ Back(s) = [i |-> i - 1, j |-> j - 1, res |-> Append(s.res, input.s1[i])]
                 /\ input.s1[i] = input.s2[j]
                 /\ D[<<i, j>>].len = D[<<i - 1, j - 1>>].len + 1
        <5> DEFINE b == Back(s)
                   c == input.s1[i]
        <5>1. b.i = i - 1 /\ b.j = j - 1 /\ b.res = Append(s.res, c)
          BY <4>4
        <5>2. c \in STRING
          BY <4>1, Letter
        <5>3. Reverse(b.res) = <<c>> \o Reverse(s.res) /\ Len(b.res) = Len(s.res) + 1
          <6> HIDE DEF b, c
          <6>1. /\ Reverse(Append(s.res, c)) = <<c>> \o Reverse(s.res)
                /\ Len(Append(s.res, c)) = Len(s.res) + 1
            BY <2>2, <5>2, ReverseAppend, AppendProperties
          <6> QED
            BY <5>1, <6>1
        <5>4. Letters(input.s1, input.n, {i} \cup S) = <<c>> \o Letters(input.s1, input.n, S)
          <6>1. /\ i \in Nat \ {0} /\ input.n \in Nat /\ input.n >= i
                /\ S \in SUBSET Nat /\ \A x \in S : x > i
            BY <1>0, <4>1, <4>3
          <6> HIDE DEF i
          <6>2. Led(input.s1, i, S)
            BY <1>3, <6>1, LettersFront
          <6> QED
            BY <6>1, <6>2 DEF Led
        <5>5. Letters(input.s2, input.m, {j} \cup T) = <<c>> \o Letters(input.s2, input.m, T)
          <6>1. /\ j \in Nat \ {0} /\ input.m \in Nat /\ input.m >= j
                /\ T \in SUBSET Nat /\ \A x \in T : x > j
            BY <1>0, <4>1, <4>3
          <6>2. c = input.s2[j]
            BY <4>4
          <6> HIDE DEF j
          <6>3. Led(input.s2, j, T)
            BY <1>3, <6>1, LettersFront
          <6> QED
            BY <6>1, <6>2, <6>3 DEF Led
        <5>6. /\ {i} \cup S \in SUBSET (b.i + 1 .. input.n)
              /\ {j} \cup T \in SUBSET (b.j + 1 .. input.m)
          <6>1. b.i + 1 = i /\ b.j + 1 = j
            BY <4>1, <5>1
          <6>2. i \in i .. input.n /\ i + 1 .. input.n \subseteq i .. input.n
            BY <1>0, <4>1
          <6>3. j \in j .. input.m /\ j + 1 .. input.m \subseteq j .. input.m
            BY <1>0, <4>1
          <6> HIDE DEF b, i, j
          <6> QED
            BY <4>3, <6>1, <6>2, <6>3
        <5>7. Len(b.res) + D[<<b.i, b.j>>].len = D[<<input.n, input.m>>].len
          <6>1. D[<<i, j>>].len = D[<<i - 1, j - 1>>].len + 1
            BY <4>4
          <6> HIDE DEF b, i, j
          <6>2. D[<<b.i, b.j>>] = D[<<i - 1, j - 1>>]
            BY <5>1
          <6>3. Len(b.res) = Len(s.res) + 1
            BY <5>3
          <6>4. D[<<i - 1, j - 1>>].len \in Nat /\ Len(s.res) \in Nat
            BY <4>2
          <6>5. Len(s.res) + D[<<i, j>>].len = Len(s.res) + 1 + D[<<i - 1, j - 1>>].len
            BY <6>1, <6>4
          <6>6. Len(b.res) + D[<<b.i, b.j>>].len = Len(s.res) + D[<<i, j>>].len
            BY <6>2, <6>3, <6>5
          <6>7. Len(s.res) + D[<<i, j>>].len = D[<<input.n, input.m>>].len
            BY <4>2
          <6> QED
            BY <6>6, <6>7
        <5>8. /\ Reverse(b.res) = Letters(input.s1, input.n, {i} \cup S)
              /\ Reverse(b.res) = Letters(input.s2, input.m, {j} \cup T)
          BY <4>3, <5>3, <5>4, <5>5
        <5> HIDE DEF b, i, j
        <5> QED
          BY <5>6, <5>7, <5>8 DEF b
      <4>5. CASE /\ Back(s) = [i |-> i - 1, j |-> j, res |-> s.res]
                 /\ D[<<i, j>>].len = D[<<i - 1, j>>].len
        <5> DEFINE b == Back(s)
        <5>1. b.i = i - 1 /\ b.j = j /\ b.res = s.res
          BY <4>5
        <5>2. S \in SUBSET (b.i + 1 .. input.n) /\ T \in SUBSET (b.j + 1 .. input.m)
          BY <1>0, <4>1, <4>3, <5>1
        <5>3. Len(b.res) + D[<<b.i, b.j>>].len = D[<<input.n, input.m>>].len
          BY <4>2, <4>5, <5>1
        <5> HIDE DEF b, i, j
        <5> QED
          BY <4>3, <5>1, <5>2, <5>3 DEF b
      <4>6. CASE /\ Back(s) = [i |-> i, j |-> j - 1, res |-> s.res]
                 /\ D[<<i, j>>].len = D[<<i, j - 1>>].len
        <5> DEFINE b == Back(s)
        <5>1. b.i = i /\ b.j = j - 1 /\ b.res = s.res
          BY <4>6
        <5>2. S \in SUBSET (b.i + 1 .. input.n) /\ T \in SUBSET (b.j + 1 .. input.m)
          BY <1>0, <4>1, <4>3, <5>1
        <5>3. Len(b.res) + D[<<b.i, b.j>>].len = D[<<input.n, input.m>>].len
          BY <4>2, <4>6, <5>1
        <5> HIDE DEF b, i, j
        <5> QED
          BY <4>3, <5>1, <5>2, <5>3 DEF b
      <4> QED
        <5> HIDE DEF Holds
        <5> QED
          BY <2>1, <3>2, <4>4, <4>5, <4>6, OneStepBack
    <3> QED
      BY <3>1, <3>2
  <2> HIDE DEF Holds
  <2> QED
    BY <2>1, <2>3
<1>6. \A l \in Nat : l \in Q
  <2> HIDE DEF Q
  <2> QED
    BY <1>4, <1>5, Induction
<1>7. Holds(L[k])
  <2> HIDE DEF Holds
  <2> QED
    BY <1>6
<1> QED
  BY <1>7 DEF L

\* The string printed, as ResultCorrect has it.
Longest(res) ==
  LET Common(S, T) == Letters(input.s1, input.n, S) = Letters(input.s2, input.m, T)
  IN  /\ \E S \in SUBSET (1 .. input.n), T \in SUBSET (1 .. input.m) :
           Common(S, T) /\ res = Letters(input.s1, input.n, S)
      /\ \A S \in SUBSET (1 .. input.n), T \in SUBSET (1 .. input.m) :
           Common(S, T) => Len(Letters(input.s1, input.n, S)) <= Len(res)

\* The string that the serial program prints is a common subsequence of both
\* strings, and none is longer: lcs_length and lcs_backtrack of lcs_serial.c.
THEOREM SerialIsLongest ==
    ASSUME input \in Inputs
    PROVE  Longest(lcs_backtrack_serial)
<1> DEFINE k == input.n + input.m
           s == lcs_backtrack_steps[k]
<1>0. input.m \in Nat /\ input.n \in Nat /\ input.m > 0 /\ input.n > 0 /\ k \in Nat
  BY InputOK DEF Nonzero
<1>1. s \in PathPlaces
  BY <1>0, BacktrackSteps
<1>2. /\ Len(s.res) + D[<<s.i, s.j>>].len = D[<<input.n, input.m>>].len
      /\ \E S \in SUBSET (s.i + 1 .. input.n), T \in SUBSET (s.j + 1 .. input.m) :
           /\ Reverse(s.res) = Letters(input.s1, input.n, S)
           /\ Reverse(s.res) = Letters(input.s2, input.m, T)
  BY <1>0, Collected
<1>3. AtEnd(s) \/ k <= (input.n - s.i) + (input.m - s.j)
  BY <1>0, PathEnds
<1>4. lcs_backtrack_serial = Reverse(s.res)
  BY DEF lcs_backtrack_serial
<1> HIDE DEF s
<1>5. s.i \in 0 .. input.n /\ s.j \in 0 .. input.m /\ s.res \in Seq(STRING)
  BY <1>1 DEF PathPlaces
<1>6. AtEnd(s)
  BY <1>0, <1>3, <1>5 DEF AtEnd
<1>7. D[<<s.i, s.j>>].len = 0
  <2>1. <<s.i, s.j>> \in Cells
    BY <1>5 DEF Cells
  <2> QED
    BY <1>6, <2>1, Table DEF IsTable, NoCell, AtEnd
<1>8. Len(Reverse(s.res)) = D[<<input.n, input.m>>].len
  <2>1. Len(s.res) \in Nat /\ Len(Reverse(s.res)) = Len(s.res)
    BY <1>5, LenProperties, ReverseLength
  <2> QED
    BY <1>2, <1>7, <2>1
<1>9. PICK S \in SUBSET (s.i + 1 .. input.n), T \in SUBSET (s.j + 1 .. input.m) :
        /\ Reverse(s.res) = Letters(input.s1, input.n, S)
        /\ Reverse(s.res) = Letters(input.s2, input.m, T)
  BY <1>2
<1>10. S \in SUBSET (1 .. input.n) /\ T \in SUBSET (1 .. input.m)
  BY <1>0, <1>5, <1>9
<1>11. ASSUME NEW A \in SUBSET (1 .. input.n), NEW B \in SUBSET (1 .. input.m),
              Letters(input.s1, input.n, A) = Letters(input.s2, input.m, B)
       PROVE  Len(Letters(input.s1, input.n, A)) <= Len(Reverse(s.res))
  <2>1. input.n \in 0 .. input.n /\ input.m \in 0 .. input.m
    BY <1>0
  <2> QED
    BY <1>8, <1>11, <2>1, NoneLonger
<1> QED
  BY <1>4, <1>9, <1>10, <1>11 DEF Longest
-----------------------------------------------------------------------------
(* What a step changes *)

LEMMA InputStays ==
    ASSUME input' = input
    PROVE  /\ W' = W /\ Height' = Height /\ Ranks' = Ranks /\ Cells' = Cells /\ LabelsOf' = LabelsOf
           /\ (Threads' <=> Threads) /\ (Mpi' <=> Mpi) /\ (Diagonals' <=> Diagonals) /\ (Right' <=> Right)
           /\ \A r : y(r)' = y(r) /\ Band(r)' = Band(r) /\ G(r)' = G(r) /\ CutHeight(r)' = CutHeight(r)
           /\ \A x : Following(x)' = Following(x) /\ Width(x)' = Width(x)
<1>1. W' = W /\ Height' = Height /\ Ranks' = Ranks /\ Cells' = Cells
  BY DEF W, Height, Ranks, Cells
<1>2. (Threads' <=> Threads) /\ (Mpi' <=> Mpi) /\ (Diagonals' <=> Diagonals) /\ (Right' <=> Right)
  BY DEF Threads, Mpi, Diagonals, Right
<1>3. LabelsOf' = LabelsOf /\ \A r : G(r)' = G(r)
  BY <1>2 DEF LabelsOf, G
<1>4. \A r : y(r)' = y(r)
  BY <1>1 DEF y
<1>5. \A r : Band(r)' = Band(r) /\ CutHeight(r)' = CutHeight(r)
  BY <1>1, <1>4 DEF Band, CutHeight
<1>6. \A x : Following(x)' = Following(x) /\ Width(x)' = Width(x)
  BY <1>1 DEF Following, Width
<1> QED
  BY <1>1, <1>2, <1>3, <1>4, <1>5, <1>6

\* Only r moves.
Moves(r) ==
  /\ input' = input
  /\ pc' = [pc EXCEPT ![r] = pc'[r]]
  /\ next' = [next EXCEPT ![r] = next'[r]] /\ w' = [w EXCEPT ![r] = w'[r]]
  /\ h' = [h EXCEPT ![r] = h'[r]] /\ cur' = [cur EXCEPT ![r] = cur'[r]]
  /\ state' = [state EXCEPT ![r] = state'[r]]

LEMMA UpdatedAt ==
    ASSUME NEW S, NEW r \in S, NEW f, NEW g, f = [t \in S |-> f[t]],
           \E v : g = f \/ g = [f EXCEPT ![r] = v]
    PROVE  g = [f EXCEPT ![r] = g[r]]
<1>1. PICK v : g = f \/ g = [f EXCEPT ![r] = v]
  OBVIOUS
<1>2. CASE g = f
  <2>1. f = [f EXCEPT ![r] = f[r]]
    OBVIOUS
  <2> QED
    BY <1>2, <2>1, Zenon
<1>3. CASE g = [f EXCEPT ![r] = v]
  <2>1. g[r] = v
    BY <1>3
  <2> QED
    BY <1>3, <2>1, Zenon
<1> QED
  BY <1>1, <1>2, <1>3

LEMMA RankMoves ==
    ASSUME Shape, NEW r \in Ranks, Rank(r)
    PROVE  Moves(r)
<1>1. /\ pc = [t \in Ranks |-> pc[t]] /\ next = [t \in Ranks |-> next[t]] /\ w = [t \in Ranks |-> w[t]]
      /\ h = [t \in Ranks |-> h[t]] /\ cur = [t \in Ranks |-> cur[t]] /\ state = [t \in Ranks |-> state[t]]
  BY DEF Shape
<1>4. /\ input' = input
      /\ \E v : pc' = pc \/ pc' = [pc EXCEPT ![r] = v]
      /\ \E v : next' = next \/ next' = [next EXCEPT ![r] = v]
      /\ \E v : w' = w \/ w' = [w EXCEPT ![r] = v]
      /\ \E v : h' = h \/ h' = [h EXCEPT ![r] = v]
      /\ \E v : cur' = cur \/ cur' = [cur EXCEPT ![r] = v]
      /\ \E v : state' = state \/ state' = [state EXCEPT ![r] = v]
  <2> USE DEF Goto, block
  <2>1. CASE ComputeCell(r)
    BY <2>1 DEF ComputeCell
  <2>2. CASE InitQueue(r)
    BY <2>2 DEF InitQueue
  <2>3. CASE NextBlock(r)
    BY <2>3 DEF NextBlock, StartBlock
  <2>4. CASE PassOn(r)
    BY <2>4 DEF PassOn
  <2>5. CASE DestroyQueue(r)
    BY <2>5 DEF DestroyQueue
  <2>6. CASE NextBlockMpi(r)
    BY <2>6 DEF NextBlockMpi, StartBlock
  <2>7. CASE SendRow(r)
    BY <2>7 DEF SendRow
  <2>8. CASE DiagonalCell(r)
    BY <2>8 DEF DiagonalCell
  <2>9. CASE TakeState(r)
    BY <2>9 DEF TakeState
  <2>10. CASE BacktrackCell(r)
    BY <2>10 DEF BacktrackCell
  <2>11. CASE BadCell(r)
    BY <2>11 DEF BadCell, vars
  <2>12. CASE HandOver(r)
    BY <2>12 DEF HandOver
  <2> QED
    BY <2>1, <2>2, <2>3, <2>4, <2>5, <2>6, <2>7, <2>8, <2>9, <2>10, <2>11, <2>12 DEF Rank
<1>5. pc' = [pc EXCEPT ![r] = pc'[r]]
  <2>1. \E u : pc' = pc \/ pc' = [pc EXCEPT ![r] = u]
    BY <1>4
  <2> QED
    BY <1>1, <2>1, UpdatedAt
<1>6. next' = [next EXCEPT ![r] = next'[r]]
  <2>1. \E u : next' = next \/ next' = [next EXCEPT ![r] = u]
    BY <1>4
  <2> QED
    BY <1>1, <2>1, UpdatedAt
<1>7. w' = [w EXCEPT ![r] = w'[r]]
  <2>1. \E u : w' = w \/ w' = [w EXCEPT ![r] = u]
    BY <1>4
  <2> QED
    BY <1>1, <2>1, UpdatedAt
<1>8. h' = [h EXCEPT ![r] = h'[r]]
  <2>1. \E u : h' = h \/ h' = [h EXCEPT ![r] = u]
    BY <1>4
  <2> QED
    BY <1>1, <2>1, UpdatedAt
<1>9. cur' = [cur EXCEPT ![r] = cur'[r]]
  <2>1. \E u : cur' = cur \/ cur' = [cur EXCEPT ![r] = u]
    BY <1>4
  <2> QED
    BY <1>1, <2>1, UpdatedAt
<1>10. state' = [state EXCEPT ![r] = state'[r]]
  <2>1. \E u : state' = state \/ state' = [state EXCEPT ![r] = u]
    BY <1>4
  <2> QED
    BY <1>1, <2>1, UpdatedAt
<1> QED
  BY <1>4, <1>5, <1>6, <1>7, <1>8, <1>9, <1>10, Zenon DEF Moves

LEMMA OthersStay ==
    ASSUME Shape, NEW r \in Ranks, Moves(r), NEW t \in Ranks, t # r
    PROVE  /\ pc'[t] = pc[t] /\ next'[t] = next[t] /\ w'[t] = w[t] /\ h'[t] = h[t]
           /\ cur'[t] = cur[t] /\ state'[t] = state[t]
  BY DEF Shape, Moves

LEMMA PlaceStays ==
    ASSUME input' = input, NEW t, pc'[t] = pc[t], next'[t] = next[t], w'[t] = w[t], h'[t] = h[t],
           cur'[t] = cur[t]
    PROVE  /\ Place(t) => Place(t)'
           /\ BlockAt(t) => BlockAt(t)'
  BY DEF Place, BlockAt, Threads, Mpi, Diagonals, W, Height, y, CutHeight, Following, Width
-----------------------------------------------------------------------------
(* The places *)

LEMMA LineOf ==
    ASSUME NEW s \in Seq(1 .. input.m + 1), s # << >>, NEW r,
           pc[r - 1] \in {"cells", "pass"} => next[r - 1] \in 1 .. input.m + 1
    PROVE  /\ Line(r, s) # << >> /\ Line(r, s)[1] = s[1]
           /\ Line(r, Tail(s)) = Tail(Line(r, s))
<1>1. CASE Line(r, s) = s /\ Line(r, Tail(s)) = Tail(s)
  BY <1>1
<1>2. CASE /\ next[r - 1] \in 1 .. input.m + 1
           /\ Line(r, s) = Append(s, next[r - 1]) /\ Line(r, Tail(s)) = Append(Tail(s), next[r - 1])
  <2>1. Len(s) \in Nat /\ Len(s) >= 1 /\ 1 \in 1 .. Len(s)
    BY EmptySeq, LenProperties
  <2>2. Append(s, next[r - 1]) # << >> /\ Append(s, next[r - 1])[1] = s[1]
    BY <1>2, <2>1, AppendProperties
  <2>3. Tail(Append(s, next[r - 1])) = Append(Tail(s), next[r - 1])
    BY HeadTailAppend
  <2> QED
    BY <1>2, <2>2, <2>3
<1> QED
  BY <1>1, <1>2 DEF Line

LEMMA Above ==
    ASSUME Shape, NEW r \in Ranks, r > 0
    PROVE  /\ r - 1 \in Ranks /\ r \in 1 .. input.p - 1
           /\ next[r - 1] \in 0 .. input.m + 1
           /\ pc[r - 1] \in {"cells", "pass"} => next[r - 1] \in 1 .. input.m + 1
<1>1. input.p \in Nat /\ input.m \in Nat
  BY InputSizes, ShapeAt
<1>2. r - 1 \in Ranks /\ r \in 1 .. input.p - 1
  BY <1>1 DEF Ranks
<1>3. Place(r - 1) /\ next[r - 1] \in 0 .. input.m + 1
  BY <1>2, ShapeAt
<1>4. pc[r - 1] \in {"cells", "pass"} => next[r - 1] > 0
  BY <1>1, <1>3 DEF Place
<1> QED
  BY <1>1, <1>2, <1>3, <1>4

\* The block a band takes from the band above follows its last one.
LEMMA TakesNext ==
    ASSUME Shape, Queues, Chained, NEW r \in Ranks, r > 0, Threads => pc[r] \in Middle,
           IF Threads THEN q[r].items # << >> ELSE net["block"][r] # << >>
    PROVE  \E s \in Seq(1 .. input.m + 1) :
             /\ Waiting(r, s) /\ Chain(next[r], Line(r, s), next[r - 1])
             /\ s # << >> /\ next[r] <= input.m /\ s[1] = Following(next[r])
             /\ Threads => Head(q[r].items) = s[1]
<1>1. r - 1 \in Ranks /\ r \in 1 .. input.p - 1
  BY Above
<1>2. PICK s \in Seq(1 .. input.m + 1) : Waiting(r, s) /\ Chain(next[r], Line(r, s), next[r - 1])
  BY <1>1 DEF Chained, Linked
<1>3. s # << >>
  <2>1. CASE Threads
    BY <1>2, <2>1 DEF Waiting
  <2>2. CASE ~Threads
    <3>1. Len(net["block"][r]) = Len(s)
      BY <1>2, <2>2 DEF Waiting
    <3>2. net["block"][r] \in Seq(Seq(Cell) \cup Steps)
      BY DEF Queues, Messages
    <3>3. Len(net["block"][r]) # 0
      BY <2>2, <3>2, EmptySeq
    <3> QED
      BY <3>1, <3>3
  <2> QED
    BY <2>1, <2>2
<1>4. Line(r, s) # << >> /\ Line(r, s)[1] = s[1]
  BY <1>3, Above, LineOf
<1>5. next[r] <= input.m /\ s[1] = Following(next[r])
  BY <1>2, <1>4 DEF Chain
<1>6. Threads => Head(q[r].items) = s[1]
  BY <1>2, <1>3 DEF Waiting
<1> QED
  BY <1>2, <1>3, <1>5, <1>6
PlaceAfter(r) ==
  /\ pc'[r] \in LabelsOf
  /\ next'[r] \in Int /\ w'[r] \in Int /\ h'[r] \in Int /\ cur'[r] \in Int \X Int
  /\ Place(r)' /\ (~Diagonals => BlockAt(r)')
  /\ Threads => /\ pc'[r] \in Setup <=> pc[r] \in Setup
                /\ pc'[r] \in Final <=> pc[r] \in Final

\* When a thread or rank starts its next block.
LEMMA BlockStarts ==
    ASSUME Shape, NEW r \in Ranks, ~Diagonals, pc[r] = "next", Following(next[r]) <= input.m,
           input' = input, StartBlock(r, Following(next[r]))
    PROVE  /\ next'[r] = Following(next[r]) /\ w'[r] = Width(next'[r]) /\ h'[r] = CutHeight(r)
           /\ next'[r] \in 1 .. input.m /\ w'[r] \in Nonzero /\ next'[r] + w'[r] <= input.m + 1
           /\ cur'[r] = <<y(r), next'[r]>>
           /\ pc'[r] = IF CutHeight(r) > 0 THEN "cells" ELSE "pass"
<1> DEFINE x == Following(next[r])
<1>1. /\ input \in Inputs /\ next[r] \in 0 .. input.m + 1 /\ BlockAt(r) /\ next[r] <= input.m
  BY DEF Shape, Place
<1>2. /\ input.m \in Nat /\ input.n \in Nat /\ W \in Nat /\ W > 0 /\ Height \in Nat /\ y(r) \in Nat
  BY <1>1, InputOK, Sizes, Bands DEF Nonzero
<1>3. x \in 1 .. input.m /\ x > next[r] /\ Width(x) \in Nonzero
      /\ x + Width(x) \in 1 .. input.m + 1
      /\ (next[r] > 0 => Width(next[r]) = W)
  <2>1. x \in 1 .. input.m + 1 /\ x > next[r]
    BY <1>1, Blocks
  <2>2. x \in 1 .. input.m /\ x \in 0 .. input.m + 1
    BY <1>2, <2>1
  <2>3. Width(x) \in Nonzero /\ Following(x) = x + Width(x) /\ Following(x) \in 1 .. input.m + 1
    BY <1>1, <2>2, Blocks
  <2>4. next[r] > 0 => Width(next[r]) = W
    BY <1>1, <1>2, Blocks
  <2> QED
    BY <2>1, <2>2, <2>3, <2>4
<1>4. w[r] = W /\ (h[r] = Height \/ h[r] = CutHeight(r))
  BY <1>1, <1>2, <1>3 DEF BlockAt
<1> HIDE DEF x
<1>5. /\ next' = [next EXCEPT ![r] = x]
      /\ w' = [w EXCEPT ![r] = IF x + w[r] > input.m THEN input.m - x + 1 ELSE w[r]]
      /\ h' = [h EXCEPT ![r] = IF y(r) + h[r] > input.n THEN input.n - y(r) + 1 ELSE h[r]]
      /\ cur' = [cur EXCEPT ![r] = <<y(r), x>>]
      /\ pc' = [pc EXCEPT ![r] = IF (IF y(r) + h[r] > input.n THEN input.n - y(r) + 1 ELSE h[r]) > 0
                                 THEN "cells" ELSE "pass"]
  BY DEF StartBlock, Goto, x
<1>6. (IF y(r) + h[r] > input.n THEN input.n - y(r) + 1 ELSE h[r]) = CutHeight(r)
  BY <1>2, <1>4 DEF CutHeight
<1>7. next'[r] = x /\ cur'[r] = <<y(r), x>>
  BY <1>5 DEF Shape
<1>8. w'[r] = Width(x)
  BY <1>4, <1>5 DEF Shape, Width
<1>9. h'[r] = CutHeight(r) /\ pc'[r] = IF CutHeight(r) > 0 THEN "cells" ELSE "pass"
  BY <1>5, <1>6 DEF Shape
<1> QED
  BY <1>2, <1>3, <1>7, <1>8, <1>9 DEF x, Nonzero

LEMMA BlockAtStart ==
    ASSUME Shape, NEW r \in Ranks, ~Diagonals, pc[r] = "next", Following(next[r]) <= input.m,
           input' = input, StartBlock(r, Following(next[r]))
    PROVE  PlaceAfter(r)
<1>1. /\ next'[r] = Following(next[r]) /\ w'[r] = Width(next'[r]) /\ h'[r] = CutHeight(r)
      /\ next'[r] \in 1 .. input.m /\ w'[r] \in Nonzero /\ next'[r] + w'[r] <= input.m + 1
      /\ cur'[r] = <<y(r), next'[r]>>
      /\ pc'[r] = IF CutHeight(r) > 0 THEN "cells" ELSE "pass"
  BY BlockStarts
<1>2. /\ input \in Inputs /\ input.m \in Nat /\ input.n \in Nat /\ Height \in Nat /\ y(r) \in Nat
  BY InputOK, Sizes, Bands DEF Nonzero, Shape
<1>3. CutHeight(r) \in Int
  BY <1>2 DEF CutHeight
<1>4. pc'[r] \in LabelsOf /\ pc'[r] \in {"cells", "pass"} /\ Following(next[r]) \in Int
  BY <1>1 DEF LabelsOf, Computing, Middle
<1>5. Place(r)'
  BY <1>1, <1>2, <1>4, InputStays DEF Place, Setup, Final, Mpi
<1>6. BlockAt(r)'
  <2>1. (W' = W /\ Height' = Height /\ y(r)' = y(r) /\ CutHeight(r)' = CutHeight(r))
    BY InputStays
  <2>2. Width(next[r])' = Width(next'[r])
    BY <2>1 DEF Width
  <2>3. pc'[r] = "cells" => cur'[r] \in (y(r) .. y(r) + h'[r] - 1) \X (next'[r] .. next'[r] + w'[r] - 1)
    BY <1>1, <1>2, <1>3 DEF Nonzero
  <2> QED
    BY <1>1, <1>2, <2>1, <2>2, <2>3 DEF BlockAt
<1>7. Threads => (pc'[r] \notin Setup \cup Final) /\ (pc[r] \notin Setup \cup Final)
  BY <1>4 DEF Setup, Final
<1> QED
  BY <1>1, <1>2, <1>3, <1>4, <1>5, <1>6, <1>7 DEF PlaceAfter, Nonzero

\* A step that leaves the block as it is.
LEMMA BlockKept ==
    ASSUME Shape, NEW r \in Ranks, Moves(r), UNCHANGED block
    PROVE  /\ next'[r] = next[r] /\ next[r] \in Int /\ w'[r] \in Int /\ h'[r] \in Int /\ cur'[r] \in Int \X Int
           /\ ~Diagonals /\ pc'[r] # "cells" => BlockAt(r)'
           /\ next[r] \in 0 .. input.m + 1
<1>1. /\ next' = next /\ w' = w /\ h' = h /\ cur' = cur /\ input' = input
  BY DEF block, Moves
<1>2. Place(r) /\ (~Diagonals => BlockAt(r))
  BY DEF Shape
<1>3. ~Diagonals /\ pc'[r] # "cells" => BlockAt(r)'
  BY <1>1, <1>2 DEF BlockAt, W, Height, Width, CutHeight, y
<1> QED
  BY <1>1, <1>2, <1>3 DEF Shape, Place
LEMMA MinOfTwo ==
    ASSUME NEW a \in Int, NEW b \in Int
    PROVE  Min({a, b}) = IF a <= b THEN a ELSE b
<1> DEFINE c == IF a <= b THEN a ELSE b
<1>1. c \in {a, b} /\ \A x \in {a, b} : c <= x
  OBVIOUS
<1>2. \A x \in {a, b} : (\A z \in {a, b} : x <= z) => x = c
  OBVIOUS
<1> HIDE DEF c
<1>3. Min({a, b}) = c
  BY <1>1, <1>2 DEF Min
<1> QED
  BY <1>3 DEF c

LEMMA MaxOfTwo ==
    ASSUME NEW a \in Int, NEW b \in Int
    PROVE  Max({a, b}) = IF a >= b THEN a ELSE b
<1> DEFINE c == IF a >= b THEN a ELSE b
<1>1. c \in {a, b} /\ \A x \in {a, b} : c >= x
  OBVIOUS
<1>2. \A x \in {a, b} : (\A z \in {a, b} : x >= z) => x = c
  OBVIOUS
<1> HIDE DEF c
<1>3. Max({a, b}) = c
  BY <1>1, <1>2 DEF Max
<1> QED
  BY <1>3 DEF c

LEMMA ThreeVersions ==
    ASSUME Shape
    PROVE  /\ Threads \/ Mpi \/ Diagonals
           /\ ~ (Threads /\ Mpi) /\ ~ (Threads /\ Diagonals) /\ ~ (Mpi /\ Diagonals)
           /\ Diagonals => input.p = 1 /\ Ranks = {0}
           /\ input.p \in Nonzero /\ 0 \in Ranks
<1>1. input \in Inputs
  BY DEF Shape
<1>2. /\ input.p \in Nonzero /\ input.version \in {"threads", "mpi", "diagonals"}
      /\ Diagonals => input.p = 1
  BY <1>1, InputOK
<1> QED
  BY <1>2 DEF Threads, Mpi, Diagonals, Ranks, Nonzero

LEMMA ByVersion ==
    ASSUME Shape, NEW r \in Ranks
    PROVE  /\ pc[r] \in Setup \cup {"destroy1", "init2", "barrier2", "destroy2"} => Threads
           /\ pc[r] \in Computing => Threads \/ Mpi
           /\ pc[r] = "diagonal" => Diagonals
  BY ThreeVersions DEF Shape, LabelsOf, Setup, Computing, Middle, Final

LEMMA CellPlace ==
    ASSUME Shape, NEW r \in Ranks, Moves(r), ComputeCell(r)
    PROVE  PlaceAfter(r)
<1> DEFINE i == cur[r][1]
           j == cur[r][2]
           lastcol == next[r] + w[r] - 1
           last == y(r) + h[r] - 1
<1>1. /\ pc[r] = "cells" /\ ~Diagonals /\ Place(r) /\ BlockAt(r) /\ input \in Inputs
      /\ cur \in [Ranks -> Int \X Int] /\ pc \in [Ranks -> LabelsOf]
  BY ByVersion, ThreeVersions DEF ComputeCell, Shape, Computing
<1>2. /\ next[r] \in 1 .. input.m /\ w[r] = Width(next[r]) /\ h[r] = CutHeight(r)
      /\ i \in y(r) .. last /\ j \in next[r] .. lastcol
      /\ y(r) \in Nat /\ h[r] \in Int /\ w[r] \in Nat /\ input.m \in Nat
  <2>1. input.m \in Nat /\ y(r) \in Nat
    BY <1>1, InputOK, Bands DEF Nonzero
  <2>2. next[r] \in 1 .. input.m /\ w[r] = Width(next[r]) /\ h[r] = CutHeight(r)
    BY <1>1, <2>1 DEF Place, BlockAt
  <2>3. Width(next[r]) \in Nat
    <3>1. next[r] \in 0 .. input.m + 1
      BY <2>1, <2>2
    <3> QED
      BY <1>1, <2>2, <3>1, Blocks DEF Nonzero
  <2> QED
    BY <1>1, <2>1, <2>2, <2>3 DEF BlockAt, Shape
<1>3. /\ cur'[r] = IF j < lastcol THEN <<i, j + 1>> ELSE <<i + 1, next[r]>>
      /\ pc'[r] = IF j = lastcol /\ i = last THEN "pass" ELSE "cells"
      /\ next' = next /\ w' = w /\ h' = h /\ input' = input
  BY <1>1 DEF ComputeCell, Goto
<1> HIDE DEF i, j, lastcol, last
<1>4. cur'[r] \in Int \X Int
  BY <1>2, <1>3 DEF last, lastcol
<1>5. pc'[r] = "cells" => cur'[r] \in (y(r) .. last) \X (next[r] .. lastcol)
  BY <1>2, <1>3 DEF last, lastcol
<1>6. pc'[r] \in LabelsOf
  BY <1>1, <1>3 DEF LabelsOf, Computing, Middle, Shape
<1>7. Place(r)'
  BY <1>1, <1>2, <1>3, <1>6, InputStays DEF Place, Setup, Final
<1>8. BlockAt(r)'
  <2>1. (W' = W /\ Height' = Height /\ y(r)' = y(r) /\ CutHeight(r)' = CutHeight(r))
    BY <1>3, InputStays
  <2>2. Width(next[r])' = Width(next'[r])
    BY <2>1, <1>3 DEF Width
  <2> QED
    BY <1>2, <1>3, <1>5, <2>1, <2>2 DEF BlockAt, last, lastcol
<1>9. Threads => (pc'[r] \notin Setup \cup Final) /\ (pc[r] \notin Setup \cup Final)
  BY <1>1, <1>3 DEF Setup, Final
<1> QED
  BY <1>1, <1>2, <1>3, <1>4, <1>6, <1>7, <1>8, <1>9 DEF PlaceAfter, Shape

LEMMA DiagonalPlace ==
    ASSUME Shape, NEW r \in Ranks, Moves(r), DiagonalCell(r)
    PROVE  PlaceAfter(r)
<1> DEFINE i == cur[r][1]
           j == cur[r][2]
           d == i + j - 1
           sx == Max({d + 1 - input.m + 1, 1})
<1>1. /\ pc[r] = "diagonal" /\ Diagonals /\ ~Threads /\ ~Mpi /\ Place(r) /\ input \in Inputs
      /\ cur \in [Ranks -> Int \X Int] /\ pc \in [Ranks -> LabelsOf]
  BY ByVersion, ThreeVersions DEF DiagonalCell, Shape
<1>2. /\ i \in 1 .. input.n /\ j \in 1 .. input.m /\ input.n \in Nat /\ input.m \in Nat
      /\ cur[r] = <<i, j>>
  BY <1>1, InputOK DEF Place, Nonzero
<1>3. /\ cur'[r] = IF i < Min({d, input.n}) THEN <<i + 1, j - 1>> ELSE <<sx, d + 2 - sx>>
      /\ pc'[r] = IF d = input.n + input.m - 1 THEN "take" ELSE "diagonal"
      /\ next' = next /\ w' = w /\ h' = h /\ input' = input
  BY <1>1 DEF DiagonalCell, Goto
<1>4. Min({d, input.n}) = IF d <= input.n THEN d ELSE input.n
  BY <1>2, MinOfTwo
<1>5. sx = IF d + 1 - input.m + 1 >= 1 THEN d + 1 - input.m + 1 ELSE 1
  BY <1>2, MaxOfTwo
<1> HIDE DEF sx
<1>6. sx \in Int /\ sx >= 1 /\ sx >= d + 1 - input.m + 1 /\ (sx = 1 \/ sx = d + 1 - input.m + 1)
  BY <1>2, <1>5
<1>10. /\ i < Min({d, input.n}) => i < input.n /\ j > 1
       /\ ~ (i < Min({d, input.n})) => i = input.n \/ j = 1
  BY <1>2, <1>4
<1>7. /\ cur'[r] \in Int \X Int
      /\ pc'[r] = "diagonal" => cur'[r] \in (1 .. input.n) \X (1 .. input.m)
  <2>1. CASE i < Min({d, input.n})
    <3>1. i + 1 \in 1 .. input.n /\ j - 1 \in 1 .. input.m
      BY <1>2, <1>10, <2>1
    <3> QED
      BY <1>3, <2>1, <3>1
  <2>2. CASE ~ (i < Min({d, input.n}))
    <3>1. cur'[r] = <<sx, d + 2 - sx>>
      BY <1>3, <2>2
    <3>2. sx \in Int /\ d + 2 - sx \in Int
      BY <1>2, <1>6
    <3>3. d # input.n + input.m - 1 =>
             sx \in 1 .. input.n /\ d + 2 - sx \in 1 .. input.m
      <4> HIDE DEF sx
      <4>1. d \in Nat /\ d <= input.n + input.m - 1
        BY <1>2
      <4>2. d >= input.n \/ j = 1
        BY <1>2, <1>10, <2>2
      <4> QED
        BY <1>2, <1>6, <1>10, <2>2, <4>1
    <3> QED
      BY <1>3, <3>1, <3>2, <3>3
  <2> QED
    BY <2>1, <2>2
<1>8. pc'[r] \in LabelsOf
  BY <1>1, <1>3 DEF LabelsOf
<1>9. Place(r)'
  BY <1>1, <1>2, <1>3, <1>7, InputStays DEF Place, Setup, Final
<1> QED
  BY <1>1, <1>3, <1>7, <1>8, <1>9 DEF PlaceAfter, Shape

\* The steps that leave the block.
LEMMA QuietPlace ==
    ASSUME Shape, Together, Queues, Chained, NEW r \in Ranks, Moves(r), UNCHANGED block,
           \/ InitQueue(r) \/ PassOn(r) \/ DestroyQueue(r) \/ SendRow(r)
           \/ TakeState(r) \/ BacktrackCell(r) \/ BadCell(r) \/ HandOver(r)
    PROVE  PlaceAfter(r)
<1>1. /\ next'[r] = next[r] /\ next[r] \in Int /\ w'[r] \in Int /\ h'[r] \in Int /\ cur'[r] \in Int \X Int
      /\ ~Diagonals /\ pc'[r] # "cells" => BlockAt(r)'
      /\ next[r] \in 0 .. input.m + 1
  BY BlockKept
<1>2. /\ pc \in [Ranks -> LabelsOf] /\ Place(r) /\ input' = input /\ input \in Inputs /\ input.m \in Nat
  BY InputOK DEF Shape, Moves, Nonzero
<1>3. /\ (Threads' <=> Threads) /\ (Mpi' <=> Mpi) /\ (Diagonals' <=> Diagonals)
      /\ (Following(next[r])' = Following(next[r]))
  BY <1>1, <1>2, InputStays DEF Following
<1>4. ASSUME pc'[r] \in LabelsOf \ {"cells", "diagonal"}, Place(r)',
             Threads => /\ pc'[r] \in Setup <=> pc[r] \in Setup
                        /\ pc'[r] \in Final <=> pc[r] \in Final
      PROVE  PlaceAfter(r)
  BY <1>1, <1>4 DEF PlaceAfter
<1> USE DEF Goto, Setup, Computing, Middle, Final
<1>5. CASE InitQueue(r)
  <2>1. Threads /\ ~Mpi
    BY <1>5, ByVersion, ThreeVersions DEF InitQueue
  <2>2. \/ pc[r] = "init1" /\ pc'[r] = "barrier1"
        \/ pc[r] = "init2" /\ pc'[r] = "barrier2"
    BY <1>2, <1>5 DEF InitQueue
  <2>3. Place(r)'
    BY <1>1, <1>2, <1>3, <2>1, <2>2, InputStays DEF Place
  <2>4. pc'[r] \in LabelsOf
    BY <2>1, <2>2 DEF LabelsOf
  <2> QED
    BY <1>4, <2>2, <2>3, <2>4
<1>6. CASE PassOn(r)
  <2>1. Threads /\ ~Mpi
    BY <1>6, ThreeVersions DEF PassOn
  <2>2. pc[r] = "pass" /\ pc'[r] = IF next[r] <= input.m THEN "next" ELSE "destroy1"
    BY <1>2, <1>6 DEF PassOn
  <2>3. Place(r)'
    BY <1>1, <1>2, <1>3, <2>1, <2>2, InputStays DEF Place
  <2>4. pc'[r] \in LabelsOf
    BY <2>1, <2>2 DEF LabelsOf
  <2> QED
    BY <1>4, <2>2, <2>3, <2>4
<1>7. CASE DestroyQueue(r)
  <2>1. Threads /\ ~Mpi
    BY <1>7, ByVersion, ThreeVersions DEF DestroyQueue
  <2>2. \/ pc[r] = "destroy1" /\ pc'[r] = "init2"
        \/ pc[r] = "destroy2" /\ pc'[r] = "done"
    BY <1>2, <1>7 DEF DestroyQueue
  <2>3. Place(r)'
    BY <1>1, <1>2, <1>3, <2>1, <2>2, InputStays DEF Place
  <2>4. pc'[r] \in LabelsOf
    BY <2>1, <2>2 DEF LabelsOf
  <2> QED
    BY <1>4, <2>2, <2>3, <2>4
<1>8. CASE SendRow(r)
  <2>1. Mpi /\ ~Threads /\ ~Diagonals
    BY <1>8, ByVersion, ThreeVersions DEF SendRow
  <2>2. pc[r] = "pass" /\ pc'[r] = "next"
    BY <1>2, <1>8 DEF SendRow
  <2>3. Place(r)'
    BY <1>1, <1>2, <1>3, <2>1, <2>2, InputStays DEF Place
  <2>4. pc'[r] \in LabelsOf
    BY <2>1, <2>2 DEF LabelsOf
  <2> QED
    BY <1>4, <2>1, <2>2, <2>3, <2>4
<1>9. CASE TakeState(r)
  <2>1. pc[r] = "take" /\ pc'[r] = "back"
    BY <1>2, <1>9 DEF TakeState
  <2>2. Place(r)'
    BY <1>1, <1>2, <1>3, <2>1, InputStays DEF Place
  <2>3. pc'[r] \in LabelsOf
    BY <1>2, <2>1 DEF LabelsOf
  <2> QED
    BY <1>4, <2>1, <2>2, <2>3
<1>10. CASE BacktrackCell(r) \/ BadCell(r)
  <2>1. pc[r] = "back" /\ pc'[r] = "back"
    BY <1>2, <1>10 DEF BacktrackCell, BadCell, OnPath, vars
  <2>2. Place(r)'
    BY <1>1, <1>2, <1>3, <2>1, InputStays DEF Place
  <2>3. pc'[r] \in LabelsOf
    BY <1>2, <2>1
  <2> QED
    BY <1>4, <2>1, <2>2, <2>3
<1>11. CASE HandOver(r)
  <2>1. pc[r] = "back" /\ pc'[r] = IF Threads THEN "destroy2" ELSE "done"
    BY <1>2, <1>11 DEF HandOver
  <2>2. Place(r)'
    BY <1>1, <1>2, <1>3, <2>1, InputStays DEF Place
  <2>3. pc'[r] \in LabelsOf
    BY <1>2, <2>1 DEF LabelsOf
  <2> QED
    BY <1>4, <2>1, <2>2, <2>3
<1> QED
  BY <1>5, <1>6, <1>7, <1>8, <1>9, <1>10, <1>11
\* The block after the one a thread or rank is at.
LEMMA FollowingBlock ==
    ASSUME Shape, Queues, Chained, NEW r \in Ranks, pc[r] = "next", ~Diagonals
    PROVE  /\ (IF next[r] = 0 THEN 1 ELSE next[r] + w[r]) = Following(next[r])
           /\ r # 0 /\ Threads /\ q[r].items # << >> => Head(q[r].items) = Following(next[r])
<1>1. /\ input \in Inputs /\ Place(r) /\ BlockAt(r) /\ input.m \in Nat /\ 0 <= r /\ r \in Int
  BY InputOK DEF Shape, Nonzero, Ranks
<1>2. next[r] \in 0 .. input.m + 1 /\ next[r] <= input.m
  BY <1>1 DEF Place
<1>3. (IF next[r] = 0 THEN 1 ELSE next[r] + w[r]) = Following(next[r])
  <2>1. CASE next[r] = 0
    BY <2>1 DEF Following
  <2>2. CASE next[r] # 0
    <3>1. next[r] \in 1 .. input.m
      BY <1>1, <1>2, <2>2
    <3>2. w[r] = Width(next[r]) /\ Following(next[r]) = next[r] + Width(next[r])
      BY <1>1, <1>2, <3>1, Blocks DEF BlockAt
    <3> QED
      BY <2>2, <3>2
  <2> QED
    BY <2>1, <2>2
<1>4. ASSUME r # 0, Threads, q[r].items # << >>
      PROVE  Head(q[r].items) = Following(next[r])
  <2>1. r > 0 /\ pc[r] \in Middle
    BY <1>1, <1>4 DEF Middle, Computing
  <2> QED
    BY <1>4, <2>1, TakesNext
<1> QED
  BY <1>3, <1>4

LEMMA NextPlace ==
    ASSUME Shape, Queues, Chained, NEW r \in Ranks, Moves(r), NextBlock(r)
    PROVE  /\ PlaceAfter(r)
           /\ next'[r] = Following(next[r])
           /\ Following(next[r]) <= input.m => StartBlock(r, Following(next[r]))
           /\ Following(next[r]) > input.m =>
                next'[r] = input.m + 1 /\ pc'[r] = "pass" /\ w'[r] = w[r] /\ cur'[r] = cur[r]
           /\ r # 0 => queue_consume(r)
           /\ r = 0 => q' = q
<1>1. /\ input \in Inputs /\ Place(r) /\ input.m \in Nat /\ input.m > 0 /\ input' = input
      /\ Threads /\ ~Mpi /\ ~Diagonals /\ pc[r] = "next"
  <2>1. input \in Inputs /\ Place(r)
    BY ShapeAt
  <2>2. Threads /\ pc[r] = "next" /\ input' = input
    BY DEF Moves, NextBlock
  <2> QED
    BY <2>1, <2>2, InputSizes, ThreeVersions
<1>2. next[r] \in 0 .. input.m + 1 /\ next[r] <= input.m
  BY <1>1 DEF Place
<1> DEFINE x == IF r # 0 THEN Head(q[r].items) ELSE IF next[0] = 0 THEN 1 ELSE next[0] + w[0]
           z == Following(next[r])
<1>3. /\ IF r = 0 THEN UNCHANGED q ELSE queue_consume(r)
      /\ IF x <= input.m THEN StartBlock(r, x)
         ELSE next' = [next EXCEPT ![r] = x] /\ Goto(r, "pass") /\ UNCHANGED <<w, h, cur>>
  BY DEF NextBlock
<1>4. x = z
  <2>1. CASE r = 0
    BY <1>1, <2>1, FollowingBlock
  <2>2. CASE r # 0
    BY <1>1, <1>3, <2>2, FollowingBlock DEF queue_consume
  <2> QED
    BY <2>1, <2>2
<1>5. z \in 1 .. input.m + 1
  BY <1>1, <1>2, Blocks
<1> HIDE DEF x, z
<1>6. CASE z <= input.m
  <2>1. StartBlock(r, z)
    BY <1>3, <1>4, <1>6
  <2>2. PlaceAfter(r)
    BY <1>1, <1>6, <2>1, BlockAtStart DEF z
  <2>3. next'[r] = z
    BY <1>1, <1>6, <2>1, BlockStarts DEF z
  <2> QED
    BY <1>1, <1>3, <1>5, <1>6, <2>1, <2>2, <2>3 DEF z
<1>7. CASE z > input.m
  <2>1. next' = [next EXCEPT ![r] = z] /\ Goto(r, "pass") /\ UNCHANGED <<w, h, cur>> /\ z = input.m + 1
    BY <1>1, <1>3, <1>4, <1>5, <1>7
  <2>2. next'[r] = input.m + 1 /\ pc'[r] = "pass" /\ w'[r] = w[r] /\ h'[r] = h[r] /\ cur'[r] = cur[r]
    BY <2>1 DEF Shape, Goto
  <2>3. next[r] # 0
    BY <1>1, <1>7 DEF z, Following
  <2>4. h[r] = CutHeight(r)
    BY <1>1, <1>2, <2>3 DEF Shape, BlockAt
  <2>5. pc'[r] \in LabelsOf
    BY <1>1, <2>2 DEF LabelsOf, Computing, Middle
  <2>6. Place(r)'
    BY <1>1, <2>2, InputStays DEF Place, Setup, Final
  <2>7. BlockAt(r)'
    BY <1>1, <2>2, <2>4, InputStays DEF BlockAt
  <2>8. PlaceAfter(r)
    BY <1>1, <2>2, <2>5, <2>6, <2>7 DEF PlaceAfter, Setup, Final, Shape
  <2> QED
    BY <1>1, <1>3, <1>5, <1>7, <2>2, <2>8 DEF z
<1> QED
  BY <1>1, <1>5, <1>6, <1>7

LEMMA NextMpiPlace ==
    ASSUME Shape, Queues, Chained, NEW r \in Ranks, Moves(r), NextBlockMpi(r)
    PROVE  /\ PlaceAfter(r) /\ Mpi /\ pc[r] = "next"
           /\ \/ /\ pc'[r] = "take" /\ UNCHANGED <<grid, block, net>>
              \/ /\ Following(next[r]) <= input.m /\ StartBlock(r, Following(next[r]))
                 /\ pc'[r] \in {"cells", "pass"}
                 /\ next'[r] = Following(next[r])
                 /\ r = 0 => UNCHANGED <<grid, net>>
                 /\ r # 0 => /\ net["block"][r] # << >>
                             /\ net' = [net EXCEPT !["block"][r] = Tail(@)]
<1>1. /\ input \in Inputs /\ Place(r) /\ input.m \in Nat /\ input.m > 0 /\ input' = input
      /\ ~Threads /\ Mpi /\ ~Diagonals /\ pc[r] = "next" /\ BlockAt(r)
  <2>1. pc[r] = "next" /\ ~Threads
    BY DEF NextBlockMpi
  <2>2. Mpi /\ ~Diagonals
    BY <2>1, ByVersion, ThreeVersions DEF Computing
  <2>3. input \in Inputs /\ Place(r) /\ BlockAt(r)
    BY <2>2, ShapeAt
  <2>4. input.m \in Nat /\ input.m > 0 /\ input' = input
    BY <2>3, InputSizes DEF Moves
  <2> QED
    BY <2>1, <2>2, <2>3, <2>4
<1>2. next[r] \in 0 .. input.m + 1 /\ next[r] <= input.m
  BY <1>1 DEF Place
<1> DEFINE x == IF next[r] = 0 THEN 1 ELSE next[r] + w[r]
           z == Following(next[r])
<1>3. IF x > input.m THEN Goto(r, "take") /\ UNCHANGED <<grid, block, net>>
      ELSE /\ StartBlock(r, x)
           /\ r = 0 => UNCHANGED <<grid, net>>
           /\ r # 0 => net["block"][r] # << >> /\ net' = [net EXCEPT !["block"][r] = Tail(@)]
  BY DEF NextBlockMpi
<1>4. x = z
  BY <1>1, FollowingBlock
<1>5. z \in 1 .. input.m + 1
  BY <1>1, <1>2, Blocks
<1> HIDE DEF x, z
<1>6. CASE z <= input.m
  <2>1. StartBlock(r, z)
    BY <1>1, <1>3, <1>4, <1>5, <1>6
  <2>2. PlaceAfter(r)
    BY <1>1, <1>6, <2>1, BlockAtStart DEF z
  <2>3. next'[r] = z /\ pc'[r] \in {"cells", "pass"}
    BY <1>1, <1>6, <2>1, BlockStarts DEF z
  <2> QED
    BY <1>1, <1>3, <1>4, <1>5, <1>6, <2>1, <2>2, <2>3 DEF z
<1>7. CASE z > input.m
  <2>1. Goto(r, "take") /\ UNCHANGED <<grid, block, net>> /\ z = input.m + 1
    BY <1>1, <1>3, <1>4, <1>5, <1>7
  <2>2. /\ next'[r] = next[r] /\ next[r] \in Int /\ w'[r] \in Int /\ h'[r] \in Int /\ cur'[r] \in Int \X Int
        /\ ~Diagonals /\ pc'[r] # "cells" => BlockAt(r)'
    BY <2>1, BlockKept
  <2>3. pc'[r] = "take"
    BY <2>1 DEF Goto, Shape
  <2>4. next[r] \in 1 .. input.m /\ Following(next[r]) = input.m + 1
    BY <1>1, <1>2, <1>7, <2>1 DEF z, Following
  <2>5. pc'[r] \in LabelsOf
    BY <1>1, <2>3 DEF LabelsOf
  <2>6. Following(next[r])' = Following(next[r])
    BY <1>1, <2>2, InputStays DEF Following
  <2>7. Place(r)'
    BY <1>1, <2>2, <2>3, <2>4, <2>6, InputStays DEF Place, Setup, Final
  <2>8. PlaceAfter(r)
    BY <1>1, <2>2, <2>3, <2>5, <2>7 DEF PlaceAfter
  <2> QED
    BY <1>1, <2>1, <2>3, <2>8
<1> QED
  BY <1>1, <1>5, <1>6, <1>7

LEMMA PlaceStep ==
    ASSUME Shape, Together, Queues, Chained, NEW r \in Ranks, Rank(r)
    PROVE  PlaceAfter(r)
<1>1. Moves(r)
  BY RankMoves
<1>2. ASSUME \/ InitQueue(r) \/ PassOn(r) \/ DestroyQueue(r) \/ SendRow(r)
             \/ TakeState(r) \/ BacktrackCell(r) \/ BadCell(r) \/ HandOver(r)
      PROVE  PlaceAfter(r)
  <2>1. UNCHANGED block
    BY <1>2 DEF InitQueue, PassOn, DestroyQueue, SendRow, TakeState, BacktrackCell, BadCell, HandOver, vars, block
  <2> QED
    BY <1>1, <1>2, <2>1, QuietPlace
<1> QED
  BY <1>1, <1>2, CellPlace, DiagonalPlace, NextPlace, NextMpiPlace DEF Rank

LEMMA ShapeStep ==
    ASSUME Shape, Together, Queues, Chained, NEW r \in Ranks, Rank(r)
    PROVE  Shape' /\ Together'
<1>1. Moves(r) /\ PlaceAfter(r)
  BY RankMoves, PlaceStep
<1>2. /\ input' = input /\ input \in Inputs /\ Ranks' = Ranks /\ LabelsOf' = LabelsOf
      /\ (Diagonals' <=> Diagonals) /\ (Threads' <=> Threads)
  BY <1>1, InputStays DEF Moves, Shape
<1>3. /\ pc' \in [Ranks -> LabelsOf]
      /\ next' \in [Ranks -> Int] /\ w' \in [Ranks -> Int] /\ h' \in [Ranks -> Int]
      /\ cur' \in [Ranks -> Int \X Int]
      /\ state' = [t \in Ranks |-> state'[t]]
  BY <1>1 DEF Moves, PlaceAfter, Shape
<1>4. ASSUME NEW t \in Ranks
      PROVE  Place(t)' /\ (~Diagonals => BlockAt(t)')
  <2>1. CASE t = r
    BY <1>1, <2>1 DEF PlaceAfter
  <2>2. CASE t # r
    BY <1>1, <1>2, <2>2, OthersStay, PlaceStays DEF Shape
  <2> QED
    BY <2>1, <2>2
<1>5. Shape'
  BY <1>2, <1>3, <1>4 DEF Shape
<1>6. ASSUME Threads, NEW t \in Ranks
      PROVE  (pc'[t] \in Setup <=> pc[t] \in Setup) /\ (pc'[t] \in Final <=> pc[t] \in Final)
  <2>1. CASE t = r
    BY <1>1, <1>6, <2>1 DEF PlaceAfter
  <2>2. CASE t # r
    BY <1>1, <2>2, OthersStay
  <2> QED
    BY <2>1, <2>2
<1>7. Together'
  BY <1>2, <1>6 DEF Together, Setup, Final
<1> QED
  BY <1>5, <1>7

\* When the barrier opens.
LEMMA BarrierStep ==
    ASSUME Shape, Together, Barrier
    PROVE  /\ Shape' /\ Together' /\ Threads
           /\ \/ /\ \A r \in Ranks : pc[r] = "barrier1" /\ pc'[r] = "next"
              \/ /\ \A r \in Ranks : pc[r] = "barrier2" /\ pc'[r] = "take"
           /\ UNCHANGED <<input, grid, next, w, h, cur, q, net, state, result>>
<1>1. /\ \/ \A r \in Ranks : pc[r] = "barrier1" /\ pc'[r] = "next"
         \/ \A r \in Ranks : pc[r] = "barrier2" /\ pc'[r] = "take"
      /\ pc' = [r \in Ranks |-> pc'[r]]
      /\ UNCHANGED <<input, grid, next, w, h, cur, q, net, state, result>>
  <2>1. PICK b \in DOMAIN After : (\A r \in Ranks : pc[r] = b) /\ pc' = [r \in Ranks |-> After[b]]
    BY DEF Barrier
  <2>2. b \in {"barrier1", "barrier2"} /\ After["barrier1"] = "next" /\ After["barrier2"] = "take"
    BY DEF After
  <2>3. \A r \in Ranks : pc'[r] = After[b]
    BY <2>1
  <2>4. UNCHANGED <<input, grid, next, w, h, cur, q, net, state, result>>
    BY DEF Barrier, block
  <2> QED
    BY <2>1, <2>2, <2>3, <2>4
<1>2. Threads /\ ~Mpi /\ ~Diagonals
  <2>1. 0 \in Ranks
    BY ThreeVersions
  <2> QED
    BY <1>1, <2>1, ByVersion, ThreeVersions DEF Setup
<1>3. /\ input \in Inputs /\ input.m \in Nat /\ Ranks' = Ranks /\ LabelsOf' = LabelsOf
      /\ (Diagonals' <=> Diagonals) /\ (Threads' <=> Threads) /\ (Mpi' <=> Mpi)
  BY <1>1, InputOK, InputStays DEF Shape, Nonzero
<1>4. ASSUME NEW r \in Ranks
      PROVE  pc'[r] \in LabelsOf /\ Place(r)' /\ BlockAt(r)'
  <2>1. Place(r) /\ BlockAt(r)
    BY <1>2 DEF Shape
  <2>2. \/ pc[r] = "barrier1" /\ pc'[r] = "next"
        \/ pc[r] = "barrier2" /\ pc'[r] = "take"
    BY <1>1
  <2>3. pc'[r] \in LabelsOf
    BY <1>2, <2>2 DEF LabelsOf, Computing, Middle, Final
  <2>4. Place(r)'
    BY <1>1, <1>2, <1>3, <2>1, <2>2 DEF Place, Setup, Final
  <2>5. BlockAt(r)'
    BY <1>1, <2>1, <2>2, InputStays DEF BlockAt, Width
  <2> QED
    BY <2>3, <2>4, <2>5
<1>5. Shape'
  BY <1>1, <1>3, <1>4 DEF Shape
<1>6. Together'
  BY <1>1, <1>3 DEF Together, Setup, Final
<1> QED
  BY <1>1, <1>2, <1>5, <1>6
-----------------------------------------------------------------------------
(* Queues and messages *)

\* A band that is waited for below is behind the band below.
LEMMA PassPlace ==
    ASSUME Shape, Together, Chained, Threads, NEW r \in Ranks, r < input.p - 1,
           pc[r] \in {"cells", "pass"}
    PROVE  /\ r + 1 \in Ranks /\ pc[r + 1] \in Computing /\ next[r + 1] <= input.m
<1>1. r + 1 \in Ranks /\ r + 1 \in 1 .. input.p - 1 /\ (r + 1) - 1 = r
  BY ThreeVersions DEF Ranks, Nonzero
<1>2. pc[r + 1] \in Middle
  <2>1. pc[r + 1] \notin Setup \cup Final
    BY <1>1 DEF Together, Setup, Final
  <2> QED
    BY <1>1, <2>1 DEF Shape, LabelsOf
<1>3. PICK s \in Seq(1 .. input.m + 1) : Chain(next[r + 1], Line(r + 1, s), next[r])
  BY <1>1, <1>2 DEF Chained, Linked
<1>4. Line(r + 1, s) # << >>
  <2>1. Line(r + 1, s) = Append(s, next[r])
    BY <1>1 DEF Line
  <2>2. next[r] \in 1 .. input.m + 1
    BY <1>1, Above
  <2> QED
    BY <2>1, <2>2, AppendProperties
<1>5. next[r + 1] <= input.m
  BY <1>3, <1>4 DEF Chain
<1>6. Place(r + 1) /\ input.m \in Nat
  BY <1>1, InputOK DEF Shape, Nonzero
<1>7. next[r + 1] # input.m + 1
  BY <1>5, <1>6
<1>8. pc[r + 1] \notin {"destroy1", "init2", "barrier2"}
  BY <1>6, <1>7 DEF Place
<1> QED
  BY <1>1, <1>2, <1>5, <1>8 DEF Middle

LEMMA QueueAtStays ==
    ASSUME input' = input, NEW t, pc'[t] = pc[t], q'[t] = q[t]
    PROVE  QueueAt(t) => QueueAt(t)'
  BY InputStays DEF QueueAt

\* What a step does to the queue of t, and to the messages.
QueuesAfter ==
  /\ q' \in [Ranks -> Queue]
  /\ net' \in [{"block", "state"} -> [Ranks -> Messages]]
  /\ Threads => \A t \in Ranks : QueueAt(t)'

\* A step that changes the queue of t, if any.
LEMMA OneQueue ==
    ASSUME Shape, Queues, NEW r \in Ranks, Moves(r), NEW t \in Ranks,
           net' \in [{"block", "state"} -> [Ranks -> Messages]],
           NEW v \in Queue, q' = [q EXCEPT ![t] = v],
           Threads => QueueAt(r)' /\ QueueAt(t)'
    PROVE  QueuesAfter
<1>1. q \in [Ranks -> Queue] /\ input' = input /\ (Threads => \A u \in Ranks : QueueAt(u))
  BY DEF Queues, Moves
<1>2. q' \in [Ranks -> Queue]
  BY <1>1
<1>3. ASSUME Threads, NEW u \in Ranks
      PROVE  QueueAt(u)'
  <2>1. CASE u = r \/ u = t
    BY <1>3, <2>1
  <2>2. CASE u # r /\ u # t
    BY <1>1, <1>3, <2>2, OthersStay, QueueAtStays
  <2> QED
    BY <2>1, <2>2
<1> QED
  BY <1>2, <1>3 DEF QueuesAfter

LEMMA SameQueue ==
    ASSUME Queues, NEW t \in Ranks
    PROVE  q[t] \in Queue /\ q = [q EXCEPT ![t] = q[t]]
  BY DEF Queues

LEMMA ItemsSet ==
    ASSUME NEW t, NEW l, q[t] = [capacity |-> q[t].capacity, items |-> q[t].items]
    PROVE  [q EXCEPT ![t].items = l] = [q EXCEPT ![t] = [capacity |-> q[t].capacity, items |-> l]]
<1>1. ASSUME NEW c, NEW k
      PROVE  [[capacity |-> c, items |-> k] EXCEPT !.items = l] = [capacity |-> c, items |-> l]
  OBVIOUS
<1>2. [q[t] EXCEPT !.items = l] = [capacity |-> q[t].capacity, items |-> l]
  BY <1>1
<1> QED
  BY <1>2, Zenon

LEMMA Consumed ==
    ASSUME Queues, NEW t \in Ranks, queue_consume(t)
    PROVE  /\ q' = [q EXCEPT ![t] = [capacity |-> q[t].capacity, items |-> Tail(q[t].items)]]
           /\ [capacity |-> q[t].capacity, items |-> Tail(q[t].items)] \in Queue
           /\ q'[t].capacity = q[t].capacity /\ q'[t].items = Tail(q[t].items)
           /\ q[t].items # << >> /\ Head(q[t].items) \in Nat \cup Steps
<1> DEFINE l == Tail(q[t].items)
<1>1. q \in [Ranks -> Queue] /\ q[t] \in Queue
  BY DEF Queues
<1>2. /\ q[t].capacity \in Nat /\ q[t].items \in Seq(Nat \cup Steps)
      /\ q[t] = [capacity |-> q[t].capacity, items |-> q[t].items]
  BY <1>1 DEF Queue
<1>3. q[t].items # << >> /\ q' = [q EXCEPT ![t].items = l]
  BY DEF queue_consume
<1>4. l \in Seq(Nat \cup Steps) /\ Head(q[t].items) \in Nat \cup Steps
  BY <1>2, <1>3, HeadTailProperties
<1> HIDE DEF l
<1>5. q' = [q EXCEPT ![t] = [capacity |-> q[t].capacity, items |-> l]]
  BY <1>2, <1>3, ItemsSet
<1>6. [capacity |-> q[t].capacity, items |-> l] \in Queue
  BY <1>2, <1>4 DEF Queue
<1>7. q'[t] = [capacity |-> q[t].capacity, items |-> l]
  BY <1>1, <1>5
<1>8. q'[t].capacity = q[t].capacity /\ q'[t].items = l
  BY <1>7
<1> QED
  BY <1>3, <1>4, <1>5, <1>6, <1>8 DEF l

LEMMA Produced ==
    ASSUME Queues, NEW t \in Ranks, NEW e \in Nat \cup Steps, queue_produce(t, e)
    PROVE  /\ q' = [q EXCEPT ![t] = [capacity |-> q[t].capacity, items |-> Append(q[t].items, e)]]
           /\ [capacity |-> q[t].capacity, items |-> Append(q[t].items, e)] \in Queue
           /\ q'[t].capacity = q[t].capacity /\ q'[t].items = Append(q[t].items, e)
<1> DEFINE l == Append(q[t].items, e)
<1>1. q \in [Ranks -> Queue] /\ q[t] \in Queue
  BY DEF Queues
<1>2. /\ q[t].capacity \in Nat /\ q[t].items \in Seq(Nat \cup Steps)
      /\ q[t] = [capacity |-> q[t].capacity, items |-> q[t].items]
  BY <1>1 DEF Queue
<1>3. q' = [q EXCEPT ![t].items = l]
  BY DEF queue_produce
<1>4. l \in Seq(Nat \cup Steps)
  BY <1>2, AppendProperties
<1> HIDE DEF l
<1>5. q' = [q EXCEPT ![t] = [capacity |-> q[t].capacity, items |-> l]]
  BY <1>2, <1>3, ItemsSet
<1>6. [capacity |-> q[t].capacity, items |-> l] \in Queue
  BY <1>2, <1>4 DEF Queue
<1>7. q'[t] = [capacity |-> q[t].capacity, items |-> l]
  BY <1>1, <1>5
<1>8. q'[t].capacity = q[t].capacity /\ q'[t].items = l
  BY <1>7
<1> QED
  BY <1>5, <1>6, <1>8 DEF l
LEMMA QuietQueues ==
    ASSUME Shape, Queues, NEW r \in Ranks, Moves(r), q' = q, net' = net, Threads => QueueAt(r)'
    PROVE  QueuesAfter
<1>1. q[r] \in Queue /\ q' = [q EXCEPT ![r] = q[r]]
  BY SameQueue
<1>2. net' \in [{"block", "state"} -> [Ranks -> Messages]]
  BY DEF Queues
<1> QED
  BY <1>1, <1>2, OneQueue

\* A row that is sent is right, and fits.
LEMMA RowSent ==
    ASSUME IInv, NEW r \in Ranks, Mpi, pc[r] = "pass", r < input.p - 1
    PROVE  /\ r + 1 \in Ranks /\ r + 1 > 0 /\ next[r] \in 1 .. input.m /\ w[r] = Width(next[r])
           /\ w[r] \in Nat
           /\ [k \in 1 .. w[r] |-> grid[r][<<y(r) + h[r] - 1, next[r] + k - 1>>]]
                = [k \in 1 .. w[r] |-> D[<<y(r + 1) - 1, next[r] + k - 1>>]]
           /\ [k \in 1 .. w[r] |-> D[<<y(r + 1) - 1, next[r] + k - 1>>]] \in Seq(Cell)
<1>1. /\ input \in Inputs /\ input.m \in Nat /\ input.n \in Nat /\ ~Diagonals /\ ~Threads /\ Right
      /\ input.p \in Nat
  BY InputOK, ThreeVersions DEF IInv, Shape, Nonzero, Right
<1>2. /\ r + 1 \in Ranks /\ r + 1 > 0 /\ (r + 1) - 1 = r /\ r \in Nat
  BY <1>1 DEF Ranks
<1>3. /\ next[r] \in 1 .. input.m /\ w[r] = Width(next[r]) /\ h[r] = CutHeight(r)
  <2>1. Place(r) /\ BlockAt(r)
    BY <1>1 DEF IInv, Shape
  <2>2. next[r] \in 1 .. input.m
    BY <1>1, <2>1 DEF Place
  <2> QED
    BY <1>1, <2>1, <2>2 DEF BlockAt
<1>4. /\ w[r] \in Nat /\ w[r] > 0 /\ next[r] + w[r] <= input.m + 1
  <2>1. next[r] \in 0 .. input.m + 1
    BY <1>1, <1>3
  <2>2. Width(next[r]) \in Nonzero /\ next[r] + Width(next[r]) \in 1 .. input.m + 1
    BY <1>1, <1>3, <2>1, Blocks
  <2> QED
    BY <1>1, <1>3, <2>2 DEF Nonzero
<1>5. /\ y(r) + h[r] - 1 = y(r + 1) - 1 /\ y(r) \in Nat /\ y(r) > 0 /\ Height \in Nat /\ Height > 0
      /\ y(r + 1) = y(r) + Height /\ y(r + 1) - 1 <= input.n
  <2>1. CutHeight(r) = Height /\ y(r + 1) = y(r) + Height /\ y(r + 1) - 1 <= input.n
    BY <1>1, <1>2, Bands
  <2>2. Height \in Nonzero /\ y(r) \in Nonzero
    BY <1>1, Sizes, Bands
  <2> QED
    BY <1>3, <2>1, <2>2 DEF Nonzero
<1>6. y(r + 1) - 1 \in Band(r)
  BY <1>1, <1>5 DEF Band
<1>7. G(r) = r
  BY <1>1 DEF G
<1>8. ASSUME NEW k \in 1 .. w[r]
      PROVE  /\ grid[r][<<y(r) + h[r] - 1, next[r] + k - 1>>] = D[<<y(r + 1) - 1, next[r] + k - 1>>]
             /\ D[<<y(r + 1) - 1, next[r] + k - 1>>] \in Cell
  <2>1. next[r] + k - 1 \in 1 .. input.m
    BY <1>1, <1>3, <1>4
  <2>2. Filled(r, y(r + 1) - 1, next[r] + k - 1)
    BY <1>1, <1>3, <1>4 DEF Filled
  <2>3. grid[r][<<y(r + 1) - 1, next[r] + k - 1>>] = D[<<y(r + 1) - 1, next[r] + k - 1>>]
    BY <1>1, <1>6, <1>7, <2>1, <2>2 DEF IInv, GridRight, BandRight
  <2>4. <<y(r + 1) - 1, next[r] + k - 1>> \in Cells
    BY <1>1, <1>6, <2>1 DEF Band, Cells
  <2>5. D \in [Cells -> Cell]
    BY <1>1, Table DEF IsTable
  <2> QED
    BY <1>5, <2>3, <2>4, <2>5
<1>9. [k \in 1 .. w[r] |-> D[<<y(r + 1) - 1, next[r] + k - 1>>]] \in Seq(Cell)
  <2> DEFINE e(k) == D[<<y(r + 1) - 1, next[r] + k - 1>>]
  <2>0. \A k \in 1 .. w[r] : e(k) \in Cell
    BY <1>8
  <2> HIDE DEF e
  <2>3. [k \in 1 .. w[r] |-> e(k)] \in [1 .. w[r] -> Cell]
    BY <2>0
  <2>1. [k \in 1 .. w[r] |-> e(k)] \in Seq(Cell)
    BY <1>4, <2>3, FunctionIsSeq
  <2> QED
    BY <2>1 DEF e
<1> QED
  BY <1>2, <1>3, <1>4, <1>8, <1>9

\* What is handed over is on the path.
LEMMA StateHeld ==
    ASSUME IInv, NEW r \in Ranks, pc[r] = "back", Right
    PROVE  state[r] \in Held(r) /\ state[r] \in Steps
  BY DEF IInv, Baton, Bearer, Held

LEMMA ThreadsQueues ==
    ASSUME IInv, Threads, NEW r \in Ranks, Moves(r),
           InitQueue(r) \/ NextBlock(r) \/ PassOn(r) \/ DestroyQueue(r)
    PROVE  QueuesAfter
<1>1. /\ Shape /\ Together /\ Queues /\ Chained /\ input' = input /\ QueueAt(r) /\ Place(r)
      /\ ~Mpi /\ ~Diagonals /\ input \in Inputs /\ input.m \in Nat
      /\ q \in [Ranks -> Queue] /\ BlockAt(r) /\ pc \in [Ranks -> LabelsOf]
  BY InputOK, ThreeVersions DEF IInv, Queues, Moves, Shape, Nonzero
<1>2. W' = W /\ CeilDiv(input.m, W) \in Nat
  BY <1>1, InputStays, Sizes DEF Nonzero
<1>3. net' = net /\ net' \in [{"block", "state"} -> [Ranks -> Messages]]
  BY <1>1 DEF Queues, InitQueue, NextBlock, PassOn, DestroyQueue
<1>4. CASE InitQueue(r)
  <2> DEFINE v == [capacity |-> IF pc[r] = "init1" THEN CeilDiv(input.m, W) ELSE 2, items |-> << >>]
  <2>1. q' = [q EXCEPT ![r] = v]
    <3>1. pc[r] = "init1" => w[r] = W
      BY <1>1 DEF Place, BlockAt, Setup
    <3> QED
      BY <1>4, <3>1 DEF InitQueue, prodcon_queue_init
  <2>2. v \in Queue
    BY <1>2 DEF Queue
  <2>3. q'[r] = v
    BY <1>1, <2>1, <2>2
  <2>4. \/ pc[r] = "init1" /\ pc'[r] = "barrier1"
        \/ pc[r] = "init2" /\ pc'[r] = "barrier2"
    BY <1>1, <1>4 DEF InitQueue, Goto
  <2>5. QueueAt(r)'
    BY <1>1, <1>2, <2>3, <2>4 DEF QueueAt, Setup, Middle, Computing, CeilDiv
  <2> HIDE DEF v
  <2> QED
    BY <1>1, <1>3, <2>1, <2>2, <2>5, OneQueue
<1>5. CASE NextBlock(r)
  <2>1. /\ r # 0 => queue_consume(r)
        /\ r = 0 => q' = q
        /\ pc[r] = "next" /\ pc'[r] \in {"cells", "pass"}
    <3>1. Following(next[r]) <= input.m => pc'[r] \in {"cells", "pass"}
      BY <1>1, <1>5, NextPlace, BlockStarts DEF NextBlock
    <3>2. Following(next[r]) \in Int
      <4>1. next[r] \in 0 .. input.m + 1
        BY <1>1 DEF Place
      <4> QED
        BY <1>1, <4>1, Blocks
    <3> QED
      BY <1>1, <1>5, <3>1, <3>2, NextPlace DEF NextBlock
  <2>2. CASE r = 0
    <3>1. QueueAt(r)'
      BY <1>1, <1>2, <2>1, <2>2 DEF QueueAt, Setup, Middle, Computing, CeilDiv
    <3> QED
      BY <1>1, <1>3, <2>1, <2>2, <3>1, QuietQueues
  <2>3. CASE r # 0
    <3> DEFINE v == [capacity |-> q[r].capacity, items |-> Tail(q[r].items)]
    <3>1. q' = [q EXCEPT ![r] = v] /\ v \in Queue /\ q'[r].capacity = q[r].capacity
      BY <1>1, <2>1, <2>3, Consumed
    <3>2. QueueAt(r)'
      BY <1>1, <1>2, <2>1, <2>3, <3>1 DEF QueueAt, Setup, Middle, Computing, CeilDiv
    <3> HIDE DEF v
    <3> QED
      BY <1>1, <1>3, <3>1, <3>2, OneQueue
  <2> QED
    BY <2>2, <2>3
<1>6. CASE PassOn(r)
  <2>1. pc[r] = "pass" /\ pc'[r] \in {"next", "destroy1"} /\ next[r] \in Nat
    BY <1>1, <1>6 DEF PassOn, Goto, Place
  <2>2. CASE r = input.p - 1
    <3>1. q' = q
      BY <1>6, <2>2 DEF PassOn
    <3>2. QueueAt(r)'
      BY <1>1, <1>2, <2>1, <3>1 DEF QueueAt, Setup, Middle, Computing, CeilDiv
    <3> QED
      BY <1>1, <1>3, <3>1, <3>2, QuietQueues
  <2>3. CASE r # input.p - 1
    <3> DEFINE t == r + 1
               v == [capacity |-> q[t].capacity, items |-> Append(q[t].items, next[r])]
    <3>1. r < input.p - 1 /\ t # r /\ t # 0
      BY <2>3, ThreeVersions, <1>1 DEF Ranks, Nonzero
    <3>2. t \in Ranks /\ pc[t] \in Computing
      BY <1>1, <2>1, <3>1, PassPlace
    <3> HIDE DEF t
    <3>3. queue_produce(t, next[r])
      BY <1>6, <2>3 DEF PassOn, t
    <3>4. q' = [q EXCEPT ![t] = v] /\ v \in Queue /\ q'[t].capacity = q[t].capacity
      BY <1>1, <2>1, <3>2, <3>3, Produced
    <3>5. pc'[t] = pc[t]
      BY <1>1, <3>1, <3>2, OthersStay
    <3>6. QueueAt(t)'
      <4>1. QueueAt(t)
        BY <1>1, <3>2 DEF Queues
      <4> QED
        BY <1>1, <1>2, <3>1, <3>2, <3>4, <3>5, <4>1 DEF QueueAt, Setup, Middle, Computing, CeilDiv
    <3> HIDE DEF v
    <3>7. q'[r] = q[r]
      BY <1>1, <3>1, <3>4
    <3>8. QueueAt(r)'
      BY <1>1, <1>2, <2>1, <3>7 DEF QueueAt, Setup, Middle, Computing, CeilDiv
    <3> QED
      BY <1>1, <1>3, <3>2, <3>4, <3>6, <3>8, OneQueue
  <2> QED
    BY <2>2, <2>3
<1>7. CASE DestroyQueue(r)
  <2>1. q' = [q EXCEPT ![r] = NoQueue] /\ NoQueue \in Queue
    BY <1>7 DEF DestroyQueue, NoQueue, Queue
  <2>2. q'[r] = NoQueue
    BY <1>1, <2>1
  <2>3. pc'[r] \in {"init2", "done"}
    BY <1>1, <1>7 DEF DestroyQueue, Goto
  <2>4. QueueAt(r)'
    BY <1>1, <2>2, <2>3 DEF QueueAt, Setup, Middle, Computing, NoQueue
  <2> QED
    BY <1>1, <1>3, <2>1, <2>4, OneQueue
<1> QED
  BY <1>4, <1>5, <1>6, <1>7
LEMMA QuietQueuesToo ==
    ASSUME IInv, NEW r \in Ranks, Moves(r),
           ComputeCell(r) \/ DiagonalCell(r) \/ BacktrackCell(r) \/ BadCell(r)
    PROVE  QueuesAfter
<1>1. Shape /\ Queues /\ input' = input /\ pc \in [Ranks -> LabelsOf]
  BY DEF IInv, Shape, Moves
<1>2. q' = q /\ net' = net
  BY DEF ComputeCell, DiagonalCell, BacktrackCell, BadCell, vars
<1>3. Threads => \/ pc[r] = "cells" /\ pc'[r] \in {"cells", "pass"}
                 \/ pc'[r] = pc[r]
  <2>1. Threads => pc[r] # "diagonal"
    BY <1>1, ByVersion, ThreeVersions
  <2>2. ComputeCell(r) => pc[r] = "cells" /\ pc'[r] \in {"cells", "pass"}
    BY <1>1 DEF ComputeCell, Goto
  <2>3. BacktrackCell(r) \/ BadCell(r) => pc' = pc
    BY DEF BacktrackCell, BadCell, vars
  <2> QED
    BY <2>1, <2>2, <2>3 DEF DiagonalCell
<1>4. Threads => QueueAt(r)'
  <2> SUFFICES ASSUME Threads
               PROVE  QueueAt(r)'
    OBVIOUS
  <2>1. QueueAt(r)
    BY <1>1 DEF Queues
  <2>2. CASE pc'[r] = pc[r]
    BY <1>1, <1>2, <2>1, <2>2, QueueAtStays
  <2>3. CASE pc[r] = "cells" /\ pc'[r] \in {"cells", "pass"}
    BY <1>1, <1>2, <2>1, <2>3, InputStays DEF QueueAt, Setup, Middle, Computing, CeilDiv
  <2> QED
    BY <1>3, <2>2, <2>3
<1> QED
  BY <1>1, <1>2, <1>4, QuietQueues

\* A step that changes the messages to t, if any.
LEMMA OneMessage ==
    ASSUME Shape, Queues, ~Threads, NEW r \in Ranks, Moves(r), q' = q,
           NEW t \in Ranks, NEW tag \in {"block", "state"}, NEW v \in Messages,
           net' = [net EXCEPT ![tag][t] = v]
    PROVE  /\ QueuesAfter
           /\ net'[tag][t] = v
           /\ \A a \in {"block", "state"}, u \in Ranks : a # tag \/ u # t => net'[a][u] = net[a][u]
<1>1. q' \in [Ranks -> Queue] /\ net \in [{"block", "state"} -> [Ranks -> Messages]]
  BY DEF Queues
<1>2. net' \in [{"block", "state"} -> [Ranks -> Messages]]
  BY <1>1
<1>3. net'[tag][t] = v
  BY <1>1
<1>4. \A a \in {"block", "state"}, u \in Ranks : a # tag \/ u # t => net'[a][u] = net[a][u]
  BY <1>1
<1> QED
  BY <1>1, <1>2, <1>3, <1>4 DEF QueuesAfter

LEMMA RanksQueues ==
    ASSUME IInv, NEW r \in Ranks, Moves(r), NextBlockMpi(r) \/ SendRow(r)
    PROVE  QueuesAfter
<1>1. /\ Shape /\ Queues /\ Chained /\ q' = q /\ ~Threads
      /\ net \in [{"block", "state"} -> [Ranks -> Messages]]
  BY DEF IInv, Queues, NextBlockMpi, SendRow
<1>2. CASE net' = net
  BY <1>1, <1>2, QuietQueues
<1>3. CASE NextBlockMpi(r) /\ net' # net
  <2>1. net["block"][r] # << >> /\ net' = [net EXCEPT !["block"][r] = Tail(@)]
    BY <1>1, <1>3, NextMpiPlace
  <2>2. Tail(net["block"][r]) \in Messages
    <3>1. net["block"][r] \in Messages
      BY <1>1
    <3> QED
      BY <2>1, <3>1, HeadTailProperties DEF Messages
  <2> QED
    BY <1>1, <2>1, <2>2, OneMessage
<1>4. CASE SendRow(r) /\ net' # net
  <2> DEFINE row == [k \in 1 .. w[r] |-> grid[r][<<y(r) + h[r] - 1, next[r] + k - 1>>]]
  <2>1. /\ pc[r] = "pass" /\ r # input.p - 1
        /\ net' = [net EXCEPT !["block"][r + 1] = Append(@, row)]
    BY <1>4 DEF SendRow
  <2>2. Mpi /\ r < input.p - 1
    BY <1>1, <2>1, ByVersion, ThreeVersions DEF Computing, Ranks, Nonzero
  <2>3. row \in Seq(Cell) /\ r + 1 \in Ranks
    BY <2>1, <2>2, RowSent
  <2> HIDE DEF row
  <2>4. Append(net["block"][r + 1], row) \in Messages
    <3>1. net["block"][r + 1] \in Messages
      BY <1>1, <2>3
    <3> QED
      BY <2>3, <3>1, AppendProperties DEF Messages
  <2> QED
    BY <1>1, <2>1, <2>3, <2>4, OneMessage
<1> QED
  BY <1>2, <1>3, <1>4

LEMMA TakeQueues ==
    ASSUME IInv, NEW r \in Ranks, Moves(r), TakeState(r)
    PROVE  QueuesAfter
<1>1. /\ Shape /\ Queues /\ input' = input /\ pc[r] = "take" /\ pc'[r] = "back"
      /\ net \in [{"block", "state"} -> [Ranks -> Messages]]
  BY DEF IInv, Queues, TakeState, Goto, Moves, Shape
<1>2. Threads /\ q'[r].capacity = q[r].capacity => QueueAt(r)'
  <2> SUFFICES ASSUME Threads, q'[r].capacity = q[r].capacity
               PROVE  QueueAt(r)'
    OBVIOUS
  <2>1. QueueAt(r)
    BY <1>1 DEF Queues
  <2> QED
    BY <1>1, <2>1 DEF QueueAt, Setup, Middle, Computing
<1>3. CASE q' = q /\ net' = net
  BY <1>1, <1>2, <1>3, QuietQueues
<1>4. CASE Threads /\ r # input.p - 1
  <2> DEFINE v == [capacity |-> q[r].capacity, items |-> Tail(q[r].items)]
  <2>1. queue_consume(r) /\ net' = net
    BY <1>4 DEF TakeState
  <2>2. q' = [q EXCEPT ![r] = v] /\ v \in Queue /\ q'[r].capacity = q[r].capacity
    BY <1>1, <2>1, Consumed
  <2> HIDE DEF v
  <2> QED
    BY <1>1, <1>2, <1>4, <2>1, <2>2, OneQueue
<1>5. CASE ~Threads /\ r # input.p - 1
  <2>1. /\ net["state"][r] # << >> /\ net' = [net EXCEPT !["state"][r] = Tail(@)] /\ q' = q
    BY <1>5 DEF TakeState
  <2>2. Tail(net["state"][r]) \in Messages
    <3>1. net["state"][r] \in Messages
      BY <1>1
    <3> QED
      BY <2>1, <3>1, HeadTailProperties DEF Messages
  <2> QED
    BY <1>1, <1>5, <2>1, <2>2, OneMessage
<1> QED
  BY <1>3, <1>4, <1>5 DEF TakeState

LEMMA HandQueues ==
    ASSUME IInv, NEW r \in Ranks, Moves(r), HandOver(r)
    PROVE  QueuesAfter
<1>1. /\ Shape /\ Together /\ Queues /\ input' = input /\ pc[r] = "back"
      /\ pc'[r] = IF Threads THEN "destroy2" ELSE "done"
      /\ net \in [{"block", "state"} -> [Ranks -> Messages]]
      /\ q \in [Ranks -> Queue]
  BY DEF IInv, Queues, HandOver, Goto, Moves, Shape
<1>2. Threads /\ q'[r].capacity = q[r].capacity => QueueAt(r)'
  <2> SUFFICES ASSUME Threads, q'[r].capacity = q[r].capacity
               PROVE  QueueAt(r)'
    OBVIOUS
  <2>1. QueueAt(r)
    BY <1>1 DEF Queues
  <2> QED
    BY <1>1, <2>1 DEF QueueAt, Setup, Middle, Computing
<1>3. CASE q' = q /\ net' = net
  BY <1>1, <1>2, <1>3, QuietQueues
<1>4. ASSUME r # 0
      PROVE  r - 1 \in Ranks /\ r - 1 # r /\ state[r] \in Steps
  <2>1. r - 1 \in Ranks /\ r - 1 # r
    BY <1>1, <1>4, ThreeVersions DEF Ranks, Nonzero
  <2>2. Right
    BY <1>4, <1>1, ThreeVersions DEF Right
  <2> QED
    BY <1>1, <2>1, <2>2, StateHeld
<1>5. CASE Threads /\ r # 0
  <2> DEFINE t == r - 1
             v == [capacity |-> q[t].capacity, items |-> Append(q[t].items, state[r])]
  <2>1. queue_produce(t, state[r]) /\ net' = net
    BY <1>5 DEF HandOver
  <2>2. t \in Ranks /\ t # r /\ state[r] \in Nat \cup Steps
    BY <1>4, <1>5
  <2> HIDE DEF t
  <2>3. q' = [q EXCEPT ![t] = v] /\ v \in Queue /\ q'[t].capacity = q[t].capacity
    BY <1>1, <2>1, <2>2, Produced
  <2> HIDE DEF v
  <2>4. q'[r] = q[r]
    BY <1>1, <2>2, <2>3
  <2>5. pc'[t] = pc[t] /\ pc[t] \in Final
    BY <1>1, <1>5, <2>2, OthersStay DEF Together, Final
  <2>6. QueueAt(t)'
    <3>1. QueueAt(t)
      BY <1>1, <1>5, <2>2 DEF Queues
    <3> QED
      BY <1>1, <2>3, <2>5, <3>1 DEF QueueAt, Setup, Middle, Computing, Final
  <2> QED
    BY <1>1, <1>2, <1>5, <2>1, <2>2, <2>3, <2>4, <2>6, OneQueue
<1>6. CASE ~Threads /\ r # 0
  <2> DEFINE t == r - 1
  <2>1. net' = [net EXCEPT !["state"][t] = Append(@, state[r])] /\ q' = q
    BY <1>6 DEF HandOver
  <2>2. t \in Ranks /\ state[r] \in Steps
    BY <1>4, <1>6
  <2> HIDE DEF t
  <2>3. Append(net["state"][t], state[r]) \in Messages
    <3>1. net["state"][t] \in Messages
      BY <1>1, <2>2
    <3> QED
      BY <2>2, <3>1, AppendProperties DEF Messages
  <2> QED
    BY <1>1, <1>6, <2>1, <2>2, <2>3, OneMessage
<1> QED
  BY <1>3, <1>5, <1>6 DEF HandOver

LEMMA QueuesStep ==
    ASSUME IInv, NEW r \in Ranks, Rank(r)
    PROVE  Queues' /\ QueuesAfter
<1>1. Moves(r)
  BY RankMoves DEF IInv
<1>2. ASSUME InitQueue(r) \/ NextBlock(r) \/ PassOn(r) \/ DestroyQueue(r)
      PROVE  QueuesAfter
  <2>1. Threads
    BY <1>2, ByVersion DEF IInv, InitQueue, NextBlock, PassOn, DestroyQueue, Setup
  <2> QED
    BY <1>1, <1>2, <2>1, ThreadsQueues
<1>3. QueuesAfter
  BY <1>1, <1>2, QuietQueuesToo, RanksQueues, TakeQueues, HandQueues DEF Rank
<1>4. Queues'
  BY <1>1, <1>3, InputStays DEF QueuesAfter, Queues, Moves
<1> QED
  BY <1>3, <1>4
-----------------------------------------------------------------------------
(* The chains of blocks *)

LEMMA ChainTail ==
    ASSUME NEW s \in Seq(1 .. input.m + 1), s # << >>, NEW x, NEW z, Chain(x, s, z)
    PROVE  Tail(s) \in Seq(1 .. input.m + 1) /\ Chain(Following(x), Tail(s), z)
<1>1. /\ Len(s) \in Nat /\ Len(s) >= 1 /\ Tail(s) \in Seq(1 .. input.m + 1) /\ Len(Tail(s)) = Len(s) - 1
      /\ \A k \in 1 .. Len(s) - 1 : Tail(s)[k] = s[k + 1]
  <2>1. Len(s) \in Nat /\ Len(s) # 0
    BY EmptySeq, LenProperties
  <2>2. /\ Tail(s) \in Seq(1 .. input.m + 1) /\ Len(Tail(s)) = Len(s) - 1
        /\ \A k \in 1 .. Len(Tail(s)) : Tail(s)[k] = s[k + 1]
    BY HeadTailProperties
  <2> QED
    BY <2>1, <2>2
<1>2. /\ s[1] = Following(x) /\ s[Len(s)] = z
      /\ \A k \in 1 .. Len(s) - 1 : s[k] <= input.m /\ s[k + 1] = Following(s[k])
  BY DEF Chain
<1>3. Tail(s) = << >> => Following(x) = z
  <2> SUFFICES ASSUME Tail(s) = << >>
               PROVE  Following(x) = z
    OBVIOUS
  <2>1. Len(Tail(s)) = 0
    BY <1>1, EmptySeq
  <2>2. Len(s) = 1
    <3>1. \A a, b \in Nat : b = a - 1 /\ b = 0 => a = 1
      OBVIOUS
    <3>2. Len(s) \in Nat /\ Len(Tail(s)) \in Nat
      BY <1>1, LenProperties, Zenon
    <3>3. Len(Tail(s)) = Len(s) - 1 /\ Len(Tail(s)) = 0
      BY <1>1, <2>1, Zenon
    <3> QED
      BY <3>1, <3>2, <3>3, Zenon
  <2> QED
    BY <1>2, <2>2
<1>4. Tail(s) # << >> => Following(x) <= input.m /\ Tail(s)[1] = Following(Following(x)) /\ Tail(s)[Len(Tail(s))] = z
  <2> SUFFICES ASSUME Tail(s) # << >>
               PROVE  Following(x) <= input.m /\ Tail(s)[1] = Following(Following(x)) /\ Tail(s)[Len(Tail(s))] = z
    OBVIOUS
  <2>1. Len(s) >= 2
    <3>1. Len(Tail(s)) # 0
      BY <1>1, EmptySeq
    <3> QED
      BY <1>1, <3>1
  <2>2. 1 \in 1 .. Len(s) - 1 /\ Len(s) - 1 \in 1 .. Len(s) - 1
    BY <1>1, <2>1
  <2>3. s[1] <= input.m /\ s[1 + 1] = Following(s[1]) /\ Tail(s)[1] = s[1 + 1] /\ Tail(s)[Len(s) - 1] = s[Len(s) - 1 + 1]
    BY <1>1, <1>2, <2>2
  <2> QED
    BY <1>1, <1>2, <2>3
<1>5. \A k \in 1 .. Len(Tail(s)) - 1 : Tail(s)[k] <= input.m /\ Tail(s)[k + 1] = Following(Tail(s)[k])
  <2> SUFFICES ASSUME NEW k \in 1 .. Len(Tail(s)) - 1
               PROVE  Tail(s)[k] <= input.m /\ Tail(s)[k + 1] = Following(Tail(s)[k])
    OBVIOUS
  <2>1. k \in 1 .. Len(s) - 1 /\ k + 1 \in 1 .. Len(s) - 1
    BY <1>1
  <2>2. Tail(s)[k] = s[k + 1] /\ Tail(s)[k + 1] = s[k + 1 + 1]
    BY <1>1, <2>1
  <2> QED
    BY <1>2, <2>1, <2>2
<1> QED
  BY <1>1, <1>3, <1>4, <1>5 DEF Chain

LEMMA ChainAppend ==
    ASSUME input \in Inputs, NEW s \in Seq(1 .. input.m + 1), NEW x, NEW z \in 0 .. input.m + 1,
           Chain(x, s, z), z <= input.m
    PROVE  Chain(x, Append(s, Following(z)), Following(z))
<1> DEFINE e == Following(z)
           l == Append(s, e)
<1>1. e \in 1 .. input.m + 1
  BY Blocks
<1> HIDE DEF e
<1>2. /\ Len(s) \in Nat /\ Len(l) = Len(s) + 1 /\ l[Len(s) + 1] = e /\ l # << >>
      /\ \A k \in 1 .. Len(s) : l[k] = s[k]
  BY <1>1, AppendProperties, LenProperties
<1> HIDE DEF l
<1>3. CASE s = << >>
  <2>1. Len(s) = 0 /\ x = z
    BY <1>3 DEF Chain
  <2> QED
    BY <1>2, <2>1 DEF Chain, e, l
<1>4. CASE s # << >>
  <2>1. /\ x <= input.m /\ s[1] = Following(x) /\ s[Len(s)] = z
        /\ \A k \in 1 .. Len(s) - 1 : s[k] <= input.m /\ s[k + 1] = Following(s[k])
    BY <1>4 DEF Chain
  <2>2. Len(s) >= 1
    BY <1>2, <1>4, EmptySeq
  <2>3. l[1] = Following(x) /\ l[Len(l)] = e
    BY <1>2, <2>1, <2>2
  <2>4. ASSUME NEW k \in 1 .. Len(l) - 1
        PROVE  l[k] <= input.m /\ l[k + 1] = Following(l[k])
    <3>1. CASE k = Len(s)
      BY <1>2, <2>1, <2>2, <3>1 DEF e
    <3>2. CASE k # Len(s)
      <4>1. k \in 1 .. Len(s) - 1 /\ k \in 1 .. Len(s) /\ k + 1 \in 1 .. Len(s)
        BY <1>2, <3>2
      <4> QED
        BY <1>2, <2>1, <4>1
    <3> QED
      BY <3>1, <3>2
  <2> QED
    BY <1>2, <2>1, <2>3, <2>4 DEF Chain, e, l
<1> QED
  BY <1>3, <1>4

\* A chain goes on.
LEMMA ChainAhead ==
    ASSUME input \in Inputs, NEW s \in Seq(1 .. input.m + 1), s # << >>, NEW x \in 0 .. input.m + 1, NEW z,
           Chain(x, s, z)
    PROVE  Following(x) <= z
<1> DEFINE S == {k \in Nat : k + 1 <= Len(s) => s[k + 1] >= Following(x)}
<1>1. /\ Len(s) \in Nat /\ Len(s) >= 1 /\ input.m \in Nat /\ Following(x) \in 1 .. input.m + 1
      /\ \A k \in 1 .. Len(s) : s[k] \in 1 .. input.m + 1
  <2>1. Len(s) \in Nat /\ Len(s) # 0
    BY EmptySeq, LenProperties
  <2>2. input.m \in Nat /\ Following(x) \in 1 .. input.m + 1
    BY InputOK, Blocks DEF Nonzero
  <2> QED
    BY <2>1, <2>2, ElementOfSeq
<1>2. /\ s[1] = Following(x) /\ s[Len(s)] = z
      /\ \A k \in 1 .. Len(s) - 1 : s[k] <= input.m /\ s[k + 1] = Following(s[k])
  BY DEF Chain
<1>3. 0 \in S
  BY <1>1, <1>2
<1>4. ASSUME NEW k \in Nat, k \in S
      PROVE  k + 1 \in S
  <2> SUFFICES ASSUME k + 1 + 1 <= Len(s)
               PROVE  s[k + 1 + 1] >= Following(x)
    OBVIOUS
  <2>1. k + 1 \in 1 .. Len(s) - 1 /\ k + 1 \in 1 .. Len(s) /\ k + 1 + 1 \in 1 .. Len(s)
    BY <1>1
  <2>2. s[k + 1] <= input.m /\ s[k + 1 + 1] = Following(s[k + 1]) /\ s[k + 1] \in 0 .. input.m + 1
    BY <1>1, <1>2, <2>1
  <2>3. s[k + 1 + 1] > s[k + 1]
    BY <2>2, Blocks
  <2>4. s[k + 1] >= Following(x)
    BY <1>1, <1>4, <2>1
  <2> HIDE DEF S
  <2>5. s[k + 1 + 1] \in Int /\ s[k + 1] \in Int /\ Following(x) \in Int
    BY <1>1, <2>1
  <2> QED
    BY <2>3, <2>4, <2>5
<1>5. \A k \in Nat : k \in S
  <2> HIDE DEF S
  <2> QED
    BY <1>3, <1>4, Induction
<1>6. Len(s) - 1 \in Nat /\ (Len(s) - 1) + 1 = Len(s)
  BY <1>1
<1>7. s[Len(s)] >= Following(x)
  BY <1>5, <1>6
<1> QED
  BY <1>1, <1>2, <1>7

LEMMA LinkStays ==
    ASSUME input \in Inputs, input' = input, NEW t, Linked(t),
           next'[t] = next[t], next'[t - 1] = next[t - 1],
           pc'[t - 1] \in {"cells", "pass"} <=> pc[t - 1] \in {"cells", "pass"},
           IF Threads THEN q'[t].items = q[t].items ELSE net'["block"][t] = net["block"][t]
    PROVE  Linked(t)'
<1>1. PICK s \in Seq(1 .. input.m + 1) : Waiting(t, s) /\ Chain(next[t], Line(t, s), next[t - 1])
  BY DEF Linked
<1>2. D' = D /\ y(t)' = y(t) /\ (Threads' <=> Threads)
  BY TableStays, InputStays
<1>3. Waiting(t, s)'
  BY <1>1, <1>2, InputStays DEF Waiting, Width
<1>4. Line(t, s)' = Line(t, s)
  BY DEF Line
<1>5. Chain(next[t], Line(t, s), next[t - 1])'
  BY <1>1, <1>4 DEF Chain, Following, W
<1> QED
  BY <1>1, <1>3, <1>5 DEF Linked
\* When a band begins a block, the band below has one more in front of it.
LEMMA LinkLonger ==
    ASSUME Shape, NEW r \in Ranks, Moves(r), NEW t \in 1 .. input.p - 1, t - 1 = r, Linked(t),
           next[r] <= input.m, next'[r] = Following(next[r]),
           pc[r] = "next", pc'[r] \in {"cells", "pass"},
           IF Threads THEN q'[t].items = q[t].items ELSE net'["block"][t] = net["block"][t]
    PROVE  Linked(t)'
<1>1. PICK s \in Seq(1 .. input.m + 1) : Waiting(t, s) /\ Chain(next[t], Line(t, s), next[t - 1])
  BY DEF Linked
<1>2. input \in Inputs /\ input' = input /\ t \in Ranks /\ t # r /\ next[r] \in 0 .. input.m + 1
  <2>1. input \in Inputs /\ next[r] \in 0 .. input.m + 1 /\ input.p \in Nat
    BY ShapeAt, InputSizes
  <2>2. t \in Ranks /\ t # r
    BY <2>1 DEF Ranks
  <2> QED
    BY <2>1, <2>2 DEF Moves
<1>3. D' = D /\ y(t)' = y(t) /\ (Threads' <=> Threads) /\ next'[t] = next[t]
  BY <1>2, TableStays, InputStays, OthersStay
<1>4. Waiting(t, s)'
  <2>1. \A x : Width(x)' = Width(x)
    BY <1>2, InputStays DEF Width
  <2>2. CASE Threads
    BY <1>1, <1>3, <2>2 DEF Waiting
  <2>3. CASE ~Threads
    BY <1>1, <1>3, <2>1, <2>3 DEF Waiting
  <2> QED
    BY <2>2, <2>3
<1>5. Line(t, s) = s /\ Line(t, s)' = Append(s, Following(next[r]))
  BY DEF Line
<1>6. Chain(next[t], Append(s, Following(next[r])), Following(next[r]))
  BY <1>1, <1>2, <1>5, ChainAppend
<1>7. Chain(next[t], Line(t, s), next[t - 1])'
  BY <1>2, <1>3, <1>5, <1>6 DEF Chain, Following, W
<1> QED
  BY <1>2, <1>4, <1>7 DEF Linked

\* When a band begins a block, it takes it from the ones in front of it.
LEMMA LinkShorter ==
    ASSUME IInv, NEW r \in 1 .. input.p - 1, r \in Ranks, Moves(r), Linked(r),
           next'[r] = Following(next[r]),
           IF Threads THEN q[r].items # << >> /\ q'[r].items = Tail(q[r].items)
           ELSE net["block"][r] # << >> /\ net'["block"][r] = Tail(net["block"][r])
    PROVE  Linked(r)'
<1>1. PICK s \in Seq(1 .. input.m + 1) : Waiting(r, s) /\ Chain(next[r], Line(r, s), next[r - 1])
  BY DEF Linked
<1>2. /\ Shape /\ input \in Inputs /\ input' = input /\ r > 0 /\ r - 1 \in Ranks /\ r - 1 # r
      /\ ~Threads => net["block"][r] \in Messages
  <2>1. Shape /\ Queues /\ r > 0
    BY DEF IInv
  <2>2. r - 1 \in Ranks /\ r - 1 # r
    BY <2>1, Above
  <2>3. net["block"][r] \in Messages
    BY <2>1 DEF Queues
  <2>4. input \in Inputs /\ input' = input
    BY <2>1, ShapeAt DEF Moves
  <2> QED
    BY <2>1, <2>2, <2>3, <2>4
<1>3. /\ D' = D /\ y(r)' = y(r) /\ (Threads' <=> Threads)
      /\ next'[r - 1] = next[r - 1] /\ pc'[r - 1] = pc[r - 1]
  BY <1>2, TableStays, InputStays, OthersStay
<1>4. s # << >> /\ (~Threads => Len(net["block"][r]) = Len(s))
  <2>1. CASE Threads
    BY <1>1, <2>1 DEF Waiting
  <2>2. CASE ~Threads
    <3>1. Len(net["block"][r]) = Len(s)
      BY <1>1, <2>2 DEF Waiting
    <3>2. Len(net["block"][r]) # 0
      BY <1>2, <2>2, EmptySeq DEF Messages
    <3> QED
      BY <3>1, <3>2
  <2> QED
    BY <2>1, <2>2
<1>5. Tail(s) \in Seq(1 .. input.m + 1) /\ Line(r, Tail(s)) = Tail(Line(r, s)) /\ Line(r, s) # << >>
      /\ Line(r, s) \in Seq(1 .. input.m + 1)
  <2>1. Tail(s) \in Seq(1 .. input.m + 1)
    BY <1>4, HeadTailProperties
  <2>2. Line(r, s) \in Seq(1 .. input.m + 1)
    BY <1>2, Above, AppendProperties DEF Line
  <2> QED
    BY <1>2, <1>4, <2>1, <2>2, Above, LineOf
<1>6. Chain(Following(next[r]), Tail(Line(r, s)), next[r - 1])
  BY <1>1, <1>5, ChainTail
<1>7. Waiting(r, Tail(s))'
  <2>1. CASE Threads
    BY <1>1, <1>3, <2>1 DEF Waiting
  <2>2. CASE ~Threads
    <3> DEFINE b == net["block"][r]
               Row(k) == [c \in 1 .. Width(s[k]) |-> D[<<y(r) - 1, s[k] + c - 1>>]]
    <3>1. Len(b) = Len(s) /\ \A k \in 1 .. Len(s) : b[k] = Row(k)
      BY <1>1, <2>2 DEF Waiting
    <3>2. /\ Len(Tail(b)) = Len(b) - 1 /\ \A k \in 1 .. Len(b) - 1 : Tail(b)[k] = b[k + 1]
      <4>1. b \in Seq(Seq(Cell) \cup Steps) /\ b # << >>
        BY <1>2, <2>2 DEF Messages
      <4> HIDE DEF b
      <4>2. Len(Tail(b)) = Len(b) - 1 /\ \A k \in 1 .. Len(Tail(b)) : Tail(b)[k] = b[k + 1]
        BY <4>1, HeadTailProperties
      <4> QED
        BY <4>2
    <3>3. /\ Len(Tail(s)) = Len(s) - 1 /\ \A k \in 1 .. Len(s) - 1 : Tail(s)[k] = s[k + 1]
      <4>1. Len(Tail(s)) = Len(s) - 1 /\ \A k \in 1 .. Len(Tail(s)) : Tail(s)[k] = s[k + 1]
        BY <1>4, HeadTailProperties
      <4> QED
        BY <4>1
    <3>4. Len(s) \in Nat
      BY LenProperties
    <3>5. ASSUME NEW k \in 1 .. Len(s) - 1
          PROVE  Tail(b)[k] = [c \in 1 .. Width(Tail(s)[k]) |-> D[<<y(r) - 1, Tail(s)[k] + c - 1>>]]
      <4>1. k + 1 \in 1 .. Len(s) /\ Tail(b)[k] = b[k + 1] /\ Tail(s)[k] = s[k + 1]
        BY <3>1, <3>2, <3>3, <3>4
      <4> QED
        BY <3>1, <4>1
    <3>6. net'["block"][r] = Tail(b)
      BY <2>2
    <3>8. Len(Tail(b)) = Len(Tail(s)) /\ 1 .. Len(Tail(s)) = 1 .. Len(s) - 1
      BY <3>1, <3>2, <3>3
    <3> DEFINE e == net'["block"][r]
    <3>9. Len(e) = Len(Tail(s))
      BY <3>6, <3>8
    <3>10. ASSUME NEW k \in 1 .. Len(Tail(s))
           PROVE  e[k] = [c \in 1 .. Width(Tail(s)[k])' |-> D'[<<y(r)' - 1, Tail(s)[k] + c - 1>>]]
      <4>1. e[k] = Tail(b)[k]
        BY <3>6
      <4>2. e[k] = [c \in 1 .. Width(Tail(s)[k]) |-> D[<<y(r) - 1, Tail(s)[k] + c - 1>>]]
        BY <3>5, <3>8, <4>1
      <4>3. ASSUME NEW x
            PROVE  [c \in 1 .. Width(x) |-> D[<<y(r) - 1, x + c - 1>>]]
                     = [c \in 1 .. Width(x)' |-> D'[<<y(r)' - 1, x + c - 1>>]]
        <5>1. D' = D /\ y(r)' = y(r) /\ Width(x)' = Width(x)
          BY <1>2, <1>3, InputStays
        <5> QED
          BY <5>1
      <4> DEFINE z == Tail(s)[k]
      <4>4. e[k] = [c \in 1 .. Width(z) |-> D[<<y(r) - 1, z + c - 1>>]]
        BY <4>2
      <4> HIDE DEF e, z
      <4>5. e[k] = [c \in 1 .. Width(z)' |-> D'[<<y(r)' - 1, z + c - 1>>]]
        BY <4>3, <4>4
      <4> QED
        BY <4>5 DEF z
    <3> HIDE DEF b, Row
    <3> QED
      BY <1>3, <2>2, <3>9, <3>10 DEF Waiting
  <2> QED
    BY <2>1, <2>2
<1>8. Line(r, Tail(s))' = Line(r, Tail(s))
  BY <1>3 DEF Line
<1>9. Chain(next[r], Line(r, Tail(s)), next[r - 1])'
  BY <1>2, <1>3, <1>5, <1>6, <1>8 DEF Chain, Following, W
<1> QED
  BY <1>2, <1>5, <1>7, <1>9 DEF Linked

\* When a band passes its block on, the block moves to the queue.
LEMMA LinkPassed ==
    ASSUME IInv, NEW r \in Ranks, Moves(r), NEW t \in 1 .. input.p - 1, t - 1 = r, Linked(t),
           pc[r] = "pass", pc'[r] \notin {"cells", "pass"}, next'[r] = next[r],
           IF Threads THEN q'[t].items = Append(q[t].items, next[r])
           ELSE net'["block"][t] = Append(net["block"][t], [k \in 1 .. Width(next[r]) |-> D[<<y(t) - 1, next[r] + k - 1>>]])
    PROVE  Linked(t)'
<1>1. PICK s \in Seq(1 .. input.m + 1) : Waiting(t, s) /\ Chain(next[t], Line(t, s), next[t - 1])
  BY DEF Linked
<1>2. /\ Shape /\ input \in Inputs /\ input' = input /\ t \in Ranks /\ t # r /\ t > 0
      /\ ~Threads => net["block"][t] \in Messages
  <2>1. Shape /\ Queues /\ t > 0
    BY DEF IInv
  <2>2. t \in Ranks /\ t # r
    BY <2>1, ThreeVersions DEF Ranks, Nonzero
  <2>3. net["block"][t] \in Messages
    BY <2>1, <2>2 DEF Queues
  <2>4. input \in Inputs /\ input' = input
    BY <2>1, ShapeAt DEF Moves
  <2> QED
    BY <2>1, <2>2, <2>3, <2>4
<1>3. D' = D /\ y(t)' = y(t) /\ (Threads' <=> Threads) /\ next'[t] = next[t]
  BY <1>2, TableStays, InputStays, OthersStay
<1>4. next[r] \in 1 .. input.m + 1
  BY <1>2, Above
<1>5. PICK l \in Seq(1 .. input.m + 1) : l = Append(s, next[r])
  BY <1>4, AppendProperties
<1>8. Line(t, s) = l /\ Line(t, l)' = l
  BY <1>5 DEF Line
<1>6. Waiting(t, l)'
  <2>1. CASE Threads
    BY <1>1, <1>3, <1>5, <2>1 DEF Waiting
  <2>2. CASE ~Threads
    <3> DEFINE b == net["block"][t]
               Row(x) == [k \in 1 .. Width(x) |-> D[<<y(t) - 1, x + k - 1>>]]
               e == Row(next[r])
    <3>1. Len(b) = Len(s) /\ \A k \in 1 .. Len(s) : b[k] = Row(s[k])
      BY <1>1, <2>2 DEF Waiting
    <3>2. Len(s) \in Nat
      BY LenProperties
    <3>3. /\ Len(l) = Len(s) + 1 /\ l[Len(s) + 1] = next[r]
          /\ \A k \in 1 .. Len(s) : l[k] = s[k]
      BY <1>4, <1>5, AppendProperties
    <3>4. /\ Len(Append(b, e)) = Len(b) + 1 /\ Append(b, e)[Len(b) + 1] = e
          /\ \A k \in 1 .. Len(b) : Append(b, e)[k] = b[k]
      <4>1. \E V : b \in Seq(V) /\ e \in V
        <5> DEFINE V == Seq(Cell) \cup Steps \cup {e}
        <5>1. b \in Seq(Seq(Cell) \cup Steps)
          BY <1>2, <2>2 DEF Messages
        <5> HIDE DEF b, e
        <5>2. b \in Seq(V) /\ e \in V
          BY <5>1
        <5> QED
          BY <5>2
      <4> HIDE DEF b, e
      <4> QED
        BY <4>1, AppendProperties
    <3>5. net'["block"][t] = Append(b, e)
      BY <2>2
    <3> HIDE DEF b, Row
    <3>6. ASSUME NEW k \in 1 .. Len(l)
          PROVE  Append(b, e)[k] = Row(l[k])
      <4>1. CASE k = Len(s) + 1
        BY <3>1, <3>2, <3>3, <3>4, <4>1
      <4>2. CASE k # Len(s) + 1
        <5>1. k \in 1 .. Len(s)
          BY <3>2, <3>3, <4>2
        <5> QED
          BY <3>1, <3>3, <3>4, <5>1
      <4> QED
        BY <4>1, <4>2
    <3>7. \A x : Width(x)' = Width(x)
      BY <1>2, InputStays DEF Width
    <3> HIDE DEF e
    <3>8. Len(Append(b, e)) = Len(l)
      BY <3>1, <3>3, <3>4
    <3>9. ASSUME NEW k \in 1 .. Len(l)
          PROVE  Append(b, e)[k] = [c \in 1 .. Width(l[k])' |-> D'[<<y(t)' - 1, l[k] + c - 1>>]]
      <4>1. Append(b, e)[k] = Row(l[k])
        BY <3>6
      <4>2. Width(l[k])' = Width(l[k]) /\ D' = D /\ y(t)' = y(t)
        BY <1>3, <3>7
      <4>3. Row(l[k]) = [c \in 1 .. Width(l[k])' |-> D'[<<y(t)' - 1, l[k] + c - 1>>]]
        BY <4>2, Zenon DEF Row
      <4> QED
        BY <4>1, <4>3, Zenon
    <3> DEFINE f == net'["block"][t]
    <3>10. Len(f) = Len(l) /\ \A k \in 1 .. Len(l) : f[k] = [c \in 1 .. Width(l[k])' |-> D'[<<y(t)' - 1, l[k] + c - 1>>]]
      BY <3>5, <3>8, <3>9
    <3> QED
      BY <1>3, <2>2, <3>10 DEF Waiting
  <2> QED
    BY <2>1, <2>2
<1>7. Chain(next[t], Line(t, l), next[t - 1])'
  BY <1>1, <1>2, <1>3, <1>8 DEF Chain, Following, W
<1> QED
  BY <1>2, <1>6, <1>7 DEF Linked

\* No block is left in front of a band that is done.
LEMMA NothingLeft ==
    ASSUME IInv, Threads, NEW r \in Ranks, pc[r] = "destroy1"
    PROVE  q[r].items = << >>
<1>1. Shape /\ Queues /\ Chained /\ input.m \in Nat /\ pc[r] \in Middle /\ next[r] = input.m + 1
  BY InputOK DEF IInv, Shape, Nonzero, Middle, Place
<1>2. CASE r = 0
  BY <1>1, <1>2 DEF Queues, QueueAt
<1>3. CASE r # 0
  <2>1. r > 0
    BY <1>3, ThreeVersions, <1>1 DEF Ranks, Nonzero
  <2>2. SUFFICES ASSUME q[r].items # << >>
                 PROVE  FALSE
    OBVIOUS
  <2>3. next[r] <= input.m
    BY <1>1, <2>1, <2>2, TakesNext
  <2> QED
    BY <1>1, <2>3
<1> QED
  BY <1>2, <1>3
LEMMA ChainedStep ==
    ASSUME IInv, NEW r \in Ranks, Rank(r)
    PROVE  Chained'
<1>1. /\ Shape /\ Together /\ Queues /\ Chained /\ input \in Inputs
      /\ Moves(r) /\ PlaceAfter(r) /\ Together' /\ Shape' /\ input' = input
      /\ q \in [Ranks -> Queue] /\ net \in [{"block", "state"} -> [Ranks -> Messages]]
      /\ Ranks' = Ranks
  <2>1. Shape /\ Together /\ Queues /\ Chained /\ Moves(r)
    BY RankMoves DEF IInv
  <2> QED
    BY <2>1, PlaceStep, ShapeStep, InputStays DEF Moves, Queues, Shape
<1>2. SUFFICES ASSUME NEW t \in 1 .. input.p - 1, Threads => pc'[t] \in Middle
               PROVE  Linked(t)'
  BY <1>1, InputStays DEF Chained, Middle, Computing
<1>3. t \in Ranks /\ t - 1 \in Ranks /\ t > 0 /\ t # t - 1 /\ input.p # 1
  BY <1>1, ThreeVersions DEF Ranks, Nonzero
<1>4. Threads => pc[t] \in Middle /\ pc[r] \in Middle
  <2> SUFFICES ASSUME Threads
               PROVE  pc[t] \in Middle /\ pc[r] \in Middle
    OBVIOUS
  <2>1. /\ pc'[t] \in Setup <=> pc[t] \in Setup
        /\ pc'[t] \in Final <=> pc[t] \in Final
    <3>1. CASE t = r
      BY <1>1, <3>1 DEF PlaceAfter
    <3>2. CASE t # r
      BY <1>1, <1>3, <3>2, OthersStay
    <3> QED
      BY <3>1, <3>2
  <2>2. pc'[t] \notin Setup \cup Final
    BY <1>2 DEF Setup, Final, Middle, Computing
  <2>3. pc[t] \notin Setup \cup Final /\ pc[r] \notin Setup \cup Final
    <3>1. pc[t] \notin Setup \cup Final
      BY <2>1, <2>2
    <3> QED
      BY <1>1, <1>3, <3>1 DEF Together
  <2> QED
    BY <1>1, <1>3, <2>3 DEF Shape, LabelsOf
<1>5. Linked(t)
  BY <1>1, <1>4 DEF Chained
<1>6. /\ t # r => next'[t] = next[t] /\ pc'[t] = pc[t]
      /\ t - 1 # r => next'[t - 1] = next[t - 1] /\ pc'[t - 1] = pc[t - 1]
  BY <1>1, <1>3, OthersStay
<1>7. ASSUME next' = next, t - 1 = r => (pc'[r] \in {"cells", "pass"} <=> pc[r] \in {"cells", "pass"}),
             IF Threads THEN q'[t].items = q[t].items ELSE net'["block"][t] = net["block"][t]
      PROVE  Linked(t)'
  BY <1>1, <1>5, <1>6, <1>7, LinkStays
<1>8. ASSUME t # r, t - 1 # r,
             IF Threads THEN q'[t].items = q[t].items ELSE net'["block"][t] = net["block"][t]
      PROVE  Linked(t)'
  BY <1>1, <1>5, <1>6, <1>8, LinkStays
<1>9. CASE ComputeCell(r)
  <2>1. next' = next /\ q' = q /\ net' = net /\ pc[r] = "cells" /\ pc'[r] \in {"cells", "pass"}
    BY <1>1, <1>9 DEF ComputeCell, Goto, Shape
  <2> QED
    BY <1>7, <2>1
<1>10. CASE InitQueue(r)
  <2>1. Threads /\ pc[r] = "init2" /\ pc'[r] = "barrier2"
    <3>1. Threads
      BY <1>1, <1>10, ByVersion DEF InitQueue, Setup
    <3>2. pc[r] \in Middle
      BY <1>4, <3>1
    <3> QED
      BY <1>1, <1>10, <3>1, <3>2 DEF InitQueue, Goto, Shape, Middle, Computing
  <2>2. q[r].items = << >>
    BY <1>1, <2>1 DEF Queues, QueueAt
  <2>3. q' = [q EXCEPT ![r] = [capacity |-> 2, items |-> << >>]] /\ next' = next
    BY <1>10, <2>1 DEF InitQueue, prodcon_queue_init, block
  <2>4. q'[t].items = q[t].items
    BY <1>1, <1>3, <2>2, <2>3
  <2> QED
    BY <1>7, <2>1, <2>3, <2>4
<1>11. CASE NextBlock(r)
  <2>1. /\ Threads /\ pc[r] = "next" /\ next'[r] = Following(next[r]) /\ pc'[r] \in {"cells", "pass"}
        /\ next[r] <= input.m
        /\ r # 0 => queue_consume(r)
        /\ r = 0 => q' = q
    <3>1. Threads /\ pc[r] = "next" /\ ~Diagonals
      BY <1>1, <1>11, ThreeVersions DEF NextBlock
    <3>2. Following(next[r]) <= input.m => pc'[r] \in {"cells", "pass"}
      BY <1>1, <1>11, <3>1, NextPlace, BlockStarts
    <3>3. Following(next[r]) \in Int /\ next[r] <= input.m /\ input.m \in Int
      <4>1. next[r] \in 0 .. input.m + 1 /\ next[r] <= input.m /\ input.m \in Int
        BY <1>1, <3>1, InputOK DEF Place, Shape, Nonzero
      <4> QED
        BY <1>1, <4>1, Blocks
    <3>4. /\ next'[r] = Following(next[r])
          /\ Following(next[r]) > input.m => pc'[r] = "pass"
          /\ r # 0 => queue_consume(r)
          /\ r = 0 => q' = q
      BY <1>1, <1>11, NextPlace
    <3> QED
      BY <3>1, <3>2, <3>3, <3>4
  <2>2. t # r => q'[t].items = q[t].items
    BY <1>1, <1>3, <2>1, Consumed
  <2>3. CASE t = r
    <3>1. queue_consume(r)
      BY <1>3, <2>1, <2>3
    <3>2. q[r].items # << >> /\ q'[r].items = Tail(q[r].items)
      BY <1>1, <3>1, Consumed
    <3> QED
      BY <1>1, <1>3, <1>5, <2>1, <2>3, <3>2, LinkShorter
  <2>4. CASE t - 1 = r
    BY <1>1, <1>3, <1>5, <2>1, <2>2, <2>4, LinkLonger
  <2>5. CASE t # r /\ t - 1 # r
    BY <1>8, <2>1, <2>2, <2>5
  <2> QED
    BY <2>3, <2>4, <2>5
<1>12. CASE PassOn(r)
  <2>1. /\ Threads /\ pc[r] = "pass" /\ pc'[r] \in {"next", "destroy1"} /\ next' = next
    BY <1>1, <1>12 DEF PassOn, Goto, Shape, block
  <2>2. next[r] \in Nat
    BY <1>1, InputOK DEF Shape, Place, Nonzero
  <2>3. IF r = input.p - 1 THEN q' = q ELSE queue_produce(r + 1, next[r])
    BY <1>12 DEF PassOn
  <2>4. CASE t - 1 = r
    <3>1. r # input.p - 1 /\ t = r + 1
      BY <1>1, <1>3, <2>4, ThreeVersions DEF Nonzero, Ranks
    <3>2. q'[t].items = Append(q[t].items, next[r])
      BY <1>1, <1>3, <2>2, <2>3, <3>1, Produced
    <3> QED
      BY <1>1, <1>5, <2>1, <2>4, <3>2, LinkPassed
  <2>5. CASE t - 1 # r
    <3>1. t # r + 1
      BY <1>1, <1>3, <2>5, ThreeVersions DEF Nonzero, Ranks
    <3>2. CASE r = input.p - 1
      BY <1>7, <2>1, <2>3, <2>5, <3>2
    <3>3. CASE r # input.p - 1
      <4>1. r + 1 \in Ranks
        BY <1>1, <3>3, ThreeVersions DEF Nonzero, Ranks
      <4>2. q'[t].items = q[t].items
        <5>1. \E v : q' = [q EXCEPT ![r + 1] = v]
          <6>1. queue_produce(r + 1, next[r]) /\ Queues /\ next[r] \in Nat \cup Steps
            BY <1>1, <2>2, <2>3, <3>3
          <6>2. q' = [q EXCEPT ![r + 1] = [capacity |-> q[r + 1].capacity,
                                           items |-> Append(q[r + 1].items, next[r])]]
            BY <4>1, <6>1, Produced
          <6> QED
            BY <6>2
        <5> QED
          BY <1>1, <1>3, <3>1, <4>1, <5>1 DEF Queues
      <4> QED
        BY <1>7, <2>1, <2>5, <4>2
    <3> QED
      BY <3>2, <3>3
  <2> QED
    BY <2>4, <2>5
<1>13. CASE DestroyQueue(r)
  <2>1. Threads /\ pc[r] = "destroy1" /\ pc'[r] = "init2"
    <3>1. Threads
      BY <1>1, <1>13, ByVersion DEF DestroyQueue
    <3>2. pc[r] \in Middle
      BY <1>4, <3>1
    <3> QED
      BY <1>1, <1>13, <3>1, <3>2 DEF DestroyQueue, Goto, Shape, Middle, Computing
  <2>2. q[r].items = << >>
    BY <2>1, NothingLeft
  <2>3. q' = [q EXCEPT ![r] = NoQueue] /\ next' = next
    BY <1>13 DEF DestroyQueue, block
  <2>4. q'[t].items = q[t].items
    BY <1>1, <1>3, <2>2, <2>3 DEF NoQueue
  <2> QED
    BY <1>7, <2>1, <2>3, <2>4
<1>14. CASE NextBlockMpi(r)
  <2>1. /\ Mpi /\ ~Threads /\ pc[r] = "next"
        /\ \/ /\ pc'[r] = "take" /\ UNCHANGED <<grid, block, net>>
           \/ /\ Following(next[r]) <= input.m
              /\ pc'[r] \in {"cells", "pass"}
              /\ next'[r] = Following(next[r])
              /\ r = 0 => UNCHANGED <<grid, net>>
              /\ r # 0 => /\ net["block"][r] # << >>
                          /\ net' = [net EXCEPT !["block"][r] = Tail(@)]
    BY <1>1, <1>14, NextMpiPlace, ThreeVersions
  <2>2. CASE pc'[r] = "take" /\ UNCHANGED <<grid, block, net>>
    BY <1>7, <2>1, <2>2 DEF block
  <2>3. CASE /\ Following(next[r]) <= input.m
             /\ pc'[r] \in {"cells", "pass"}
             /\ next'[r] = Following(next[r])
             /\ r = 0 => UNCHANGED <<grid, net>>
             /\ r # 0 => /\ net["block"][r] # << >>
                         /\ net' = [net EXCEPT !["block"][r] = Tail(@)]
    <3>1. next[r] <= input.m
      BY <1>1, <2>1 DEF Shape, Place
    <3>2. t # r => net'["block"][t] = net["block"][t]
      BY <1>1, <1>3, <2>3
    <3>3. CASE t = r
      <4>1. net["block"][r] # << >> /\ net' = [net EXCEPT !["block"][r] = Tail(@)]
        BY <1>3, <2>3, <3>3
      <4>2. net'["block"][r] = Tail(net["block"][r])
        BY <1>1, <4>1 DEF Queues
      <4> QED
        BY <1>1, <1>3, <1>5, <2>1, <2>3, <3>3, <4>1, <4>2, LinkShorter
    <3>4. CASE t - 1 = r
      BY <1>1, <1>3, <1>5, <2>1, <2>3, <3>1, <3>2, <3>4, LinkLonger
    <3>5. CASE t # r /\ t - 1 # r
      BY <1>8, <2>1, <3>2, <3>5
    <3> QED
      BY <3>3, <3>4, <3>5
  <2> QED
    BY <2>1, <2>2, <2>3
<1>15. CASE SendRow(r)
  <2>1. /\ ~Threads /\ Mpi /\ pc[r] = "pass" /\ pc'[r] = "next" /\ next' = next
    BY <1>1, <1>15, ByVersion DEF SendRow, Goto, Shape, block, Computing
  <2> DEFINE row == [k \in 1 .. w[r] |-> grid[r][<<y(r) + h[r] - 1, next[r] + k - 1>>]]
  <2>2. /\ r = input.p - 1 => net' = net
        /\ r # input.p - 1 => net' = [net EXCEPT !["block"][r + 1] = Append(@, row)]
    BY <1>15 DEF SendRow
  <2> HIDE DEF row
  <2>3. CASE t - 1 = r
    <3>1. r # input.p - 1 /\ t = r + 1 /\ r < input.p - 1
      BY <1>1, <1>3, <2>3, ThreeVersions DEF Nonzero, Ranks
    <3>2. row = [k \in 1 .. Width(next[r]) |-> D[<<y(t) - 1, next[r] + k - 1>>]]
      BY <2>1, <3>1, RowSent DEF row
    <3>3. net'["block"][t] = Append(net["block"][t], row)
      BY <1>1, <1>3, <2>2, <3>1
    <3> QED
      BY <1>1, <1>5, <2>1, <2>3, <3>2, <3>3, LinkPassed
  <2>4. CASE t - 1 # r
    <3>1. t # r + 1
      BY <1>1, <1>3, <2>4, ThreeVersions DEF Nonzero, Ranks
    <3>2. net'["block"][t] = net["block"][t]
      BY <1>1, <1>3, <2>2, <3>1
    <3> QED
      BY <1>7, <2>1, <2>4, <3>2
  <2> QED
    BY <2>3, <2>4
<1>16. CASE DiagonalCell(r)
  BY <1>1, <1>3, <1>16, ByVersion, ThreeVersions DEF DiagonalCell
<1>17. CASE TakeState(r) \/ BacktrackCell(r) \/ BadCell(r) \/ HandOver(r)
  <2>1. pc[r] \in {"take", "back"} /\ pc'[r] \in {"back", "destroy2", "done"} /\ next' = next
    BY <1>1, <1>17 DEF TakeState, BacktrackCell, BadCell, HandOver, OnPath, Goto, Shape, block, vars
  <2>2. ~Threads
    BY <1>4, <2>1 DEF Middle, Computing
  <2>3. net' = net \/ \E u, v : net' = [net EXCEPT !["state"][u] = v]
    BY <1>17 DEF TakeState, BacktrackCell, BadCell, HandOver, vars
  <2>4. net'["block"][t] = net["block"][t]
    BY <1>1, <1>3, <2>3
  <2> QED
    BY <1>7, <2>1, <2>2, <2>4
<1> QED
  BY <1>9, <1>10, <1>11, <1>12, <1>13, <1>14, <1>15, <1>16, <1>17 DEF Rank
-----------------------------------------------------------------------------
(* The grid *)

LEMMA FilledStays ==
    ASSUME input' = input, NEW t, NEW i, NEW j, pc'[t] = pc[t], next'[t] = next[t], w'[t] = w[t], cur'[t] = cur[t]
    PROVE  Filled(t, i, j)' <=> Filled(t, i, j)
  BY DEF Filled, Diagonals

LEMMA BandStays ==
    ASSUME input \in Inputs, input' = input, NEW t \in Ranks, BandRight(t),
           \A i \in Band(t), j \in 1 .. input.m : Filled(t, i, j)' =>
             Filled(t, i, j) /\ grid'[G(t)][<<i, j>>] = grid[G(t)][<<i, j>>]
    PROVE  BandRight(t)'
<1>1. D' = D /\ (G(t)' = G(t)) /\ Band(t)' = Band(t)
  BY TableStays, InputStays
<1> QED
  BY <1>1 DEF BandRight

LEMMA RowStays ==
    ASSUME input \in Inputs, input' = input, NEW t \in Ranks, RowRight(t), next'[t] = next[t], w'[t] = w[t],
           Mpi /\ t > 0 => \A j \in 1 .. input.m : grid'[t][<<y(t) - 1, j>>] = grid[t][<<y(t) - 1, j>>]
    PROVE  RowRight(t)'
<1>1. D' = D /\ (Mpi' <=> Mpi) /\ y(t)' = y(t)
  BY TableStays, InputStays
<1> QED
  BY <1>1 DEF RowRight

\* A step of r that leaves the grid as it is.
LEMMA GridKept ==
    ASSUME IInv, Right, NEW r \in Ranks, Moves(r), grid' = grid,
           \A i \in Band(r), j \in 1 .. input.m : Filled(r, i, j)' => Filled(r, i, j),
           RowRight(r)'
    PROVE  GridRight'
<1>1. /\ Shape /\ GridRight /\ input \in Inputs /\ input' = input
  BY DEF IInv, Moves, Shape
<1>2. ASSUME NEW t \in Ranks
      PROVE  BandRight(t)' /\ RowRight(t)'
  <2>1. BandRight(t) /\ RowRight(t)
    BY <1>1 DEF GridRight
  <2>2. CASE t = r
    <3>1. BandRight(r)'
      BY <1>1, <2>1, <2>2, BandStays
    <3> QED
      BY <2>2, <3>1
  <2>3. CASE t # r
    <3>1. next'[t] = next[t] /\ w'[t] = w[t] /\ pc'[t] = pc[t] /\ cur'[t] = cur[t]
      BY <1>1, <2>3, OthersStay
    <3>2. BandRight(t)'
      BY <1>1, <2>1, <3>1, FilledStays, BandStays
    <3>3. RowRight(t)'
      BY <1>1, <2>1, <3>1, RowStays
    <3> QED
      BY <3>2, <3>3
  <2> QED
    BY <2>2, <2>3
<1>3. Ranks' = Ranks /\ Cells' = Cells /\ \A t : G(t)' = G(t)
  BY <1>1, InputStays
<1>4. ASSUME NEW t \in Ranks
      PROVE  Borders(grid[G(t)])'
  BY <1>1, <1>3 DEF GridRight, Borders
<1>5. (grid \in [{G(t) : t \in Ranks} -> [Cells -> Cell]])'
  BY <1>1, <1>3 DEF GridRight
<1> QED
  BY <1>2, <1>3, <1>4, <1>5 DEF GridRight

\* A new block has no cell yet, and it follows the last one.
LEMMA FilledNext ==
    ASSUME Shape, NEW r \in Ranks, ~Diagonals, pc[r] = "next", input' = input,
           next'[r] = Following(next[r]),
           \/ Following(next[r]) > input.m /\ pc'[r] = "pass"
           \/ Following(next[r]) <= input.m /\ StartBlock(r, Following(next[r])),
           NEW i \in Band(r), NEW j \in 1 .. input.m, Filled(r, i, j)'
    PROVE  Filled(r, i, j)
<1>1. /\ input \in Inputs /\ input.m \in Nat /\ input.n \in Nat /\ Height \in Nat /\ y(r) \in Nat
      /\ next[r] \in 0 .. input.m + 1 /\ next[r] <= input.m
  BY InputOK, Sizes, Bands DEF Nonzero, Shape, Place
<1>2. i \in 1 .. input.n /\ y(r) <= i /\ i < y(r) + Height
  BY DEF Band
<1>3. CutHeight(r) > 0
  BY <1>1, <1>2 DEF CutHeight
<1>4. Following(next[r]) \in 1 .. input.m + 1
  BY <1>1, Blocks
<1>5. next[r] # 0 => Following(next[r]) = next[r] + w[r] /\ w[r] \in Nat
  <2> SUFFICES ASSUME next[r] # 0
               PROVE  Following(next[r]) = next[r] + w[r] /\ w[r] \in Nat
    OBVIOUS
  <2>1. next[r] \in 1 .. input.m
    BY <1>1
  <2>2. w[r] = Width(next[r])
    BY <2>1 DEF Shape, BlockAt
  <2> QED
    BY <1>1, <2>1, <2>2, Blocks DEF Nonzero
<1>6. j < next'[r]
  <2>1. CASE Following(next[r]) > input.m
    BY <1>1, <1>4, <2>1
  <2>2. CASE Following(next[r]) <= input.m
    <3>1. pc'[r] = "cells" /\ cur'[r] = <<y(r), next'[r]>>
      <4>1. StartBlock(r, Following(next[r]))
        BY <1>1, <1>4, <2>2
      <4>2. /\ cur'[r] = <<y(r), next'[r]>>
            /\ pc'[r] = IF CutHeight(r) > 0 THEN "cells" ELSE "pass"
        BY <2>2, <4>1, BlockStarts
      <4> QED
        BY <1>3, <4>2
    <3>2. ~Diagonals'
      BY InputStays
    <3>3. j < next'[r] \/ i < y(r) \/ (i = y(r) /\ j < next'[r])
      BY <3>1, <3>2 DEF Filled
    <3> QED
      BY <1>1, <1>2, <3>3
  <2> QED
    BY <1>1, <1>4, <2>1, <2>2
<1>7. next[r] # 0
  BY <1>6 DEF Following
<1> QED
  BY <1>5, <1>6, <1>7 DEF Filled

\* What was filled in is not lost with the label.
LEMMA FilledQuiet ==
    ASSUME input' = input, NEW t, next'[t] = next[t], w'[t] = w[t], pc'[t] \notin {"cells", "diagonal"},
           pc[t] \notin {"cells", "diagonal"}, NEW i, NEW j
    PROVE  Filled(t, i, j)' <=> Filled(t, i, j)
  BY DEF Filled, Diagonals

LEMMA GridQuiet ==
    ASSUME IInv, Right, NEW r \in Ranks, Moves(r),
           \/ InitQueue(r) \/ PassOn(r) \/ DestroyQueue(r) \/ SendRow(r)
           \/ TakeState(r) \/ BacktrackCell(r) \/ BadCell(r) \/ HandOver(r)
    PROVE  GridRight'
<1>1. /\ Shape /\ GridRight /\ input \in Inputs /\ input' = input /\ pc \in [Ranks -> LabelsOf]
  BY DEF IInv, Moves, Shape
<1>2. grid' = grid /\ next' = next /\ w' = w
  BY DEF InitQueue, PassOn, DestroyQueue, SendRow, TakeState, BacktrackCell, BadCell, HandOver, vars, block
<1>3. pc[r] \notin {"cells", "diagonal"} /\ pc'[r] \notin {"cells", "diagonal"}
  BY <1>1 DEF InitQueue, PassOn, DestroyQueue, SendRow, TakeState, BacktrackCell, BadCell, HandOver, vars, Goto, OnPath
<1>4. RowRight(r)'
  BY <1>1, <1>2, RowStays DEF GridRight
<1> QED
  BY <1>1, <1>2, <1>3, <1>4, FilledQuiet, GridKept

LEMMA GridNext ==
    ASSUME IInv, Right, NEW r \in Ranks, Moves(r), NextBlock(r)
    PROVE  GridRight'
<1>1. /\ Shape /\ Queues /\ Chained /\ input \in Inputs /\ input' = input /\ Threads /\ ~Mpi /\ ~Diagonals
      /\ pc[r] = "next" /\ grid' = grid /\ input.m \in Nat
  BY InputOK, ThreeVersions DEF IInv, Moves, Shape, NextBlock, Nonzero
<1>2. /\ next'[r] = Following(next[r])
      /\ Following(next[r]) <= input.m => StartBlock(r, Following(next[r]))
      /\ Following(next[r]) > input.m => pc'[r] = "pass"
  BY <1>1, NextPlace
<1>3. Following(next[r]) \in Int
  BY <1>1, Blocks DEF Shape, Place
<1>4. \/ Following(next[r]) > input.m /\ pc'[r] = "pass"
      \/ Following(next[r]) <= input.m /\ StartBlock(r, Following(next[r]))
  BY <1>1, <1>2, <1>3
<1>5. \A i \in Band(r), j \in 1 .. input.m : Filled(r, i, j)' => Filled(r, i, j)
  BY <1>1, <1>2, <1>4, FilledNext
<1>6. RowRight(r)'
  BY <1>1, InputStays DEF RowRight
<1> QED
  BY <1>1, <1>5, <1>6, GridKept
\* The row a rank receives.
LEMMA RowReceived ==
    ASSUME IInv, NEW r \in Ranks, r # 0, Mpi, pc[r] = "next", net["block"][r] # << >>
    PROVE  LET x == Following(next[r])
           IN  Head(net["block"][r]) = [c \in 1 .. Width(x) |-> D[<<y(r) - 1, x + c - 1>>]]
<1>1. Shape /\ Queues /\ Chained /\ ~Threads /\ r > 0
  BY ThreeVersions DEF IInv, Ranks
<1>2. PICK s \in Seq(1 .. input.m + 1) :
        Waiting(r, s) /\ s # << >> /\ s[1] = Following(next[r])
  BY <1>1, TakesNext
<1>3. 1 \in 1 .. Len(s)
  <2>1. Len(s) \in Nat /\ Len(s) # 0
    BY <1>2, EmptySeq, LenProperties
  <2> QED
    BY <2>1
<1>4. net["block"][r][1] = [c \in 1 .. Width(s[1]) |-> D[<<y(r) - 1, s[1] + c - 1>>]]
  BY <1>1, <1>2, <1>3 DEF Waiting
<1>5. Head(net["block"][r]) = net["block"][r][1]
  <2>1. net["block"][r] \in Seq(Seq(Cell) \cup Steps)
    BY <1>1 DEF Queues, Messages
  <2> QED
    BY <2>1
<1> QED
  BY <1>2, <1>4, <1>5

LEMMA GridReceived ==
    ASSUME IInv, NEW r \in Ranks, r # 0, Moves(r), NextBlockMpi(r), Following(next[r]) <= input.m
    PROVE  LET x == Following(next[r])
           IN  grid' = [grid EXCEPT ![r] = [c \in Cells |->
                 IF c[1] = y(r) - 1 /\ c[2] \in x .. x + Width(x) - 1 THEN D[c] ELSE grid[r][c]]]
<1> DEFINE x == Following(next[r])
           row == Head(net["block"][r])
<1>1. /\ Shape /\ Queues /\ Chained /\ input \in Inputs /\ input' = input /\ ~Threads /\ Mpi /\ ~Diagonals
      /\ pc[r] = "next" /\ input.m \in Nat
  <2>1. Shape /\ Queues /\ Chained
    BY DEF IInv
  <2> QED
    BY <2>1, InputOK, ThreeVersions, NextMpiPlace DEF Moves, Shape, NextBlockMpi, Nonzero
<1>2. (IF next[r] = 0 THEN 1 ELSE next[r] + w[r]) = x
  BY <1>1, FollowingBlock
<1>3. /\ x \in 1 .. input.m + 1 /\ x \in 1 .. input.m
      /\ Width(x) \in Nat /\ x + Width(x) <= input.m + 1
  <2>1. x \in 1 .. input.m + 1
    BY <1>1, Blocks DEF Shape, Place
  <2>2. x \in 0 .. input.m + 1 /\ x \in 1 .. input.m
    BY <1>1, <2>1
  <2>3. Width(x) \in Nonzero /\ Following(x) = x + Width(x) /\ Following(x) \in 1 .. input.m + 1
    BY <1>1, <2>2, Blocks
  <2> QED
    BY <1>1, <2>1, <2>2, <2>3 DEF Nonzero
<1> HIDE DEF x
<1>4. /\ net["block"][r] # << >>
      /\ grid' = [grid EXCEPT ![r] = [c \in Cells |->
                    IF c[1] = y(r) - 1 /\ c[2] \in x .. x + Len(row) - 1 THEN row[c[2] - x + 1] ELSE grid[r][c]]]
  <2> DEFINE v == IF next[r] = 0 THEN 1 ELSE next[r] + w[r]
             Received(a) == [c \in Cells |->
               IF c[1] = y(r) - 1 /\ c[2] \in a .. a + Len(row) - 1 THEN row[c[2] - a + 1] ELSE grid[r][c]]
  <2>1. ~ (v > input.m)
    <3>1. \A a \in Nat, b \in Nat : a <= b => ~ (a > b)
      OBVIOUS
    <3>2. x \in Nat /\ x <= input.m
      BY <1>1, <1>3
    <3> QED
      BY <1>1, <1>2, <3>1, <3>2
  <2>2. net["block"][r] # << >> /\ grid' = [grid EXCEPT ![r] = Received(v)]
    BY <2>1, Zenon DEF NextBlockMpi
  <2>3. v = x
    BY <1>2
  <2> HIDE DEF v
  <2> QED
    BY <2>2, <2>3
<1>5. row = [c \in 1 .. Width(x) |-> D[<<y(r) - 1, x + c - 1>>]]
  BY <1>1, <1>4, RowReceived DEF x
<1> HIDE DEF row
<1>6. Len(row) = Width(x)
  BY <1>3, <1>5
<1>7. ASSUME NEW c \in Cells, c[1] = y(r) - 1, c[2] \in x .. x + Width(x) - 1
      PROVE  row[c[2] - x + 1] = D[c]
  <2>1. c[2] \in Int /\ c = <<c[1], c[2]>>
    BY <1>1 DEF Cells
  <2>2. c[2] - x + 1 \in 1 .. Width(x) /\ x + (c[2] - x + 1) - 1 = c[2]
    BY <1>3, <1>7, <2>1
  <2>3. row[c[2] - x + 1] = D[<<y(r) - 1, c[2]>>]
    BY <1>5, <2>2
  <2> QED
    BY <1>7, <2>1, <2>3
<1>8. [c \in Cells |-> IF c[1] = y(r) - 1 /\ c[2] \in x .. x + Len(row) - 1 THEN row[c[2] - x + 1] ELSE grid[r][c]]
        = [c \in Cells |-> IF c[1] = y(r) - 1 /\ c[2] \in x .. x + Width(x) - 1 THEN D[c] ELSE grid[r][c]]
  BY <1>6, <1>7
<1> QED
  BY <1>4, <1>8 DEF x

LEMMA GridNextMpi ==
    ASSUME IInv, Right, NEW r \in Ranks, Moves(r), NextBlockMpi(r)
    PROVE  GridRight'
<1> DEFINE x == Following(next[r])
<1>1. /\ Shape /\ Queues /\ Chained /\ GridRight /\ input \in Inputs /\ input' = input
      /\ ~Threads /\ Mpi /\ ~Diagonals /\ pc[r] = "next"
      /\ input.m \in Nat /\ input.n \in Nat
  <2>1. Shape /\ Queues /\ Chained /\ GridRight
    BY DEF IInv
  <2> QED
    BY <2>1, InputOK, ThreeVersions, NextMpiPlace DEF Moves, Shape, NextBlockMpi, Nonzero
<1>2. \/ /\ pc'[r] = "take" /\ UNCHANGED <<grid, block, net>>
      \/ /\ x <= input.m /\ StartBlock(r, x)
         /\ pc'[r] \in {"cells", "pass"}
         /\ next'[r] = x
         /\ r = 0 => UNCHANGED <<grid, net>>
  BY <1>1, NextMpiPlace
<1>3. CASE pc'[r] = "take" /\ UNCHANGED <<grid, block, net>>
  <2>1. next' = next /\ w' = w /\ grid' = grid
    BY <1>3 DEF block
  <2>2. RowRight(r)'
    BY <1>1, <2>1, RowStays DEF GridRight
  <2> QED
    BY <1>1, <1>3, <2>1, <2>2, FilledQuiet, GridKept
<1>4. CASE /\ x <= input.m /\ StartBlock(r, x)
           /\ next'[r] = x
           /\ r = 0 => UNCHANGED <<grid, net>>
  <2>1. \A i \in Band(r), j \in 1 .. input.m : Filled(r, i, j)' => Filled(r, i, j)
    BY <1>1, <1>4, FilledNext
  <2>2. CASE r = 0
    <3>1. RowRight(r)'
      BY <2>2 DEF RowRight
    <3> QED
      BY <1>4, <2>1, <2>2, <3>1, GridKept
  <2>3. CASE r # 0
    <3> DEFINE g == [c \in Cells |->
                 IF c[1] = y(r) - 1 /\ c[2] \in x .. x + Width(x) - 1 THEN D[c] ELSE grid[r][c]]
    <3>1. grid' = [grid EXCEPT ![r] = g]
      BY <1>4, <2>3, GridReceived
    <3>2. \A t : G(t) = t
      BY <1>1 DEF G
    <3>3. /\ D \in [Cells -> Cell] /\ Borders(D)
      BY <1>1, Table DEF IsTable, Borders
    <3>4. /\ grid \in [Ranks -> [Cells -> Cell]] /\ {G(t) : t \in Ranks} = Ranks
      <4>1. {G(t) : t \in Ranks} = Ranks
        BY <3>2
      <4> QED
        BY <1>1, <4>1 DEF GridRight
    <3>5. g \in [Cells -> Cell]
      BY <3>3, <3>4
    <3>6. grid' \in [Ranks -> [Cells -> Cell]] /\ grid'[r] = g /\ \A t \in Ranks : t # r => grid'[t] = grid[t]
      BY <3>1, <3>4, <3>5
    <3>7. Borders(g)
      <4>1. Borders(grid[r])
        BY <1>1, <3>2 DEF GridRight
      <4> QED
        BY <3>3, <4>1 DEF Borders
    <3>8. /\ next'[r] = x /\ w'[r] = Width(x) /\ Width(x) \in Nat
      <4>1. next'[r] = x /\ w'[r] = Width(next'[r]) /\ w'[r] \in Nonzero
        BY <1>1, <1>4, BlockStarts
      <4> QED
        BY <4>1 DEF Nonzero
    <3>9. y(r) \in Nat /\ y(r) - 1 \in 1 .. input.n
      <4>1. y(r) \in Nonzero /\ y(r) - 1 = r * Height /\ y(r) - 1 <= input.n /\ Height \in Nonzero
        BY <1>1, Bands, Sizes
      <4>2. r \in Nat /\ r > 0
        BY <2>3, <1>1, ThreeVersions DEF Ranks
      <4>3. r * Height > 0
        BY <4>1, <4>2 DEF Nonzero
      <4> QED
        BY <1>1, <4>1, <4>3 DEF Nonzero
    <3> HIDE DEF x
    <3>10. ASSUME NEW t \in Ranks, t # r
           PROVE  BandRight(t)' /\ RowRight(t)'
      <4>1. /\ next'[t] = next[t] /\ w'[t] = w[t] /\ pc'[t] = pc[t] /\ cur'[t] = cur[t]
            /\ grid'[t] = grid[t] /\ BandRight(t) /\ RowRight(t)
        BY <1>1, <3>6, <3>10, OthersStay DEF GridRight
      <4>2. BandRight(t)'
        BY <1>1, <3>2, <4>1, FilledStays, BandStays
      <4>3. RowRight(t)'
        BY <1>1, <4>1, RowStays
      <4> QED
        BY <4>2, <4>3
    <3>11. BandRight(r)'
      <4>1. ASSUME NEW i \in Band(r), NEW j \in 1 .. input.m
            PROVE  g[<<i, j>>] = grid[r][<<i, j>>]
        <5>1. <<i, j>> \in Cells /\ i # y(r) - 1
          BY <1>1, <3>9 DEF Band, Cells
        <5> QED
          BY <5>1
      <4>2. BandRight(r)
        BY <1>1 DEF GridRight
      <4> HIDE DEF g
      <4> QED
        BY <1>1, <2>1, <3>2, <3>6, <4>1, <4>2, BandStays
    <3>12. RowRight(r)'
      <4>1. ASSUME NEW j \in 1 .. input.m, j < x + Width(x)
            PROVE  g[<<y(r) - 1, j>>] = D[<<y(r) - 1, j>>]
        <5>1. <<y(r) - 1, j>> \in Cells
          BY <1>1, <3>9 DEF Cells
        <5>2. CASE j >= x
          <6>1. j \in x .. x + Width(x) - 1
            BY <3>8, <4>1, <5>2, <1>1, Blocks DEF x, Shape, Place
          <6> QED
            BY <5>1, <6>1
        <5>3. CASE ~ (j >= x)
          <6>1. next[r] # 0 /\ x = next[r] + w[r]
            <7>1. x \in Int /\ (IF next[r] = 0 THEN 1 ELSE next[r] + w[r]) = x
              BY <1>1, FollowingBlock, Blocks DEF x, Shape, Place
            <7> QED
              BY <5>3, <7>1
          <6>2. j < next[r] + w[r]
            <7>1. x \in Int
              BY <1>1, Blocks DEF x, Shape, Place
            <7> QED
              BY <5>3, <6>1, <7>1
          <6>3. grid[r][<<y(r) - 1, j>>] = D[<<y(r) - 1, j>>]
            <7>1. RowRight(r) /\ r > 0
              BY <1>1, <2>3, ThreeVersions DEF GridRight, Ranks
            <7> QED
              BY <1>1, <6>1, <6>2, <7>1 DEF RowRight
          <6> QED
            BY <5>1, <6>3
        <5> QED
          BY <5>2, <5>3
      <4>2. D' = D /\ y(r)' = y(r)
        BY <1>1, TableStays, InputStays
      <4> HIDE DEF g
      <4> QED
        BY <1>1, <3>6, <3>8, <4>1, <4>2 DEF RowRight
    <3>13. Ranks' = Ranks /\ Cells' = Cells /\ (\A t : G(t)' = G(t))
      BY <1>1, InputStays
    <3>14. ASSUME NEW t \in Ranks
           PROVE  Borders(grid[G(t)])'
      <4>1. Borders(grid[t])
        BY <1>1, <3>2, <3>14 DEF GridRight
      <4>2. Borders(grid'[t])
        BY <3>6, <3>7, <4>1
      <4> QED
        BY <3>2, <3>13, <4>2 DEF Borders
    <3> HIDE DEF g
    <3>15. (grid \in [{G(t) : t \in Ranks} -> [Cells -> Cell]])'
      BY <3>4, <3>6, <3>13
    <3>16. \A t \in Ranks : BandRight(t)' /\ RowRight(t)'
      BY <3>10, <3>11, <3>12
    <3> QED
      BY <3>13, <3>14, <3>15, <3>16 DEF GridRight
  <2> QED
    BY <2>2, <2>3
<1> QED
  BY <1>2, <1>3, <1>4
\* The cell a thread or rank is at, and the three cells it is made from.
LEMMA CellAt ==
    ASSUME IInv, NEW r \in Ranks, pc[r] = "cells"
    PROVE  /\ cur[r] = <<cur[r][1], cur[r][2]>> /\ cur[r][1] \in 1 .. input.n /\ cur[r][2] \in 1 .. input.m
           /\ cur[r][1] \in Band(r) /\ y(r) <= cur[r][1] /\ cur[r][1] <= y(r) + h[r] - 1
           /\ next[r] <= cur[r][2] /\ cur[r][2] <= next[r] + w[r] - 1
           /\ next[r] \in 1 .. input.m /\ w[r] \in Nat /\ w[r] = Width(next[r]) /\ h[r] \in Int /\ y(r) \in Nat
           /\ Following(next[r]) = next[r] + w[r]
           /\ \A a \in Band(r) : a <= y(r) + h[r] - 1
           /\ ~Diagonals /\ (Threads \/ Mpi)
<1>1. /\ Shape /\ input \in Inputs /\ input.m \in Nat /\ input.n \in Nat /\ ~Diagonals /\ (Threads \/ Mpi)
      /\ y(r) \in Nat /\ y(r) > 0 /\ Height \in Nat
  <2>1. Shape
    BY DEF IInv
  <2> QED
    <3>1. input \in Inputs /\ pc[r] \in Computing
      BY <2>1 DEF Shape, Computing
    <3>2. ~Diagonals /\ (Threads \/ Mpi)
      BY <2>1, <3>1, ByVersion, ThreeVersions
    <3>3. input.m \in Nonzero /\ input.n \in Nonzero /\ Height \in Nonzero /\ y(r) \in Nonzero
      BY <3>1, InputOK, Sizes, Bands
    <3> QED
      BY <2>1, <3>1, <3>2, <3>3 DEF Nonzero
<1>2. Place(r) /\ BlockAt(r) /\ cur[r] \in Int \X Int
  BY <1>1 DEF Shape
<1>3. next[r] \in 1 .. input.m /\ w[r] = Width(next[r]) /\ h[r] = CutHeight(r)
  BY <1>1, <1>2 DEF Place, BlockAt
<1>4. Width(next[r]) \in Nat /\ Following(next[r]) = next[r] + Width(next[r]) /\ Following(next[r]) <= input.m + 1
  <2>1. next[r] \in 0 .. input.m + 1
    BY <1>1, <1>3
  <2> QED
    BY <1>1, <1>3, <2>1, Blocks DEF Nonzero
<1>5. cur[r] \in (y(r) .. y(r) + h[r] - 1) \X (next[r] .. next[r] + w[r] - 1)
  BY <1>2 DEF BlockAt
<1>6. h[r] \in Int /\ y(r) + h[r] - 1 <= input.n /\ y(r) + h[r] - 1 < y(r) + Height
      /\ \A a \in Band(r) : a <= y(r) + h[r] - 1
  BY <1>1, <1>3 DEF CutHeight, Band
<1>7. /\ cur[r] = <<cur[r][1], cur[r][2]>> /\ cur[r][1] \in y(r) .. y(r) + h[r] - 1
      /\ cur[r][2] \in next[r] .. next[r] + w[r] - 1
  BY <1>2, <1>5
<1>8. /\ cur[r][1] \in 1 .. input.n /\ cur[r][1] \in Band(r) /\ cur[r][2] \in 1 .. input.m
  BY <1>1, <1>3, <1>4, <1>6, <1>7 DEF Band
<1> QED
  BY <1>1, <1>3, <1>4, <1>6, <1>7, <1>8

\* The cells above a block are right: the band above has finished that block.
LEMMA AboveRight ==
    ASSUME IInv, Right, NEW r \in Ranks, r > 0, pc[r] = "cells",
           NEW b \in 1 .. input.m, b < next[r] + w[r]
    PROVE  grid[G(r)][<<y(r) - 1, b>>] = D[<<y(r) - 1, b>>]
<1>1. /\ Shape /\ Chained /\ GridRight /\ input \in Inputs /\ input.m \in Nat /\ input.n \in Nat
      /\ r - 1 \in Ranks /\ r \in 1 .. input.p - 1
  <2>1. Shape /\ Chained /\ GridRight
    BY DEF IInv
  <2> QED
    BY <2>1, InputOK, Above DEF Shape, Nonzero
<1>2. /\ next[r] \in 1 .. input.m /\ w[r] \in Nat /\ w[r] = Width(next[r])
      /\ Following(next[r]) = next[r] + w[r] /\ ~Diagonals /\ (Threads \/ Mpi)
      /\ cur[r][1] \in 1 .. input.n /\ y(r) <= cur[r][1] /\ y(r) \in Nat
  BY CellAt
<1>3. CASE Mpi
  <2>1. G(r) = r /\ next[r] # 0
    BY <1>1, <1>2, <1>3, ThreeVersions DEF G
  <2>2. RowRight(r)
    BY <1>1 DEF GridRight
  <2> QED
    BY <1>3, <2>1, <2>2 DEF RowRight
<1>4. CASE Threads
  <2>1. G(r) = G(r - 1)
    BY <1>4 DEF G
  <2>2. y(r) - 1 \in Band(r - 1)
    <3>1. y(r) = y(r - 1) + Height /\ y(r - 1) \in Nonzero /\ Height \in Nonzero
      BY <1>1, Bands, Sizes
    <3> QED
      BY <1>1, <1>2, <3>1 DEF Band, Nonzero
  <2>3. PICK s \in Seq(1 .. input.m + 1) : Chain(next[r], Line(r, s), next[r - 1])
    <3>1. pc[r] \in Middle
      BY DEF Middle, Computing
    <3> QED
      BY <1>1, <3>1 DEF Chained, Linked
  <2>4. next[r - 1] \in 0 .. input.m + 1 /\ (pc[r - 1] \in {"cells", "pass"} => next[r - 1] \in 1 .. input.m + 1)
    BY <1>1, Above
  <2>5. Line(r, s) \in Seq(1 .. input.m + 1)
    BY <2>4, AppendProperties DEF Line
  <2>6. Filled(r - 1, y(r) - 1, b)
    <3>1. CASE Line(r, s) = << >>
      <4>1. next[r - 1] = next[r]
        BY <2>3, <3>1 DEF Chain
      <4>2. pc[r - 1] # "cells"
        <5> SUFFICES ASSUME pc[r - 1] = "cells"
                     PROVE  FALSE
          OBVIOUS
        <5>1. Line(r, s) = Append(s, next[r - 1]) /\ next[r - 1] \in 1 .. input.m + 1
          BY <2>4 DEF Line
        <5> QED
          BY <3>1, <5>1, AppendProperties
      <4>3. w[r - 1] = w[r]
        <5>1. BlockAt(r - 1)
          BY <1>1, <1>2 DEF Shape
        <5> QED
          BY <1>2, <4>1, <5>1 DEF BlockAt
      <4> QED
        BY <1>2, <4>1, <4>2, <4>3 DEF Filled
    <3>2. CASE Line(r, s) # << >>
      <4>1. next[r] \in 0 .. input.m + 1
        BY <1>1, <1>2
      <4>2. Following(next[r]) <= next[r - 1]
        BY <1>1, <2>3, <2>5, <3>2, <4>1, ChainAhead
      <4>3. b < next[r - 1]
        BY <1>2, <2>4, <4>2
      <4> QED
        BY <1>2, <4>3 DEF Filled
    <3> QED
      BY <3>1, <3>2
  <2> QED
    BY <1>1, <2>1, <2>2, <2>6 DEF GridRight, BandRight
<1> QED
  BY <1>2, <1>3, <1>4

\* A cell that is made from right ones is right.
LEMMA CellRight ==
    ASSUME input \in Inputs, NEW g, NEW i \in 1 .. input.n, NEW j \in 1 .. input.m,
           \A a \in 0 .. input.n, b \in 0 .. input.m :
             <<a, b>> \in {<<i - 1, j>>, <<i, j - 1>>, <<i - 1, j - 1>>} => g[<<a, b>>] = D[<<a, b>>]
    PROVE  lcs_cell(g, i, j) = D[<<i, j>>] /\ D[<<i, j>>] \in Cell /\ <<i, j>> \in Cells
<1>0. input.m \in Nat /\ input.n \in Nat
  BY InputOK DEF Nonzero
<1>1. /\ i - 1 \in 0 .. input.n /\ i \in 0 .. input.n /\ j - 1 \in 0 .. input.m /\ j \in 0 .. input.m
  BY <1>0
<1>2. /\ g[<<i - 1, j>>] = D[<<i - 1, j>>] /\ g[<<i, j - 1>>] = D[<<i, j - 1>>]
      /\ g[<<i - 1, j - 1>>] = D[<<i - 1, j - 1>>]
  BY <1>1
<1>3. lcs_cell(g, i, j) = lcs_cell(D, i, j)
  BY <1>2, CellSame
<1>4. IsTable(D) /\ <<i, j>> \in Cells
  BY Table, Neighbours
<1> QED
  BY <1>3, <1>4 DEF IsTable

LEMMA CellComputed ==
    ASSUME IInv, Right, NEW r \in Ranks, ComputeCell(r)
    PROVE  LET c == cur[r]
           IN  /\ grid' = [grid EXCEPT ![G(r)] = [grid[G(r)] EXCEPT ![c] = D[c]]]
               /\ D[c] \in Cell /\ c \in Cells
<1> DEFINE i == cur[r][1]
           j == cur[r][2]
           g == grid[G(r)]
<1>1. /\ Shape /\ GridRight /\ input \in Inputs /\ input.m \in Nat /\ input.n \in Nat /\ pc[r] = "cells"
      /\ Borders(g) /\ BandRight(r) /\ G(r) \in {G(t) : t \in Ranks}
  <2>1. Shape /\ GridRight /\ pc[r] = "cells"
    BY DEF IInv, ComputeCell
  <2> QED
    BY <2>1, InputOK DEF Shape, Nonzero, GridRight
<1>2. /\ cur[r] = <<i, j>> /\ i \in 1 .. input.n /\ j \in 1 .. input.m
      /\ i \in Band(r) /\ y(r) <= i
      /\ next[r] <= j /\ j <= next[r] + w[r] - 1
      /\ next[r] \in 1 .. input.m /\ w[r] \in Nat /\ y(r) \in Nat /\ ~Diagonals
  BY <1>1, CellAt
<1>3. ASSUME NEW a \in 0 .. input.n, NEW b \in 0 .. input.m,
             <<a, b>> \in {<<i - 1, j>>, <<i, j - 1>>, <<i - 1, j - 1>>}
      PROVE  g[<<a, b>>] = D[<<a, b>>]
  <2> HIDE DEF g, i, j
  <2>1. a \in {i - 1, i} /\ b \in {j - 1, j} /\ (a = i => b = j - 1)
    BY <1>2, <1>3
  <2>2. CASE a = 0 \/ b = 0
    <3>1. <<a, b>> \in Cells
      BY DEF Cells
    <3>2. Borders(D)
      BY <1>1, Table DEF IsTable, Borders
    <3> QED
      BY <1>1, <2>2, <3>1, <3>2 DEF Borders
  <2>3. CASE a # 0 /\ b # 0 /\ a >= y(r)
    <3>1. a \in Band(r) /\ b \in 1 .. input.m
      BY <1>1, <1>2, <2>1, <2>3, Sizes DEF Band, Nonzero
    <3>2. b < next[r] + w[r] /\ (a < i \/ (a = i /\ b < j))
      BY <1>2, <2>1
    <3>3. Filled(r, a, b)
      BY <1>2, <3>2 DEF Filled, i, j
    <3> QED
      BY <1>1, <3>1, <3>3 DEF BandRight, g
  <2>4. CASE a # 0 /\ b # 0 /\ ~ (a >= y(r))
    <3>1. a = y(r) - 1 /\ b \in 1 .. input.m /\ b < next[r] + w[r]
      BY <1>1, <1>2, <2>1, <2>4
    <3>2. r > 0
      <4>1. r # 0
        BY <2>4, <3>1, <1>1, Bands
      <4> QED
        BY <1>1, <4>1, ThreeVersions DEF Ranks
    <3> QED
      BY <1>1, <3>1, <3>2, AboveRight DEF g
  <2> QED
    BY <2>2, <2>3, <2>4
<1> HIDE DEF g, i, j
<1>4. lcs_cell(g, i, j) = D[<<i, j>>] /\ D[<<i, j>>] \in Cell /\ <<i, j>> \in Cells
  BY <1>1, <1>2, <1>3, CellRight
<1>5. grid' = [grid EXCEPT ![G(r)][<<i, j>>] = lcs_cell(grid[G(r)], i, j)]
  BY DEF ComputeCell, i, j
<1>6. grid' = [grid EXCEPT ![G(r)] = [grid[G(r)] EXCEPT ![<<i, j>>] = D[<<i, j>>]]]
  BY <1>4, <1>5 DEF g
<1> QED
  BY <1>2, <1>4, <1>6

LEMMA GridCompute ==
    ASSUME IInv, Right, NEW r \in Ranks, Moves(r), ComputeCell(r)
    PROVE  GridRight'
<1> DEFINE i == cur[r][1]
           j == cur[r][2]
           c == cur[r]
           g == [grid[G(r)] EXCEPT ![c] = D[c]]
           last == y(r) + h[r] - 1
           lastcol == next[r] + w[r] - 1
<1>1. /\ Shape /\ GridRight /\ input \in Inputs /\ input' = input /\ input.m \in Nat /\ input.n \in Nat
      /\ pc[r] = "cells" /\ G(r) \in {G(t) : t \in Ranks}
      /\ grid \in [{G(t) : t \in Ranks} -> [Cells -> Cell]]
  <2>1. Shape /\ GridRight /\ pc[r] = "cells"
    BY DEF IInv, ComputeCell
  <2> QED
    BY <2>1, InputOK DEF Shape, Nonzero, GridRight, Moves
<1>2. /\ c = <<i, j>> /\ i \in 1 .. input.n /\ j \in 1 .. input.m
      /\ i \in Band(r) /\ y(r) <= i /\ i <= last
      /\ next[r] <= j /\ j <= lastcol
      /\ next[r] \in 1 .. input.m /\ w[r] \in Nat /\ y(r) \in Nat /\ h[r] \in Int /\ ~Diagonals
      /\ \A a \in Band(r) : a <= last
      /\ Threads \/ Mpi
  BY <1>1, CellAt
<1>3. /\ grid' = [grid EXCEPT ![G(r)] = g] /\ D[c] \in Cell /\ c \in Cells
  BY CellComputed
<1>4. g \in [Cells -> Cell] /\ g[c] = D[c] /\ \A e \in Cells : e # c => g[e] = grid[G(r)][e]
  BY <1>1, <1>3
<1> HIDE DEF g
<1>5. /\ grid' \in [{G(t) : t \in Ranks} -> [Cells -> Cell]] /\ grid'[G(r)] = g
      /\ \A t \in Ranks : G(t) # G(r) => grid'[G(t)] = grid[G(t)]
  BY <1>1, <1>3, <1>4
<1>6. /\ next' = next /\ w' = w
      /\ cur'[r] = IF j < lastcol THEN <<i, j + 1>> ELSE <<i + 1, next[r]>>
      /\ pc'[r] = IF j = lastcol /\ i = last THEN "pass" ELSE "cells"
  BY <1>1 DEF ComputeCell, Goto, Shape
<1>7. D' = D /\ Ranks' = Ranks /\ Cells' = Cells /\ (\A t : G(t)' = G(t) /\ Band(t)' = Band(t)) /\ ~Diagonals'
  BY <1>1, <1>2, TableStays, InputStays
<1>8. BandRight(r)'
  <2>1. ASSUME NEW a \in Band(r), NEW b \in 1 .. input.m, Filled(r, a, b)'
        PROVE  g[<<a, b>>] = D[<<a, b>>]
    <3>1. <<a, b>> \in Cells /\ a <= last /\ a \in Nat
      BY <1>1, <1>2 DEF Band, Cells
    <3> HIDE DEF c, i, j, last, lastcol
    <3>2. CASE <<a, b>> = c
      BY <1>4, <3>2
    <3>3. CASE <<a, b>> # c
      <4>1. \/ b < next[r]
            \/ /\ b < next[r] + w[r]
               /\ pc'[r] = "cells" => a < cur'[r][1] \/ (a = cur'[r][1] /\ b < cur'[r][2])
        BY <1>6, <1>7, <2>1 DEF Filled
      <4>2. \/ b < next[r]
            \/ b < next[r] + w[r] /\ (a < i \/ (a = i /\ b < j))
        <5>1. CASE b < next[r]
          BY <5>1
        <5>2. CASE pc'[r] = "cells" /\ ~ (b < next[r])
          <6>1. b < next[r] + w[r] /\ (a < cur'[r][1] \/ (a = cur'[r][1] /\ b < cur'[r][2]))
            BY <4>1, <5>2
          <6>2. CASE j < lastcol
            <7>1. cur'[r] = <<i, j + 1>>
              BY <1>6, <6>2
            <7> QED
              BY <1>2, <3>1, <3>3, <6>1, <7>1
          <6>3. CASE ~ (j < lastcol)
            <7>1. cur'[r] = <<i + 1, next[r]>> /\ j = lastcol
              BY <1>2, <1>6, <6>3 DEF lastcol
            <7>2. a <= i /\ b <= j
              BY <1>2, <3>1, <5>2, <6>1, <7>1 DEF lastcol
            <7> QED
              BY <1>2, <3>1, <3>3, <6>1, <7>2
          <6> QED
            BY <6>2, <6>3
        <5>3. CASE pc'[r] # "cells" /\ ~ (b < next[r])
          <6>1. j = lastcol /\ i = last /\ b < next[r] + w[r]
            BY <1>6, <4>1, <5>3
          <6>2. a <= i /\ b <= j
            BY <1>2, <3>1, <6>1 DEF lastcol
          <6> QED
            BY <1>2, <3>1, <3>3, <6>1, <6>2
        <5> QED
          BY <5>1, <5>2, <5>3
      <4>3. Filled(r, a, b)
        BY <1>1, <1>2, <4>2 DEF Filled, i, j
      <4>4. BandRight(r)
        BY <1>1 DEF GridRight
      <4> QED
        BY <1>4, <3>1, <3>3, <4>3, <4>4 DEF BandRight
    <3> QED
      BY <3>2, <3>3
  <2> QED
    BY <1>1, <1>5, <1>7, <2>1 DEF BandRight
<1>9. ASSUME NEW t \in Ranks, t # r
      PROVE  BandRight(t)'
  <2>1. /\ next'[t] = next[t] /\ w'[t] = w[t] /\ pc'[t] = pc[t] /\ cur'[t] = cur[t] /\ BandRight(t)
    BY <1>1, <1>9, OthersStay DEF GridRight
  <2>2. ASSUME NEW a \in Band(t), NEW b \in 1 .. input.m
        PROVE  grid'[G(t)][<<a, b>>] = grid[G(t)][<<a, b>>]
    <3>1. CASE G(t) # G(r)
      BY <1>5, <3>1
    <3>2. CASE G(t) = G(r)
      <4>1. <<a, b>> \in Cells
        BY <1>1 DEF Band, Cells
      <4>2. a # i
        <5>1. t < r \/ r < t
          BY <1>9, <1>1, ThreeVersions DEF Ranks
        <5>2. t < r => y(t) + Height <= y(r)
          BY <1>1, Bands
        <5>3. r < t => y(r) + Height <= y(t)
          BY <1>1, Bands
        <5>4. y(t) \in Int /\ y(r) \in Int /\ Height \in Int
          BY <1>1, Bands, Sizes DEF Nonzero
        <5> QED
          BY <1>2, <5>1, <5>2, <5>3, <5>4 DEF Band
      <4>3. <<a, b>> # c
        BY <1>2, <4>2
      <4> QED
        BY <1>4, <1>5, <3>2, <4>1, <4>3
    <3> QED
      BY <3>1, <3>2
  <2> QED
    BY <1>1, <2>1, <2>2, FilledStays, BandStays
<1>10. ASSUME NEW t \in Ranks
       PROVE  RowRight(t)'
  <2>1. RowRight(t)
    BY <1>1 DEF GridRight
  <2>2. ASSUME Mpi, t > 0, NEW b \in 1 .. input.m
        PROVE  grid'[t][<<y(t) - 1, b>>] = grid[t][<<y(t) - 1, b>>]
    <3>1. \A u : G(u) = u
      BY <2>2, <1>1, ThreeVersions DEF G
    <3>2. CASE t # r
      BY <1>5, <3>1, <3>2
    <3>3. CASE t = r
      <4>1. y(t) - 1 \in 0 .. input.n
        <5>1. y(t) \in Nonzero /\ y(t) - 1 <= input.n
          BY <1>1, <2>2, Bands
        <5> QED
          BY <1>1, <5>1 DEF Nonzero
      <4>2. <<y(t) - 1, b>> \in Cells
        BY <1>1, <4>1 DEF Cells
      <4>3. y(t) - 1 # i
        BY <1>2, <3>3
      <4>4. <<y(t) - 1, b>> # c
        BY <1>2, <4>3
      <4> QED
        BY <1>4, <1>5, <3>1, <3>3, <4>2, <4>4
    <3> QED
      BY <3>2, <3>3
  <2> QED
    BY <1>1, <1>6, <2>1, <2>2, RowStays
<1>11. ASSUME NEW t \in Ranks
       PROVE  Borders(grid[G(t)])'
  <2>1. Borders(grid[G(t)])
    BY <1>1 DEF GridRight
  <2>2. Borders(grid'[G(t)])
    <3>1. CASE G(t) # G(r)
      BY <1>5, <2>1, <3>1
    <3>2. CASE G(t) = G(r)
      <4>1. c[1] # 0 /\ c[2] # 0
        BY <1>2
      <4> HIDE DEF c
      <4> QED
        BY <1>4, <1>5, <2>1, <3>2, <4>1 DEF Borders
    <3> QED
      BY <3>1, <3>2
  <2> QED
    BY <1>7, <2>2 DEF Borders
<1>12. (grid \in [{G(t) : t \in Ranks} -> [Cells -> Cell]])'
  BY <1>5, <1>7
<1>13. \A t \in Ranks : BandRight(t)' /\ RowRight(t)'
  BY <1>8, <1>9, <1>10
<1> QED
  BY <1>7, <1>11, <1>12, <1>13 DEF GridRight
\* Rows do not overlap when they are not longer than their memory.
LEMMA GridCellOne ==
    ASSUME input \in Inputs, input.m <= input.n, NEW c \in Cells, NEW e \in Cells, grid_cell(c) = grid_cell(e)
    PROVE  c = e
<1> DEFINE n == input.n + 1
<1>1. /\ n \in Nat /\ n > 0 /\ c[1] \in Nat /\ e[1] \in Nat /\ c[2] \in 0 .. n - 1 /\ e[2] \in 0 .. n - 1
      /\ c = <<c[1], c[2]>> /\ e = <<e[1], e[2]>>
  <2>1. c \in (0 .. input.n) \X (0 .. input.m) /\ e \in (0 .. input.n) \X (0 .. input.m)
    BY DEF Cells
  <2>2. input.n \in Nat /\ input.m \in Nat
    BY InputSizes
  <2>3. /\ c = <<c[1], c[2]>> /\ c[1] \in 0 .. input.n /\ c[2] \in 0 .. input.m
        /\ e = <<e[1], e[2]>> /\ e[1] \in 0 .. input.n /\ e[2] \in 0 .. input.m
    BY <2>1
  <2> QED
    BY <2>2, <2>3
<1>2. n * c[1] + c[2] = n * e[1] + e[2]
  BY DEF grid_cell
<1> HIDE DEF n
<1>3. ASSUME NEW a \in Nat, NEW b \in Nat, a < b
      PROVE  n * a + n <= n * b
  <2>1. n * b = n * a + n + n * (b - a - 1)
    BY <1>1
  <2>2. n * (b - a - 1) >= 0 /\ n * (b - a - 1) \in Int /\ n * a \in Int /\ n * b \in Int
    BY <1>1, <1>3
  <2> QED
    BY <1>1, <2>1, <2>2
<1>4. n * c[1] \in Int /\ n * e[1] \in Int
  BY <1>1
<1>5. ~ (c[1] < e[1]) /\ ~ (e[1] < c[1])
  BY <1>1, <1>2, <1>3, <1>4
<1>6. c[1] = e[1] /\ c[2] = e[2]
  <2>1. c[1] = e[1]
    BY <1>1, <1>5
  <2>2. n * c[1] = n * e[1]
    BY <2>1
  <2> DEFINE a == n * c[1]
  <2>3. a \in Int /\ a + c[2] = a + e[2] /\ c[2] \in Int /\ e[2] \in Int
    BY <1>1, <1>2, <1>4, <2>2
  <2> HIDE DEF a
  <2>4. \A k, l, o \in Int : k + l = k + o => l = o
    OBVIOUS
  <2>5. c[2] = e[2]
    BY <2>3, <2>4, Zenon
  <2> QED
    BY <2>1, <2>5
<1> QED
  BY <1>1, <1>6

LEMMA GridDiagonal ==
    ASSUME IInv, Right, NEW r \in Ranks, Moves(r), DiagonalCell(r)
    PROVE  GridRight'
<1> DEFINE i == cur[r][1]
           j == cur[r][2]
           c == cur[r]
           d == i + j - 1
           sx == Max({d + 1 - input.m + 1, 1})
           g == grid[0]
<1>1. /\ Shape /\ GridRight /\ input \in Inputs /\ input' = input /\ input.m \in Nat /\ input.n \in Nat
      /\ pc[r] = "diagonal" /\ Diagonals /\ ~Threads /\ ~Mpi /\ r = 0 /\ Ranks = {0} /\ input.m <= input.n
      /\ pc \in [Ranks -> LabelsOf]
  <2>1. Shape /\ GridRight /\ pc[r] = "diagonal"
    BY DEF IInv, DiagonalCell
  <2> QED
    <3>1. input \in Inputs /\ input' = input /\ pc \in [Ranks -> LabelsOf]
      BY <2>1 DEF Shape, Moves
    <3>2. Diagonals /\ ~Threads /\ ~Mpi /\ Ranks = {0}
      BY <2>1, ByVersion, ThreeVersions
    <3>3. input.m \in Nat /\ input.n \in Nat
      BY <3>1, InputOK DEF Nonzero
    <3>4. input.m <= input.n /\ r = 0
      BY <3>2 DEF Right
    <3> QED
      BY <2>1, <3>1, <3>2, <3>3, <3>4
<1>2. /\ c = <<i, j>> /\ i \in 1 .. input.n /\ j \in 1 .. input.m
  BY <1>1 DEF Shape, Place
<1>3. (\A t : G(t) = t) /\ {G(t) : t \in Ranks} = {0}
  BY <1>1 DEF G
<1>4. grid \in [{0} -> [Cells -> Cell]] /\ Borders(g) /\ BandRight(r) /\ Borders(D)
  BY <1>1, <1>3, Table DEF GridRight, IsTable, Borders
<1>5. Band(r) = 1 .. input.n
  <2>1. \A a \in 1 .. input.n : a \in Band(r)
    BY <1>1, Bands
  <2> QED
    BY <2>1 DEF Band
<1>6. /\ grid' = [grid EXCEPT ![G(r)] = [e \in Cells |->
           IF grid_cell(e) = grid_cell(cur[r]) THEN lcs_cell(grid[G(r)], i, j) ELSE grid[G(r)][e]]]
      /\ cur'[r] = IF i < Min({d, input.n}) THEN <<i + 1, j - 1>> ELSE <<sx, d + 2 - sx>>
      /\ pc'[r] = IF d = input.n + input.m - 1 THEN "take" ELSE "diagonal"
      /\ next' = next /\ w' = w
  BY <1>1 DEF DiagonalCell, Goto, Shape
<1>7. Min({d, input.n}) = IF d <= input.n THEN d ELSE input.n
  BY <1>1, <1>2, MinOfTwo
<1>8. sx = IF d + 1 - input.m + 1 >= 1 THEN d + 1 - input.m + 1 ELSE 1
  BY <1>1, <1>2, MaxOfTwo
<1> HIDE DEF g, sx
<1>9. ASSUME NEW a \in 0 .. input.n, NEW b \in 0 .. input.m,
             <<a, b>> \in {<<i - 1, j>>, <<i, j - 1>>, <<i - 1, j - 1>>}
      PROVE  g[<<a, b>>] = D[<<a, b>>]
  <2>1. <<a, b>> \in Cells
    BY DEF Cells
  <2>2. CASE a = 0 \/ b = 0
    BY <1>4, <2>1, <2>2 DEF Borders
  <2>3. CASE a # 0 /\ b # 0
    <3>1. a \in Band(r) /\ b \in 1 .. input.m
      BY <1>1, <1>5, <2>3
    <3>2. a + b < i + j
      BY <1>1, <1>2, <1>9
    <3>3. Filled(r, a, b)
      BY <1>1, <3>2 DEF Filled
    <3> QED
      BY <1>1, <1>3, <1>4, <3>1, <3>3 DEF BandRight, g
  <2> QED
    BY <2>2, <2>3
<1>10. lcs_cell(g, i, j) = D[c] /\ D[c] \in Cell /\ c \in Cells
  <2> HIDE DEF c, i, j
  <2>1. lcs_cell(g, i, j) = D[<<i, j>>] /\ D[<<i, j>>] \in Cell /\ <<i, j>> \in Cells
    BY <1>1, <1>2, <1>9, CellRight
  <2> QED
    BY <1>2, <2>1
<1>11. \A e \in Cells : grid_cell(e) = grid_cell(c) <=> e = c
  BY <1>1, <1>10, GridCellOne
<1>12. grid' = [grid EXCEPT ![0] = [e \in Cells |-> IF e = c THEN D[c] ELSE g[e]]]
  <2>1. grid' = [grid EXCEPT ![0] = [e \in Cells |-> IF grid_cell(e) = grid_cell(c) THEN D[c] ELSE g[e]]]
    BY <1>1, <1>3, <1>6, <1>10 DEF g
  <2> HIDE DEF c
  <2> QED
    BY <2>1, <1>11
<1>13. /\ grid' \in [{0} -> [Cells -> Cell]] /\ grid'[0][c] = D[c]
       /\ \A e \in Cells : e # c => grid'[0][e] = g[e]
  <2> HIDE DEF c
  <2> QED
    BY <1>4, <1>10, <1>12 DEF g
<1>14. /\ D' = D /\ Ranks' = Ranks /\ Cells' = Cells /\ (\A t : G(t)' = G(t) /\ Band(t)' = Band(t))
       /\ Diagonals' /\ ~Mpi'
  BY <1>1, TableStays, InputStays
<1>15. BandRight(r)'
  <2>1. ASSUME NEW a \in Band(r), NEW b \in 1 .. input.m, Filled(r, a, b)'
        PROVE  grid'[0][<<a, b>>] = D[<<a, b>>]
    <3>1. <<a, b>> \in Cells /\ a \in 1 .. input.n
      BY <1>1, <1>5 DEF Cells
    <3>2. CASE <<a, b>> = c
      BY <1>13, <3>2
    <3>3. CASE <<a, b>> # c
      <4>1. \/ pc'[r] # "diagonal"
            \/ a + b < cur'[r][1] + cur'[r][2]
            \/ a + b = cur'[r][1] + cur'[r][2] /\ a < cur'[r][1]
        BY <1>14, <2>1 DEF Filled
      <4>2. a + b < i + j \/ (a + b = i + j /\ a < i)
        <5>0. ~ (a = i /\ b = j)
          BY <1>2, <3>3
        <5> HIDE DEF c, i, j
        <5>1. CASE pc'[r] # "diagonal"
          <6>1. i + j - 1 = input.n + input.m - 1
            BY <1>6, <5>1
          <6> QED
            BY <1>1, <1>2, <3>1, <5>0, <6>1
        <5>2. CASE pc'[r] = "diagonal" /\ i < Min({d, input.n})
          <6>1. cur'[r] = <<i + 1, j - 1>>
            BY <1>6, <5>2
          <6>2. a + b < i + j \/ (a + b = i + j /\ a < i + 1)
            BY <1>1, <1>2, <3>1, <4>1, <5>2, <6>1
          <6> QED
            BY <1>1, <1>2, <3>1, <5>0, <6>2
        <5>3. CASE pc'[r] = "diagonal" /\ ~ (i < Min({d, input.n}))
          <6>1. cur'[r] = <<sx, d + 2 - sx>>
            BY <1>6, <5>3
          <6>2. sx \in Int /\ (sx = 1 \/ sx = d + 2 - input.m) /\ d = i + j - 1
            BY <1>1, <1>2, <1>8
          <6>3. a + b < i + j + 1 \/ (a + b = i + j + 1 /\ a < sx)
            BY <1>1, <1>2, <3>1, <4>1, <5>3, <6>1, <6>2
          <6>4. ~ (a + b = i + j + 1 /\ a < sx)
            BY <1>1, <1>2, <3>1, <6>2
          <6>5. i >= d \/ i >= input.n
            BY <1>1, <1>2, <1>7, <5>3
          <6> QED
            BY <1>1, <1>2, <3>1, <5>0, <6>2, <6>3, <6>4, <6>5
        <5> QED
          BY <5>1, <5>2, <5>3
      <4>3. Filled(r, a, b)
        BY <1>1, <4>2 DEF Filled
      <4> QED
        BY <1>1, <1>3, <1>4, <1>13, <3>1, <3>3, <4>3 DEF BandRight, g
    <3> QED
      BY <3>2, <3>3
  <2> QED
    BY <1>1, <1>3, <1>14, <2>1 DEF BandRight
<1>16. RowRight(r)'
  BY <1>14 DEF RowRight
<1>17. Borders(grid[0])'
  <2>1. c[1] # 0 /\ c[2] # 0
    BY <1>2
  <2> HIDE DEF c
  <2> QED
    BY <1>4, <1>13, <1>14, <2>1 DEF Borders
<1>18. (grid \in [{G(t) : t \in Ranks} -> [Cells -> Cell]])'
  BY <1>3, <1>13, <1>14
<1> QED
  BY <1>1, <1>3, <1>14, <1>15, <1>16, <1>17, <1>18 DEF GridRight

LEMMA GridStep ==
    ASSUME IInv, NEW r \in Ranks, Rank(r), Right
    PROVE  GridRight'
<1>1. Moves(r)
  BY RankMoves DEF IInv
<1> QED
  BY <1>1, GridQuiet, GridNext, GridNextMpi, GridCompute, GridDiagonal DEF Rank
-----------------------------------------------------------------------------
(* The way back *)

LEMMA PathStays ==
    ASSUME input \in Inputs, input' = input
    PROVE  \A k \in Nat : lcs_backtrack_steps'[k] = lcs_backtrack_steps[k]
<1> DEFINE L == lcs_backtrack_steps
           S == {k \in Nat : L'[k] = L[k]}
<1>1. (input \in Inputs => /\ lcs_backtrack_steps[0] = Start
                           /\ \A k \in Nat : lcs_backtrack_steps[k] \in PathPlaces
                           /\ \A k \in Nat : lcs_backtrack_steps[k + 1] = Back(lcs_backtrack_steps[k]))'
  BY BacktrackSteps, PTL
<1>2. D' = D
  BY TableStays
<1>3. L'[0] = Start /\ L[0] = Start
  BY <1>1, BacktrackSteps DEF Start
<1>4. \A s : Back(s)' = Back(s)
  BY <1>2 DEF Back, StepBack
<1>5. \A k \in Nat : L'[k + 1] = Back(L'[k]) /\ L[k + 1] = Back(L[k])
  <2>1. \A k \in Nat : L'[k + 1] = Back(L'[k])
    BY <1>1, <1>2 DEF Back, StepBack
  <2> QED
    BY <2>1, BacktrackSteps
<1>6. 0 \in S
  BY <1>3
<1>7. ASSUME NEW k \in Nat, k \in S
      PROVE  k + 1 \in S
  BY <1>5, <1>7
<1> HIDE DEF S
<1>8. \A k \in Nat : k \in S
  BY <1>6, <1>7, Induction
<1> QED
  BY <1>8 DEF S

LEMMA HeldStays ==
    ASSUME input \in Inputs, input' = input, NEW t
    PROVE  Held(t)' = Held(t)
<1>1. (Mpi' <=> Mpi) /\ Height' = Height
  BY InputStays
<1>2. input.n + input.m \in Nat
  BY InputOK DEF Nonzero
<1>3. \A k \in 0 .. input.n + input.m : lcs_backtrack_steps'[k] = lcs_backtrack_steps[k]
  BY <1>2, PathStays
<1> QED
  BY <1>1, <1>3 DEF Held, Steps

\* While a thread is not at the backtracking, none is.
LEMMA BatonLater ==
    ASSUME IInv, Threads, NEW r \in Ranks, Rank(r), pc[r] \notin Final
    PROVE  Baton'
<1>1. /\ Shape /\ Together /\ Moves(r) /\ PlaceAfter(r) /\ Ranks' = Ranks /\ (Threads' <=> Threads) /\ Together'
  BY RankMoves, PlaceStep, ShapeStep, InputStays DEF IInv, Moves
<1>2. pc'[r] \notin Final
  BY <1>1 DEF PlaceAfter
<1>3. \A t \in Ranks : pc'[t] \notin Final
  BY <1>1, <1>2 DEF Together, Final
<1>4. Threads'
  BY <1>1
<1> QED
  BY <1>1, <1>3, <1>4 DEF Baton, Bearer, Gone, Final

\* What a step leaves alone.
LEMMA BearerStays ==
    ASSUME input \in Inputs, input' = input, NEW t \in Ranks, Bearer(t),
           Handed(t)' = Handed(t), state'[t] = state[t], pc'[t] = "back" <=> pc[t] = "back",
           pc'[t] \in Gone <=> pc[t] \in Gone, Threads /\ pc'[t] = "take" => pc[t] = "take",
           \A u \in Ranks : pc[u] \in Gone => pc'[u] \in Gone,
           t # input.p - 1 => (pc'[t + 1] \in Gone <=> pc[t + 1] \in Gone)
    PROVE  Bearer(t)'
<1>1. Ranks' = Ranks /\ (Threads' <=> Threads) /\ Held(t)' = Held(t)
  BY InputStays, HeldStays
<1>2. ASSUME pc'[t] \in {"back"} \cup Gone
      PROVE  Handed(t)' = << >> /\ \A u \in Ranks : u > t => pc'[u] \in Gone
  BY <1>2 DEF Bearer
<1>3. ASSUME pc'[t] \notin {"back"} \cup Gone, Threads => pc'[t] = "take"
      PROVE  IF t = input.p - 1 \/ pc'[t + 1] \notin Gone THEN Handed(t)' = << >>
             ELSE \E s \in Held(t) : Handed(t)' = <<s>>
  BY <1>3 DEF Bearer
<1>4. pc'[t] = "back" => state'[t] \in Held(t)
  BY DEF Bearer
<1> QED
  BY <1>1, <1>2, <1>3, <1>4 DEF Bearer, Gone
\* What the proofs about one step of the backtracking begin with.
LEMMA BatonStart ==
    ASSUME IInv, Right, NEW r \in Ranks, Rank(r)
    PROVE  /\ Shape /\ Together /\ Queues /\ Baton /\ input \in Inputs /\ input' = input /\ Moves(r)
           /\ q \in [Ranks -> Queue] /\ net \in [{"block", "state"} -> [Ranks -> Messages]]
           /\ Ranks \subseteq Nat /\ pc'[r] \in LabelsOf /\ Ranks' = Ranks /\ (Threads' <=> Threads)
           /\ \A t \in Ranks : t # input.p - 1 <=> t + 1 \in Ranks
           /\ pc = [t \in Ranks |-> pc[t]]
<1>1. Shape /\ Together /\ Queues /\ Baton /\ Moves(r)
  BY RankMoves DEF IInv
<1>2. input \in Inputs /\ input' = input /\ pc'[r] \in LabelsOf /\ pc = [t \in Ranks |-> pc[t]]
  BY <1>1, PlaceStep DEF Shape, Moves, PlaceAfter, IInv
<1>3. input.p \in Nat
  BY <1>2, InputOK DEF Nonzero
<1>4. Ranks \subseteq Nat /\ \A t \in Ranks : t # input.p - 1 <=> t + 1 \in Ranks
  BY <1>3 DEF Ranks
<1>5. Ranks' = Ranks /\ (Threads' <=> Threads)
  BY <1>2, InputStays
<1> QED
  BY <1>1, <1>2, <1>4, <1>5 DEF Queues

\* A step that changes neither what is handed on nor who has had it.
LEMMA BatonQuiet ==
    ASSUME IInv, Right, NEW r \in Ranks, Rank(r),
           \A t \in Ranks : Handed(t)' = Handed(t), state' = state, pc'[r] = "back" <=> pc[r] = "back",
           pc'[r] \in Gone <=> pc[r] \in Gone, Threads /\ pc'[r] = "take" => pc[r] = "take"
    PROVE  Baton'
<1>1. /\ input \in Inputs /\ input' = input /\ Shape /\ Moves(r) /\ Baton /\ Ranks' = Ranks
      /\ \A t \in Ranks : t # input.p - 1 <=> t + 1 \in Ranks
  BY BatonStart
<1>2. \A t \in Ranks : /\ pc'[t] = "back" <=> pc[t] = "back"
                       /\ pc'[t] \in Gone <=> pc[t] \in Gone
                       /\ Threads /\ pc'[t] = "take" => pc[t] = "take"
  <2> SUFFICES ASSUME NEW t \in Ranks
               PROVE  /\ pc'[t] = "back" <=> pc[t] = "back"
                      /\ pc'[t] \in Gone <=> pc[t] \in Gone
                      /\ Threads /\ pc'[t] = "take" => pc[t] = "take"
    OBVIOUS
  <2>1. CASE t = r
    BY <2>1
  <2>2. CASE t # r
    BY <1>1, <2>2, OthersStay
  <2> QED
    BY <2>1, <2>2
<1>3. ASSUME NEW t \in Ranks
      PROVE  Bearer(t)'
  BY <1>1, <1>2, BearerStays DEF Baton
<1> QED
  BY <1>1, <1>3 DEF Baton

\* A thread or rank other than the one that moves.
LEMMA BearerOther ==
    ASSUME IInv, Right, NEW r \in Ranks, Rank(r), NEW t \in Ranks, t # r, Handed(t)' = Handed(t),
           pc[r] \in Gone => pc'[r] \in Gone,
           t + 1 = r => (pc'[r] \in Gone <=> pc[r] \in Gone)
    PROVE  Bearer(t)'
<1>1. /\ input \in Inputs /\ input' = input /\ Shape /\ Moves(r) /\ Baton
      /\ \A u \in Ranks : u # input.p - 1 <=> u + 1 \in Ranks
  BY BatonStart
<1>2. \A u \in Ranks : u # r => pc'[u] = pc[u] /\ state'[u] = state[u]
  BY <1>1, OthersStay
<1>3. \A u \in Ranks : pc[u] \in Gone => pc'[u] \in Gone
  BY <1>2
<1>4. t # input.p - 1 => (pc'[t + 1] \in Gone <=> pc[t + 1] \in Gone)
  BY <1>1, <1>2
<1>5. Bearer(t)
  BY <1>1 DEF Baton
<1> QED
  BY <1>1, <1>2, <1>3, <1>4, <1>5, BearerStays

\* A thread or rank takes what it was handed; the last one begins.
LEMMA BatonTake ==
    ASSUME IInv, Right, NEW r \in Ranks, TakeState(r)
    PROVE  Baton'
<1>1. /\ Shape /\ Queues /\ Baton /\ input \in Inputs /\ input' = input /\ Moves(r) /\ Rank(r)
      /\ q \in [Ranks -> Queue] /\ net \in [{"block", "state"} -> [Ranks -> Messages]]
      /\ Ranks \subseteq Nat /\ Ranks' = Ranks /\ (Threads' <=> Threads)
      /\ \A t \in Ranks : t # input.p - 1 <=> t + 1 \in Ranks
      /\ pc = [t \in Ranks |-> pc[t]] /\ state = [t \in Ranks |-> state[t]]
  <2>1. Rank(r)
    BY DEF Rank
  <2> QED
    BY <2>1, BatonStart DEF Shape
<1>2. pc[r] = "take" /\ pc'[r] = "back"
  BY <1>1 DEF TakeState, Goto
<1>3. \A t \in Ranks : t # r => Handed(t)' = Handed(t)
  <2> SUFFICES ASSUME NEW t \in Ranks, t # r
               PROVE  Handed(t)' = Handed(t)
    OBVIOUS
  <2>1. \/ q' = q /\ net' = net
        \/ queue_consume(r) /\ net' = net
        \/ q' = q /\ net' = [net EXCEPT !["state"][r] = Tail(@)]
    BY DEF TakeState
  <2>2. q'[t] = q[t] /\ net'["state"][t] = net["state"][t]
    BY <1>1, <2>1, Consumed
  <2> QED
    BY <1>1, <2>2 DEF Handed
<1>4. \A t \in Ranks : t # r => Bearer(t)'
  BY <1>1, <1>2, <1>3, BearerOther DEF Gone
<1>5. Held(r)' = Held(r)
  BY <1>1, HeldStays
<1>6. Handed(r)' = << >> /\ (\A t \in Ranks : t > r => pc[t] \in Gone) /\ state'[r] \in Held(r)
  <2>1. CASE r = input.p - 1
    <3>1. Handed(r) = << >>
      BY <1>1, <1>2, <2>1 DEF Baton, Bearer, Gone
    <3>2. q' = q /\ net' = net /\ state'[r] = Start
      BY <1>1, <2>1 DEF TakeState, Start
    <3>3. \A t \in Ranks : ~ (t > r)
      BY <1>1, <2>1, InputOK DEF Ranks, Nonzero
    <3>4. Start \in Held(r)
      <4>1. input.n \in Nat /\ input.m \in Nat /\ input.p \in Nat /\ input.n <= input.p * Height
        BY <1>1, InputOK, Sizes DEF Nonzero
      <4>2. Start \in Steps
        BY <4>1 DEF Start, Steps
      <4>3. Start = lcs_backtrack_steps[0] /\ 0 \in 0 .. input.n + input.m
        BY <1>1, <4>1, BacktrackSteps
      <4>4. Start.i = input.n /\ (r + 1) * Height = input.p * Height
        BY <2>1, <4>1 DEF Start
      <4> QED
        BY <4>1, <4>2, <4>3, <4>4 DEF Held
    <3> QED
      BY <1>1, <3>1, <3>2, <3>3, <3>4 DEF Handed
  <2>2. CASE r # input.p - 1
    <3>1. Handed(r) # << >> /\ Handed(r)' = Tail(Handed(r)) /\ state'[r] = Head(Handed(r))
      <4>1. CASE Threads
        <5>1. queue_consume(r) /\ state'[r] = Head(q[r].items)
          BY <1>1, <2>2, <4>1 DEF TakeState
        <5>2. q[r].items # << >> /\ q'[r].items = Tail(q[r].items)
          BY <1>1, <5>1, Consumed
        <5> QED
          BY <1>1, <4>1, <5>1, <5>2 DEF Handed
      <4>2. CASE ~Threads
        <5>1. /\ net["state"][r] # << >> /\ net' = [net EXCEPT !["state"][r] = Tail(@)]
              /\ state'[r] = Head(net["state"][r])
          BY <1>1, <2>2, <4>2 DEF TakeState
        <5>2. net'["state"][r] = Tail(net["state"][r])
          BY <1>1, <5>1
        <5> QED
          BY <1>1, <4>2, <5>1, <5>2 DEF Handed
      <4> QED
        BY <4>1, <4>2
    <3>2. pc[r + 1] \in Gone /\ \E s \in Held(r) : Handed(r) = <<s>>
      BY <1>1, <1>2, <2>2, <3>1 DEF Baton, Bearer, Gone
    <3>3. Handed(r)' = << >> /\ state'[r] \in Held(r)
      <4>1. PICK s \in Held(r) : Handed(r) = <<s>>
        BY <3>2
      <4>2. Tail(<<s>>) = << >> /\ Head(<<s>>) = s
        OBVIOUS
      <4> QED
        BY <3>1, <4>1, <4>2
    <3>4. r + 1 \in Ranks /\ \A t \in Ranks : t > r + 1 => pc[t] \in Gone
      BY <1>1, <2>2, <3>2 DEF Baton, Bearer
    <3>5. \A t \in Ranks : t > r => t = r + 1 \/ t > r + 1
      BY <1>1
    <3> QED
      BY <3>2, <3>3, <3>4, <3>5
  <2> QED
    BY <2>1, <2>2
<1>7. \A t \in Ranks : t > r => pc'[t] \in Gone
  <2>1. \A t \in Ranks : t > r => t # r
    BY <1>1
  <2> QED
    BY <1>1, <1>6, <2>1, OthersStay
<1>8. Bearer(r)'
  BY <1>1, <1>2, <1>5, <1>6, <1>7 DEF Bearer
<1> QED
  BY <1>1, <1>4, <1>8 DEF Baton

\* Behind the loops of the blocks, a band has computed all its cells.
LEMMA AllFilled ==
    ASSUME Shape, NEW t \in Ranks, pc[t] \in {"destroy1", "init2", "barrier2"} \cup Final,
           NEW i, NEW j \in 1 .. input.m
    PROVE  Filled(t, i, j)
<1>1. Place(t) /\ (~Diagonals => BlockAt(t)) /\ input \in Inputs /\ input.m \in Nat
  BY InputOK DEF Shape, Nonzero
<1>2. CASE Threads
  <2>1. next[t] = input.m + 1 /\ ~Diagonals
    BY <1>1, <1>2, ThreeVersions DEF Place
  <2> QED
    BY <1>1, <2>1 DEF Filled
<1>3. CASE Mpi
  <2>1. ~Threads /\ ~Diagonals
    BY <1>3, ThreeVersions
  <2>2. pc[t] \in Final
    BY <2>1, ByVersion
  <2>3. next[t] \in 1 .. input.m /\ Following(next[t]) = input.m + 1
    BY <1>1, <1>3, <2>2 DEF Place
  <2>4. next[t] \in 0 .. input.m + 1 /\ w[t] = Width(next[t])
    BY <1>1, <2>1, <2>3 DEF BlockAt
  <2>5. next[t] + w[t] = input.m + 1 /\ next[t] # 0
    <3>1. Following(next[t]) = next[t] + Width(next[t])
      BY <1>1, <2>3, <2>4, Blocks
    <3> QED
      BY <2>3, <2>4, <3>1
  <2>6. pc[t] # "cells"
    BY <2>2 DEF Final
  <2> QED
    BY <1>1, <2>1, <2>5, <2>6 DEF Filled
<1>4. CASE Diagonals
  BY <1>4 DEF Filled, Final
<1> QED
  BY <1>2, <1>3, <1>4, ThreeVersions

\* And when a thread goes back, all have.
LEMMA GridUsed ==
    ASSUME IInv, Right, Threads, NEW r \in Ranks, pc[r] = "back", NEW i \in 1 .. input.n, NEW j \in 1 .. input.m
    PROVE  grid[G(r)][<<i, j>>] = D[<<i, j>>]
<1>1. Shape /\ Together /\ GridRight /\ input \in Inputs
  BY DEF IInv, Shape
<1>2. PICK t \in Ranks : i \in Band(t)
  BY <1>1, Bands
<1>3. pc[t] \in Final
  BY <1>1 DEF Together, Final
<1>4. Filled(t, i, j)
  BY <1>1, <1>3, AllFilled
<1> QED
  BY <1>1, <1>2, <1>4 DEF GridRight, BandRight, G

\* The cell on the path has been computed.
LEMMA CellUsed ==
    ASSUME IInv, Right, NEW r \in Ranks, OnPath(r), Dir(r) # "none"
    PROVE  /\ state[r] \in PathPlaces /\ state[r].i > 0 /\ state[r].j > 0
           /\ Dir(r) = D[<<state[r].i, state[r].j>>].dir
<1> DEFINE s == state[r]
<1>1. /\ Shape /\ Together /\ GridRight /\ input \in Inputs /\ pc[r] = "back" /\ s \in Held(r)
      /\ s.i > min_i(r) /\ s.j > 0 /\ input.m \in Nat /\ input.n \in Nat /\ input.p \in Nat
      /\ Ranks \subseteq Nat /\ Height \in Nat
  <2>1. Shape /\ Together /\ GridRight /\ Baton
    BY DEF IInv
  <2>2. input \in Inputs
    BY <2>1 DEF Shape
  <2>3. input.m \in Nat /\ input.n \in Nat /\ input.p \in Nat /\ Height \in Nat
    BY <2>2, InputOK, Sizes DEF Nonzero
  <2>4. pc[r] = "back" /\ s.i > min_i(r) /\ s.j > 0
    BY DEF OnPath
  <2>5. s \in Held(r)
    BY <2>1, <2>4 DEF Baton, Bearer
  <2> QED
    BY <2>1, <2>2, <2>3, <2>4, <2>5 DEF Ranks
<1>2. s \in PathPlaces
  <2>1. input.n + input.m \in Nat
    BY <1>1
  <2> QED
    BY <1>1, <2>1, BacktrackSteps DEF Held
<1> HIDE DEF s
<1>3. s.i \in 0 .. input.n /\ s.j \in 1 .. input.m
  BY <1>1, <1>2 DEF PathPlaces
<1>4. Dir(r) = grid[G(r)][<<s.i, s.j>>].dir
  BY DEF Dir, s
<1>5. s.i \in 1 .. input.n
  <2> SUFFICES ASSUME s.i = 0
               PROVE  FALSE
    BY <1>3
  <2>1. <<s.i, s.j>> \in Cells
    BY <1>3 DEF Cells
  <2>2. grid[G(r)][<<s.i, s.j>>] = NoCell
    BY <1>1, <2>1 DEF GridRight, Borders
  <2> QED
    BY <1>4, <2>2 DEF NoCell
<1>6. s.i \in Band(r) \/ Threads
  <2>1. CASE Mpi
    <3>1. ~Threads /\ ~Diagonals
      BY <1>1, <2>1, ThreeVersions
    <3>2. s.i > r * Height
      BY <1>1, <3>1 DEF min_i
    <3>3. s.i <= (r + 1) * Height
      BY <1>1, <1>3, <2>1 DEF Held
    <3>4. r * Height \in Nat /\ (r + 1) * Height = r * Height + Height
      BY <1>1
    <3> QED
      BY <1>1, <1>5, <3>2, <3>3, <3>4 DEF Band, y
  <2>2. CASE Diagonals
    <3>1. PICK t \in Ranks : s.i \in Band(t)
      BY <1>1, <1>5, Bands
    <3>2. t = r
      BY <1>1, <2>2, ThreeVersions
    <3> QED
      BY <3>1, <3>2
  <2> QED
    BY <1>1, <2>1, <2>2, ThreeVersions
<1>7. grid[G(r)][<<s.i, s.j>>] = D[<<s.i, s.j>>]
  <2>1. CASE Threads
    BY <1>1, <1>3, <1>5, <2>1, GridUsed
  <2>2. CASE ~Threads
    <3>1. Filled(r, s.i, s.j)
      BY <1>1, <1>3, AllFilled DEF Final
    <3> QED
      BY <1>1, <1>3, <1>6, <2>2, <3>1 DEF GridRight, BandRight
  <2> QED
    BY <2>1, <2>2
<1>8. s.i > 0 /\ s.j > 0
  BY <1>3, <1>5
<1> QED
  BY <1>2, <1>4, <1>7, <1>8 DEF s

\* One cell back stays on the path.
LEMMA BatonBack ==
    ASSUME IInv, Right, NEW r \in Ranks, BacktrackCell(r)
    PROVE  Baton'
<1> DEFINE s == state[r]
<1>1. /\ Shape /\ Baton /\ input \in Inputs /\ input' = input /\ Moves(r) /\ Rank(r) /\ Ranks' = Ranks
      /\ (Threads' <=> Threads) /\ state = [t \in Ranks |-> state[t]]
      /\ q' = q /\ net' = net /\ pc' = pc /\ pc[r] = "back" /\ OnPath(r) /\ Dir(r) # "none"
      /\ state'[r] = StepBack(s, Dir(r))
  <2>1. Rank(r)
    BY DEF Rank
  <2>2. /\ Shape /\ Baton /\ input \in Inputs /\ input' = input /\ Moves(r) /\ Ranks' = Ranks
        /\ (Threads' <=> Threads)
    BY <2>1, BatonStart
  <2>3. state = [t \in Ranks |-> state[t]]
    BY <2>2 DEF Shape
  <2>4. /\ q' = q /\ net' = net /\ pc' = pc /\ OnPath(r) /\ Dir(r) # "none"
        /\ state'[r] = StepBack(s, Dir(r))
    BY <2>3 DEF BacktrackCell
  <2> QED
    BY <2>1, <2>2, <2>3, <2>4 DEF OnPath
<1>2. \A t \in Ranks : Handed(t)' = Handed(t)
  BY <1>1 DEF Handed
<1>3. \A t \in Ranks : t # r => Bearer(t)'
  BY <1>1, <1>2, BearerOther
<1>4. /\ s \in PathPlaces /\ s.i > 0 /\ s.j > 0 /\ Dir(r) = D[<<s.i, s.j>>].dir
  BY <1>1, CellUsed
<1>5. s \in Held(r)
  BY <1>1 DEF Baton, Bearer
<1> HIDE DEF s
<1>6. state'[r] = Back(s)
  BY <1>1, <1>4 DEF Back
<1>7. input.n \in Nat /\ input.m \in Nat /\ s.i \in 0 .. input.n /\ s.j \in 0 .. input.m
  BY <1>1, <1>4, InputOK DEF PathPlaces, Nonzero
<1>8. PICK k \in 0 .. input.n + input.m : s = lcs_backtrack_steps[k]
  BY <1>5 DEF Held
<1>9. k + 1 \in 0 .. input.n + input.m /\ Back(s) = lcs_backtrack_steps[k + 1]
  <2>1. k \in Nat
    BY <1>7
  <2>2. k <= (input.n - s.i) + (input.m - s.j)
    BY <1>1, <1>4, <1>7, <1>8, <2>1, PathEnds DEF AtEnd
  <2>3. k + 1 \in 0 .. input.n + input.m
    BY <1>4, <1>7, <2>1, <2>2
  <2> QED
    BY <1>1, <1>8, <2>1, <2>3, BacktrackSteps
<1>10. Back(s) \in PathPlaces /\ Back(s).i <= s.i
  <2>1. /\ Back(s) \in PathPlaces
        /\ Back(s).i = s.i \/ Back(s).i = s.i - 1
    <3>1. /\ Back(s) \in PathPlaces
          /\ \/ Back(s) = [i |-> s.i - 1, j |-> s.j - 1, res |-> Append(s.res, input.s1[s.i])]
             \/ Back(s) = [i |-> s.i - 1, j |-> s.j, res |-> s.res]
             \/ Back(s) = [i |-> s.i, j |-> s.j - 1, res |-> s.res]
      BY <1>1, <1>4, OneStepBack, Zenon
    <3> DEFINE b == Back(s)
               l == Append(s.res, input.s1[s.i])
    <3>2. \/ b = [i |-> s.i - 1, j |-> s.j - 1, res |-> l]
          \/ b = [i |-> s.i - 1, j |-> s.j, res |-> s.res]
          \/ b = [i |-> s.i, j |-> s.j - 1, res |-> s.res]
      BY <3>1
    <3> HIDE DEF b, l
    <3>3. b.i = s.i \/ b.i = s.i - 1
      BY <3>2
    <3> QED
      BY <3>1, <3>3 DEF b
  <2> QED
    BY <1>7, <2>1
<1>11. Back(s) \in Held(r)
  <2>1. Back(s) \in Steps
    BY <1>10 DEF PathPlaces, Steps
  <2>2. Mpi => Back(s).i <= (r + 1) * Height
    <3> SUFFICES ASSUME Mpi
                 PROVE  Back(s).i <= (r + 1) * Height
      OBVIOUS
    <3>1. s.i <= (r + 1) * Height
      BY <1>4, <1>5, <1>7 DEF Held
    <3>2. (r + 1) * Height \in Int
      <4>1. Height \in Int /\ r \in Int
        BY <1>1, Sizes, InputOK DEF Nonzero, Ranks
      <4> QED
        BY <4>1
    <3>3. Back(s).i \in Int
      BY <1>10 DEF PathPlaces
    <3> QED
      BY <1>7, <1>10, <3>1, <3>2, <3>3
  <2> QED
    BY <1>9, <2>1, <2>2 DEF Held
<1>12. Held(r)' = Held(r)
  BY <1>1, HeldStays
<1>13. Bearer(r)'
  BY <1>1, <1>2, <1>6, <1>11, <1>12 DEF Bearer, Baton
<1> QED
  BY <1>1, <1>3, <1>13 DEF Baton

\* A thread or rank gives the place to the one of the band above.
LEMMA BatonHand ==
    ASSUME IInv, Right, NEW r \in Ranks, HandOver(r)
    PROVE  Baton'
<1>1. /\ Shape /\ Together /\ Queues /\ Baton /\ input \in Inputs /\ input' = input /\ Moves(r) /\ Rank(r)
      /\ q \in [Ranks -> Queue] /\ net \in [{"block", "state"} -> [Ranks -> Messages]]
      /\ Ranks \subseteq Nat /\ Ranks' = Ranks /\ (Threads' <=> Threads)
      /\ \A t \in Ranks : t # input.p - 1 <=> t + 1 \in Ranks
      /\ pc = [t \in Ranks |-> pc[t]]
  <2>1. Rank(r)
    BY DEF Rank
  <2> QED
    BY <2>1, BatonStart
<1>2. pc[r] = "back" /\ pc'[r] \in Gone /\ pc[r] \notin Gone /\ pc'[r] # "back" /\ ~OnPath(r)
  BY <1>1 DEF HandOver, Goto, Gone
<1>3. state[r] \in Held(r) /\ Handed(r) = << >> /\ \A t \in Ranks : t > r => pc[t] \in Gone
  BY <1>1, <1>2 DEF Baton, Bearer
<1>4. state[r] \in Steps
  BY <1>3 DEF Held
<1>5. \A t \in Ranks : t # r - 1 => Handed(t)' = Handed(t)
  <2> SUFFICES ASSUME NEW t \in Ranks, t # r - 1
               PROVE  Handed(t)' = Handed(t)
    OBVIOUS
  <2>1. r # 0 => r - 1 \in Ranks
    BY <1>1, InputOK DEF Ranks, Nonzero
  <2>2. \/ q' = q /\ net' = net
        \/ r # 0 /\ queue_produce(r - 1, state[r]) /\ net' = net
        \/ r # 0 /\ q' = q /\ net' = [net EXCEPT !["state"][r - 1] = Append(@, state[r])]
    BY DEF HandOver
  <2>3. CASE r # 0 /\ queue_produce(r - 1, state[r]) /\ net' = net
    <3>1. \E v : q' = [q EXCEPT ![r - 1] = v]
      <4>1. Queues /\ r - 1 \in Ranks /\ state[r] \in Nat \cup Steps /\ queue_produce(r - 1, state[r])
        BY <1>1, <1>4, <2>1, <2>3
      <4>2. q' = [q EXCEPT ![r - 1] = [capacity |-> q[r - 1].capacity,
                                       items |-> Append(q[r - 1].items, state[r])]]
        BY <4>1, Produced
      <4> QED
        BY <4>2
    <3>2. q'[t] = q[t]
      BY <1>1, <2>1, <3>1
    <3> QED
      BY <1>1, <2>3, <3>2 DEF Handed
  <2>4. CASE r # 0 /\ q' = q /\ net' = [net EXCEPT !["state"][r - 1] = Append(@, state[r])]
    <3>1. net'["state"][t] = net["state"][t]
      BY <1>1, <2>1, <2>4
    <3> QED
      BY <1>1, <2>4, <3>1 DEF Handed
  <2>5. CASE q' = q /\ net' = net
    BY <1>1, <2>5 DEF Handed
  <2> QED
    BY <2>2, <2>3, <2>4, <2>5
<1>6. \A t \in Ranks : t # r /\ t # r - 1 => Bearer(t)'
  <2> SUFFICES ASSUME NEW t \in Ranks, t # r, t # r - 1
               PROVE  Bearer(t)'
    OBVIOUS
  <2>1. t + 1 # r
    BY <1>1
  <2> QED
    BY <1>1, <1>2, <1>5, <2>1, BearerOther
<1>7. Bearer(r)'
  <2>1. r # r - 1
    BY <1>1
  <2>2. \A t \in Ranks : t > r => pc'[t] = pc[t]
    <3>1. \A t \in Ranks : t > r => t # r
      BY <1>1
    <3> QED
      BY <1>1, <3>1, OthersStay
  <2> QED
    BY <1>1, <1>2, <1>3, <1>5, <2>1, <2>2 DEF Bearer
<1>8. ASSUME r - 1 \in Ranks
      PROVE  Bearer(r - 1)'
  <2> DEFINE t == r - 1
  <2>1. t \in Ranks /\ t # r /\ r > t /\ t + 1 = r /\ t # input.p - 1 /\ r # 0
    BY <1>1, <1>8
  <2> HIDE DEF t
  <2>2. pc'[t] = pc[t]
    BY <1>1, <2>1, OthersStay
  <2>3. Bearer(t)
    BY <1>1, <2>1 DEF Baton
  <2>4. pc[t] \notin {"back"} \cup Gone
    BY <1>2, <2>1, <2>3 DEF Bearer
  <2>5. Threads => pc[t] = "take"
    BY <1>1, <1>2, <2>1, <2>4 DEF Together, Final, Gone
  <2>6. Handed(t) = << >>
    BY <1>2, <2>1, <2>3, <2>4, <2>5 DEF Bearer
  <2>7. Handed(t)' = Append(Handed(t), state[r])
    <3>1. CASE Threads
      <4>1. queue_produce(t, state[r])
        BY <2>1, <3>1 DEF HandOver, t
      <4>2. q'[t].items = Append(q[t].items, state[r])
        BY <1>1, <1>4, <2>1, <4>1, Produced
      <4> QED
        BY <1>1, <3>1, <4>2 DEF Handed
    <3>2. CASE ~Threads
      <4>1. net' = [net EXCEPT !["state"][t] = Append(@, state[r])]
        BY <2>1, <3>2 DEF HandOver, t
      <4>2. net'["state"][t] = Append(net["state"][t], state[r])
        BY <1>1, <2>1, <4>1
      <4> QED
        BY <1>1, <3>2, <4>2 DEF Handed
    <3> QED
      BY <3>1, <3>2
  <2>8. Handed(t)' = <<state[r]>>
    BY <2>6, <2>7
  <2>9. state[r] \in Held(t)
    <3>1. Mpi => state[r].j = 0 \/ state[r].i <= (t + 1) * Height
      <4> SUFFICES ASSUME Mpi, state[r].j # 0
                   PROVE  state[r].i <= (t + 1) * Height
        OBVIOUS
      <4>1. min_i(r) = r * Height
        BY <1>1, ThreeVersions DEF min_i
      <4>2. state[r].i \in Nat /\ state[r].j \in Nat
        BY <1>4 DEF Steps
      <4>3. r * Height \in Int
        <5>1. Height \in Int /\ r \in Int
          BY <1>1, Sizes DEF Nonzero
        <5> QED
          BY <5>1
      <4>4. state[r].i <= r * Height
        BY <1>2, <4>1, <4>2, <4>3 DEF OnPath
      <4> QED
        BY <2>1, <4>4
    <3> QED
      BY <1>3, <3>1 DEF Held
  <2>10. Held(t)' = Held(t)
    BY <1>1, HeldStays
  <2>11. input'.p = input.p /\ t # input'.p - 1 /\ pc'[t + 1] \in Gone
    BY <1>1, <1>2, <2>1
  <2> QED
    BY <2>2, <2>4, <2>8, <2>9, <2>10, <2>11 DEF Bearer, t
<1>9. \A t \in Ranks : t = r \/ t = r - 1 \/ (t # r /\ t # r - 1)
  OBVIOUS
<1> QED
  BY <1>1, <1>6, <1>7, <1>8, <1>9 DEF Baton

LEMMA BatonStep ==
    ASSUME IInv, Right, NEW r \in Ranks, Rank(r)
    PROVE  Baton'
<1>1. /\ Shape /\ Queues /\ Baton /\ input \in Inputs /\ input' = input /\ Moves(r) /\ Ranks' = Ranks
      /\ q \in [Ranks -> Queue] /\ net \in [{"block", "state"} -> [Ranks -> Messages]]
      /\ (Threads' <=> Threads) /\ pc = [t \in Ranks |-> pc[t]]
  BY BatonStart
<1>2. CASE Threads /\ pc[r] \notin Final
  BY <1>2, BatonLater
<1>3. CASE TakeState(r)
  BY <1>3, BatonTake
<1>4. CASE BacktrackCell(r)
  BY <1>4, BatonBack
<1>5. CASE HandOver(r)
  BY <1>5, BatonHand
<1>6. CASE BadCell(r)
  <2>1. q' = q /\ net' = net /\ state' = state /\ pc' = pc
    BY <1>6 DEF BadCell, vars
  <2>2. \A t \in Ranks : Handed(t)' = Handed(t)
    BY <1>1, <2>1 DEF Handed
  <2> QED
    BY <2>1, <2>2, BatonQuiet
<1>7. ASSUME ~ (Threads /\ pc[r] \notin Final), DestroyQueue(r)
      PROVE  Baton'
  <2>1. Threads
    BY <1>1, <1>7, ByVersion DEF DestroyQueue
  <2>2. pc[r] = "destroy2" /\ pc'[r] = "done" /\ q' = [q EXCEPT ![r] = NoQueue] /\ state' = state
    BY <1>1, <1>7, <2>1 DEF DestroyQueue, Goto, Final
  <2>3. Handed(r) = << >>
    BY <1>1, <2>2 DEF Baton, Bearer, Gone
  <2>4. \A t \in Ranks : Handed(t)' = Handed(t)
    BY <1>1, <2>1, <2>2, <2>3 DEF Handed, NoQueue
  <2> QED
    BY <2>2, <2>4, BatonQuiet DEF Gone
<1>8. ASSUME ~ (Threads /\ pc[r] \notin Final),
             ComputeCell(r) \/ NextBlockMpi(r) \/ SendRow(r) \/ DiagonalCell(r)
      PROVE  Baton'
  <2>1. /\ pc[r] \in {"cells", "next", "pass", "diagonal"}
        /\ state' = state
    BY <1>8 DEF ComputeCell, NextBlockMpi, SendRow, DiagonalCell
  <2>2. pc'[r] \in {"cells", "next", "pass", "diagonal", "take"}
    BY <1>1, <1>8 DEF ComputeCell, NextBlockMpi, SendRow, DiagonalCell, Goto, StartBlock
  <2>3. ~Threads
    BY <1>8, <2>1 DEF Final
  <2>4. net'["state"] = net["state"]
    <3>1. CASE ComputeCell(r) \/ DiagonalCell(r)
      BY <3>1 DEF ComputeCell, DiagonalCell
    <3>2. CASE NextBlockMpi(r)
      <4>1. net' = net \/ net' = [net EXCEPT !["block"][r] = Tail(@)]
        BY <3>2 DEF NextBlockMpi
      <4> QED
        BY <1>1, <4>1
    <3>3. CASE SendRow(r)
      <4> DEFINE row == [k \in 1 .. w[r] |-> grid[r][<<y(r) + h[r] - 1, next[r] + k - 1>>]]
      <4>1. net' = net \/ net' = [net EXCEPT !["block"][r + 1] = Append(@, row)]
        BY <3>3 DEF SendRow
      <4> HIDE DEF row
      <4> QED
        BY <1>1, <4>1
    <3> QED
      BY <1>8, <3>1, <3>2, <3>3
  <2>5. \A t \in Ranks : Handed(t)' = Handed(t)
    BY <1>1, <2>3, <2>4 DEF Handed
  <2> QED
    BY <2>1, <2>2, <2>3, <2>5, BatonQuiet DEF Gone
<1>9. ASSUME ~ (Threads /\ pc[r] \notin Final)
      PROVE  ~InitQueue(r) /\ ~NextBlock(r) /\ ~PassOn(r)
  <2>1. InitQueue(r) => Threads /\ pc[r] \notin Final
    BY <1>1, ByVersion DEF InitQueue, Setup, Final
  <2>2. NextBlock(r) => Threads /\ pc[r] \notin Final
    BY DEF NextBlock, Final
  <2>3. PassOn(r) => Threads /\ pc[r] \notin Final
    BY DEF PassOn, Final
  <2> QED
    BY <1>9, <2>1, <2>2, <2>3
<1> QED
  BY <1>2, <1>3, <1>4, <1>5, <1>6, <1>7, <1>8, <1>9 DEF Rank

\* What is printed is what the serial program prints.
LEMMA PrintedStep ==
    ASSUME IInv, Right, NEW r \in Ranks, Rank(r)
    PROVE  Printed'
<1>1. /\ Shape /\ Baton /\ Printed /\ input \in Inputs /\ input' = input /\ Moves(r) /\ 0 \in Ranks
      /\ pc = [t \in Ranks |-> pc[t]]
  <2>1. Printed /\ Shape
    BY DEF IInv
  <2> QED
    BY <2>1, BatonStart, ThreeVersions
<1>2. lcs_backtrack_serial' = lcs_backtrack_serial
  <2>1. input.n + input.m \in Nat
    BY <1>1, InputOK DEF Nonzero
  <2>2. lcs_backtrack_steps'[input.n + input.m] = lcs_backtrack_steps[input.n + input.m]
    BY <1>1, <2>1, PathStays
  <2> QED
    BY <1>1, <2>2 DEF lcs_backtrack_serial
<1>3. CASE HandOver(r) /\ r = 0
  <2> DEFINE s == state[0]
  <2>1. pc[0] = "back" /\ ~OnPath(0) /\ result' = Reverse(s.res)
    BY <1>3 DEF HandOver
  <2>2. s \in Held(0)
    BY <1>1, <1>3, <2>1 DEF Baton, Bearer
  <2> HIDE DEF s
  <2>3. input.n + input.m \in Nat
    BY <1>1, InputOK DEF Nonzero
  <2>4. PICK k \in 0 .. input.n + input.m : s = lcs_backtrack_steps[k]
    BY <2>2 DEF Held
  <2>5. s.i \in Nat /\ s.j \in Nat
    BY <2>2 DEF Held, Steps
  <2>6. min_i(0) = 0
    <3>1. input.n \in Int /\ Height \in Int /\ y(0) \in Int
      <4>1. input.n \in Nonzero /\ Height \in Nonzero /\ y(0) \in Nonzero
        BY <1>1, InputOK, Sizes, Bands
      <4> QED
        BY <4>1 DEF Nonzero
    <3>2. \A a \in Int : 0 * a = 0
      OBVIOUS
    <3> QED
      BY <3>1, <3>2 DEF min_i
  <2>7. AtEnd(s)
    BY <2>1, <2>5, <2>6 DEF OnPath, AtEnd, s
  <2>8. k \in Nat /\ k <= input.n + input.m
    BY <2>3
  <2>9. lcs_backtrack_steps[input.n + input.m] = s
    BY <1>1, <2>3, <2>4, <2>7, <2>8, PathEnds
  <2> QED
    BY <1>2, <2>1, <2>9 DEF Printed, lcs_backtrack_serial
<1>4. CASE ~ (HandOver(r) /\ r = 0)
  <2>1. result' = result
    BY <1>4 DEF Rank, ComputeCell, InitQueue, NextBlock, PassOn, DestroyQueue, NextBlockMpi, SendRow,
                DiagonalCell, TakeState, BacktrackCell, BadCell, HandOver, vars
  <2>2. pc'[0] \in Gone => pc[0] \in Gone
    <3>1. CASE r = 0
      <4>1. pc'[0] \in Gone => pc[0] \in Gone \/ DestroyQueue(0)
        BY <1>1, <1>4, <3>1 DEF Rank, ComputeCell, InitQueue, NextBlock, PassOn, NextBlockMpi, SendRow,
             DiagonalCell, TakeState, BacktrackCell, BadCell, vars, Gone, Goto, StartBlock
      <4>2. DestroyQueue(0) /\ pc'[0] \in Gone => pc[0] \in Gone
        BY <1>1 DEF DestroyQueue, Goto, Gone
      <4> QED
        BY <4>1, <4>2
    <3>2. CASE r # 0
      BY <1>1, <3>2, OthersStay
    <3> QED
      BY <3>1, <3>2
  <2> QED
    BY <1>1, <1>2, <2>1, <2>2 DEF Printed, Gone
<1> QED
  BY <1>3, <1>4

LEMMA NoneSentStep ==
    ASSUME IInv, NEW r \in Ranks, Rank(r)
    PROVE  NoneSent'
<1>1. /\ net \in [{"block", "state"} -> [Ranks -> Messages]] /\ net["block"][0] = << >> /\ 0 \in Ranks
      /\ Ranks \subseteq Nat
  <2>1. Shape /\ Queues /\ NoneSent
    BY DEF IInv
  <2>2. input.p \in Nat /\ 0 \in Ranks
    BY <2>1, ThreeVersions DEF Nonzero
  <2> QED
    BY <2>1, <2>2 DEF Queues, NoneSent, Ranks
<1>2. ASSUME net' = net
      PROVE  NoneSent'
  BY <1>1, <1>2 DEF NoneSent
<1>3. CASE NextBlockMpi(r)
  <2>1. net' = net \/ (r # 0 /\ net' = [net EXCEPT !["block"][r] = Tail(@)])
    BY <1>3 DEF NextBlockMpi
  <2> QED
    BY <1>1, <1>2, <2>1 DEF NoneSent
<1>4. CASE SendRow(r)
  <2> DEFINE row == [k \in 1 .. w[r] |-> grid[r][<<y(r) + h[r] - 1, next[r] + k - 1>>]]
  <2>1. net' = net \/ net' = [net EXCEPT !["block"][r + 1] = Append(@, row)]
    BY <1>4 DEF SendRow
  <2>2. r + 1 # 0
    BY <1>1
  <2> HIDE DEF row
  <2> QED
    BY <1>1, <1>2, <2>1, <2>2 DEF NoneSent
<1>5. CASE TakeState(r)
  <2>1. net' = net \/ net' = [net EXCEPT !["state"][r] = Tail(@)]
    BY <1>5 DEF TakeState
  <2> QED
    BY <1>1, <1>2, <2>1 DEF NoneSent
<1>6. CASE HandOver(r)
  <2>1. net' = net \/ net' = [net EXCEPT !["state"][r - 1] = Append(@, state[r])]
    BY <1>6 DEF HandOver
  <2> QED
    BY <1>1, <1>2, <2>1 DEF NoneSent
<1>7. CASE ComputeCell(r) \/ InitQueue(r) \/ NextBlock(r) \/ PassOn(r) \/ DestroyQueue(r) \/ DiagonalCell(r)
             \/ BacktrackCell(r) \/ BadCell(r)
  BY <1>2, <1>7 DEF ComputeCell, InitQueue, NextBlock, PassOn, DestroyQueue, DiagonalCell, BacktrackCell, BadCell, vars
<1> QED
  BY <1>3, <1>4, <1>5, <1>6, <1>7 DEF Rank

-----------------------------------------------------------------------------
(* The barriers *)

LEMMA BarrierQueues ==
    ASSUME IInv, Barrier
    PROVE  Queues' /\ Chained' /\ NoneSent'
<1>1. /\ Shape /\ Queues /\ Chained /\ NoneSent /\ Threads /\ input \in Inputs
      /\ \/ /\ \A r \in Ranks : pc[r] = "barrier1" /\ pc'[r] = "next"
         \/ /\ \A r \in Ranks : pc[r] = "barrier2" /\ pc'[r] = "take"
      /\ UNCHANGED <<input, grid, next, w, h, cur, q, net, state, result>>
  <2>1. Shape /\ Queues /\ Chained /\ NoneSent /\ Together
    BY DEF IInv
  <2> QED
    BY <2>1, BarrierStep DEF Shape
<1>2. /\ Ranks' = Ranks /\ W' = W /\ (Threads' <=> Threads)
      /\ \A r : y(r)' = y(r)
      /\ Ranks \subseteq Nat
  BY <1>1, InputStays DEF Ranks
<1>3. ASSUME NEW r \in Ranks
      PROVE  QueueAt(r)'
  BY <1>1, <1>2 DEF Queues, QueueAt, Setup, Middle, Computing, CeilDiv
<1>4. Queues'
  BY <1>1, <1>2, <1>3 DEF Queues
<1>5. ASSUME NEW r \in 1 .. input.p - 1, pc'[r] \in Middle
      PROVE  Linked(r)'
  <2>1. r \in Ranks /\ r - 1 \in Ranks
    BY <1>1, InputOK DEF Ranks, Nonzero
  <2>2. \A t \in Ranks : pc[t] = "barrier1" /\ pc'[t] = "next"
    BY <1>1, <1>5, <2>1 DEF Middle, Computing
  <2>3. next[r] = 0 /\ next[r - 1] = 0 /\ q[r].items = << >>
    BY <1>1, <2>1, <2>2 DEF Shape, Place, Queues, QueueAt, Setup
  <2>4. Waiting(r, << >>)'
    BY <1>1, <1>2, <2>3 DEF Waiting
  <2>5. Line(r, << >>)' = << >>
    BY <2>1, <2>2 DEF Line
  <2>6. Chain(next[r], Line(r, << >>), next[r - 1])'
    BY <1>1, <2>3, <2>5 DEF Chain
  <2>7. << >> \in Seq(1 .. input'.m + 1)
    OBVIOUS
  <2> QED
    BY <2>4, <2>6, <2>7 DEF Linked
<1>6. Chained'
  BY <1>1, <1>2, <1>5 DEF Chained
<1> QED
  BY <1>1, <1>4, <1>6 DEF NoneSent

LEMMA BarrierGrid ==
    ASSUME IInv, Right, Barrier
    PROVE  GridRight' /\ Baton' /\ Printed'
<1>1. /\ Shape /\ Queues /\ GridRight /\ Threads /\ ~Mpi /\ input \in Inputs /\ 0 \in Ranks
      /\ \/ /\ \A r \in Ranks : pc[r] = "barrier1" /\ pc'[r] = "next"
         \/ /\ \A r \in Ranks : pc[r] = "barrier2" /\ pc'[r] = "take"
      /\ UNCHANGED <<input, grid, next, w, h, cur, q, net, state, result>>
  <2>1. Shape /\ Queues /\ GridRight /\ Together
    BY DEF IInv
  <2> QED
    BY <2>1, BarrierStep, ThreeVersions DEF Shape
<1>2. /\ Ranks' = Ranks /\ (Threads' <=> Threads) /\ (Mpi' <=> Mpi) /\ Cells' = Cells
      /\ \A r : G(r)' = G(r)
  BY <1>1, InputStays
<1>3. ASSUME NEW r \in Ranks
      PROVE  BandRight(r)'
  <2>1. \A i \in Band(r), j \in 1 .. input.m : Filled(r, i, j)' => Filled(r, i, j)
    BY <1>1, FilledQuiet
  <2> QED
    BY <1>1, <2>1, BandStays DEF GridRight
<1>4. GridRight'
  <2>1. \A r \in Ranks : RowRight(r)'
    BY <1>1, <1>2 DEF RowRight
  <2>2. \A r \in Ranks : Borders(grid[G(r)])'
    BY <1>1, <1>2 DEF Borders, GridRight
  <2>3. grid' \in [{G(r) : r \in Ranks} -> [Cells -> Cell]]
    BY <1>1 DEF GridRight
  <2>4. {G(r)' : r \in Ranks} = {G(r) : r \in Ranks}
    BY <1>2
  <2> QED
    BY <1>1, <1>2, <1>3, <2>1, <2>2, <2>3, <2>4 DEF GridRight
<1>5. ASSUME NEW r \in Ranks
      PROVE  Bearer(r)'
  <2>1. CASE pc'[r] = "next"
    BY <1>1, <1>2, <2>1 DEF Bearer, Gone
  <2>2. CASE pc'[r] = "take"
    <3>1. (\A t \in Ranks : pc[t] = "barrier2" /\ pc'[t] = "take") /\ q[r].items = << >>
      BY <1>1, <2>2 DEF Queues, QueueAt
    <3>2. r = input.p - 1 \/ r + 1 \in Ranks
      BY <1>1, InputOK DEF Ranks, Nonzero
    <3>3. Handed(r)' = << >>
      BY <1>1, <1>2, <3>1 DEF Handed
    <3>4. r = input'.p - 1 \/ pc'[r + 1] \notin Gone
      BY <1>1, <3>1, <3>2 DEF Gone
    <3> QED
      BY <2>2, <3>3, <3>4 DEF Bearer, Gone
  <2> QED
    BY <1>1, <2>1, <2>2
<1>6. Baton'
  BY <1>2, <1>5 DEF Baton
<1>7. Printed'
  BY <1>1 DEF Printed, Gone
<1> QED
  BY <1>4, <1>6, <1>7

-----------------------------------------------------------------------------
(* The invariant *)

LEMMA Initially ==
    ASSUME Init
    PROVE  IInv
<1>1. /\ input \in Inputs /\ input.p \in Nat /\ input.m \in Nat /\ input.n \in Nat
      /\ input.m > 0 /\ input.n > 0
      /\ Threads \/ Mpi \/ Diagonals
      /\ ~ (Threads /\ Mpi) /\ ~ (Threads /\ Diagonals) /\ ~ (Mpi /\ Diagonals)
      /\ Ranks \subseteq Nat /\ 0 \in Ranks
      /\ W \in Nat /\ Height \in Nat
  <2>1. input \in Inputs
    BY DEF Init
  <2>2. /\ input.p \in Nonzero /\ input.m \in Nonzero /\ input.n \in Nonzero
        /\ input.version \in {"threads", "mpi", "diagonals"}
        /\ W \in Nonzero /\ Height \in Nonzero
    BY <2>1, InputOK, Sizes
  <2> QED
    BY <2>1, <2>2 DEF Nonzero, Ranks, Threads, Mpi, Diagonals
<1>2. /\ pc = [r \in Ranks |-> IF Threads THEN "init1" ELSE IF Diagonals THEN "diagonal" ELSE "next"]
      /\ next = [r \in Ranks |-> 0] /\ w = [r \in Ranks |-> W] /\ h = [r \in Ranks |-> Height]
      /\ cur = [r \in Ranks |-> IF Diagonals THEN <<1, 1>> ELSE <<0, 0>>]
      /\ q = [r \in Ranks |-> NoQueue]
      /\ net = [t \in {"block", "state"} |-> [r \in Ranks |-> << >>]]
      /\ state = [r \in Ranks |-> << >>]
      /\ grid = [g \in {G(r) : r \in Ranks} |-> grid_init]
  BY DEF Init, W
<1>3. Shape
  <2>1. ASSUME NEW r \in Ranks
        PROVE  Place(r) /\ (~Diagonals => BlockAt(r))
    BY <1>1, <1>2 DEF Place, BlockAt, Setup, Final
  <2>2. pc \in [Ranks -> LabelsOf]
    BY <1>1, <1>2 DEF LabelsOf, Setup, Computing
  <2> QED
    BY <1>1, <1>2, <2>1, <2>2 DEF Shape
<1>4. Together
  BY <1>1, <1>2 DEF Together, Setup, Final
<1>5. Queues
  <2>1. NoQueue \in Queue
    BY DEF NoQueue, Queue
  <2>2. << >> \in Messages
    BY DEF Messages
  <2>3. ASSUME Threads, NEW r \in Ranks
        PROVE  QueueAt(r)
    BY <1>2, <2>3 DEF QueueAt, NoQueue, Middle, Computing
  <2> QED
    BY <1>2, <2>1, <2>2, <2>3 DEF Queues
<1>6. Chained
  <2> SUFFICES ASSUME NEW r \in 1 .. input.p - 1, Threads => pc[r] \in Middle
               PROVE  Linked(r)
    BY DEF Chained
  <2>1. r \in Ranks /\ r - 1 \in Ranks /\ ~Diagonals
    BY <1>1, InputOK DEF Ranks
  <2>2. ~Threads /\ pc[r - 1] = "next" /\ next[r] = 0 /\ next[r - 1] = 0 /\ net["block"][r] = << >>
    BY <1>1, <1>2, <2>1 DEF Middle, Computing
  <2>3. Waiting(r, << >>)
    BY <2>2 DEF Waiting
  <2>4. Chain(next[r], Line(r, << >>), next[r - 1])
    BY <2>2 DEF Chain, Line
  <2>5. << >> \in Seq(1 .. input.m + 1)
    OBVIOUS
  <2> QED
    BY <2>3, <2>4, <2>5 DEF Linked
<1>7. NoneSent
  BY <1>1, <1>2 DEF NoneSent
<1>8. GridRight
  <2>1. grid_init \in [Cells -> Cell]
    BY DEF grid_init, Cell, NoCell
  <2>2. ASSUME NEW r \in Ranks
        PROVE  Borders(grid[G(r)])
    BY <1>2 DEF Borders, grid_init
  <2>3. ASSUME NEW r \in Ranks, NEW i \in Band(r), NEW j \in 1 .. input.m
        PROVE  ~Filled(r, i, j)
    <3>1. i \in Nat /\ i >= 1 /\ j \in Nat /\ j >= 1
      BY <1>1 DEF Band
    <3>2. CASE Diagonals
      <4>1. pc[r] = "diagonal" /\ cur[r] = <<1, 1>>
        BY <1>1, <1>2, <3>2
      <4> QED
        BY <3>1, <3>2, <4>1 DEF Filled
    <3>3. CASE ~Diagonals
      BY <1>2, <3>1, <3>3 DEF Filled
    <3> QED
      BY <3>2, <3>3
  <2>4. \A r \in Ranks : BandRight(r)
    BY <2>3 DEF BandRight
  <2>5. \A r \in Ranks : RowRight(r)
    BY <1>2 DEF RowRight
  <2> QED
    BY <1>2, <2>1, <2>2, <2>4, <2>5 DEF GridRight
<1>9. Baton
  <2> SUFFICES ASSUME NEW r \in Ranks
               PROVE  Bearer(r)
    BY DEF Baton
  <2>1. r = input.p - 1 \/ r + 1 \in Ranks
    BY <1>1 DEF Ranks
  <2>2. \A t \in Ranks : pc[t] \in {"init1", "diagonal", "next"}
    BY <1>2
  <2>3. Handed(r) = << >>
    BY <1>2 DEF Handed, NoQueue
  <2> QED
    BY <2>1, <2>2, <2>3 DEF Bearer, Gone
<1>10. Printed
  BY <1>1, <1>2 DEF Printed, Gone
<1> QED
  BY <1>3, <1>4, <1>5, <1>6, <1>7, <1>8, <1>9, <1>10 DEF IInv

LEMMA Stutters ==
    ASSUME IInv, UNCHANGED vars
    PROVE  IInv'
<1>1. /\ Shape /\ Together /\ Queues /\ Chained /\ NoneSent /\ input \in Inputs
      /\ UNCHANGED <<input, pc, grid, next, w, h, cur, q, net, state, result>>
  BY DEF IInv, vars, Shape, block
<1>2. /\ Ranks' = Ranks /\ Cells' = Cells /\ LabelsOf' = LabelsOf /\ W' = W
      /\ (Threads' <=> Threads) /\ (Mpi' <=> Mpi) /\ (Diagonals' <=> Diagonals) /\ (Right' <=> Right)
      /\ \A r : G(r)' = G(r)
  BY <1>1, InputStays
<1>3. Shape'
  BY <1>1, <1>2, PlaceStays DEF Shape
<1>4. Together'
  BY <1>1, <1>2 DEF Together
<1>5. Queues'
  BY <1>1, <1>2, QueueAtStays DEF Queues
<1>6. Chained'
  BY <1>1, <1>2, LinkStays DEF Chained
<1>7. NoneSent'
  BY <1>1 DEF NoneSent
<1>8. ASSUME Right
      PROVE  GridRight' /\ Baton' /\ Printed'
  <2>1. GridRight /\ Baton /\ Printed
    BY <1>8 DEF IInv
  <2>2. ASSUME NEW r \in Ranks
        PROVE  Borders(grid[G(r)])' /\ BandRight(r)' /\ RowRight(r)'
    <3>1. \A i \in Band(r), j \in 1 .. input.m : Filled(r, i, j)' => Filled(r, i, j)
      BY <1>1, FilledStays
    <3>2. BandRight(r)'
      BY <1>1, <2>1, <3>1, BandStays DEF GridRight
    <3>3. RowRight(r)'
      BY <1>1, <2>1, RowStays DEF GridRight
    <3> QED
      BY <1>1, <1>2, <2>1, <3>2, <3>3 DEF GridRight, Borders
  <2>3. GridRight'
    <3>1. grid' \in [{G(r) : r \in Ranks} -> [Cells -> Cell]] /\ {G(r)' : r \in Ranks} = {G(r) : r \in Ranks}
      BY <1>1, <1>2, <2>1 DEF GridRight
    <3> QED
      BY <1>1, <1>2, <2>2, <3>1 DEF GridRight
  <2>4. ASSUME NEW r \in Ranks
        PROVE  Bearer(r)'
    <3>1. Handed(r)' = Handed(r) /\ Bearer(r)
      BY <1>1, <1>2, <2>1 DEF Handed, Baton
    <3>2. Ranks \subseteq Int
      BY DEF Ranks
    <3> QED
      BY <1>1, <3>1, <3>2, BearerStays
  <2>5. lcs_backtrack_serial' = lcs_backtrack_serial
    <3>1. input.n + input.m \in Nat
      BY <1>1, InputOK DEF Nonzero
    <3>2. lcs_backtrack_steps'[input.n + input.m] = lcs_backtrack_steps[input.n + input.m]
      BY <1>1, <3>1, PathStays
    <3> QED
      BY <1>1, <3>2 DEF lcs_backtrack_serial
  <2>6. Baton' /\ Printed'
    BY <1>1, <1>2, <2>1, <2>4, <2>5 DEF Baton, Printed
  <2> QED
    BY <2>3, <2>6
<1> QED
  BY <1>2, <1>3, <1>4, <1>5, <1>6, <1>7, <1>8 DEF IInv

LEMMA RankStep ==
    ASSUME IInv, NEW r \in Ranks, Rank(r)
    PROVE  IInv'
<1>1. input \in Inputs /\ input' = input /\ Shape /\ Together /\ Queues /\ Chained /\ Moves(r)
  BY RankMoves DEF IInv, Shape, Moves
<1>2. Shape' /\ Together' /\ Queues' /\ Chained' /\ NoneSent'
  BY <1>1, ShapeStep, QueuesStep, ChainedStep, NoneSentStep
<1>3. Right' <=> Right
  BY <1>1, InputStays
<1>4. Right => GridRight' /\ Baton' /\ Printed'
  BY GridStep, BatonStep, PrintedStep
<1> QED
  BY <1>2, <1>3, <1>4 DEF IInv

LEMMA BarrierInv ==
    ASSUME IInv, Barrier
    PROVE  IInv'
<1>1. Shape /\ Together
  BY DEF IInv
<1>2. Shape' /\ Together' /\ input' = input
  BY <1>1, BarrierStep
<1>3. Queues' /\ Chained' /\ NoneSent' /\ (Right => GridRight' /\ Baton' /\ Printed')
  BY BarrierQueues, BarrierGrid
<1>4. Right' <=> Right
  BY <1>2, InputStays
<1> QED
  BY <1>2, <1>3, <1>4 DEF IInv

\* The invariant holds of the threads, of the ranks and of the diagonals.
THEOREM AlwaysIInv == Spec => []IInv
<1>1. Init => IInv
  BY Initially
<1>2. IInv /\ [Next]_vars => IInv'
  BY RankStep, BarrierInv, Stutters DEF Next, Over
<1> QED
  BY <1>1, <1>2, PTL DEF Spec

-----------------------------------------------------------------------------
(* The theorems *)

\* A message fits in the room the rank has for it.
LEMMA Fits ==
    ASSUME IInv, ~Threads, NEW r \in Ranks, NEW k \in DOMAIN net["block"][r]
    PROVE  Len(net["block"][r][k]) <= w[r]
<1>1. /\ Shape /\ Queues /\ Chained /\ NoneSent /\ input \in Inputs /\ input.m \in Nat /\ input.p \in Nat /\ W \in Nat
  <2>1. Shape /\ Queues /\ Chained /\ NoneSent /\ input \in Inputs
    BY DEF IInv, Shape
  <2>2. input.m \in Nonzero /\ input.p \in Nonzero /\ W \in Nonzero
    BY <2>1, InputOK, Sizes
  <2> QED
    BY <2>1, <2>2 DEF Nonzero
<1>2. r # 0
  BY <1>1 DEF NoneSent
<1>3. r \in 1 .. input.p - 1 /\ r - 1 \in Ranks /\ Mpi /\ ~Diagonals
  <2>1. r \in 1 .. input.p - 1 /\ r - 1 \in Ranks
    BY <1>1, <1>2 DEF Ranks
  <2> QED
    BY <1>1, <1>2, <2>1, ThreeVersions
<1>4. PICK s \in Seq(1 .. input.m + 1) : Waiting(r, s) /\ Chain(next[r], Line(r, s), next[r - 1])
  BY <1>1, <1>3 DEF Chained, Linked
<1>5. /\ Len(net["block"][r]) = Len(s)
      /\ \A l \in 1 .. Len(s) :
           net["block"][r][l] = [c \in 1 .. Width(s[l]) |-> D[<<y(r) - 1, s[l] + c - 1>>]]
  BY <1>4 DEF Waiting
<1>6. k \in 1 .. Len(s) /\ Len(s) \in Nat
  <2>1. net["block"][r] \in Seq(Seq(Cell) \cup Steps)
    BY <1>1 DEF Queues, Messages
  <2> QED
    BY <1>5, <2>1, LenProperties
<1>7. s[k] \in 1 .. input.m + 1
  BY <1>6, ElementOfSeq
<1>8. Width(s[k]) \in Nat /\ Width(s[k]) <= W
  BY <1>1, <1>7 DEF Width
<1>9. Len(net["block"][r][k]) = Width(s[k])
  <2> DEFINE a == Width(s[k])
             b == y(r) - 1
             e == net["block"][r][k]
  <2>1. e = [c \in 1 .. a |-> D[<<b, s[k] + c - 1>>]] /\ a \in Nat
    BY <1>5, <1>6, <1>8
  <2> HIDE DEF a, b, e
  <2>2. Len(e) = a
    BY <2>1
  <2> QED
    BY <2>2 DEF a, e
<1>10. s # << >>
  BY <1>6
<1>11. Line(r, s) # << >> /\ Line(r, s)[1] = s[1]
  BY <1>1, <1>2, <1>10, Above, LineOf DEF Ranks
<1>12. next[r] <= input.m /\ s[1] = Following(next[r]) /\ next[r] \in 0 .. input.m + 1
  BY <1>1, <1>4, <1>11 DEF Chain, Shape, Place
<1>15. BlockAt(r)
  BY <1>1, <1>3, ShapeAt
<1>13. CASE next[r] = 0
  <2>1. w[r] = W
    BY <1>13, <1>15 DEF BlockAt
  <2> QED
    BY <1>8, <1>9, <2>1
<1>14. CASE next[r] # 0
  <2>1. next[r] \in 1 .. input.m
    BY <1>1, <1>12, <1>14
  <2>2. w[r] = Width(next[r])
    BY <1>15, <2>1 DEF BlockAt
  <2>3. next[r - 1] <= input.m
    <3>1. Place(r - 1) /\ pc[r - 1] \in LabelsOf /\ next[r - 1] \in 0 .. input.m + 1
      BY <1>1, <1>3, ShapeAt
    <3>2. pc[r - 1] \in Computing \cup {"take", "back", "done"}
      BY <1>3, <3>1 DEF LabelsOf
    <3>3. CASE pc[r - 1] \in Computing
      BY <1>1, <1>3, <3>1, <3>3 DEF Place, Computing
    <3>4. CASE pc[r - 1] \in {"take", "back", "done"}
      <4>1. next[r - 1] \in 1 .. input.m
        BY <1>3, <3>1, <3>4 DEF Place, Final
      <4> QED
        BY <1>1, <4>1
    <3> QED
      BY <3>2, <3>3, <3>4
  <2>4. Following(next[r]) <= input.m
    <3>1. Line(r, s) \in Seq(1 .. input.m + 1)
      <4>1. pc[r - 1] \in {"cells", "pass"} => next[r - 1] \in 1 .. input.m + 1
        BY <1>1, <1>2, Above DEF Ranks
      <4> QED
        BY <4>1, AppendProperties DEF Line
    <3>2. Following(next[r]) <= next[r - 1]
      BY <1>1, <1>4, <1>11, <1>12, <3>1, ChainAhead
    <3>3. Following(next[r]) \in 1 .. input.m + 1 /\ next[r - 1] \in 0 .. input.m + 1
      BY <1>1, <1>3, <1>12, Blocks DEF Shape, Place
    <3> QED
      BY <1>1, <2>3, <3>2, <3>3
  <2>5. Width(next[r]) = W
    BY <1>1, <1>12, <2>1, <2>4, Blocks
  <2> QED
    BY <1>8, <1>9, <2>2, <2>5
<1> QED
  BY <1>13, <1>14

\* No thread uses a queue that is not set up, or is set up for the other phase,
\* no queue is destroyed with something in it or before its user is done with it,
\* no rank receives more cells than it has room for, and every cell computed is
\* in the grid: the barriers and the order of lcs_pthreads.c see to it.
THEOREM TypeCorrect == Spec => []TypeOK
<1> SUFFICES ASSUME IInv
             PROVE  TypeOK
  BY AlwaysIInv, PTL
<1>1. Shape /\ Together /\ Queues /\ Chained /\ input \in Inputs
  BY DEF IInv, Shape
<1>2. pc \in [Ranks -> Labels]
  <2>1. LabelsOf \subseteq Labels
    BY DEF LabelsOf, Labels, Setup, Middle, Computing, Final, After
  <2> QED
    BY <1>1, <2>1 DEF Shape
<1>3. ASSUME NEW r \in Ranks
      PROVE  /\ next[r] \in 0 .. input.m + 1
             /\ pc[r] \in {"cells", "diagonal"} => cur[r] \in (1 .. input.n) \X (1 .. input.m)
  <2>1. pc[r] = "cells" => cur[r] \in (1 .. input.n) \X (1 .. input.m)
    <3>1. pc[r] = "cells" => /\ cur[r] = <<cur[r][1], cur[r][2]>>
                             /\ cur[r][1] \in 1 .. input.n /\ cur[r][2] \in 1 .. input.m
      BY CellAt, Zenon
    <3> DEFINE i == cur[r][1]
               j == cur[r][2]
    <3>2. pc[r] = "cells" => cur[r] = <<i, j>> /\ i \in 1 .. input.n /\ j \in 1 .. input.m
      BY <3>1
    <3> HIDE DEF i, j
    <3> QED
      BY <3>2
  <2> QED
    BY <1>1, <2>1 DEF Shape, Place
<1>4. ASSUME NEW r \in Ranks, pc[r] \in {"destroy1", "init1", "init2", "destroy2"}
      PROVE  q[r].items = << >>
  <2>1. Threads /\ Right
    BY <1>1, <1>4, ByVersion, ThreeVersions DEF Setup, Right
  <2>2. CASE pc[r] = "destroy1"
    BY <2>1, <2>2, NothingLeft
  <2>3. CASE pc[r] = "destroy2"
    BY <2>1, <2>3 DEF IInv, Baton, Bearer, Gone, Handed
  <2>4. CASE pc[r] \in {"init1", "init2"}
    BY <1>1, <2>1, <2>4 DEF Queues, QueueAt, Setup
  <2> QED
    BY <1>4, <2>2, <2>3, <2>4
<1>5. ASSUME Threads, NEW r \in Ranks, pc[r] \in Computing
      PROVE  q[r].capacity > 0
  <2>1. q[r].capacity = CeilDiv(input.m, W)
    BY <1>1, <1>5 DEF Queues, QueueAt
  <2>2. CeilDiv(input.m, W) \in Nonzero
    BY <1>1, Sizes
  <2> QED
    BY <2>1, <2>2 DEF Nonzero
<1>6. ASSUME Threads, NEW r \in Ranks, pc[r] = "pass", r < input.p - 1
      PROVE  q[r + 1].capacity > 0 /\ pc[r + 1] \notin {"init1", "init2", "take"}
  <2>1. r + 1 \in Ranks /\ pc[r + 1] \in Computing
    BY <1>1, <1>6, PassPlace
  <2> QED
    BY <1>5, <1>6, <2>1 DEF Computing
<1>7. ASSUME Threads, NEW r \in Ranks, pc[r] = "back", r > 0
      PROVE  q[r - 1].capacity > 0 /\ pc[r - 1] \in {"barrier2", "take"}
  <2>1. r - 1 \in Ranks /\ r > r - 1 /\ Right
    <3>1. r - 1 \in Ranks /\ r \in Int
      BY <1>1, <1>7, Above DEF Ranks
    <3> QED
      BY <1>1, <1>7, <3>1, ThreeVersions DEF Right
  <2>2. pc[r - 1] \in Final
    BY <1>1, <1>7, <2>1 DEF Together, Final
  <2>3. pc[r - 1] \notin {"back"} \cup Gone
    BY <1>7, <2>1 DEF IInv, Baton, Bearer, Gone
  <2>4. pc[r - 1] = "take"
    BY <2>2, <2>3 DEF Final, Gone
  <2>5. q[r - 1].capacity = 2
    BY <1>1, <1>7, <2>1, <2>4 DEF Queues, QueueAt
  <2> QED
    BY <2>4, <2>5
<1> QED
  BY <1>2, <1>3, <1>4, <1>5, <1>6, <1>7, Fits DEF TypeOK, Computing

\* Every version computes the grid of lcs_serial.c and prints what it prints, a
\* longest common subsequence; by diagonals if the second string is not longer.
THEOREM ResultIsRight == Spec => []ResultCorrect
<1> SUFFICES ASSUME IInv
             PROVE  ResultCorrect
  BY AlwaysIInv, PTL
<1> SUFFICES ASSUME Right
             PROVE  /\ \A r \in Ranks : pc[r] \in {"destroy1", "init2", "barrier2", "take", "back"} =>
                         \A c \in Cells :
                           \/ c[1] \notin y(r) .. y(r) + Height - 1 /\ ~(Threads /\ pc[r] = "back")
                           \/ grid[G(r)][c] = D[c]
                    /\ AllDone => result = lcs_backtrack_serial /\ Longest(result)
  BY Zenon DEF ResultCorrect, Right, Longest, D
<1>1. Shape /\ GridRight /\ Printed /\ input \in Inputs
  BY DEF IInv, Shape
<1>2. ASSUME NEW r \in Ranks, pc[r] \in {"destroy1", "init2", "barrier2", "take", "back"}, NEW c \in Cells,
             c[1] \in y(r) .. y(r) + Height - 1 \/ (Threads /\ pc[r] = "back")
      PROVE  grid[G(r)][c] = D[c]
  <2>1. CASE c[1] = 0 \/ c[2] = 0
    <3>1. IsTable(D)
      BY <1>1, Table
    <3> QED
      BY <1>1, <2>1, <3>1 DEF GridRight, Borders, IsTable
  <2>2. CASE c[1] # 0 /\ c[2] # 0
    <3>1. c[1] \in 1 .. input.n /\ c[2] \in 1 .. input.m /\ c = <<c[1], c[2]>>
      BY <1>1, <2>2, InputOK DEF Cells, Nonzero
    <3>2. CASE Threads /\ pc[r] = "back"
      BY <3>1, <3>2, GridUsed
    <3>3. CASE c[1] \in y(r) .. y(r) + Height - 1
      <4>1. c[1] \in Band(r)
        <5>1. y(r) \in Nonzero /\ Height \in Nonzero
          BY <1>1, Bands, Sizes
        <5> QED
          BY <3>1, <3>3, <5>1 DEF Band, Nonzero
      <4>2. Filled(r, c[1], c[2])
        BY <1>1, <1>2, <3>1, AllFilled DEF Final
      <4> QED
        BY <1>1, <3>1, <4>1, <4>2 DEF GridRight, BandRight
    <3> QED
      BY <1>2, <3>2, <3>3
  <2> QED
    BY <2>1, <2>2
<1>3. ASSUME AllDone
      PROVE  result = lcs_backtrack_serial /\ Longest(result)
  <2>1. 0 \in Ranks
    BY <1>1, ThreeVersions
  <2>2. result = lcs_backtrack_serial
    BY <1>1, <1>3, <2>1 DEF Printed, AllDone, Gone
  <2> QED
    BY <1>1, <2>2, SerialIsLongest
<1> QED
  BY <1>2, <1>3

-----------------------------------------------------------------------------
(* No deadlock *)

LEMMA Smallest ==
    ASSUME NEW T, T \subseteq Nat, T # {}
    PROVE  \E x \in T : \A k \in T : x <= k
<1>1. PICK x \in T : \A k \in T : <<k, x>> \notin OpToRel(<, Nat)
  BY NatLessThanWellFounded, WFMin
<1>2. ASSUME NEW k \in T
      PROVE  x <= k
  <2>1. <<k, x>> \notin {pair \in Nat \X Nat : pair[1] < pair[2]}
    BY <1>1 DEF OpToRel
  <2> QED
    BY <2>1
<1> QED
  BY <1>2

LEMMA Ends ==
    ASSUME NEW p \in Nat, NEW S \in SUBSET (0 .. p - 1), S # {}
    PROVE  /\ \E x \in S : \A k \in S : x <= k
           /\ \E x \in S : \A k \in S : k <= x
<1>2. \E x \in S : \A k \in S : x <= k
  <2>1. S \subseteq Nat
    OBVIOUS
  <2> QED
    BY <2>1, Smallest
<1>3. \E x \in S : \A k \in S : k <= x
  <2> DEFINE T == {p - k : k \in S}
  <2>1. T \subseteq Nat /\ T # {}
    OBVIOUS
  <2>2. PICK z \in T : \A k \in T : z <= k
    <3> HIDE DEF T
    <3> QED
      BY <2>1, Smallest
  <2>3. PICK x \in S : z = p - x
    BY <2>2
  <2>4. ASSUME NEW k \in S
        PROVE  k <= x
    <3>1. z <= p - k
      BY <2>2
    <3> HIDE DEF T
    <3> QED
      BY <2>3, <3>1
  <2> QED
    BY <2>4
<1> QED
  BY <1>2, <1>3

\* In the first phase the lowest band that has a block to pass on has room below
\* it, or the band below has a block to take; and if no band passes a block on,
\* the first one that waits has one in its queue, from the band above.
LEMMA MiddleMoves ==
    ASSUME IInv, Threads, \A r \in Ranks : pc[r] \in Middle
    PROVE  \/ \E r \in Ranks : CanMove(r)
           \/ \A r \in Ranks : pc[r] = "barrier2"
<1>1. /\ Shape /\ Together /\ Queues /\ Chained /\ input \in Inputs
      /\ input.p \in Nat /\ input.m \in Nat
  BY InputSizes DEF IInv, Shape
<1>2. CASE \E r \in Ranks : pc[r] \in {"cells", "destroy1", "init2"}
  BY <1>2 DEF CanMove
<1>3. CASE /\ \A r \in Ranks : pc[r] \in {"next", "pass", "barrier2"}
           /\ \E r \in Ranks : pc[r] = "pass"
  <2> DEFINE S == {r \in Ranks : pc[r] = "pass"}
  <2>1. S # {} /\ S \in SUBSET (0 .. input.p - 1)
    BY <1>3 DEF Ranks
  <2>2. PICK r \in S : \A k \in S : k <= r
    <3> HIDE DEF S
    <3> QED
      BY <1>1, <2>1, Ends
  <2>3. r \in Ranks /\ pc[r] = "pass" /\ r \in 0 .. input.p - 1
    BY DEF Ranks
  <2>4. \A k \in Ranks : pc[k] = "pass" => k <= r
    BY <2>2
  <2> HIDE DEF S
  <2>5. CASE ~ (r < input.p - 1)
    BY <2>3, <2>5 DEF CanMove
  <2>6. CASE r < input.p - 1
    <3>1. r + 1 \in Ranks /\ pc[r + 1] \in Computing
      BY <1>1, <2>3, <2>6, PassPlace
    <3>2. pc[r + 1] = "next"
      <4>1. pc[r + 1] # "pass"
        BY <2>3, <2>4, <3>1
      <4> QED
        BY <1>3, <3>1, <4>1 DEF Computing
    <3>3. CASE Len(q[r + 1].items) < q[r + 1].capacity
      BY <2>3, <3>3 DEF CanMove
    <3>4. CASE ~ (Len(q[r + 1].items) < q[r + 1].capacity)
      <4>1. q[r + 1].capacity = CeilDiv(input.m, W)
        BY <1>1, <3>1 DEF Queues, QueueAt
      <4>2. CeilDiv(input.m, W) \in Nat /\ CeilDiv(input.m, W) > 0
        BY <1>1, Sizes DEF Nonzero
      <4>3. Len(<< >>) < q[r + 1].capacity
        BY <4>1, <4>2
      <4>4. q[r + 1].items # << >>
        BY <3>4, <4>3
      <4> QED
        BY <3>1, <3>2, <4>4 DEF CanMove
    <3> QED
      BY <3>3, <3>4
  <2> QED
    BY <2>5, <2>6
<1>4. CASE /\ \A r \in Ranks : pc[r] \in {"next", "barrier2"}
           /\ \E r \in Ranks : pc[r] = "next"
  <2> DEFINE S == {r \in Ranks : pc[r] = "next"}
  <2>1. S # {} /\ S \in SUBSET (0 .. input.p - 1)
    BY <1>4 DEF Ranks
  <2>2. PICK r \in S : \A k \in S : r <= k
    <3> HIDE DEF S
    <3> QED
      BY <1>1, <2>1, Ends
  <2>3. r \in Ranks /\ pc[r] = "next" /\ r \in 0 .. input.p - 1
    BY DEF Ranks
  <2>4. \A k \in Ranks : pc[k] = "next" => r <= k
    BY <2>2
  <2> HIDE DEF S
  <2>5. CASE r = 0 \/ q[r].items # << >>
    BY <2>3, <2>5 DEF CanMove
  <2>6. CASE r # 0 /\ q[r].items = << >>
    <3>1. r > 0
      BY <2>3, <2>6
    <3>2. r - 1 \in Ranks /\ r \in 1 .. input.p - 1
      BY <1>1, <2>3, <3>1, Above
    <3>3. pc[r - 1] = "barrier2"
      <4>1. pc[r - 1] # "next"
        BY <2>3, <2>4, <3>2
      <4> QED
        BY <1>4, <3>2, <4>1
    <3>4. next[r - 1] = input.m + 1
      <4>1. Place(r - 1)
        BY <1>1, <3>2, ShapeAt
      <4> QED
        BY <3>3, <4>1 DEF Place
    <3>5. PICK s \in Seq(1 .. input.m + 1) : Waiting(r, s) /\ Chain(next[r], Line(r, s), next[r - 1])
      BY <1>1, <2>3, <3>2 DEF Chained, Linked
    <3>6. Line(r, s) = << >>
      BY <2>6, <3>3, <3>5 DEF Waiting, Line
    <3>7. next[r] = input.m + 1
      BY <3>4, <3>5, <3>6 DEF Chain
    <3>8. next[r] <= input.m
      <4>1. Place(r)
        BY <1>1, <2>3, ShapeAt
      <4> QED
        BY <2>3, <4>1 DEF Place
    <3> QED
      BY <1>1, <3>7, <3>8
  <2> QED
    BY <2>5, <2>6
<1> QED
  BY <1>2, <1>3, <1>4 DEF Middle, Computing

\* With MPI, the first rank that waits for a row is sent one by the rank above,
\* who has sent the rows of all its blocks before it turns to the backtracking.
LEMMA RanksMove ==
    ASSUME IInv, Mpi, \E r \in Ranks : pc[r] \in Computing
    PROVE  \E r \in Ranks : CanMove(r)
<1>1. /\ Shape /\ Chained /\ Queues /\ input \in Inputs /\ ~ Threads /\ ~ Diagonals
      /\ input.p \in Nat /\ input.m \in Nat
  <2>1. Shape /\ Chained /\ Queues /\ input \in Inputs
    BY DEF IInv, Shape
  <2> QED
    BY <2>1, InputSizes, ThreeVersions
<1>2. CASE \E r \in Ranks : pc[r] \in {"cells", "pass"}
  BY <1>1, <1>2 DEF CanMove
<1>3. CASE \A r \in Ranks : pc[r] \notin {"cells", "pass"}
  <2> DEFINE S == {r \in Ranks : pc[r] = "next"}
  <2>1. S # {} /\ S \in SUBSET (0 .. input.p - 1)
    BY <1>3 DEF Ranks, Computing
  <2>2. PICK r \in S : \A k \in S : r <= k
    <3> HIDE DEF S
    <3> QED
      BY <1>1, <2>1, Ends
  <2>3. r \in Ranks /\ pc[r] = "next" /\ r \in 0 .. input.p - 1
    BY DEF Ranks
  <2>4. \A k \in Ranks : pc[k] = "next" => r <= k
    BY <2>2
  <2> HIDE DEF S
  <2>5. CASE r = 0 \/ net["block"][r] # << >>
    BY <1>1, <2>3, <2>5 DEF CanMove
  <2>6. CASE r # 0 /\ net["block"][r] = << >>
    <3>1. r > 0
      BY <2>3, <2>6
    <3>2. r - 1 \in Ranks /\ r \in 1 .. input.p - 1
      BY <1>1, <2>3, <3>1, Above
    <3>3. pc[r - 1] \in Final
      <4>1. pc[r - 1] # "next"
        BY <2>3, <2>4, <3>2
      <4>2. pc[r - 1] \in LabelsOf
        BY <1>1, <3>2, ShapeAt
      <4> QED
        BY <1>1, <1>3, <3>2, <4>1, <4>2 DEF LabelsOf, Computing, Final
    <3>4. next[r - 1] \in 1 .. input.m /\ Following(next[r - 1]) = input.m + 1
      <4>1. Place(r - 1)
        BY <1>1, <3>2, ShapeAt
      <4> QED
        BY <3>3, <4>1 DEF Place
    <3>5. PICK s \in Seq(1 .. input.m + 1) : Waiting(r, s) /\ Chain(next[r], Line(r, s), next[r - 1])
      BY <1>1, <3>2 DEF Chained, Linked
    <3>6. s = << >>
      <4>1. Len(s) = Len(net["block"][r])
        BY <1>1, <3>5 DEF Waiting
      <4>2. Len(s) = 0
        BY <2>6, <4>1
      <4> QED
        BY <4>2, EmptySeq
    <3>7. Line(r, s) = << >>
      BY <3>3, <3>6 DEF Line, Final
    <3>8. next[r] = next[r - 1]
      BY <3>5, <3>7 DEF Chain
    <3>9. w[r] = Width(next[r])
      <4>1. BlockAt(r)
        BY <1>1, <2>3, ShapeAt
      <4>2. next[r] \in 1 .. input.m
        BY <3>4, <3>8
      <4> QED
        BY <4>1, <4>2 DEF BlockAt
    <3>10. next[r] + w[r] = input.m + 1
      <4>1. next[r] \in 0 .. input.m + 1 /\ next[r] \in 1 .. input.m
        <5>1. next[r] \in 1 .. input.m
          BY <3>4, <3>8
        <5> QED
          BY <1>1, <5>1
      <4>2. Following(next[r]) = next[r] + Width(next[r])
        BY <1>1, <4>1, Blocks
      <4> QED
        BY <3>4, <3>8, <3>9, <4>2
    <3>11. next[r] > 0 /\ next[r] + w[r] > input.m
      BY <1>1, <3>4, <3>8, <3>10
    <3> QED
      BY <1>1, <2>3, <3>11 DEF CanMove
  <2> QED
    BY <2>5, <2>6
<1> QED
  BY <1>2, <1>3

\* In the second phase whoever has the path has room for it in the queue of the
\* band above; when nobody has it, it is with the lowest band that waits.
LEMMA FinalMoves ==
    ASSUME IInv, Right, \A r \in Ranks : pc[r] \in Final
    PROVE  AllDone \/ \E r \in Ranks : CanMove(r)
<1>1. Shape /\ Queues /\ Baton /\ input \in Inputs /\ input.p \in Nat
  BY InputSizes DEF IInv, Shape
<1>2. CASE \E r \in Ranks : pc[r] = "destroy2"
  BY <1>2 DEF CanMove
<1>3. CASE \E r \in Ranks : pc[r] = "back"
  <2>1. PICK r \in Ranks : pc[r] = "back"
    BY <1>3
  <2>2. CASE ~ (Threads /\ r > 0)
    BY <2>1, <2>2 DEF CanMove
  <2>3. CASE Threads /\ r > 0
    <3>1. r - 1 \in Ranks /\ r > r - 1 /\ (r - 1) + 1 = r /\ r - 1 # input.p - 1
      <4>1. r - 1 \in Ranks
        BY <1>1, <2>3, Above
      <4> QED
        BY <1>1, <4>1 DEF Ranks
    <3>2. Bearer(r - 1)
      BY <1>1, <3>1 DEF Baton
    <3>3. pc[r - 1] \notin {"back"} \cup Gone
      BY <2>1, <3>1, <3>2 DEF Bearer, Gone
    <3>4. pc[r - 1] = "take"
      BY <3>1, <3>3 DEF Final, Gone
    <3>5. Handed(r - 1) = << >>
      BY <2>1, <2>3, <3>1, <3>2, <3>4 DEF Bearer, Gone
    <3>6. q[r - 1].capacity = 2 /\ q[r - 1].items = << >>
      BY <1>1, <2>3, <3>1, <3>4, <3>5 DEF Queues, QueueAt, Handed
    <3>7. Len(q[r - 1].items) < q[r - 1].capacity
      BY <3>6
    <3> QED
      BY <2>1, <3>7 DEF CanMove
  <2> QED
    BY <2>2, <2>3
<1>4. CASE /\ \A r \in Ranks : pc[r] \in {"take", "done"}
           /\ \E r \in Ranks : pc[r] = "take"
  <2> DEFINE S == {r \in Ranks : pc[r] = "take"}
  <2>1. S # {} /\ S \in SUBSET (0 .. input.p - 1)
    BY <1>4 DEF Ranks
  <2>2. PICK r \in S : \A k \in S : k <= r
    <3> HIDE DEF S
    <3> QED
      BY <1>1, <2>1, Ends
  <2>3. r \in Ranks /\ pc[r] = "take" /\ r \in 0 .. input.p - 1
    BY DEF Ranks
  <2>4. \A k \in Ranks : pc[k] = "take" => k <= r
    BY <2>2
  <2> HIDE DEF S
  <2>5. CASE r = input.p - 1
    BY <2>3, <2>5 DEF CanMove
  <2>6. CASE r # input.p - 1
    <3>1. r + 1 \in Ranks /\ ~ (r + 1 <= r)
      BY <1>1, <2>3, <2>6 DEF Ranks
    <3>2. pc[r + 1] = "done"
      BY <1>4, <2>4, <3>1
    <3>3. Bearer(r)
      BY <1>1, <2>3 DEF Baton
    <3>4. \E s \in Held(r) : Handed(r) = <<s>>
      BY <2>3, <2>6, <3>2, <3>3 DEF Bearer, Gone
    <3>5. Handed(r) # << >>
      BY <3>4
    <3> QED
      BY <2>3, <3>5 DEF CanMove, Handed
  <2> QED
    BY <2>5, <2>6
<1> QED
  BY <1>2, <1>3, <1>4 DEF Final, AllDone

LEMMA IInvNobodyStuck == IInv => NobodyStuck
<1> SUFFICES ASSUME IInv
             PROVE  NobodyStuck
  OBVIOUS
<1>1. Shape /\ Together
  BY DEF IInv
<1>2. {"barrier1", "barrier2"} = DOMAIN After
  BY DEF After
<1>3. CASE Threads
  <2>1. \A r \in Ranks : pc[r] \in Setup \cup Middle \cup Final
    BY <1>1, <1>3 DEF Shape, LabelsOf
  <2>2. CASE \E r \in Ranks : pc[r] \in Setup
    <3>1. \A r \in Ranks : pc[r] \in Setup
      BY <1>1, <1>3, <2>2 DEF Together
    <3>2. CASE \E r \in Ranks : pc[r] = "init1"
      BY <3>2 DEF NobodyStuck, CanMove
    <3>3. CASE \A r \in Ranks : pc[r] = "barrier1"
      BY <1>2, <3>3 DEF NobodyStuck
    <3> QED
      BY <3>1, <3>2, <3>3 DEF Setup
  <2>3. CASE \E r \in Ranks : pc[r] \in Final
    <3>1. \A r \in Ranks : pc[r] \in Final
      BY <1>1, <1>3, <2>3 DEF Together
    <3>2. Right
      BY <1>1, <1>3, ThreeVersions DEF Right
    <3> QED
      BY <3>1, <3>2, FinalMoves DEF NobodyStuck
  <2>4. CASE \A r \in Ranks : pc[r] \in Middle
    BY <1>2, <1>3, <2>4, MiddleMoves DEF NobodyStuck
  <2> QED
    BY <2>1, <2>2, <2>3, <2>4
<1>4. CASE Mpi
  <2>1. ~ Threads /\ ~ Diagonals /\ Right
    BY <1>1, <1>4, ThreeVersions DEF Right
  <2>2. \A r \in Ranks : pc[r] \in Computing \cup Final
    BY <1>1, <2>1 DEF Shape, LabelsOf, Final
  <2>3. CASE \E r \in Ranks : pc[r] \in Computing
    BY <1>4, <2>3, RanksMove DEF NobodyStuck
  <2>4. CASE \A r \in Ranks : pc[r] \in Final
    BY <2>1, <2>4, FinalMoves DEF NobodyStuck
  <2> QED
    BY <2>2, <2>3, <2>4
<1>5. CASE Diagonals
  <2>1. Ranks = {0} /\ input.p = 1 /\ ~ Threads
    BY <1>1, <1>5, ThreeVersions
  <2>2. pc[0] \in {"diagonal", "take", "back", "done"}
    BY <1>1, <1>5, <2>1 DEF Shape, LabelsOf
  <2>3. CASE pc[0] = "done"
    BY <2>1, <2>3 DEF NobodyStuck, AllDone
  <2>4. CASE pc[0] # "done"
    <3>1. CanMove(0)
      BY <2>1, <2>2, <2>4 DEF CanMove
    <3> QED
      BY <2>1, <3>1 DEF NobodyStuck
  <2> QED
    BY <2>2, <2>3, <2>4
<1> QED
  BY <1>1, <1>3, <1>4, <1>5, ThreeVersions

\* For strings of every length and any number of threads or ranks: the queues
\* are long enough and the end is passed on, so that there is never a moment at
\* which all of them wait, for a block, a place in a queue, the path, or the
\* others at a barrier.
THEOREM NoDeadlock == Spec => []NobodyStuck
<1> QED
  BY AlwaysIInv, IInvNobodyStuck, PTL
=============================================================================
