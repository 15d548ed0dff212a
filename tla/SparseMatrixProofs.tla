------------------------- MODULE SparseMatrixProofs -------------------------
(***************************************************************************)
(* Proofs about SparseMatrix, for any number of ranks, any matrix and any  *)
(* vector.                                                                 *)
(***************************************************************************)
EXTENDS SparseMatrix, FiniteSetTheorems, SequenceTheorems, TLAPS

(***************************************************************************)
(* The shares.  Rank 0 is reading the share of rank Coming, and has read   *)
(* those before.                                                           *)
(***************************************************************************)
Reading == pc[0] \in {"share", "isend"}

Coming == IF pc[0] = "isend" THEN count[0] + 1 ELSE count[0]

\* The first row that is in no share of a rank below c.
Bound(c) == IF c = input.p THEN input.n ELSE FromRow(c)

\* The lines of the matrix with row i that have been read.
Seen(i) == {k \in DOMAIN input.cells : input.cells[k].i = i /\ (which[0] = "mat" => k <= pos)}

\* The share of rank r in file f, as it is kept and as it is sent.
Part(f, r) ==
    [from |-> FromRow(r), to |-> ToRow(r),
     rows |-> [i \in FromRow(r) .. ToRow(r) |-> IF f = "mat" THEN Seen(i) ELSE {i + 1}],
     mapped |-> << >>]

Parcel(f, r) == matrix_serialize(Part(f, r))

\* What rank 0 has done for rank r, and rank r for itself.
Sent(f, r) ==
    \/ ~ Reading
    \/ which[0] = f /\ r < count[0]
    \/ f = "mat" /\ which[0] = "vec"

Announced(f, r) == Sent(f, r) \/ (pc[0] = "isend" /\ which[0] = f /\ r = count[0])

Has(f, r) ==
    IF r = 0 THEN Sent(f, 0)
    ELSE pc[r] \notin {"size", "part"} \/ (f = "mat" /\ which[r] = "vec")

Told(f, r) == Has(f, r) \/ (pc[r] = "part" /\ which[r] = f)

\* Up to two messages in the order of the files.
Line(a, x, b, y) ==
    IF a THEN IF b THEN <<x, y>> ELSE <<x>>
    ELSE IF b THEN <<y>> ELSE << >>

\* The exchange in which rank a asks rank b.
Id(a, b) == input.p * a + b

InExchange == {"exchange", "asked", "barrier3"}

Asks(a, b) == pc[a] = "asked" /\ Turn(a) = Id(a, b)

Values(a, b) == [k \in DOMAIN recv_cols[a][b] |-> input.x[recv_cols[a][b][k] + 1]]

\* The rows of the vector that rank r has been given so far.
Given(r) == UNION {Needed(r, s) : s \in {t \in Ranks : Id(r, t) < count[r]}}

-----------------------------------------------------------------------------
(***************************************************************************)
(* The inductive invariant.                                                *)
(***************************************************************************)
\* The barriers and MPI_Allgather keep the ranks in one phase.
Phases == {{"share", "isend", "size", "part", "barrier1"}, {"build", "gather"}, {"barrier2"},
           InExchange, {"mult", "barrier4"}, {"done"}}

Together ==
    /\ \E phase \in Phases : \A r \in Ranks : pc[r] \in phase
    /\ pc[0] \notin {"size", "part"}
    /\ \A r \in Ranks \ {0} : pc[r] \notin {"share", "isend"}
    /\ \A r \in Ranks : pc[r] \notin {"share", "isend", "size", "part"} => which[r] = "vec"

\* The shares below Coming have been read, and there is a row for each rank.
SharesRead ==
    /\ Reading => count[0] \in 0 .. input.p
    /\ ~ Reading \/ which[0] = "vec" \/ Coming > 0 => partition_size > 0
    /\ pc[0] = "isend" => count[0] \in 1 .. input.p - 1
    /\ \A f \in {"mat", "vec"}, r \in Ranks :
         pc[0] = "isend" /\ which[0] = f /\ count[0] = r => buf[0] = Parcel(f, r)
    /\ Reading /\ which[0] = "mat" =>
           /\ \A k \in 1 .. pos : input.cells[k].i < Bound(Coming)
           /\ Coming = input.p => pos = Len(input.cells)
    /\ Reading /\ which[0] = "vec" => pos = Bound(Coming)
    /\ \A r \in Ranks \ {0} : pc[r] \in {"size", "part"} => count[r] = 0

\* A share is with its rank or on its way, and its size goes before it.
Arrival(r) ==
    /\ \A f \in {"mat", "vec"} : /\ Has(f, r) => Sent(f, r)
                                 /\ Told(f, r) => Announced(f, r)
    /\ mat[r] = IF Has("mat", r) THEN Part("mat", r) ELSE NoMatrix
    /\ vec[r] = IF Has("vec", r) THEN [Part("vec", r) EXCEPT !.mapped = vec[r].mapped]
                ELSE NoMatrix
    /\ r # 0 =>
         /\ \A f \in {"mat", "vec"} : pc[r] = "part" /\ which[r] = f => buf[r] = Parcel(f, r).bufsize
         /\ net[<<0, r, 0>>] = Line(Announced("mat", r) /\ ~ Told("mat", r), Parcel("mat", r).bufsize,
                                    Announced("vec", r) /\ ~ Told("vec", r), Parcel("vec", r).bufsize)
         /\ net[<<0, r, 1>>] = Line(Sent("mat", r) /\ ~ Has("mat", r), Parcel("mat", r),
                                    Sent("vec", r) /\ ~ Has("vec", r), Parcel("vec", r))

SharesArrive == \A r \in Ranks : Arrival(r)

\* Every rank knows whom it asks for what, and then how many rows anybody
\* asks anybody for.
Planned ==
    \A r \in Ranks :
       /\ pc[r] \in {"gather", "barrier2", "mult"} \cup InExchange =>
            \A s \in Ranks : recv_cols[r][s] \in Schedules(r, s)
       /\ pc[r] = "gather" => comm_map[r][r] = [s \in Ranks |-> Cardinality(Needed(r, s))]
       /\ pc[r] \in {"barrier2", "mult"} \cup InExchange =>
            comm_map[r] = [s \in Ranks |-> [t \in Ranks |-> Cardinality(Needed(s, t))]]
       /\ pc[r] \in {"barrier1", "build", "gather", "barrier2"} => count[r] = 0

\* At most one question or answer is under way between two ranks; who has
\* passed an exchange has been answered or has answered.
Exchanged ==
    /\ \A a, b \in Ranks :
         /\ net[<<a, b, 2>>] = IF Asks(a, b) /\ count[b] <= Id(a, b) THEN <<recv_cols[a][b]>> ELSE << >>
         /\ net[<<b, a, 3>>] = IF Asks(a, b) /\ count[b] > Id(a, b) THEN <<Values(a, b)>> ELSE << >>
         /\ pc[a] \in InExchange /\ Needed(a, b) # {} =>
              /\ count[a] > Id(a, b) => count[b] > Id(a, b)
              /\ count[b] > Id(a, b) => count[a] > Id(a, b) \/ Asks(a, b)
    /\ \A r \in Ranks :
         /\ pc[r] = "asked" => Turns(r) # {} /\ recv_r(Turn(r)) = r
         /\ pc[r] \in {"barrier3", "mult"} => Turns(r) = {}
         /\ IF pc[r] \in {"share", "isend"} THEN DOMAIN vec[r].mapped = {}
            ELSE /\ DOMAIN vec[r].mapped = Given(r)
                 /\ \A j \in Given(r) : vec[r].mapped[j] = input.x[j + 1]

Multiplied ==
    \A r \in Ranks : pc[r] \in {"barrier4", "done"} =>
       res[r] = [i \in FromRow(r) .. ToRow(r) |->
          Total([k \in LinesOf(i) |-> input.cells[k].val * input.x[input.cells[k].j + 1]])]

Types ==
    /\ input \in Inputs
    /\ aborted \in BOOLEAN
    /\ pc \in [Ranks -> Labels] /\ which \in [Ranks -> {"mat", "vec"}]
    /\ pos \in 0 .. Lines(which[0]) /\ count \in [Ranks -> 0 .. input.p * input.p]
    /\ DOMAIN mat = Ranks /\ DOMAIN vec = Ranks /\ DOMAIN buf = Ranks
    /\ DOMAIN comm_map = Ranks /\ \A r \in Ranks : DOMAIN comm_map[r] = Ranks
    /\ DOMAIN recv_cols = Ranks /\ DOMAIN res = Ranks
    /\ DOMAIN net = Channels /\ DOMAIN awaits = Ranks /\ \A r \in Ranks : awaits[r] \in Channels \cup {None}

IInv ==
    /\ Types /\ Together /\ SharesRead /\ SharesArrive /\ Planned /\ Exchanged /\ Multiplied

-----------------------------------------------------------------------------
(***************************************************************************)
(* Numbers.                                                                *)
(***************************************************************************)
LEMMA DivMod ==
    ASSUME NEW g \in Nat, NEW b \in Nat \ {0}
    PROVE  g \div b \in Nat /\ g % b \in 0 .. b - 1 /\ g = b * (g \div b) + (g % b)
<1>1. g \div b \in Nat /\ g % b \in 0 .. b - 1
  OBVIOUS
<1>2. g = b * (g \div b) + (g % b)
  OBVIOUS
<1> QED
  BY <1>1, <1>2

LEMMA DivUnique ==
    ASSUME NEW q \in Nat, NEW k \in Nat, NEW b \in Nat \ {0}, k < b
    PROVE  (b * q + k) \div b = q /\ (b * q + k) % b = k
OBVIOUS

LEMMA Grows ==
    ASSUME NEW r \in Nat, NEW s \in Nat, NEW P \in Nat, r < s
    PROVE  r * P + P <= s * P /\ (r + 1) * P = r * P + P /\ r * P \in Nat /\ s * P \in Nat
<1>1. (s - r - 1) * P >= 0
  BY Z3
<1>2. s * P = r * P + P + (s - r - 1) * P
  BY Z3
<1>3. r * P \in Nat /\ s * P \in Nat /\ (s - r - 1) * P \in Int
  BY Z3
<1>4. (r + 1) * P = r * P + P
  BY Z3
<1> QED
  BY <1>1, <1>2, <1>3, <1>4

LEMMA Least ==
    ASSUME NEW S \in SUBSET Nat, S # {}
    PROVE  \E x \in S : \A y \in S : x <= y
<1>1. PICK x \in S : \A y \in S : <<y, x>> \notin OpToRel(<, Nat)
  BY NatLessThanWellFounded, WFMin
<1>2. ASSUME NEW y \in S
      PROVE  x <= y
  <2>1. <<y, x>> \notin {pair \in Nat \X Nat : pair[1] < pair[2]}
    BY <1>1 DEF OpToRel
  <2> QED
    BY <2>1
<1> QED
  BY <1>2

\* The first elements of an interval are an interval.
LEMMA Beginning ==
    ASSUME NEW lo \in Nat, NEW hi \in Nat, lo <= hi, NEW S \in SUBSET (lo + 1 .. hi),
           \A k \in S : \A l \in lo + 1 .. k : l \in S
    PROVE  \E e \in lo .. hi : S = lo + 1 .. e /\ Cardinality(S) = e - lo
<1> DEFINE Others == {k \in Nat : k > lo /\ k \notin S}
<1>1. hi + 1 \in Others
  OBVIOUS
<1>2. PICK x \in Others : \A y \in Others : x <= y
  BY <1>1, Least
<1>3. x - 1 \in lo .. hi
  BY <1>1, <1>2
<1>4. S = lo + 1 .. x - 1
  <2>1. ASSUME NEW k \in S
        PROVE  k <= x - 1
    <3>1. k \in Int /\ x \in Nat /\ x > lo /\ x \notin S
      BY <1>2
    <3> QED
      BY <3>1
  <2>2. ASSUME NEW k \in lo + 1 .. x - 1
        PROVE  k \in S
    BY <1>2, <1>3
  <2>3. S \subseteq lo + 1 .. x - 1
    BY <2>1
  <2> QED
    BY <2>2, <2>3
<1>5. Cardinality(lo + 1 .. x - 1) = (x - 1) - lo
  BY <1>3, FS_Interval
<1> QED
  BY <1>3, <1>4, <1>5

-----------------------------------------------------------------------------
(***************************************************************************)
(* The input, and the shares.                                              *)
(***************************************************************************)
LEMMA InputTypes ==
    ASSUME input \in Inputs
    PROVE  /\ input.p \in Nat \ {0} /\ input.n \in Nat \ {0} /\ 0 \in Ranks
           /\ Len(input.cells) \in Nat /\ DOMAIN input.cells = 1 .. Len(input.cells)
           /\ \A k \in DOMAIN input.cells : input.cells[k].i \in Rows /\ input.cells[k].j \in Rows
           /\ Len(input.x) = input.n /\ Ranks \subseteq Nat /\ Rows \subseteq Nat
<1> DEFINE Cell == [i : Rows, j : Rows, val : Nat]
<1>1. /\ input.p \in 1 .. MaxRanks /\ MaxRanks \in Nat /\ input.n \in Nat \ {0}
      /\ input.cells \in Seq([i : 0 .. input.n - 1, j : 0 .. input.n - 1, val : Nat])
      /\ input.x \in [1 .. input.n -> Nat]
  BY InputsAssumption, Zenon
<1>2. input.cells \in Seq(Cell)
  BY <1>1, Zenon DEF Rows
<1>3. input.p \in Nat \ {0} /\ input.n \in Nat \ {0}
  <2>1. input.p \in 1 .. MaxRanks /\ MaxRanks \in Nat /\ input.n \in Nat \ {0}
    BY <1>1
  <2> QED
    BY <2>1
<1>4. Len(input.x) = input.n
  <2>1. input.x \in [1 .. input.n -> Nat]
    BY <1>1
  <2> QED
    BY <2>1, <1>3
<1> HIDE DEF Cell
<1>5. Len(input.cells) \in Nat /\ DOMAIN input.cells = 1 .. Len(input.cells)
  BY <1>2
<1>6. ASSUME NEW k \in DOMAIN input.cells
      PROVE  input.cells[k].i \in Rows /\ input.cells[k].j \in Rows
  <2>1. input.cells[k] \in Cell
    BY <1>2
  <2> QED
    BY <2>1 DEF Cell
<1> QED
  BY <1>3, <1>4, <1>5, <1>6 DEF Ranks, Rows

LEMMA ShareBounds ==
    ASSUME input \in Inputs, partition_size > 0, NEW r \in Ranks
    PROVE  /\ partition_size \in Nat /\ r \in Nat /\ FromRow(r) \in Nat /\ ToRow(r) \in Nat
           /\ FromRow(r) <= ToRow(r) /\ ToRow(r) <= input.n - 1
           /\ Bound(r) = FromRow(r) /\ Bound(r + 1) = ToRow(r) + 1
<1> DEFINE P == partition_size
<1>1. input.p \in Nat \ {0} /\ input.n \in Nat \ {0} /\ r \in 0 .. input.p - 1
  BY InputTypes DEF Ranks
<1>2. P \in Nat /\ input.n % input.p \in Nat /\ input.n = input.p * P + (input.n % input.p)
  <2>1. input.n \in Nat
    BY <1>1
  <2>2. /\ input.n \div input.p \in Nat /\ input.n % input.p \in 0 .. input.p - 1
        /\ input.n = input.p * (input.n \div input.p) + (input.n % input.p)
    BY <2>1, <1>1, DivMod
  <2>3. input.n % input.p \in Nat
    BY <2>2, <1>1
  <2> QED
    BY <2>2, <2>3, Zenon DEF partition_size
<1>3. P > 0
  OBVIOUS
<1> HIDE DEF P
<1>4. r * P + P <= input.p * P /\ (r + 1) * P = r * P + P /\ r * P \in Nat /\ input.p * P \in Nat
  <2>1. r \in Nat /\ input.p \in Nat /\ r < input.p
    BY <1>1
  <2> QED
    BY <2>1, <1>2, Grows, Zenon
<1>5. r # input.p - 1 => (r + 1) * P + P <= input.p * P /\ (r + 1) * P \in Nat
  <2>1. r # input.p - 1 => r + 1 \in Nat /\ input.p \in Nat /\ r + 1 < input.p
    BY <1>1
  <2> QED
    BY <2>1, <1>2, Grows, Zenon
<1>6. FromRow(r) = r * P
  BY DEF FromRow, P
<1>7. ToRow(r) = IF r = input.p - 1 THEN input.n - 1 ELSE (r + 1) * P - 1
  <2>1. r # input.p - 1 => (r + 1) * P - 1 >= 0 /\ (r + 1) * P - 1 < input.n
    <3> DEFINE t == (r + 1) * P  u == input.p * P
    <3>1. u \in Nat /\ t = r * P + P /\ r * P \in Nat
      BY <1>4
    <3>2. r # input.p - 1 => t \in Nat /\ t + P <= u
      BY <1>5
    <3>3. input.n = u + (input.n % input.p)
      BY <1>2
    <3> HIDE DEF t, u
    <3> QED
      BY <1>1, <1>2, <1>3, <3>1, <3>2, <3>3 DEF t
  <2>2. ToRow(r) = IF \/ r = input.p - 1 \/ (r + 1) * P - 1 < 0 \/ (r + 1) * P - 1 >= input.n
                   THEN input.n - 1 ELSE (r + 1) * P - 1
    BY DEF ToRow, P
  <2>3. (r + 1) * P \in Int
    BY <1>1, <1>2
  <2> DEFINE t == (r + 1) * P
  <2> HIDE DEF t
  <2>4. /\ r # input.p - 1 => t - 1 >= 0 /\ t - 1 < input.n
        /\ t \in Int
        /\ ToRow(r) = IF r = input.p - 1 \/ t - 1 < 0 \/ t - 1 >= input.n
                      THEN input.n - 1 ELSE t - 1
    BY <2>1, <2>2, <2>3 DEF t
  <2>5. ToRow(r) = IF r = input.p - 1 THEN input.n - 1 ELSE t - 1
    BY <2>4, <1>1
  <2> QED
    BY <2>5 DEF t
<1>8. Bound(r) = r * P
  BY <1>1, <1>6 DEF Bound
<1>9. Bound(r + 1) = ToRow(r) + 1
  <2>1. CASE r = input.p - 1
    BY <2>1, <1>1, <1>7 DEF Bound
  <2>2. CASE r # input.p - 1
    <3>1. r + 1 # input.p
      BY <2>2, <1>1
    <3>2. Bound(r + 1) = (r + 1) * P
      BY <3>1 DEF Bound, FromRow, P
    <3>3. ToRow(r) = (r + 1) * P - 1 /\ (r + 1) * P \in Int
      BY <2>2, <1>2, <1>4, <1>7
    <3> DEFINE t == (r + 1) * P
    <3> HIDE DEF t
    <3>4. Bound(r + 1) = t /\ ToRow(r) = t - 1 /\ t \in Int
      BY <3>2, <3>3 DEF t
    <3> QED
      BY <3>4
  <2> QED
    BY <2>1, <2>2
<1>10. ToRow(r) \in Nat /\ r * P <= ToRow(r) /\ ToRow(r) <= input.n - 1
  BY <1>1, <1>2, <1>3, <1>4, <1>5, <1>7
<1> QED
  BY <1>1, <1>2, <1>4, <1>6, <1>8, <1>9, <1>10 DEF P

LEMMA SharesApart ==
    ASSUME input \in Inputs, partition_size > 0, NEW r \in Ranks, NEW s \in 0 .. input.p, r < s
    PROVE  ToRow(r) < Bound(s) /\ Bound(s) \in Nat
<1> DEFINE P == partition_size
<1>1. input.p \in Nat \ {0} /\ input.n \in Nat \ {0} /\ r \in 0 .. input.p - 1
  BY InputTypes DEF Ranks
<1>2. CASE s = input.p
  BY <1>1, <1>2, ShareBounds DEF Bound
<1>3. CASE s # input.p
  <2>1. s \in Ranks /\ r # input.p - 1
    BY <1>1, <1>3 DEF Ranks
  <2>2. Bound(s) = s * P /\ s * P \in Nat
    BY <2>1, ShareBounds DEF FromRow
  <2>3. P \in Nat /\ ToRow(r) + 1 = Bound(r + 1)
    BY ShareBounds
  <2>4. Bound(r + 1) = (r + 1) * P
    <3>1. r + 1 # input.p
      BY <2>1, <1>1
    <3> QED
      BY <3>1 DEF Bound, FromRow
  <2> HIDE DEF P
  <2>5. r * P + P <= s * P /\ (r + 1) * P = r * P + P
    BY <2>3, <1>1, Grows
  <2>6. ToRow(r) \in Nat
    BY ShareBounds
  <2> QED
    BY <2>2, <2>3, <2>4, <2>5, <2>6
<1> QED
  BY <1>2, <1>3

\* Every row of the vector is in the share of the rank that is asked for it,
\* and in no other.
LEMMA Owner ==
    ASSUME input \in Inputs, partition_size > 0, NEW j \in Rows
    PROVE  /\ src_r(j) \in Ranks /\ j \in FromRow(src_r(j)) .. ToRow(src_r(j))
           /\ \A s \in Ranks : j \in FromRow(s) .. ToRow(s) => s = src_r(j)
<1> DEFINE P == partition_size  s == src_r(j)  d == j \div P
<1>1. input.p \in Nat \ {0} /\ input.n \in Nat \ {0} /\ j \in 0 .. input.n - 1
  BY InputTypes DEF Rows
<1>2. P \in Nat \ {0}
  <2>1. 0 \in Ranks
    BY InputTypes
  <2> QED
    BY <2>1, ShareBounds
<1>3. d \in Nat /\ P * d <= j /\ j < P * d + P
  <2>1. j \in Nat
    BY <1>1
  <2>2. j \div P \in Nat /\ j % P \in 0 .. P - 1 /\ j = P * (j \div P) + (j % P)
    BY <2>1, <1>2, DivMod
  <2> HIDE DEF P
  <2>3. P * (j \div P) \in Nat
    BY <2>2, <1>2
  <2> DEFINE m == P * (j \div P)  k == j % P
  <2> HIDE DEF m, k
  <2>4. m \in Nat /\ k \in 0 .. P - 1 /\ j = m + k
    BY <2>2, <2>3 DEF m, k
  <2>5. m <= j /\ j < m + P
    BY <2>4, <1>2
  <2> QED
    BY <2>2, <2>5 DEF m
<1>4. s = IF d >= input.p THEN input.p - 1 ELSE d
  BY DEF src_r
<1>5. s \in Ranks
  BY <1>1, <1>3, <1>4 DEF Ranks
<1> HIDE DEF P, s, d
<1>6. j >= FromRow(s)
  <2>1. FromRow(s) = s * P
    BY DEF FromRow, P
  <2>2. CASE d >= input.p
    <3>1. s * P + P <= d * P /\ s * P \in Nat
      BY <1>1, <1>2, <1>3, <1>4, <2>2, Grows
    <3>2. d * P = P * d
      BY <1>2, <1>3
    <3> QED
      BY <3>1, <3>2, <2>1, <1>1, <1>2, <1>3
  <2>3. CASE ~ (d >= input.p)
    BY <2>1, <2>3, <1>2, <1>3, <1>4
  <2> QED
    BY <2>2, <2>3
<1>7. j <= ToRow(s)
  <2>1. CASE s = input.p - 1
    <3>1. ToRow(s) + 1 = Bound(input.p)
      BY <2>1, <1>1, <1>5, ShareBounds DEF P
    <3> QED
      BY <3>1, <1>1, ShareBounds, <1>5, <2>1 DEF Bound, P
  <2>2. CASE s # input.p - 1
    <3>1. s = d /\ s + 1 # input.p /\ s \in Nat
      BY <2>2, <1>1, <1>3, <1>4
    <3>2. ToRow(s) + 1 = (s + 1) * P /\ ToRow(s) \in Nat
      BY <3>1, <1>5, ShareBounds DEF Bound, FromRow, P
    <3>3. (s + 1) * P = s * P + P /\ s * P \in Nat
      BY <3>1, <1>2
    <3>4. s * P = P * d
      BY <3>1, <1>2, <1>3
    <3> QED
      BY <3>2, <3>3, <3>4, <1>1, <1>2, <1>3
  <2> QED
    BY <2>1, <2>2
<1>8. ASSUME NEW t \in Ranks, j \in FromRow(t) .. ToRow(t)
      PROVE  t = s
  <2>1. t \in Nat /\ s \in Nat /\ t \in 0 .. input.p /\ s \in 0 .. input.p
    BY <1>1, <1>5 DEF Ranks
  <2>2. /\ Bound(t) = FromRow(t) /\ Bound(s) = FromRow(s)
        /\ FromRow(t) \in Nat /\ FromRow(s) \in Nat /\ ToRow(t) \in Nat /\ ToRow(s) \in Nat
    BY <1>5, ShareBounds DEF P
  <2>3. t < s => ToRow(t) < FromRow(s)
    BY <2>1, <2>2, <1>5, SharesApart DEF P
  <2>4. s < t => ToRow(s) < FromRow(t)
    BY <2>1, <2>2, <1>5, SharesApart DEF P
  <2> QED
    BY <2>1, <2>2, <2>3, <2>4, <1>1, <1>6, <1>7, <1>8
<1> QED
  BY <1>1, <1>5, <1>6, <1>7, <1>8, ShareBounds DEF s, P

-----------------------------------------------------------------------------
(***************************************************************************)
(* The files are read share by share.                                      *)
(***************************************************************************)
LEMMA Tuples ==
    ASSUME NEW x, NEW y
    PROVE  /\ Append(<< >>, x) = <<x>> /\ Append(<<x>>, y) = <<x, y>>
           /\ <<x>> # << >> /\ Head(<<x>>) = x /\ Tail(<<x>>) = << >>
           /\ <<x, y>> # << >> /\ Head(<<x, y>>) = x /\ Tail(<<x, y>>) = <<y>>
<1> DEFINE S == {x, y}
<1>0. x \in S /\ y \in S /\ << >> \in Seq(S) /\ <<x>> \in Seq(S) /\ <<x, y>> \in Seq(S)
  OBVIOUS
<1> HIDE DEF S
<1>1. Append(<< >>, x) = <<x>> /\ Append(<<x>>, y) = <<x, y>>
  <2>1. Append(<< >>, x) = <<x>>
    <3>1. Append(<< >>, x) \in Seq(S) /\ Len(Append(<< >>, x)) = 1 /\ Append(<< >>, x)[1] = x
      BY <1>0, AppendProperties
    <3> QED
      BY <1>0, <3>1, SeqEqual
  <2>2. Append(<<x>>, y) = <<x, y>>
    <3> DEFINE s == <<x>>
    <3>1. s \in Seq(S) /\ Len(s) = 1 /\ s[1] = x
      BY <1>0
    <3> HIDE DEF s
    <3>2. /\ Append(s, y) \in Seq(S) /\ Len(Append(s, y)) = 2
          /\ Append(s, y)[1] = x /\ Append(s, y)[2] = y
      <4>1. /\ Append(s, y) \in Seq(S) /\ Len(Append(s, y)) = Len(s) + 1
            /\ \A i \in 1 .. Len(s) : Append(s, y)[i] = s[i]
            /\ Append(s, y)[Len(s) + 1] = y
        <5>1. s \in Seq(S) /\ y \in S
          BY <1>0, <3>1
        <5> QED
          BY <5>1, AppendProperties
      <4> QED
        BY <4>1, <3>1
    <3> DEFINE t == Append(s, y)
    <3> HIDE DEF t
    <3>3. t \in Seq(S) /\ Len(t) = 2 /\ t[1] = x /\ t[2] = y
      BY <3>2 DEF t
    <3>4. t = <<x, y>>
      BY <1>0, <3>3, SeqEqual
    <3> QED
      BY <3>4 DEF s, t
  <2> QED
    BY <2>1, <2>2
<1>2. <<x>> # << >> /\ Head(<<x>>) = x /\ Head(<<x, y>>) = x /\ <<x, y>> # << >>
  OBVIOUS
<1>3. Tail(<<x>>) = << >>
  OBVIOUS
<1>4. Tail(<<x, y>>) = <<y>>
  OBVIOUS
<1> QED
  BY <1>1, <1>2, <1>3, <1>4

LEMMA LineGains ==
    ASSUME NEW x, NEW y
    PROVE  /\ Append(Line(FALSE, x, FALSE, y), x) = Line(TRUE, x, FALSE, y)
           /\ Append(Line(FALSE, x, FALSE, y), y) = Line(FALSE, x, TRUE, y)
           /\ Append(Line(TRUE, x, FALSE, y), y) = Line(TRUE, x, TRUE, y)
BY Tuples DEF Line

LEMMA PartSame ==
    ASSUME UNCHANGED <<input, pos>>, which'[0] = which[0], NEW f, NEW r
    PROVE  Part(f, r)' = Part(f, r) /\ Parcel(f, r)' = Parcel(f, r)
<1>1. \A i : Seen(i)' = Seen(i)
  BY DEF Seen
<1>2. FromRow(r)' = FromRow(r) /\ ToRow(r)' = ToRow(r)
  BY DEF FromRow, ToRow, partition_size
<1>3. Part(f, r)' = Part(f, r)
  BY <1>1, <1>2 DEF Part
<1> QED
  BY <1>3 DEF Parcel, matrix_serialize, NumRows

\* One share: the lines of its rows, and no other line has been read.
LEMMA ReadShare ==
    ASSUME Types, SharesRead, pc[0] = "share", NEW f, f = which[0], NEW c, c = count[0], c < input.p,
           ShareFits(f, FromRow(c), ToRow(c)),
           pos' = pos + Cardinality(Block(f, FromRow(c), ToRow(c))),
           UNCHANGED <<input, which>>
    PROVE  /\ partition_size > 0 /\ c \in Ranks /\ Coming = c
           /\ pos' \in 0 .. Lines(f)
           /\ [from |-> FromRow(c), to |-> ToRow(c),
               rows |-> matrix_read_rows(f, FromRow(c), ToRow(c)),
               mapped |-> << >>] = Part(f, c)'
           /\ f = "mat" => \A k \in 1 .. pos' : input.cells[k].i < Bound(c + 1)
           /\ f = "mat" /\ c + 1 = input.p => pos' = Len(input.cells)
           /\ f = "vec" => pos' = Bound(c + 1)
           /\ \A g, r : r \in Ranks /\ Announced(g, r) => Part(g, r)' = Part(g, r)
<1> DEFINE from == FromRow(c)  to == ToRow(c)
           B == Block(f, from, to)
<1>1. /\ input \in Inputs /\ c \in Ranks /\ c \in Nat /\ c \in 0 .. input.p /\ f \in {"mat", "vec"}
      /\ Coming = c /\ Reading /\ pos \in 0 .. Lines(f) /\ pos \in Nat
      /\ input.p \in Nat /\ input.n \in Nat
  <2>1. input \in Inputs
    BY DEF Types
  <2>2. input.p \in Nat \ {0} /\ input.n \in Nat \ {0} /\ 0 \in Ranks
    BY <2>1, InputTypes
  <2>3. Reading
    BY DEF Reading
  <2>4. c \in 0 .. input.p
    BY <2>3 DEF SharesRead
  <2>5. f \in {"mat", "vec"} /\ pos \in 0 .. Lines(f)
    BY <2>2 DEF Types
  <2>6. pos \in Nat
    BY <2>5
  <2> QED
    BY <2>1, <2>2, <2>3, <2>4, <2>5, <2>6 DEF Ranks, Coming
<1>2. Lines(f) \in Nat /\ (f = "mat" => Lines(f) = Len(input.cells)) /\ (f = "vec" => Lines(f) = input.n)
  BY <1>1, InputTypes DEF Lines
<1>3. partition_size > 0
  <2>1. partition_size <= to - from + 1 /\ to - from + 1 < 2 * partition_size
    BY DEF ShareFits
  <2>2. partition_size \in Int
    BY <1>1, InputTypes DEF partition_size
  <2>3. from \in Int /\ to \in Int
    BY <1>1, <2>2 DEF FromRow, ToRow
  <2> QED
    BY <2>1, <2>2, <2>3
<1>4. /\ from \in Nat /\ to \in Nat /\ from <= to /\ to <= input.n - 1
      /\ Bound(c) = from /\ Bound(c + 1) = to + 1
  BY <1>1, <1>3, ShareBounds
<1>5. \E e \in pos .. Lines(f) : B = pos + 1 .. e /\ Cardinality(B) = e - pos
  <2>1. B \in SUBSET (pos + 1 .. Lines(f))
    BY DEF Block
  <2>2. \A k \in B : \A l \in pos + 1 .. k : l \in B
    BY <1>1, <1>2 DEF Block
  <2>3. pos \in Nat /\ Lines(f) \in Nat /\ pos <= Lines(f)
    BY <1>1, <1>2
  <2> HIDE DEF B
  <2> QED
    BY <2>1, <2>2, <2>3, Beginning, Zenon
<1>6. B = pos + 1 .. pos' /\ pos' \in pos .. Lines(f) /\ pos' \in Nat
  <2>1. PICK e \in pos .. Lines(f) : B = pos + 1 .. e /\ Cardinality(B) = e - pos
    BY <1>5
  <2>2. pos' = e
    BY <1>1, <1>2, <2>1
  <2> QED
    BY <1>1, <1>2, <2>1, <2>2
<1>7. \A r \in Ranks : r < c => r \in Nat /\ ToRow(r) < from /\ FromRow(r) \in Nat /\ ToRow(r) \in Nat
  BY <1>1, <1>3, <1>4, SharesApart, ShareBounds
<1>8. FromRow(c)' = from /\ ToRow(c)' = to /\ \A r : FromRow(r)' = FromRow(r) /\ ToRow(r)' = ToRow(r)
  BY DEF FromRow, ToRow, partition_size
<1>9. \A k \in B : RowOf(f, k, from) >= from /\ RowOf(f, k, from) <= to
  <2>1. \A k \in B : RowOf(f, k, from) >= from
    BY DEF ShareFits
  <2>2. \A k \in B : RowOf(f, k, from) <= to
    BY <1>1, <1>2 DEF Block
  <2> QED
    BY <2>1, <2>2
<1>10. matrix_read_rows(f, from, to) = [i \in from .. to |-> {k \in B : RowOf(f, k, from) = i}]
  BY DEF matrix_read_rows
<1> HIDE DEF from, to, B
<1>11. CASE f = "mat"
  <2> DEFINE row(k) == input.cells[k].i
  <2>1. \A k : RowOf(f, k, from) = row(k)
    BY <1>11 DEF RowOf
  <2>2. \A k \in 1 .. Lines(f) : k \in DOMAIN input.cells /\ row(k) \in Int /\ row(k) <= input.n - 1
    BY <1>1, <1>2, <1>11, InputTypes DEF Rows
  <2>3. \A k \in 1 .. pos : row(k) < from
    BY <1>1, <1>4, <1>11 DEF SharesRead
  <2>4. \A k \in pos + 1 .. pos' : from <= row(k) /\ row(k) <= to
    BY <1>6, <1>9, <2>1
  <2>5. DOMAIN input.cells = 1 .. Lines(f)
    BY <1>1, <1>2, <1>11, InputTypes
  <2> HIDE DEF row
  <2>6. \A k \in 1 .. pos' : row(k) < to + 1
    <3> SUFFICES ASSUME NEW k \in 1 .. pos' PROVE row(k) < to + 1
      OBVIOUS
    <3>1. k \in 1 .. Lines(f) /\ row(k) \in Int
      BY <1>2, <1>6, <2>2
    <3> QED
      BY <3>1, <1>1, <1>4, <1>6, <2>3, <2>4
  <2>7. c + 1 = input.p => pos' = Len(input.cells)
    <3> SUFFICES ASSUME c + 1 = input.p PROVE pos' = Lines(f)
      BY <1>2, <1>11
    <3>1. to = input.n - 1
      BY <1>1, <1>4 DEF Bound
    <3>2. \A k \in pos + 1 .. Lines(f) : k \in B
      <4>1. \A k \in pos + 1 .. Lines(f) : RowOf(f, k, from) <= to
        BY <1>1, <1>2, <2>1, <2>2, <3>1
      <4> QED
        BY <1>1, <1>2, <4>1 DEF Block, B
    <3> QED
      BY <3>2, <1>1, <1>2, <1>6
  <2>8. \A i \in from .. to : Seen(i)' = {k \in B : RowOf(f, k, from) = i}
    <3> SUFFICES ASSUME NEW i \in from .. to
                 PROVE  {k \in 1 .. Lines(f) : row(k) = i /\ k <= pos'}
                          = {k \in pos + 1 .. pos' : row(k) = i}
      BY <1>6, <1>11, <2>1, <2>5 DEF Seen, row
    <3>1. \A k \in 1 .. Lines(f) : k <= pos => row(k) # i
      BY <1>1, <1>4, <2>2, <2>3
    <3> QED
      BY <3>1, <1>1, <1>2, <1>6
  <2>9. [from |-> from, to |-> to, rows |-> matrix_read_rows(f, from, to), mapped |-> << >>]
          = Part(f, c)'
    <3>1. Part(f, c)' = [from |-> from, to |-> to, rows |-> [i \in from .. to |-> Seen(i)'], mapped |-> << >>]
      BY <1>8, <1>11 DEF Part, from, to
    <3>2. [i \in from .. to |-> Seen(i)'] = matrix_read_rows(f, from, to)
      BY <2>8, <1>10
    <3> QED
      BY <3>1, <3>2
  <2>10. ASSUME NEW g, NEW r \in Ranks, Announced(g, r)
         PROVE  Part(g, r)' = Part(g, r)
    <3>1. CASE g # "mat"
      BY <3>1, <1>8 DEF Part
    <3>2. CASE g = "mat"
      <4>1. r < c
        BY <2>10, <3>2, <1>1, <1>11 DEF Announced, Sent
      <4>2. \A i \in FromRow(r) .. ToRow(r) : Seen(i)' = Seen(i)
        <5> SUFFICES ASSUME NEW i \in FromRow(r) .. ToRow(r)
                     PROVE  {k \in 1 .. Lines(f) : row(k) = i /\ k <= pos'}
                              = {k \in 1 .. Lines(f) : row(k) = i /\ k <= pos}
          BY <1>11, <2>5 DEF Seen, row
        <5>1. i < from /\ i \in Int
          BY <4>1, <1>4, <1>7
        <5>2. \A k \in pos + 1 .. pos' : row(k) # i
          BY <5>1, <1>1, <1>2, <1>4, <1>6, <2>2, <2>4
        <5> QED
          BY <5>2, <1>1, <1>2, <1>6
      <4> QED
        BY <4>2, <3>2, <1>8 DEF Part
    <3> QED
      BY <3>1, <3>2
  <2> QED
    <3>1. \A k \in 1 .. pos' : input.cells[k].i < Bound(c + 1)
      BY <1>4, <2>6 DEF row
    <3>2. pos' \in 0 .. Lines(f)
      BY <1>1, <1>2, <1>6
    <3>3. f # "vec"
      BY <1>11
    <3> QED
      BY <1>1, <1>3, <2>7, <2>9, <2>10, <3>1, <3>2, <3>3 DEF from, to
<1>12. CASE f = "vec"
  <2>1. pos = from
    BY <1>1, <1>4, <1>12 DEF SharesRead
  <2>2. \A k \in Int : RowOf(f, k, from) = k - 1
    BY <1>1, <1>4, <1>12, <2>1 DEF RowOf
  <2>3. \A k \in pos + 1 .. Lines(f) : k \in B <=> k <= to + 1
    <3> SUFFICES ASSUME NEW k \in pos + 1 .. Lines(f)
                 PROVE  (\A l \in pos + 1 .. k : RowOf(f, l, from) <= to) <=> k <= to + 1
      BY <1>1, <1>2 DEF Block, B
    <3>1. \A l \in pos + 1 .. k : RowOf(f, l, from) = l - 1
      BY <2>2
    <3>2. k \in Int /\ k \in pos + 1 .. k /\ RowOf(f, k, from) = k - 1
      BY <3>1, <1>1, <1>2
    <3>3. k <= to + 1 => \A l \in pos + 1 .. k : l - 1 <= to
      BY <1>1, <1>4, <3>2
    <3> QED
      BY <3>1, <3>2, <3>3, <1>1, <1>4
  <2>4. pos' = to + 1
    <3>1. to + 1 \in pos + 1 .. Lines(f)
      BY <1>1, <1>2, <1>4, <1>12, <2>1
    <3>2. to + 1 <= pos'
      BY <3>1, <2>3, <1>4, <1>6
    <3>3. pos' > to + 1 => to + 2 \in B /\ to + 2 \in pos + 1 .. Lines(f)
      BY <3>1, <1>1, <1>2, <1>4, <1>6
    <3> QED
      BY <3>2, <3>3, <2>3, <1>4, <1>6
  <2>5. \A i \in from .. to : {k \in B : RowOf(f, k, from) = i} = {i + 1}
    <3> SUFFICES ASSUME NEW i \in from .. to
                 PROVE  {k \in B : RowOf(f, k, from) = i} = {i + 1}
      OBVIOUS
    <3>0. B = from + 1 .. to + 1
      BY <1>6, <2>1, <2>4
    <3>1. i \in Int /\ i + 1 \in B
      BY <3>0, <1>4
    <3>2. \A k \in B : k \in Int /\ RowOf(f, k, from) = k - 1
      BY <3>0, <1>4, <2>2
    <3> QED
      BY <3>1, <3>2
  <2>6. [from |-> from, to |-> to, rows |-> matrix_read_rows(f, from, to), mapped |-> << >>]
          = Part(f, c)'
    <3>1. Part(f, c)' = [from |-> from, to |-> to, rows |-> [i \in from .. to |-> {i + 1}], mapped |-> << >>]
      BY <1>8, <1>12 DEF Part, from, to
    <3>2. [i \in from .. to |-> {i + 1}] = matrix_read_rows(f, from, to)
      BY <2>5, <1>10
    <3> QED
      BY <3>1, <3>2
  <2>7. ASSUME NEW g, NEW r
        PROVE  Part(g, r)' = Part(g, r)
    <3>1. \A i : Seen(i)' = Seen(i)
      BY <1>12 DEF Seen
    <3> QED
      BY <3>1, <1>8 DEF Part
  <2> QED
    BY <1>1, <1>3, <1>4, <1>6, <1>12, <2>4, <2>6, <2>7 DEF from, to
<1> QED
  BY <1>1, <1>11, <1>12

-----------------------------------------------------------------------------
(***************************************************************************)
(* What a step leaves alone.                                               *)
(***************************************************************************)
LEMMA InputSame ==
    ASSUME input' = input
    PROVE  /\ Ranks' = Ranks /\ Rows' = Rows /\ Channels' = Channels
           /\ partition_size' = partition_size
           /\ \A f : Lines(f)' = Lines(f)
           /\ \A r : FromRow(r)' = FromRow(r) /\ ToRow(r)' = ToRow(r) /\ Bound(r)' = Bound(r)
           /\ \A a, b : Id(a, b)' = Id(a, b)
           /\ \A i : LinesOf(i)' = LinesOf(i)
<1>1. Ranks' = Ranks /\ Rows' = Rows /\ partition_size' = partition_size
  BY DEF Ranks, Rows, partition_size
<1>2. Channels' = Channels
  BY <1>1 DEF Channels
<1>3. \A f : Lines(f)' = Lines(f)
  BY DEF Lines
<1>4. \A r : FromRow(r)' = FromRow(r) /\ ToRow(r)' = ToRow(r)
  BY DEF FromRow, ToRow, partition_size
<1>5. \A r : Bound(r)' = Bound(r)
  BY <1>4 DEF Bound
<1>6. \A a, b : Id(a, b)' = Id(a, b)
  BY DEF Id
<1>7. \A i : LinesOf(i)' = LinesOf(i)
  BY DEF LinesOf
<1> QED
  BY <1>1, <1>2, <1>3, <1>4, <1>5, <1>6, <1>7

LEMMA PlanSame ==
    ASSUME UNCHANGED <<input, mat>>
    PROVE  \A r, s : Needed(r, s)' = Needed(r, s) /\ Schedules(r, s)' = Schedules(r, s)
<1>1. \A r : Columns(r)' = Columns(r)
  BY DEF Columns
<1>2. \A j : src_r(j)' = src_r(j)
  BY DEF src_r, partition_size
<1>3. \A r, s : Needed(r, s)' = Needed(r, s)
  BY <1>1, <1>2 DEF Needed
<1>4. \A r, a, b : MetBefore(r, a, b)' <=> MetBefore(r, a, b)
  BY DEF MetBefore
<1>5. \A r, s : Schedules(r, s)' = Schedules(r, s)
  BY <1>3, <1>4 DEF Schedules
<1> QED
  BY <1>3, <1>5

LEMMA TurnSame ==
    ASSUME input' = input, NEW r, count'[r] = count[r], comm_map'[r] = comm_map[r]
    PROVE  Turns(r)' = Turns(r) /\ Turn(r)' = Turn(r)
<1>1. \A id : NumCells(r, id)' = NumCells(r, id) /\ send_r(id)' = send_r(id) /\ recv_r(id)' = recv_r(id)
  BY DEF NumCells, send_r, recv_r
<1>2. Turns(r)' = Turns(r)
  BY <1>1 DEF Turns
<1> QED
  BY <1>2 DEF Turn

Early == {"share", "isend", "size", "part", "barrier1"}

LEMMA IdType ==
    ASSUME input \in Inputs, NEW a \in Ranks, NEW b \in Ranks
    PROVE  Id(a, b) \in Nat /\ a \in Nat /\ b \in Nat
<1>1. input.p \in Nat /\ a \in Nat /\ b \in Nat
  BY InputTypes
<1> QED
  BY <1>1 DEF Id

\* While the files are read nobody has asked for anything.
LEMMA EarlyFacts ==
    ASSUME IInv, NEW q \in Ranks, pc[q] \in Early
    PROVE  /\ \A r \in Ranks : /\ pc[r] \in Early
                               /\ pc[r] \notin {"share", "isend"} => count[r] = 0
                               /\ DOMAIN vec[r].mapped = {}
           /\ \A a, b \in Ranks : net[<<a, b, 2>>] = << >> /\ net[<<a, b, 3>>] = << >>
<1>1. \A r \in Ranks : pc[r] \in Early
  BY DEF IInv, Together, Phases, InExchange, Early
<1>2. ASSUME NEW r \in Ranks, pc[r] \notin {"share", "isend"}
      PROVE  count[r] = 0
  <2>1. pc[r] \in {"size", "part"} => r # 0
    BY DEF IInv, Together
  <2> QED
    BY <1>1, <1>2, <2>1 DEF IInv, SharesRead, Planned, Early
<1>3. ASSUME NEW r \in Ranks
      PROVE  DOMAIN vec[r].mapped = {}
  <2>1. CASE pc[r] \in {"share", "isend"}
    BY <2>1 DEF IInv, Exchanged
  <2>2. CASE pc[r] \notin {"share", "isend"}
    <3>1. count[r] = 0
      BY <1>2, <2>2
    <3>2. \A t \in Ranks : ~ (Id(r, t) < count[r])
      BY <3>1, IdType DEF IInv, Types
    <3>3. Given(r) = {}
      BY <3>2 DEF Given
    <3> QED
      BY <3>3, <2>2 DEF IInv, Exchanged
  <2> QED
    BY <2>1, <2>2
<1>4. ASSUME NEW a \in Ranks, NEW b \in Ranks
      PROVE  net[<<a, b, 2>>] = << >> /\ net[<<b, a, 3>>] = << >>
  <2>1. ~ Asks(a, b)
    BY <1>1 DEF Asks, Early
  <2> QED
    BY <2>1 DEF IInv, Exchanged
<1> QED
  BY <1>1, <1>2, <1>3, <1>4

LEMMA EarlyRest ==
    ASSUME IInv, NEW q \in Ranks, pc[q] \in Early, input' = input,
           \A r \in Ranks : /\ pc'[r] \in Early
                            /\ \/ pc'[r] = pc[r] /\ count'[r] = count[r]
                               \/ pc'[r] \in {"share", "isend"} \/ count'[r] = 0
                            /\ DOMAIN vec'[r].mapped = {},
           \A a, b \in Ranks : /\ net'[<<a, b, 2>>] = net[<<a, b, 2>>]
                               /\ net'[<<a, b, 3>>] = net[<<a, b, 3>>]
    PROVE  Planned' /\ Exchanged' /\ Multiplied'
<1>1. Ranks' = Ranks /\ \A a, b : Id(a, b)' = Id(a, b)
  BY InputSame
<1>2. \A r \in Ranks : pc'[r] \notin {"share", "isend"} => count'[r] = 0
  BY EarlyFacts
<1>3. Planned'
  BY <1>1, <1>2 DEF Planned, Early, InExchange
<1>4. Multiplied'
  BY <1>1 DEF Multiplied, Early
<1>5. \A a, b \in Ranks : ~ Asks(a, b)'
  BY DEF Asks, Early
<1>6. ASSUME NEW a \in Ranks, NEW b \in Ranks
      PROVE  net'[<<a, b, 2>>] = << >> /\ net'[<<a, b, 3>>] = << >>
  <2>1. net[<<a, b, 2>>] = << >> /\ net[<<a, b, 3>>] = << >>
    BY EarlyFacts
  <2>2. net'[<<a, b, 2>>] = net[<<a, b, 2>>] /\ net'[<<a, b, 3>>] = net[<<a, b, 3>>]
    OBVIOUS
  <2> QED
    BY <2>1, <2>2
<1>7. ASSUME NEW r \in Ranks, pc'[r] \notin {"share", "isend"}
      PROVE  Given(r)' = {}
  <2>1. \A t \in Ranks : ~ (Id(r, t) < count'[r])
    BY <1>2, <1>7, IdType DEF IInv, Types
  <2> QED
    BY <2>1, <1>1 DEF Given
<1>8. Exchanged'
  <2>1. \A a, b \in Ranks :
         /\ net'[<<a, b, 2>>] = IF Asks(a, b)' /\ count'[b] <= Id(a, b)' THEN <<recv_cols'[a][b]>> ELSE << >>
         /\ net'[<<b, a, 3>>] = IF Asks(a, b)' /\ count'[b] > Id(a, b)' THEN <<Values(a, b)'>> ELSE << >>
    BY <1>5, <1>6
  <2>2. \A a \in Ranks : pc'[a] \notin InExchange /\ pc'[a] # "asked"
                         /\ pc'[a] \notin {"barrier3", "mult"}
    BY DEF InExchange, Early
  <2>3. \A r \in Ranks : IF pc'[r] \in {"share", "isend"} THEN DOMAIN vec'[r].mapped = {}
            ELSE /\ DOMAIN vec'[r].mapped = Given(r)'
                 /\ \A j \in Given(r)' : vec'[r].mapped[j] = input'.x[j + 1]
    BY <1>7
  <2> QED
    BY <1>1, <2>1, <2>2, <2>3 DEF Exchanged
<1> QED
  BY <1>3, <1>4, <1>8

\* A rank goes on within its phase.
LEMMA Moves ==
    ASSUME IInv, NEW r \in Ranks, NEW l, pc' = [pc EXCEPT ![r] = l], input' = input,
           \A phase \in Phases : pc[r] \in phase => l \in phase,
           r = 0 => l \notin {"size", "part"},
           r # 0 => l \notin {"share", "isend"},
           l \notin {"share", "isend", "size", "part"} => which'[r] = "vec",
           \A s \in Ranks : which'[s] = which[s] \/ which'[s] = "vec"
    PROVE  Together'
<1>1. Ranks' = Ranks /\ 0 \in Ranks /\ DOMAIN pc = Ranks
  BY InputSame, InputTypes DEF IInv, Types
<1>2. PICK phase \in Phases : \A s \in Ranks : pc[s] \in phase
  BY DEF IInv, Together
<1>3. \A s \in Ranks : pc'[s] \in phase /\ pc'[s] = IF s = r THEN l ELSE pc[s]
  BY <1>1, <1>2
<1>4. \A s \in Ranks : pc'[s] \notin {"share", "isend", "size", "part"} => which'[s] = "vec"
  BY <1>3 DEF IInv, Together
<1>5. pc'[0] \notin {"size", "part"} /\ \A s \in Ranks \ {0} : pc'[s] \notin {"share", "isend"}
  BY <1>1, <1>3 DEF IInv, Together
<1> QED
  BY <1>1, <1>2, <1>3, <1>4, <1>5 DEF Together, Phases

LEMMA SendTypes ==
    ASSUME IInv, NEW r \in Ranks, NEW s \in Ranks, NEW tag \in 0 .. 3, NEW msg,
           Isend(r, s, tag, msg) \/ SendTo(r, s, tag, msg)
    PROVE  /\ DOMAIN net' = Channels /\ DOMAIN awaits' = Ranks
           /\ \A q \in Ranks : awaits'[q] \in Channels \cup {None}
           /\ net' = [net EXCEPT ![<<r, s, tag>>] = Append(@, msg)]
<1>1. <<r, s, tag>> \in Channels
  BY DEF Channels
<1>2. DOMAIN net = Channels /\ DOMAIN awaits = Ranks /\ \A q \in Ranks : awaits[q] \in Channels \cup {None}
  BY DEF IInv, Types
<1>3. PICK w \in {None, <<r, s, tag>>} : awaits' = [awaits EXCEPT ![r] = w]
  BY DEF Isend, SendTo
<1>4. net' = [net EXCEPT ![<<r, s, tag>>] = Append(@, msg)]
  BY DEF Isend, SendTo
<1>5. DOMAIN awaits' = Ranks /\ \A q \in Ranks : awaits'[q] \in Channels \cup {None}
  BY <1>1, <1>2, <1>3
<1>6. DOMAIN net' = Channels
  BY <1>2, <1>4
<1> QED
  BY <1>4, <1>5, <1>6

-----------------------------------------------------------------------------
(***************************************************************************)
(* The steps, from the first file to the product.                          *)
(***************************************************************************)
LEMMA InitIInv == Init => IInv
<1> SUFFICES ASSUME Init
             PROVE  IInv
  OBVIOUS
<1>1. input \in Inputs
  BY DEF Init
<1>2. /\ input.p \in Nat \ {0} /\ input.n \in Nat \ {0} /\ 0 \in Ranks /\ Ranks \subseteq Nat
      /\ Len(input.cells) \in Nat /\ Len(input.x) = input.n
  BY <1>1, InputTypes
<1>3. /\ pc = [r \in Ranks |-> IF r = 0 THEN "share" ELSE "size"]
      /\ which = [r \in Ranks |-> "mat"] /\ count = [r \in Ranks |-> 0] /\ pos = 0
      /\ net = [c \in Channels |-> << >>]
  BY DEF Init
<1>4. pc[0] = "share" /\ which[0] = "mat" /\ count[0] = 0 /\ Coming = 0 /\ Reading
  BY <1>2, <1>3 DEF Coming, Reading
<1>5. Types
  <2>1. pc \in [Ranks -> Labels] /\ which \in [Ranks -> {"mat", "vec"}]
    BY <1>3 DEF Labels
  <2>2. pos \in 0 .. Lines(which[0])
    BY <1>2, <1>3, <1>4 DEF Lines
  <2>3. count \in [Ranks -> 0 .. input.p * input.p]
    <3>1. input.p * input.p \in Nat
      BY <1>2
    <3> QED
      BY <3>1, <1>3
  <2> QED
    BY <1>1, <2>1, <2>2, <2>3 DEF Types, Init
<1>6. Together
  BY <1>2, <1>3 DEF Together, Phases
<1>7. SharesRead
  BY <1>2, <1>3, <1>4 DEF SharesRead
<1>8. SharesArrive
  <2> SUFFICES ASSUME NEW r \in Ranks
               PROVE  Arrival(r)
    BY DEF SharesArrive
  <2>1. r \in Nat
    BY <1>2
  <2>2. \A f \in {"mat", "vec"} :
           ~ Sent(f, r) /\ ~ Announced(f, r) /\ ~ Has(f, r) /\ ~ Told(f, r)
    BY <1>3, <1>4, <2>1 DEF Sent, Announced, Has, Told
  <2>3. mat[r] = NoMatrix /\ vec[r] = NoMatrix /\ pc[r] # "part"
    BY <1>3 DEF Init
  <2>4. net[<<0, r, 0>>] = << >> /\ net[<<0, r, 1>>] = << >>
    BY <1>2, <1>3 DEF Channels
  <2> QED
    BY <2>2, <2>3, <2>4 DEF Arrival, Line
<1>9. Planned
  BY <1>3 DEF Planned, InExchange
<1>10. Exchanged
  <2>1. \A a, b \in Ranks : ~ Asks(a, b)
    BY <1>3 DEF Asks
  <2>2. \A a, b \in Ranks : net[<<a, b, 2>>] = << >> /\ net[<<a, b, 3>>] = << >>
    BY <1>3 DEF Channels
  <2>3. \A r \in Ranks : DOMAIN vec[r].mapped = {} /\ Given(r) = {}
    <3> SUFFICES ASSUME NEW r \in Ranks
                 PROVE  DOMAIN vec[r].mapped = {} /\ Given(r) = {}
      OBVIOUS
    <3>1. DOMAIN vec[r].mapped = {}
      BY DEF Init, NoMatrix
    <3>2. \A t \in Ranks : ~ (Id(r, t) < count[r])
      BY <1>1, <1>3, IdType
    <3> QED
      BY <3>1, <3>2 DEF Given
  <2> QED
    BY <1>3, <2>1, <2>2, <2>3 DEF Exchanged, InExchange
<1>11. Multiplied
  BY <1>3 DEF Multiplied
<1> QED
  BY <1>5, <1>6, <1>7, <1>8, <1>9, <1>10, <1>11 DEF IInv

\* An assertion that fails takes the job down, and changes nothing else.
LEMMA OnlyAborted ==
    ASSUME IInv, aborted' \in BOOLEAN,
           UNCHANGED <<input, pc, which, count, pos, mat, vec, buf, comm_map, recv_cols, res, net, awaits>>
    PROVE  IInv'
<1>0. /\ Ranks' = Ranks /\ 0 \in Ranks /\ Channels' = Channels
      /\ \A f : Lines(f)' = Lines(f)
      /\ \A r : FromRow(r)' = FromRow(r) /\ ToRow(r)' = ToRow(r) /\ Bound(r)' = Bound(r)
      /\ \A a, b : Id(a, b)' = Id(a, b)
      /\ \A i : LinesOf(i)' = LinesOf(i)
      /\ partition_size' = partition_size
  BY InputSame, InputTypes DEF IInv, Types
<1>1. Types'
  BY <1>0 DEF IInv, Types
<1>2. Together'
  BY <1>0 DEF IInv, Together
<1>3. \A f, r : /\ Part(f, r)' = Part(f, r) /\ Parcel(f, r)' = Parcel(f, r)
  BY PartSame
<1>4. Reading' = Reading /\ Coming' = Coming
  BY DEF Reading, Coming
<1>5. SharesRead'
  BY <1>0, <1>3, <1>4 DEF IInv, SharesRead
<1>6. ASSUME NEW r \in Ranks
      PROVE  Arrival(r)'
  <2>1. \A f : /\ Sent(f, r)' = Sent(f, r) /\ Announced(f, r)' = Announced(f, r)
               /\ Has(f, r)' = Has(f, r) /\ Told(f, r)' = Told(f, r)
    BY <1>4 DEF Sent, Announced, Has, Told
  <2> QED
    BY <1>3, <2>1 DEF IInv, SharesArrive, Arrival, Line, NoMatrix
<1>7. SharesArrive'
  BY <1>0, <1>6 DEF SharesArrive
<1>8. \A r, s : Needed(r, s)' = Needed(r, s) /\ Schedules(r, s)' = Schedules(r, s)
  BY PlanSame
<1>9. Planned'
  BY <1>0, <1>8 DEF IInv, Planned
<1>10. \A r : Turns(r)' = Turns(r) /\ Turn(r)' = Turn(r)
  BY TurnSame
<1>11. Exchanged'
  <2>1. \A a, b : Asks(a, b)' = Asks(a, b) /\ Values(a, b)' = Values(a, b)
    BY <1>0, <1>10 DEF Asks, Values
  <2>2. \A r : Given(r)' = Given(r)
    BY <1>0, <1>8 DEF Given
  <2>3. \A id : recv_r(id)' = recv_r(id)
    BY DEF recv_r
  <2> QED
    BY <1>0, <1>8, <1>10, <2>1, <2>2, <2>3 DEF IInv, Exchanged
<1>12. Multiplied'
  BY <1>0 DEF IInv, Multiplied
<1> QED
  BY <1>1, <1>2, <1>5, <1>7, <1>9, <1>11, <1>12 DEF IInv

\* A rank for which nothing changes but what rank 0 has read for others.
LEMMA ArrivalStays ==
    ASSUME NEW r, Arrival(r),
           UNCHANGED <<pc[r], which[r], mat[r], vec[r], net[<<0, r, 0>>], net[<<0, r, 1>>]>>,
           pc[r] = "part" => buf'[r] = buf[r] /\ which[r] \in {"mat", "vec"},
           \A f \in {"mat", "vec"} :
              /\ (Sent(f, r)' <=> Sent(f, r)) /\ (Announced(f, r)' <=> Announced(f, r))
              /\ (Has(f, r)' <=> Has(f, r)) /\ (Told(f, r)' <=> Told(f, r))
              /\ Announced(f, r) => Part(f, r)' = Part(f, r)
    PROVE  Arrival(r)'
<1>1. \A f \in {"mat", "vec"} : Sent(f, r) => Announced(f, r)
  BY DEF Announced
<1>2. \A f \in {"mat", "vec"} : Announced(f, r) => Parcel(f, r)' = Parcel(f, r)
  BY DEF Parcel, matrix_serialize, NumRows
<1>3. pc[r] = "part" => Told(which[r], r)
  BY DEF Told
<1>4. \A f \in {"mat", "vec"} : /\ Has(f, r)' => Sent(f, r)'
                                /\ Told(f, r)' => Announced(f, r)'
  BY DEF Arrival
<1>5. /\ mat'[r] = IF Has("mat", r)' THEN Part("mat", r)' ELSE NoMatrix
      /\ vec'[r] = IF Has("vec", r)' THEN [Part("vec", r)' EXCEPT !.mapped = vec'[r].mapped]
                   ELSE NoMatrix
  BY <1>1 DEF Arrival
<1>6. ASSUME NEW g \in {"mat", "vec"}, g = which'[r], r # 0, pc'[r] = "part"
      PROVE  buf'[r] = Parcel(g, r)'.bufsize
  <2>1. pc[r] = "part" /\ g = which[r] /\ buf'[r] = buf[r]
    BY <1>6
  <2>2. Announced(g, r)
    BY <1>3, <1>6, <2>1 DEF Arrival
  <2> QED
    BY <1>2, <1>6, <2>1, <2>2 DEF Arrival
<1>7. r # 0 => net'[<<0, r, 0>>] = Line(Announced("mat", r)' /\ ~ Told("mat", r)', Parcel("mat", r)'.bufsize,
                                        Announced("vec", r)' /\ ~ Told("vec", r)', Parcel("vec", r)'.bufsize)
  BY <1>2 DEF Arrival, Line
<1>8. r # 0 => net'[<<0, r, 1>>] = Line(Sent("mat", r)' /\ ~ Has("mat", r)', Parcel("mat", r)',
                                        Sent("vec", r)' /\ ~ Has("vec", r)', Parcel("vec", r)')
  BY <1>1, <1>2 DEF Arrival, Line
<1> QED
  BY <1>4, <1>5, <1>6, <1>7, <1>8 DEF Arrival, NoMatrix, Line

LEMMA Squares ==
    ASSUME input \in Inputs
    PROVE  input.p * input.p \in Nat /\ input.p <= input.p * input.p
<1>1. input.p \in Nat /\ input.p > 0
  BY InputTypes
<1>2. (input.p - 1) * input.p >= 0
  BY <1>1, Z3
<1>3. input.p * input.p = (input.p - 1) * input.p + input.p /\ (input.p - 1) * input.p \in Int
  BY <1>1, Z3
<1> QED
  BY <1>1, <1>2, <1>3

LEMMA ShareStep == ASSUME IInv, Share PROVE IInv'
<1> SUFFICES ASSUME NEW f, f = which[0], NEW c, c = count[0]
             PROVE  IInv'
  OBVIOUS
<1> DEFINE a == [from |-> FromRow(c), to |-> ToRow(c),
                 rows |-> matrix_read_rows(f, FromRow(c), ToRow(c)), mapped |-> << >>]
<1>1. /\ pc[0] = "share" /\ c < input.p
      /\ ShareFits(f, FromRow(c), ToRow(c))
      /\ pos' = pos + Cardinality(Block(f, FromRow(c), ToRow(c)))
      /\ UNCHANGED <<input, aborted, which, comm_map, recv_cols, res>>
  BY DEF Share, At, schedule
<1>2. /\ c = 0 => /\ Keep(0, f, a) /\ count' = [count EXCEPT ![0] = 1]
                  /\ UNCHANGED <<pc, buf, net, awaits>>
      /\ c # 0 => /\ SendTo(0, c, 0, matrix_serialize(a).bufsize)
                  /\ buf' = [buf EXCEPT ![0] = matrix_serialize(a)]
                  /\ pc' = [pc EXCEPT ![0] = "isend"]
                  /\ UNCHANGED <<mat, vec, count>>
  BY DEF Share, Goto
<1>3. /\ input \in Inputs /\ 0 \in Ranks /\ Ranks' = Ranks /\ Ranks \subseteq Nat
      /\ input.p \in Nat /\ f \in {"mat", "vec"} /\ DOMAIN pc = Ranks
      /\ DOMAIN mat = Ranks /\ DOMAIN vec = Ranks /\ DOMAIN net = Channels
      /\ DOMAIN count = Ranks /\ DOMAIN buf = Ranks
  BY <1>1, InputTypes, InputSame DEF IInv, Types
<1>4. Types /\ SharesRead /\ Reading
  BY <1>1 DEF IInv, Reading
<1>5. /\ partition_size > 0 /\ c \in Ranks /\ Coming = c
      /\ pos' \in 0 .. Lines(f)
      /\ a = Part(f, c)'
      /\ f = "mat" => \A k \in 1 .. pos' : input.cells[k].i < Bound(c + 1)
      /\ f = "mat" /\ c + 1 = input.p => pos' = Len(input.cells)
      /\ f = "vec" => pos' = Bound(c + 1)
      /\ \A g, r : r \in Ranks /\ Announced(g, r) => Part(g, r)' = Part(g, r)
  BY <1>1, <1>4, ReadShare
<1>6. c \in Nat /\ c \in 0 .. input.p /\ c + 1 \in 0 .. input.p
  BY <1>1, <1>3, <1>5 DEF Ranks
<1>7. /\ \A r \in Ranks : /\ pc[r] \in Early
                          /\ pc[r] \notin {"share", "isend"} => count[r] = 0
                          /\ DOMAIN vec[r].mapped = {}
  BY <1>1, <1>3, EarlyFacts DEF Early
<1>8. pc'[0] \in {"share", "isend"} /\ \A r \in Ranks \ {0} : pc'[r] = pc[r] /\ count'[r] = count[r]
  BY <1>1, <1>2, <1>3
<1>9. a.mapped = << >> /\ DOMAIN a.mapped = {}
  OBVIOUS
<1> HIDE DEF a
<1>10. \A r \in Ranks : DOMAIN vec'[r].mapped = {}
  BY <1>2, <1>3, <1>7, <1>9 DEF Keep
<1>11. \A s, t \in Ranks : /\ net'[<<s, t, 2>>] = net[<<s, t, 2>>]
                           /\ net'[<<s, t, 3>>] = net[<<s, t, 3>>]
  BY <1>2, <1>3 DEF SendTo, Channels
<1>12. Planned' /\ Exchanged' /\ Multiplied'
  BY <1>1, <1>3, <1>7, <1>8, <1>10, <1>11, EarlyRest DEF Early
<1>13. Together'
  <2>1. \E l \in {"share", "isend"} : pc' = [pc EXCEPT ![0] = l]
    <3>1. pc = [pc EXCEPT ![0] = "share"]
      BY <1>1, <1>3 DEF IInv, Types
    <3> QED
      BY <3>1, <1>2
  <2>2. \A phase \in Phases : pc[0] \in phase => "share" \in phase /\ "isend" \in phase
    BY <1>1 DEF Phases, InExchange
  <2> QED
    BY <1>1, <1>3, <2>1, <2>2, Moves
<1>14. Types'
  <2>1. count' \in [Ranks -> 0 .. input.p * input.p]
    <3>1. 1 \in 0 .. input.p * input.p
      BY <1>3, Squares, InputTypes
    <3> QED
      BY <3>1, <1>2 DEF IInv, Types
  <2>2. pc' \in [Ranks -> Labels]
    BY <1>2 DEF IInv, Types, Labels
  <2>3. /\ DOMAIN mat' = Ranks /\ DOMAIN vec' = Ranks /\ DOMAIN buf' = Ranks
        /\ DOMAIN net' = Channels
    BY <1>2, <1>3 DEF Keep, SendTo
  <2>4. DOMAIN awaits' = Ranks /\ \A r \in Ranks : awaits'[r] \in Channels \cup {None}
    <3>1. CASE c = 0
      BY <3>1, <1>2 DEF IInv, Types
    <3>2. CASE c # 0
      <4>1. SendTo(0, c, 0, matrix_serialize(a).bufsize) /\ 0 \in 0 .. 3
        BY <3>2, <1>2
      <4> DEFINE x == matrix_serialize(a).bufsize
      <4> HIDE DEF x
      <4>2. SendTo(0, c, 0, x)
        BY <4>1 DEF x
      <4> QED
        BY <4>1, <4>2, <1>3, <1>5, SendTypes
    <3> QED
      BY <3>1, <3>2
  <2>5. Channels' = Channels /\ Lines(f)' = Lines(f)
    BY <1>1, InputSame
  <2>6. pos' \in 0 .. Lines(which[0])'
    BY <1>1, <1>5, <2>5 DEF Lines
  <2> QED
    <3>1. /\ DOMAIN comm_map' = Ranks /\ DOMAIN recv_cols' = Ranks /\ DOMAIN res' = Ranks
          /\ \A r \in Ranks : DOMAIN comm_map'[r] = Ranks
          /\ aborted' \in BOOLEAN /\ input' \in Inputs /\ which' \in [Ranks -> {"mat", "vec"}]
      BY <1>1 DEF IInv, Types
    <3>2. Ranks' = Ranks /\ Channels' = Channels /\ (input.p * input.p)' = input.p * input.p
      BY <1>1, <1>3, <2>5
    <3> QED
      BY <2>1, <2>2, <2>3, <2>4, <2>6, <3>1, <3>2 DEF Types
<1>15. Coming' = c + 1 /\ count'[0] \in 0 .. input.p /\ Reading'
  BY <1>1, <1>2, <1>3, <1>5, <1>6, <1>8 DEF Coming, Reading
<1>16. SharesRead'
  <2>1. pc'[0] = "isend" => count'[0] = c /\ c \in 1 .. input.p - 1 /\ buf'[0] = matrix_serialize(a)
    BY <1>1, <1>2, <1>3, <1>6
  <2>2. Parcel(f, c)' = matrix_serialize(a)
    BY <1>5 DEF Parcel, matrix_serialize, NumRows
  <2>3. /\ pc'[0] = "isend" => count'[0] \in 1 .. input.p - 1
        /\ \A g \in {"mat", "vec"}, r \in Ranks :
             pc'[0] = "isend" /\ which'[0] = g /\ count'[0] = r => buf'[0] = Parcel(g, r)'
    <3>1. pc'[0] = "isend" => count'[0] \in 1 .. input.p - 1
      BY <2>1
    <3>2. ASSUME NEW g \in {"mat", "vec"}, NEW r \in Ranks, pc'[0] = "isend", which'[0] = g, count'[0] = r
          PROVE  buf'[0] = Parcel(g, r)'
      BY <1>1, <2>1, <2>2, <3>2
    <3> QED
      BY <3>1, <3>2
  <2>4. /\ partition_size' > 0 /\ input' = input /\ which'[0] = f
        /\ Bound(c + 1)' = Bound(c + 1)
    BY <1>1, <1>5, InputSame
  <2>5. \A r \in Ranks \ {0} : pc'[r] \in {"size", "part"} => count'[r] = 0
    BY <1>7, <1>8
  <2>6. /\ f = "mat" => \A k \in 1 .. pos' : input.cells[k].i < Bound(Coming)'
        /\ f = "vec" => pos' = Bound(Coming)'
    BY <1>5, <1>15, <2>4 DEF Bound, FromRow
  <2> QED
    BY <1>3, <1>5, <1>15, <2>3, <2>4, <2>5, <2>6 DEF SharesRead
<1>17. ASSUME NEW g \in {"mat", "vec"}, NEW r \in Ranks
       PROVE  /\ Sent(g, r)' <=> Sent(g, r) \/ (g = f /\ r = 0 /\ c = 0)
              /\ Announced(g, r)' <=> Announced(g, r) \/ (g = f /\ r = c)
              /\ Has(g, r)' <=> Has(g, r) \/ (g = f /\ r = 0 /\ c = 0)
              /\ Told(g, r)' <=> Told(g, r) \/ (g = f /\ r = 0 /\ c = 0)
              /\ g = f /\ r = c => ~ Announced(g, r)
  <2>1. r \in Nat /\ c \in Nat /\ which' = which /\ Reading /\ Reading'
    BY <1>1, <1>3, <1>4, <1>6, <1>15
  <2>2. c = 0 => count'[0] = 1 /\ pc'[0] = "share"
    BY <1>1, <1>2, <1>3
  <2>3. c # 0 => count'[0] = c /\ pc'[0] = "isend"
    BY <1>2, <1>3
  <2>4. Sent(g, r)' <=> Sent(g, r) \/ (g = f /\ r = 0 /\ c = 0)
    <3>1. Sent(g, r) <=> (f = g /\ r < c) \/ (g = "mat" /\ f = "vec")
      BY <2>1 DEF Sent
    <3>2. Sent(g, r)' <=> (f = g /\ r < count'[0]) \/ (g = "mat" /\ f = "vec")
      BY <2>1 DEF Sent
    <3> QED
      BY <3>1, <3>2, <2>1, <2>2, <2>3
  <2>5. Announced(g, r)' <=> Announced(g, r) \/ (g = f /\ r = c)
    <3>1. Announced(g, r) <=> Sent(g, r)
      BY <1>1 DEF Announced
    <3>2. Announced(g, r)' <=> Sent(g, r)' \/ (pc'[0] = "isend" /\ f = g /\ r = count'[0])
      BY <2>1 DEF Announced
    <3> QED
      BY <3>1, <3>2, <2>1, <2>2, <2>3, <2>4
  <2>6. Has(g, r)' <=> Has(g, r) \/ (g = f /\ r = 0 /\ c = 0)
    <3>1. CASE r = 0
      BY <3>1, <2>4 DEF Has
    <3>2. CASE r # 0
      BY <3>2, <2>1, <1>8 DEF Has
    <3> QED
      BY <3>1, <3>2
  <2>7. Told(g, r)' <=> Told(g, r) \/ (g = f /\ r = 0 /\ c = 0)
    <3>1. (pc'[r] = "part" /\ which'[r] = g) <=> (pc[r] = "part" /\ which[r] = g)
      BY <1>1, <1>8
    <3> QED
      BY <3>1, <2>6 DEF Told
  <2>8. g = f /\ r = c => ~ Announced(g, r)
    BY <1>1, <2>1 DEF Announced, Sent
  <2> QED
    BY <2>4, <2>5, <2>6, <2>7, <2>8
<1>18. ASSUME NEW r \in Ranks
       PROVE  Arrival(r)'
  <2>1. Arrival(r)
    BY DEF IInv, SharesArrive
  <2>2. \A g \in {"mat", "vec"} : Announced(g, r) =>
            Part(g, r)' = Part(g, r) /\ Parcel(g, r)' = Parcel(g, r)
    BY <1>5 DEF Parcel, matrix_serialize, NumRows
  <2>3. r # c => net'[<<0, r, 0>>] = net[<<0, r, 0>>]
    BY <1>2, <1>3 DEF SendTo, Channels
  <2>4. net'[<<0, r, 1>>] = net[<<0, r, 1>>]
    BY <1>2, <1>3 DEF SendTo, Channels
  <2>5. c # 0 \/ r # 0 => mat'[r] = mat[r] /\ vec'[r] = vec[r]
    BY <1>2, <1>3 DEF Keep
  <2>6. r # 0 => UNCHANGED <<pc[r], which[r], buf[r]>>
    BY <1>1, <1>2, <1>3
  <2>7. pc[r] = "part" => r # 0 /\ which[r] \in {"mat", "vec"}
    BY <1>1 DEF IInv, Types
  <2>8. CASE r # c
    <3>1. \A g \in {"mat", "vec"} :
              /\ (Sent(g, r)' <=> Sent(g, r)) /\ (Announced(g, r)' <=> Announced(g, r))
              /\ (Has(g, r)' <=> Has(g, r)) /\ (Told(g, r)' <=> Told(g, r))
              /\ Announced(g, r) => Part(g, r)' = Part(g, r)
      BY <1>17, <2>2, <2>8
    <3>2. CASE r # 0
      BY <2>1, <2>3, <2>4, <2>5, <2>6, <2>7, <2>8, <3>1, <3>2, ArrivalStays
    <3>3. CASE r = 0
      <4>1. \A g \in {"mat", "vec"} : /\ Has(g, r)' => Sent(g, r)'
                                      /\ Told(g, r)' => Announced(g, r)'
        BY <2>1, <3>1 DEF Arrival
      <4>2. \A g \in {"mat", "vec"} : Has(g, r) => Announced(g, r)
        BY <2>1 DEF Arrival, Announced
      <4>3. mat'[r] = IF Has("mat", r)' THEN Part("mat", r)' ELSE NoMatrix
        BY <2>1, <2>2, <2>5, <2>8, <3>1, <3>3, <4>2 DEF Arrival
      <4>4. vec'[r] = IF Has("vec", r)' THEN [Part("vec", r)' EXCEPT !.mapped = vec'[r].mapped]
                      ELSE NoMatrix
        BY <2>1, <2>2, <2>5, <2>8, <3>1, <3>3, <4>2 DEF Arrival
      <4> QED
        BY <3>3, <4>1, <4>3, <4>4 DEF Arrival, NoMatrix
    <3> QED
      BY <3>2, <3>3
  <2>9. CASE r = c /\ c = 0
    <3>1. /\ Has(f, 0)' /\ Sent(f, 0)' /\ ~ Has(f, 0)
          /\ \A g \in {"mat", "vec"} : g # f => /\ Has(g, 0)' <=> Has(g, 0)
                                                /\ Has(g, 0) => Announced(g, 0)
      BY <1>3, <1>17, <2>1, <2>9 DEF Arrival, Announced
    <3>2. \A g \in {"mat", "vec"} : /\ Has(g, 0)' => Sent(g, 0)'
                                    /\ Told(g, 0)' => Announced(g, 0)'
      BY <1>3, <1>17, <2>1, <2>9 DEF Arrival
    <3>3. CASE f = "mat"
      <4>1. mat'[0] = Part("mat", 0)' /\ vec' = vec
        BY <1>2, <1>3, <1>5, <2>9, <3>3 DEF Keep
      <4>2. vec'[0] = IF Has("vec", 0)' THEN [Part("vec", 0)' EXCEPT !.mapped = vec'[0].mapped]
                      ELSE NoMatrix
        BY <2>1, <2>2, <2>9, <3>1, <3>3, <4>1 DEF Arrival
      <4> QED
        BY <2>9, <3>1, <3>2, <3>3, <4>1, <4>2 DEF Arrival, NoMatrix
    <3>4. CASE f = "vec"
      <4>1. vec'[0] = Part("vec", 0)' /\ mat' = mat
        BY <1>2, <1>3, <1>5, <2>9, <3>4 DEF Keep
      <4>2. mat'[0] = IF Has("mat", 0)' THEN Part("mat", 0)' ELSE NoMatrix
        BY <2>1, <2>2, <2>9, <3>1, <3>4, <4>1 DEF Arrival
      <4>3. vec'[0] = [Part("vec", 0)' EXCEPT !.mapped = vec'[0].mapped]
        BY <4>1 DEF Part
      <4> QED
        BY <2>9, <3>1, <3>2, <3>4, <4>1, <4>2, <4>3 DEF Arrival, NoMatrix
    <3> QED
      BY <1>3, <3>3, <3>4
  <2>10. CASE r = c /\ c # 0
    <3>1. net'[<<0, r, 0>>] = Append(net[<<0, r, 0>>], Parcel(f, r)'.bufsize)
      <4>1. <<0, r, 0>> \in Channels
        BY <1>3 DEF Channels
      <4>2. Parcel(f, r)' = matrix_serialize(a)
        BY <1>5, <2>10 DEF Parcel, matrix_serialize, NumRows
      <4>3. net' = [net EXCEPT ![<<0, c, 0>>] = Append(@, matrix_serialize(a).bufsize)]
        BY <1>2, <2>10 DEF SendTo
      <4>4. net'[<<0, r, 0>>] = Append(net[<<0, r, 0>>], matrix_serialize(a).bufsize)
        BY <1>3, <2>10, <4>1, <4>3
      <4> QED
        BY <4>2, <4>4
    <3>2. /\ ~ Announced(f, r) /\ Announced(f, r)' /\ ~ Told(f, r) /\ ~ Told(f, r)'
          /\ ~ Has(f, r) /\ ~ Sent(f, r)
      BY <1>3, <1>17, <2>1, <2>10 DEF Arrival, Announced
    <3>3. \A g \in {"mat", "vec"} :
              /\ (Sent(g, r)' <=> Sent(g, r)) /\ (Has(g, r)' <=> Has(g, r)) /\ (Told(g, r)' <=> Told(g, r))
              /\ Has(g, r) => Announced(g, r)
              /\ Sent(g, r) => Announced(g, r)
              /\ g # f => (Announced(g, r)' <=> Announced(g, r))
      BY <1>17, <2>1, <2>10 DEF Arrival, Announced
    <3>4. \A g \in {"mat", "vec"} : /\ Has(g, r)' => Sent(g, r)'
                                    /\ Told(g, r)' => Announced(g, r)'
      BY <1>3, <2>1, <3>2, <3>3 DEF Arrival
    <3>5. /\ mat'[r] = IF Has("mat", r)' THEN Part("mat", r)' ELSE NoMatrix
          /\ vec'[r] = IF Has("vec", r)' THEN [Part("vec", r)' EXCEPT !.mapped = vec'[r].mapped]
                      ELSE NoMatrix
      BY <2>1, <2>2, <2>5, <2>10, <3>3 DEF Arrival
    <3>6. ASSUME NEW g \in {"mat", "vec"}, g = which'[r], pc'[r] = "part"
          PROVE  buf'[r] = Parcel(g, r)'.bufsize
      <4>1. pc[r] = "part" /\ buf'[r] = buf[r] /\ g = which[r]
        BY <2>6, <2>7, <2>10, <3>6
      <4>2. Announced(g, r)
        BY <4>1, <2>1, <3>6 DEF Arrival, Told
      <4> QED
        BY <4>1, <4>2, <2>1, <2>2, <2>10, <3>6 DEF Arrival
    <3>7. net'[<<0, r, 0>>] = Line(Announced("mat", r)' /\ ~ Told("mat", r)', Parcel("mat", r)'.bufsize,
                                   Announced("vec", r)' /\ ~ Told("vec", r)', Parcel("vec", r)'.bufsize)
      <4>1. net[<<0, r, 0>>] = Line(Announced("mat", r) /\ ~ Told("mat", r), Parcel("mat", r).bufsize,
                                    Announced("vec", r) /\ ~ Told("vec", r), Parcel("vec", r).bufsize)
        BY <2>1, <2>10 DEF Arrival
      <4>2. CASE f = "mat"
        <5>1. ~ Announced("vec", r)
          BY <1>1, <3>2, <4>2 DEF Announced, Sent, Reading
        <5>2. net[<<0, r, 0>>] = << >>
          BY <4>1, <3>2, <4>2, <5>1 DEF Line
        <5>3. net'[<<0, r, 0>>] = <<Parcel("mat", r)'.bufsize>>
          BY <3>1, <4>2, <5>2, Tuples
        <5> QED
          BY <3>2, <3>3, <4>2, <5>1, <5>3 DEF Line
      <4>3. CASE f = "vec"
        <5>1. Announced("mat", r) /\ Parcel("mat", r)' = Parcel("mat", r)
          BY <4>3, <2>2 DEF Announced, Sent
        <5>2. CASE Told("mat", r)
          <6>1. net[<<0, r, 0>>] = << >>
            BY <4>1, <3>2, <4>3, <5>2 DEF Line
          <6>2. net'[<<0, r, 0>>] = <<Parcel("vec", r)'.bufsize>>
            BY <3>1, <4>3, <6>1, Tuples
          <6> QED
            BY <3>2, <3>3, <4>3, <5>2, <6>2 DEF Line
        <5>3. CASE ~ Told("mat", r)
          <6>1. net[<<0, r, 0>>] = <<Parcel("mat", r).bufsize>>
            BY <4>1, <3>2, <4>3, <5>1, <5>3 DEF Line
          <6>2. net'[<<0, r, 0>>] = <<Parcel("mat", r).bufsize, Parcel("vec", r)'.bufsize>>
            <7>1. \A x, y : Append(<<x>>, y) = <<x, y>>
              BY Tuples
            <7> QED
              BY <3>1, <4>3, <6>1, <7>1
          <6> QED
            BY <3>2, <3>3, <4>3, <5>1, <5>3, <6>2 DEF Line
        <5> QED
          BY <5>2, <5>3
      <4> QED
        BY <1>3, <4>2, <4>3
    <3>8. net'[<<0, r, 1>>] = Line(Sent("mat", r)' /\ ~ Has("mat", r)', Parcel("mat", r)',
                                   Sent("vec", r)' /\ ~ Has("vec", r)', Parcel("vec", r)')
      BY <2>1, <2>2, <2>4, <2>10, <3>3 DEF Arrival, Line
    <3> QED
      BY <3>4, <3>5, <3>6, <3>7, <3>8 DEF Arrival, NoMatrix, Line
  <2> QED
    BY <2>8, <2>9, <2>10
<1>19. SharesArrive'
  BY <1>3, <1>18 DEF SharesArrive
<1> QED
  BY <1>12, <1>13, <1>14, <1>16, <1>19 DEF IInv

LEMMA IsendStep == ASSUME IInv, IsendShare PROVE IInv'
<1> SUFFICES ASSUME NEW f, f = which[0], NEW c, c = count[0]
             PROVE  IInv'
  OBVIOUS
<1>1. /\ pc[0] = "isend" /\ Isend(0, c, 1, buf[0])
      /\ count' = [count EXCEPT ![0] = c + 1]
      /\ pc' = [pc EXCEPT ![0] = "share"]
      /\ UNCHANGED <<input, aborted, which, pos, mat, vec, buf, comm_map, recv_cols, res>>
  BY DEF IsendShare, At, Goto, schedule
<1>2. /\ input \in Inputs /\ 0 \in Ranks /\ Ranks' = Ranks /\ Ranks \subseteq Nat
      /\ input.p \in Nat /\ f \in {"mat", "vec"} /\ DOMAIN pc = Ranks
      /\ DOMAIN mat = Ranks /\ DOMAIN vec = Ranks /\ DOMAIN net = Channels
      /\ DOMAIN count = Ranks /\ DOMAIN buf = Ranks
  BY <1>1, InputTypes, InputSame DEF IInv, Types
<1>3. Reading /\ Reading' /\ pc'[0] = "share" /\ count'[0] = c + 1
      /\ \A r \in Ranks \ {0} : pc'[r] = pc[r] /\ count'[r] = count[r]
  BY <1>1, <1>2 DEF Reading
<1>4. c \in 1 .. input.p - 1 /\ c \in Ranks /\ c \in Nat /\ c # 0 /\ buf[0] = Parcel(f, c)
  <2>1. c \in 1 .. input.p - 1
    BY <1>1 DEF IInv, SharesRead
  <2>2. c \in Ranks /\ c \in Nat /\ c # 0
    BY <1>2, <2>1 DEF Ranks
  <2> QED
    BY <1>1, <1>2, <2>1, <2>2 DEF IInv, SharesRead
<1>5. \A g, r : Part(g, r)' = Part(g, r) /\ Parcel(g, r)' = Parcel(g, r)
  BY <1>1, PartSame
<1>6. /\ DOMAIN net' = Channels /\ DOMAIN awaits' = Ranks
      /\ \A q \in Ranks : awaits'[q] \in Channels \cup {None}
      /\ net' = [net EXCEPT ![<<0, c, 1>>] = Append(@, Parcel(f, c))]
  <2> DEFINE x == Parcel(f, c)
  <2>1. Isend(0, c, 1, x)
    BY <1>1, <1>4
  <2> HIDE DEF x
  <2>2. 1 \in 0 .. 3 /\ 0 \in Ranks /\ c \in Ranks
    BY <1>2, <1>4
  <2>3. DOMAIN awaits' = Ranks /\ \A q \in Ranks : awaits'[q] \in Channels \cup {None}
    BY <2>1, <2>2, SendTypes
  <2>4. DOMAIN net' = Channels /\ net' = [net EXCEPT ![<<0, c, 1>>] = Append(@, x)]
    BY <1>2, <2>1 DEF Isend
  <2> QED
    BY <2>3, <2>4 DEF x
<1>7. Coming = c + 1 /\ Coming' = c + 1
  BY <1>1, <1>3 DEF Coming
<1>8. /\ \A r \in Ranks : /\ pc[r] \in Early /\ pc'[r] \in Early
                          /\ DOMAIN vec'[r].mapped = {}
      /\ \A s, t \in Ranks : /\ net'[<<s, t, 2>>] = net[<<s, t, 2>>]
                             /\ net'[<<s, t, 3>>] = net[<<s, t, 3>>]
  <2>1. \A r \in Ranks : pc[r] \in Early /\ DOMAIN vec[r].mapped = {}
    BY <1>1, <1>2, EarlyFacts DEF Early
  <2>2. \A r \in Ranks : pc'[r] \in Early
    BY <1>3, <2>1 DEF Early
  <2>3. \A s, t \in Ranks : /\ net'[<<s, t, 2>>] = net[<<s, t, 2>>]
                            /\ net'[<<s, t, 3>>] = net[<<s, t, 3>>]
    BY <1>2, <1>6 DEF Channels
  <2> QED
    BY <1>1, <2>1, <2>2, <2>3
<1>9. Planned' /\ Exchanged' /\ Multiplied'
  BY <1>1, <1>2, <1>3, <1>8, EarlyRest
<1>10. Together'
  <2>1. \A phase \in Phases : pc[0] \in phase => "share" \in phase
    BY <1>1 DEF Phases, InExchange
  <2> QED
    BY <1>1, <1>2, <2>1, Moves
<1>11. Types'
  <2>1. c + 1 \in 0 .. input.p * input.p
    BY <1>2, <1>4, Squares
  <2>2. count' \in [Ranks -> 0 .. input.p * input.p] /\ pc' \in [Ranks -> Labels]
    BY <1>1, <2>1 DEF IInv, Types, Labels
  <2>3. /\ Ranks' = Ranks /\ Channels' = Channels /\ (input.p * input.p)' = input.p * input.p
        /\ Lines(which[0])' = Lines(which[0])
    BY <1>1, InputSame DEF Lines
  <2> QED
    BY <1>1, <1>6, <2>2, <2>3 DEF IInv, Types
<1>12. SharesRead'
  <2>1. c + 1 \in 0 .. input.p
    BY <1>2, <1>4
  <2>2. /\ partition_size' = partition_size /\ Bound(Coming)' = Bound(Coming)
    BY <1>1, <1>7, InputSame DEF Bound, FromRow
  <2>3. \A r \in Ranks \ {0} : pc'[r] \in {"size", "part"} => count'[r] = 0
    BY <1>3 DEF IInv, SharesRead
  <2>4. partition_size > 0
    BY <1>3, <1>4, <1>7 DEF IInv, SharesRead
  <2> QED
    BY <1>1, <1>2, <1>3, <1>7, <2>1, <2>2, <2>3, <2>4 DEF IInv, SharesRead
<1>13. ASSUME NEW g \in {"mat", "vec"}, NEW r \in Ranks
       PROVE  /\ Sent(g, r)' <=> Sent(g, r) \/ (g = f /\ r = c)
              /\ Announced(g, r)' <=> Announced(g, r)
              /\ Has(g, r)' <=> Has(g, r)
              /\ Told(g, r)' <=> Told(g, r)
              /\ g = f /\ r = c => ~ Sent(g, r)
  <2>1. r \in Nat /\ which' = which /\ c \in Nat
    BY <1>1, <1>2, <1>4
  <2>2. Sent(g, r) <=> (f = g /\ r < c) \/ (g = "mat" /\ f = "vec")
    BY <1>3 DEF Sent
  <2>3. Sent(g, r)' <=> (f = g /\ r < c + 1) \/ (g = "mat" /\ f = "vec")
    BY <1>3, <2>1 DEF Sent
  <2>4. /\ Sent(g, r)' <=> Sent(g, r) \/ (g = f /\ r = c)
        /\ g = f /\ r = c => ~ Sent(g, r)
    BY <2>1, <2>2, <2>3
  <2>5. Announced(g, r) <=> Sent(g, r) \/ (f = g /\ r = c)
    BY <1>1 DEF Announced
  <2>6. Announced(g, r)' <=> Sent(g, r)'
    BY <1>3 DEF Announced
  <2>7. Has(g, r)' <=> Has(g, r)
    BY <1>3, <1>4, <2>1, <2>4 DEF Has
  <2>8. Told(g, r)' <=> Told(g, r)
    <3>1. (pc'[r] = "part" /\ which'[r] = g) <=> (pc[r] = "part" /\ which[r] = g)
      BY <1>1, <1>3
    <3> QED
      BY <3>1, <2>7 DEF Told
  <2> QED
    BY <2>4, <2>5, <2>6, <2>7, <2>8
<1>14. ASSUME NEW r \in Ranks
       PROVE  Arrival(r)'
  <2>1. Arrival(r)
    BY DEF IInv, SharesArrive
  <2>2. \A g \in {"mat", "vec"} : /\ Has(g, r)' => Sent(g, r)'
                                  /\ Told(g, r)' => Announced(g, r)'
    BY <1>13, <2>1 DEF Arrival
  <2>3. /\ mat'[r] = IF Has("mat", r)' THEN Part("mat", r)' ELSE NoMatrix
        /\ vec'[r] = IF Has("vec", r)' THEN [Part("vec", r)' EXCEPT !.mapped = vec'[r].mapped]
                     ELSE NoMatrix
    BY <1>1, <1>5, <1>13, <2>1 DEF Arrival
  <2>4. \A g \in {"mat", "vec"} : r # 0 /\ pc'[r] = "part" /\ which'[r] = g => buf'[r] = Parcel(g, r)'.bufsize
    BY <1>1, <1>3, <1>5, <2>1 DEF Arrival
  <2>5. net'[<<0, r, 0>>] = net[<<0, r, 0>>] /\ (r # c => net'[<<0, r, 1>>] = net[<<0, r, 1>>])
    BY <1>2, <1>6 DEF Channels
  <2>6. r # 0 => net'[<<0, r, 0>>] = Line(Announced("mat", r)' /\ ~ Told("mat", r)', Parcel("mat", r)'.bufsize,
                                          Announced("vec", r)' /\ ~ Told("vec", r)', Parcel("vec", r)'.bufsize)
    BY <1>5, <1>13, <2>1, <2>5 DEF Arrival, Line
  <2>7. r # 0 => net'[<<0, r, 1>>] = Line(Sent("mat", r)' /\ ~ Has("mat", r)', Parcel("mat", r)',
                                          Sent("vec", r)' /\ ~ Has("vec", r)', Parcel("vec", r)')
    <3>1. CASE r # c
      BY <3>1, <1>5, <1>13, <2>1, <2>5 DEF Arrival, Line
    <3>2. CASE r = c
      <4>1. net'[<<0, r, 1>>] = Append(net[<<0, r, 1>>], Parcel(f, r))
        <5>1. <<0, r, 1>> \in Channels
          BY <1>2 DEF Channels
        <5> QED
          BY <1>2, <1>6, <3>2, <5>1
      <4>2. net[<<0, r, 1>>] = Line(Sent("mat", r) /\ ~ Has("mat", r), Parcel("mat", r),
                                    Sent("vec", r) /\ ~ Has("vec", r), Parcel("vec", r))
        BY <1>4, <2>1, <3>2 DEF Arrival
      <4>3. ~ Sent(f, r) /\ ~ Has(f, r) /\ Sent(f, r)' /\ ~ Has(f, r)'
        BY <1>2, <1>13, <2>1, <3>2 DEF Arrival
      <4>4. f = "vec" => Sent("mat", r) /\ Sent("mat", r)'
        BY <1>2, <1>13, <3>2 DEF Sent
      <4>5. f = "mat" => ~ Sent("vec", r) /\ ~ Sent("vec", r)'
        BY <1>2, <1>3, <1>13, <3>2 DEF Sent
      <4>6. Has("mat", r)' <=> Has("mat", r)
        BY <1>13
      <4>7. \A x, y : Append(<<x>>, y) = <<x, y>> /\ Append(<< >>, x) = <<x>>
        BY Tuples
      <4>8. CASE f = "mat"
        <5>1. net[<<0, r, 1>>] = << >>
          BY <4>2, <4>3, <4>5, <4>8 DEF Line
        <5>2. net'[<<0, r, 1>>] = <<Parcel("mat", r)>>
          BY <4>1, <4>7, <4>8, <5>1
        <5> QED
          BY <1>5, <4>3, <4>5, <4>8, <5>2 DEF Line
      <4>9. CASE f = "vec"
        <5>1. CASE Has("mat", r)
          <6>1. net[<<0, r, 1>>] = << >>
            BY <4>2, <4>3, <4>9, <5>1 DEF Line
          <6>2. net'[<<0, r, 1>>] = <<Parcel("vec", r)>>
            BY <4>1, <4>7, <4>9, <6>1
          <6> QED
            BY <1>5, <4>3, <4>4, <4>6, <4>9, <5>1, <6>2 DEF Line
        <5>2. CASE ~ Has("mat", r)
          <6>1. net[<<0, r, 1>>] = <<Parcel("mat", r)>>
            BY <4>2, <4>3, <4>4, <4>9, <5>2 DEF Line
          <6>2. net'[<<0, r, 1>>] = <<Parcel("mat", r), Parcel("vec", r)>>
            BY <4>1, <4>7, <4>9, <6>1
          <6> QED
            BY <1>5, <4>3, <4>4, <4>6, <4>9, <5>2, <6>2 DEF Line
        <5> QED
          BY <5>1, <5>2
      <4> QED
        BY <1>2, <4>8, <4>9
    <3> QED
      BY <3>1, <3>2
  <2> QED
    BY <2>2, <2>3, <2>4, <2>6, <2>7 DEF Arrival, NoMatrix, Line
<1>15. SharesArrive'
  BY <1>2, <1>14 DEF SharesArrive
<1> QED
  BY <1>9, <1>10, <1>11, <1>12, <1>15 DEF IInv

LEMMA EndOfSharesStep == ASSUME IInv, EndOfShares PROVE IInv'
<1> SUFFICES ASSUME NEW f, f = which[0], NEW l, l = IF f = "mat" THEN "share" ELSE "barrier1"
             PROVE  IInv'
  OBVIOUS
<1>1. /\ pc[0] = "share" /\ count[0] = input.p /\ pos' = 0
      /\ which' = [which EXCEPT ![0] = "vec"]
      /\ count' = [count EXCEPT ![0] = 0]
      /\ pc' = [pc EXCEPT ![0] = l]
      /\ UNCHANGED <<input, aborted, mat, vec, buf, comm_map, recv_cols, res, net, awaits>>
  BY DEF EndOfShares, At, Goto, NextFile, schedule
<1>2. /\ input \in Inputs /\ 0 \in Ranks /\ Ranks' = Ranks /\ Ranks \subseteq Nat
      /\ input.p \in Nat \ {0} /\ f \in {"mat", "vec"} /\ DOMAIN pc = Ranks
      /\ DOMAIN which = Ranks /\ DOMAIN count = Ranks
      /\ input.n \in Nat /\ DOMAIN input.cells = 1 .. Len(input.cells) /\ Len(input.cells) \in Nat
  BY <1>1, InputTypes, InputSame DEF IInv, Types
<1>3. /\ which'[0] = "vec" /\ count'[0] = 0 /\ pc'[0] = l /\ Reading
      /\ \A r \in Ranks \ {0} : pc'[r] = pc[r] /\ count'[r] = count[r] /\ which'[r] = which[r]
  BY <1>1, <1>2 DEF Reading
<1>4. Coming = input.p /\ (f = "mat" => pos = Len(input.cells)) /\ partition_size > 0
  BY <1>1, <1>2, <1>3 DEF IInv, SharesRead, Coming
<1>5. \A g, r : Part(g, r)' = Part(g, r) /\ Parcel(g, r)' = Parcel(g, r)
  <2>1. \A i : Seen(i)' = Seen(i)
    <3>1. \A k \in DOMAIN input.cells : which[0] = "mat" => k <= pos
      BY <1>2, <1>4
    <3> QED
      BY <1>1, <1>3, <3>1 DEF Seen
  <2>2. \A r : FromRow(r)' = FromRow(r) /\ ToRow(r)' = ToRow(r)
    BY <1>1, InputSame
  <2>3. \A g, r : Part(g, r)' = Part(g, r)
    BY <2>1, <2>2 DEF Part
  <2> QED
    BY <2>3 DEF Parcel, matrix_serialize, NumRows
<1>6. ASSUME NEW g \in {"mat", "vec"}, NEW r \in Ranks
      PROVE  /\ Sent(g, r)' <=> Sent(g, r)
             /\ Announced(g, r)' <=> Announced(g, r)
             /\ Has(g, r)' <=> Has(g, r)
             /\ Told(g, r)' <=> Told(g, r)
  <2>1. r \in Nat /\ r < input.p /\ ~ (r < 0)
    BY <1>2 DEF Ranks
  <2>2. Reading' <=> f = "mat"
    BY <1>2, <1>3 DEF Reading
  <2>3. Sent(g, r) <=> (f = g \/ (g = "mat" /\ f = "vec"))
    BY <1>1, <1>3, <2>1 DEF Sent
  <2>4. Sent(g, r)' <=> (f = "vec" \/ g = "mat")
    BY <1>2, <1>3, <2>1, <2>2 DEF Sent
  <2>5. Sent(g, r)' <=> Sent(g, r)
    BY <1>2, <2>3, <2>4
  <2>6. Announced(g, r)' <=> Announced(g, r)
    BY <1>1, <1>3, <2>5 DEF Announced
  <2>7. Has(g, r)' <=> Has(g, r)
    BY <1>3, <2>5 DEF Has
  <2>8. Told(g, r)' <=> Told(g, r)
    <3>1. (pc'[r] = "part" /\ which'[r] = g) <=> (pc[r] = "part" /\ which[r] = g)
      BY <1>1, <1>3
    <3> QED
      BY <3>1, <2>7 DEF Told
  <2> QED
    BY <2>5, <2>6, <2>7, <2>8
<1>7. ASSUME NEW r \in Ranks
      PROVE  Arrival(r)'
  <2>1. Arrival(r)
    BY DEF IInv, SharesArrive
  <2>2. CASE r = 0
    BY <1>1, <1>5, <1>6, <2>1, <2>2 DEF Arrival, NoMatrix
  <2>3. CASE r # 0
    <3>1. /\ UNCHANGED <<pc[r], which[r], mat[r], vec[r], net[<<0, r, 0>>], net[<<0, r, 1>>]>>
          /\ pc[r] = "part" => buf'[r] = buf[r] /\ which[r] \in {"mat", "vec"}
      BY <1>1, <1>3, <2>3 DEF IInv, Types
    <3>2. \A g \in {"mat", "vec"} :
              /\ (Sent(g, r)' <=> Sent(g, r)) /\ (Announced(g, r)' <=> Announced(g, r))
              /\ (Has(g, r)' <=> Has(g, r)) /\ (Told(g, r)' <=> Told(g, r))
              /\ Announced(g, r) => Part(g, r)' = Part(g, r)
      BY <1>5, <1>6
    <3> QED
      BY <2>1, <3>1, <3>2, ArrivalStays
  <2> QED
    BY <2>2, <2>3
<1>8. SharesArrive'
  BY <1>2, <1>7 DEF SharesArrive
<1>9. SharesRead'
  <2>1. Bound(0)' = 0
    <3>1. Bound(0) = 0 * partition_size /\ partition_size \in Int
      BY <1>2 DEF Bound, FromRow, partition_size
    <3> QED
      BY <1>1, <3>1, InputSame
  <2>2. Reading' => Coming' = 0
    BY <1>2, <1>3 DEF Reading, Coming
  <2>3. partition_size' > 0 /\ pc'[0] # "isend"
    BY <1>1, <1>2, <1>3, <1>4, InputSame
  <2>4. \A r \in Ranks \ {0} : pc'[r] \in {"size", "part"} => count'[r] = 0
    BY <1>3 DEF IInv, SharesRead
  <2>5. Reading' => pos' = Bound(Coming)'
    BY <1>1, <2>1, <2>2
  <2> QED
    BY <1>1, <1>2, <1>3, <2>3, <2>4, <2>5 DEF SharesRead
<1>10. Planned' /\ Exchanged' /\ Multiplied'
  <2>1. \A r \in Ranks : pc[r] \in Early /\ DOMAIN vec[r].mapped = {}
    BY <1>1, <1>2, EarlyFacts DEF Early
  <2>2. \A r \in Ranks : pc'[r] \in Early
    BY <1>2, <1>3, <2>1 DEF Early
  <2> QED
    BY <1>1, <1>2, <1>3, <2>1, <2>2, EarlyRest
<1>11. Together'
  <2>1. \A phase \in Phases : pc[0] \in phase => l \in phase
    BY <1>1, <1>2 DEF Phases, InExchange
  <2>2. \A s \in Ranks : which'[s] = which[s] \/ which'[s] = "vec"
    BY <1>2, <1>3
  <2>3. l \notin {"size", "part"}
    OBVIOUS
  <2> QED
    BY <1>1, <1>2, <1>3, <2>1, <2>2, <2>3, Moves
<1>12. Types'
  <2>1. 0 \in 0 .. input.p * input.p /\ 0 \in 0 .. input.n
    BY <1>2, Squares
  <2>2. /\ count' \in [Ranks -> 0 .. input.p * input.p] /\ pc' \in [Ranks -> Labels]
        /\ which' \in [Ranks -> {"mat", "vec"}]
    <3>1. l \in Labels
      BY DEF Labels, After
    <3>2. /\ count \in [Ranks -> 0 .. input.p * input.p] /\ pc \in [Ranks -> Labels]
          /\ which \in [Ranks -> {"mat", "vec"}]
      BY DEF IInv, Types
    <3> QED
      BY <1>1, <2>1, <3>1, <3>2
  <2>3. /\ Ranks' = Ranks /\ Channels' = Channels /\ (input.p * input.p)' = input.p * input.p
    BY <1>1, InputSame
  <2>4. pos' \in 0 .. Lines(which[0])'
    <3>1. Lines(which[0])' = input.n
      BY <1>1, <1>2, <1>3, InputTypes DEF Lines
    <3> QED
      BY <1>1, <2>1, <3>1
  <2> QED
    BY <1>1, <2>2, <2>3, <2>4 DEF IInv, Types
<1> QED
  BY <1>8, <1>9, <1>10, <1>11, <1>12 DEF IInv

\* A rank takes the next message from rank 0.
LEMMA Receives ==
    ASSUME IInv, NEW r \in Ranks, r # 0, pc[r] \in {"size", "part"},
           UNCHANGED <<input, pos, comm_map, recv_cols, res>>,
           \A s \in Ranks \ {r} :
              UNCHANGED <<pc[s], which[s], count[s], mat[s], vec[s], buf[s], net[<<0, s, 0>>], net[<<0, s, 1>>]>>,
           \A s, t \in Ranks : UNCHANGED <<net[<<s, t, 2>>], net[<<s, t, 3>>]>>,
           pc'[r] \in {"size", "part", "barrier1"}, count'[r] = 0, DOMAIN vec'[r].mapped = {},
           Types', Together', Arrival(r)'
    PROVE  IInv'
<1>1. Ranks' = Ranks /\ 0 \in Ranks \ {r} /\ partition_size' = partition_size
      /\ \A c : Bound(c)' = Bound(c)
  BY InputSame, InputTypes DEF IInv, Types
<1>2. \A s \in Ranks : pc[s] \in Early /\ DOMAIN vec[s].mapped = {}
  BY EarlyFacts DEF Early
<1>3. Planned' /\ Exchanged' /\ Multiplied'
  <2>1. pc[r] \in Early /\ pc'[r] \in Early
    BY DEF Early
  <2>2. \A s \in Ranks : /\ pc'[s] \in Early
                         /\ \/ pc'[s] = pc[s] /\ count'[s] = count[s]
                            \/ pc'[s] \in {"share", "isend"} \/ count'[s] = 0
                         /\ DOMAIN vec'[s].mapped = {}
    BY <1>2, <2>1
  <2>3. \A a, b \in Ranks : /\ net'[<<a, b, 2>>] = net[<<a, b, 2>>]
                            /\ net'[<<a, b, 3>>] = net[<<a, b, 3>>]
    OBVIOUS
  <2> QED
    BY <2>1, <2>2, <2>3, EarlyRest
<1>4. /\ pc'[0] = pc[0] /\ which'[0] = which[0] /\ count'[0] = count[0] /\ buf'[0] = buf[0]
      /\ Reading' = Reading /\ Coming' = Coming
  BY <1>1 DEF Reading, Coming
<1>5. \A g, s : Part(g, s)' = Part(g, s) /\ Parcel(g, s)' = Parcel(g, s)
  BY <1>4, PartSame
<1>6. SharesRead'
  <2>1. \A s \in Ranks \ {0} : pc'[s] \in {"size", "part"} => count'[s] = 0
    BY DEF IInv, SharesRead
  <2> QED
    BY <1>1, <1>4, <1>5, <2>1 DEF IInv, SharesRead
<1>7. ASSUME NEW s \in Ranks, s # r
      PROVE  Arrival(s)'
  <2>1. /\ UNCHANGED <<pc[s], which[s], mat[s], vec[s], net[<<0, s, 0>>], net[<<0, s, 1>>]>>
        /\ buf'[s] = buf[s] /\ which[s] \in {"mat", "vec"}
    BY <1>7 DEF IInv, Types
  <2>2. \A g \in {"mat", "vec"} :
              /\ (Sent(g, s)' <=> Sent(g, s)) /\ (Announced(g, s)' <=> Announced(g, s))
              /\ (Has(g, s)' <=> Has(g, s)) /\ (Told(g, s)' <=> Told(g, s))
    BY <1>4, <2>1 DEF Sent, Announced, Has, Told
  <2>3. Arrival(s)
    BY DEF IInv, SharesArrive
  <2> QED
    BY <1>5, <2>1, <2>2, <2>3, ArrivalStays
<1>8. SharesArrive'
  BY <1>1, <1>7 DEF SharesArrive
<1> QED
  BY <1>3, <1>6, <1>8 DEF IInv

LEMMA RecvSizeStep == ASSUME IInv, NEW r \in Ranks, RecvSize(r) PROVE IInv'
<1> SUFFICES ASSUME NEW f, f = which[r]
             PROVE  IInv'
  OBVIOUS
<1>1. /\ pc[r] = "size" /\ net[<<0, r, 0>>] # << >>
      /\ buf' = [buf EXCEPT ![r] = Head(net[<<0, r, 0>>])]
      /\ net' = [net EXCEPT ![<<0, r, 0>>] = Tail(@)]
      /\ pc' = [pc EXCEPT ![r] = "part"]
      /\ UNCHANGED <<input, aborted, which, count, pos, mat, vec, comm_map, recv_cols, res, awaits>>
  BY DEF RecvSize, At, Goto, schedule, Arrived, Message, Take
<1>2. /\ input \in Inputs /\ 0 \in Ranks /\ Ranks' = Ranks /\ r # 0
      /\ f \in {"mat", "vec"} /\ DOMAIN pc = Ranks
      /\ DOMAIN net = Channels /\ DOMAIN buf = Ranks
      /\ <<0, r, 0>> \in Channels
  <2>1. 0 \in Ranks /\ r # 0
    BY <1>1, InputTypes DEF IInv, Types, Together
  <2>2. Ranks' = Ranks
    BY <1>1, InputSame
  <2>3. f \in {"mat", "vec"}
    BY DEF IInv, Types
  <2>4. /\ DOMAIN pc = Ranks /\ DOMAIN which = Ranks /\ DOMAIN count = Ranks /\ DOMAIN net = Channels
        /\ DOMAIN mat = Ranks /\ DOMAIN vec = Ranks /\ DOMAIN buf = Ranks /\ input \in Inputs
    BY DEF IInv, Types
  <2>5. <<0, r, 0>> \in Channels /\ <<0, r, 1>> \in Channels
    BY <2>1 DEF Channels
  <2> QED
    BY <2>1, <2>2, <2>3, <2>4, <2>5
<1>3. /\ pc'[r] = "part" /\ buf'[r] = Head(net[<<0, r, 0>>])
      /\ net'[<<0, r, 0>>] = Tail(net[<<0, r, 0>>])
      /\ \A s \in Ranks \ {r} : pc'[s] = pc[s] /\ buf'[s] = buf[s]
      /\ \A s, t \in Ranks : /\ t # r => net'[<<s, t, 0>>] = net[<<s, t, 0>>]
                             /\ net'[<<s, t, 1>>] = net[<<s, t, 1>>]
                             /\ net'[<<s, t, 2>>] = net[<<s, t, 2>>]
                             /\ net'[<<s, t, 3>>] = net[<<s, t, 3>>]
  BY <1>1, <1>2 DEF Channels
<1>4. \A g : Part(g, r)' = Part(g, r) /\ Parcel(g, r)' = Parcel(g, r)
  BY <1>1, PartSame
<1>5. \A g \in {"mat", "vec"} :
         /\ Sent(g, r)' <=> Sent(g, r)
         /\ Announced(g, r)' <=> Announced(g, r)
         /\ Has(g, r)' <=> Has(g, r)
         /\ Told(g, r)' <=> Told(g, r) \/ g = f
         /\ Has(g, r) <=> g = "mat" /\ f = "vec"
         /\ Told(g, r) <=> g = "mat" /\ f = "vec"
  <2>1. Reading' = Reading /\ which' = which /\ count' = count /\ pc'[0] = pc[0]
    BY <1>1, <1>2, <1>3 DEF Reading
  <2>2. \A g \in {"mat", "vec"} : (Sent(g, r)' <=> Sent(g, r)) /\ (Announced(g, r)' <=> Announced(g, r))
    BY <2>1 DEF Sent, Announced
  <2>3. \A g \in {"mat", "vec"} : /\ Has(g, r) <=> g = "mat" /\ f = "vec"
                                  /\ Has(g, r)' <=> g = "mat" /\ f = "vec"
    BY <1>1, <1>2, <1>3 DEF Has
  <2>4. \A g \in {"mat", "vec"} : /\ Told(g, r) <=> g = "mat" /\ f = "vec"
                                  /\ Told(g, r)' <=> (g = "mat" /\ f = "vec") \/ g = f
    BY <1>1, <1>2, <1>3, <2>3 DEF Told
  <2> QED
    BY <2>2, <2>3, <2>4
<1>6. Announced("vec", r) => Announced("mat", r)
  BY DEF Announced, Sent, Reading
<1>7. Arrival(r)
  BY DEF IInv, SharesArrive
<1> DEFINE x == Parcel("mat", r).bufsize  y == Parcel("vec", r).bufsize
<1>8. net[<<0, r, 0>>] = Line(Announced("mat", r) /\ ~ Told("mat", r), x,
                              Announced("vec", r) /\ ~ Told("vec", r), y)
  BY <1>2, <1>7 DEF Arrival
<1>9. x' = x /\ y' = y
  BY <1>4
<1> HIDE DEF x, y
<1>10. /\ Announced(f, r)
       /\ buf'[r] = IF f = "mat" THEN x ELSE y
       /\ net'[<<0, r, 0>>] = Line(Announced("mat", r)' /\ ~ Told("mat", r)', x,
                                   Announced("vec", r)' /\ ~ Told("vec", r)', y)
  <2>0. \A u, v : /\ Head(<<u>>) = u /\ Tail(<<u>>) = << >>
                  /\ Head(<<u, v>>) = u /\ Tail(<<u, v>>) = <<v>>
    BY Tuples
  <2>1. CASE f = "mat"
    <3>1. Announced("mat", r) /\ ~ Told("mat", r) /\ ~ Told("vec", r)
      BY <1>1, <1>5, <1>6, <1>8, <2>1 DEF Line
    <3>2. CASE Announced("vec", r)
      <4>1. net[<<0, r, 0>>] = <<x, y>>
        BY <1>8, <3>1, <3>2 DEF Line
      <4> QED
        BY <1>3, <1>5, <2>0, <2>1, <3>1, <3>2, <4>1 DEF Line
    <3>3. CASE ~ Announced("vec", r)
      <4>1. net[<<0, r, 0>>] = <<x>>
        BY <1>8, <3>1, <3>3 DEF Line
      <4> QED
        BY <1>3, <1>5, <2>0, <2>1, <3>1, <3>3, <4>1 DEF Line
    <3> QED
      BY <3>2, <3>3
  <2>2. CASE f = "vec"
    <3>1. Announced("vec", r) /\ Told("mat", r) /\ ~ Told("vec", r)
      BY <1>1, <1>5, <1>8, <2>2 DEF Line
    <3>2. net[<<0, r, 0>>] = <<y>>
      BY <1>8, <3>1 DEF Line
    <3> QED
      BY <1>3, <1>5, <2>0, <2>2, <3>1, <3>2 DEF Line
  <2> QED
    BY <1>2, <2>1, <2>2
<1>11. Arrival(r)'
  <2>1. \A g \in {"mat", "vec"} : /\ Has(g, r)' => Sent(g, r)'
                                  /\ Told(g, r)' => Announced(g, r)'
    BY <1>5, <1>7, <1>10 DEF Arrival
  <2>2. /\ mat'[r] = IF Has("mat", r)' THEN Part("mat", r)' ELSE NoMatrix
        /\ vec'[r] = IF Has("vec", r)' THEN [Part("vec", r)' EXCEPT !.mapped = vec'[r].mapped]
                     ELSE NoMatrix
    BY <1>1, <1>4, <1>5, <1>7 DEF Arrival
  <2>3. \A g \in {"mat", "vec"} : which'[r] = g => buf'[r] = Parcel(g, r)'.bufsize
    BY <1>1, <1>9, <1>10 DEF x, y
  <2>4. net'[<<0, r, 1>>] = Line(Sent("mat", r)' /\ ~ Has("mat", r)', Parcel("mat", r)',
                                 Sent("vec", r)' /\ ~ Has("vec", r)', Parcel("vec", r)')
    BY <1>2, <1>3, <1>4, <1>5, <1>7 DEF Arrival, Line
  <2>5. net'[<<0, r, 0>>] = Line(Announced("mat", r)' /\ ~ Told("mat", r)', Parcel("mat", r)'.bufsize,
                                 Announced("vec", r)' /\ ~ Told("vec", r)', Parcel("vec", r)'.bufsize)
    BY <1>9, <1>10 DEF x, y, Line
  <2> QED
    BY <2>1, <2>2, <2>3, <2>4, <2>5 DEF Arrival, NoMatrix, Line
<1>12. Together'
  <2>1. \A phase \in Phases : pc[r] \in phase => "part" \in phase
    BY <1>1 DEF Phases, InExchange
  <2> QED
    BY <1>1, <1>2, <2>1, Moves
<1>13. Types'
  <2>1. pc' \in [Ranks -> Labels] /\ DOMAIN buf' = Ranks /\ DOMAIN net' = Channels
    BY <1>1, <1>2 DEF IInv, Types, Labels
  <2>2. /\ Ranks' = Ranks /\ Channels' = Channels /\ (input.p * input.p)' = input.p * input.p
        /\ Lines(which[0])' = Lines(which[0])
    BY <1>1, InputSame DEF Lines
  <2> QED
    BY <1>1, <2>1, <2>2 DEF IInv, Types
<1>14. count'[r] = 0 /\ DOMAIN vec'[r].mapped = {}
  BY <1>1, EarlyFacts DEF Early
<1> QED
  <2>1. \A s \in Ranks \ {r} :
              UNCHANGED <<pc[s], which[s], count[s], mat[s], vec[s], buf[s], net[<<0, s, 0>>], net[<<0, s, 1>>]>>
    BY <1>1, <1>2, <1>3
  <2>2. \A s, t \in Ranks : UNCHANGED <<net[<<s, t, 2>>], net[<<s, t, 3>>]>>
    BY <1>3
  <2>3. pc[r] \in {"size", "part"} /\ pc'[r] \in {"size", "part", "barrier1"}
        /\ UNCHANGED <<input, pos, comm_map, recv_cols, res>>
    BY <1>1, <1>3
  <2> QED
    BY <1>2, <1>11, <1>12, <1>13, <1>14, <2>1, <2>2, <2>3, Receives

LEMMA RecvPartStep == ASSUME IInv, NEW r \in Ranks, RecvPart(r) PROVE IInv'
<1> SUFFICES ASSUME NEW f, f = which[r], NEW l, l = IF f = "mat" THEN "size" ELSE "barrier1"
             PROVE  IInv'
  OBVIOUS
<1>1. /\ pc[r] = "part" /\ net[<<0, r, 1>>] # << >>
      /\ Keep(r, f, matrix_deserialize(Head(net[<<0, r, 1>>])))
      /\ net' = [net EXCEPT ![<<0, r, 1>>] = Tail(@)]
      /\ pc' = [pc EXCEPT ![r] = l]
      /\ which' = [which EXCEPT ![r] = "vec"]
      /\ count' = [count EXCEPT ![r] = 0]
      /\ UNCHANGED <<input, aborted, pos, buf, comm_map, recv_cols, res, awaits>>
  BY DEF RecvPart, At, Goto, NextFile, schedule, Arrived, Message, Take
<1>2. /\ input \in Inputs /\ 0 \in Ranks /\ Ranks' = Ranks /\ r # 0
      /\ f \in {"mat", "vec"} /\ DOMAIN pc = Ranks /\ DOMAIN which = Ranks /\ DOMAIN count = Ranks
      /\ DOMAIN net = Channels /\ DOMAIN mat = Ranks /\ DOMAIN vec = Ranks
      /\ <<0, r, 1>> \in Channels
  <2>1. 0 \in Ranks /\ r # 0
    BY <1>1, InputTypes DEF IInv, Types, Together
  <2>2. Ranks' = Ranks
    BY <1>1, InputSame
  <2>3. f \in {"mat", "vec"}
    BY DEF IInv, Types
  <2>4. /\ DOMAIN pc = Ranks /\ DOMAIN which = Ranks /\ DOMAIN count = Ranks /\ DOMAIN net = Channels
        /\ DOMAIN mat = Ranks /\ DOMAIN vec = Ranks /\ DOMAIN buf = Ranks /\ input \in Inputs
    BY DEF IInv, Types
  <2>5. <<0, r, 0>> \in Channels /\ <<0, r, 1>> \in Channels
    BY <2>1 DEF Channels
  <2> QED
    BY <2>1, <2>2, <2>3, <2>4, <2>5
<1>3. /\ pc'[r] = l /\ which'[r] = "vec" /\ count'[r] = 0
      /\ net'[<<0, r, 1>>] = Tail(net[<<0, r, 1>>])
      /\ \A s \in Ranks \ {r} : /\ pc'[s] = pc[s] /\ which'[s] = which[s] /\ count'[s] = count[s]
                                /\ mat'[s] = mat[s] /\ vec'[s] = vec[s]
      /\ \A s, t \in Ranks : /\ net'[<<s, t, 0>>] = net[<<s, t, 0>>]
                             /\ t # r => net'[<<s, t, 1>>] = net[<<s, t, 1>>]
                             /\ net'[<<s, t, 2>>] = net[<<s, t, 2>>]
                             /\ net'[<<s, t, 3>>] = net[<<s, t, 3>>]
  BY <1>1, <1>2 DEF Channels, Keep
<1>4. \A g : Part(g, r)' = Part(g, r) /\ Parcel(g, r)' = Parcel(g, r)
  BY <1>1, <1>2, <1>3, PartSame
<1>5. \A g \in {"mat", "vec"} :
         /\ Sent(g, r)' <=> Sent(g, r)
         /\ Announced(g, r)' <=> Announced(g, r)
         /\ Told(g, r)' <=> Told(g, r)
         /\ Has(g, r)' <=> Has(g, r) \/ g = f
         /\ Has(g, r) <=> g = "mat" /\ f = "vec"
  <2>1. Reading' = Reading /\ which'[0] = which[0] /\ count'[0] = count[0] /\ pc'[0] = pc[0]
    BY <1>1, <1>2, <1>3 DEF Reading
  <2>2. \A g \in {"mat", "vec"} : (Sent(g, r)' <=> Sent(g, r)) /\ (Announced(g, r)' <=> Announced(g, r))
    BY <2>1 DEF Sent, Announced
  <2>3. \A g \in {"mat", "vec"} : /\ Has(g, r) <=> g = "mat" /\ f = "vec"
                                  /\ Has(g, r)' <=> g = "mat" \/ f = "vec"
    BY <1>1, <1>2, <1>3 DEF Has
  <2>4. \A g \in {"mat", "vec"} : /\ Told(g, r) <=> g = "mat" \/ f = "vec"
                                  /\ Told(g, r)' <=> g = "mat" \/ f = "vec"
    BY <1>1, <1>2, <1>3, <2>3 DEF Told
  <2> QED
    BY <1>2, <2>2, <2>3, <2>4
<1>6. Sent("vec", r) => Sent("mat", r)
  BY DEF Sent
<1>7. Arrival(r)
  BY DEF IInv, SharesArrive
<1> DEFINE x == Parcel("mat", r)  y == Parcel("vec", r)
<1>8. net[<<0, r, 1>>] = Line(Sent("mat", r) /\ ~ Has("mat", r), x,
                              Sent("vec", r) /\ ~ Has("vec", r), y)
  BY <1>2, <1>7 DEF Arrival
<1>9. x' = x /\ y' = y
  BY <1>4
<1> HIDE DEF x, y
<1>10. /\ Sent(f, r)
       /\ Head(net[<<0, r, 1>>]) = IF f = "mat" THEN x ELSE y
       /\ net'[<<0, r, 1>>] = Line(Sent("mat", r)' /\ ~ Has("mat", r)', x,
                                   Sent("vec", r)' /\ ~ Has("vec", r)', y)
  <2>0. \A u, v : /\ Head(<<u>>) = u /\ Tail(<<u>>) = << >>
                  /\ Head(<<u, v>>) = u /\ Tail(<<u, v>>) = <<v>>
    BY Tuples
  <2>1. CASE f = "mat"
    <3>1. Sent("mat", r) /\ ~ Has("mat", r) /\ ~ Has("vec", r)
      BY <1>1, <1>5, <1>6, <1>8, <2>1 DEF Line
    <3>2. CASE Sent("vec", r)
      <4>1. net[<<0, r, 1>>] = <<x, y>>
        BY <1>8, <3>1, <3>2 DEF Line
      <4> QED
        BY <1>3, <1>5, <2>0, <2>1, <3>1, <3>2, <4>1 DEF Line
    <3>3. CASE ~ Sent("vec", r)
      <4>1. net[<<0, r, 1>>] = <<x>>
        BY <1>8, <3>1, <3>3 DEF Line
      <4> QED
        BY <1>3, <1>5, <2>0, <2>1, <3>1, <3>3, <4>1 DEF Line
    <3> QED
      BY <3>2, <3>3
  <2>2. CASE f = "vec"
    <3>1. Sent("vec", r) /\ Has("mat", r) /\ ~ Has("vec", r)
      BY <1>1, <1>5, <1>8, <2>2 DEF Line
    <3>2. net[<<0, r, 1>>] = <<y>>
      BY <1>8, <3>1 DEF Line
    <3> QED
      BY <1>3, <1>5, <2>0, <2>2, <3>1, <3>2 DEF Line
  <2> QED
    BY <1>2, <2>1, <2>2
<1>11. /\ f = "mat" => mat'[r] = Part("mat", r) /\ vec'[r] = vec[r]
       /\ f = "vec" => vec'[r] = Part("vec", r) /\ mat'[r] = mat[r]
  <2>1. \A g : matrix_deserialize(Parcel(g, r)) = Part(g, r)
    BY DEF matrix_deserialize, Parcel, matrix_serialize, Part
  <2>2. matrix_deserialize(Head(net[<<0, r, 1>>])) = Part(f, r)
    <3>1. Head(net[<<0, r, 1>>]) = Parcel(f, r)
      BY <1>2, <1>10 DEF x, y
    <3> QED
      BY <2>1, <3>1
  <2> DEFINE d == matrix_deserialize(Head(net[<<0, r, 1>>]))
  <2>3. Keep(r, f, d) /\ d = Part(f, r)
    BY <1>1, <2>2
  <2> HIDE DEF d
  <2>4. /\ f = "mat" => mat' = [mat EXCEPT ![r] = d] /\ vec' = vec
        /\ f = "vec" => vec' = [vec EXCEPT ![r] = d] /\ mat' = mat
    BY <2>3 DEF Keep
  <2> QED
    BY <1>2, <2>3, <2>4
<1>12. Arrival(r)'
  <2>1. \A g \in {"mat", "vec"} : /\ Has(g, r)' => Sent(g, r)'
                                  /\ Told(g, r)' => Announced(g, r)'
    BY <1>5, <1>7, <1>10 DEF Arrival
  <2>2. mat'[r] = IF Has("mat", r)' THEN Part("mat", r)' ELSE NoMatrix
    BY <1>2, <1>4, <1>5, <1>7, <1>11 DEF Arrival
  <2>3. vec'[r] = IF Has("vec", r)' THEN [Part("vec", r)' EXCEPT !.mapped = vec'[r].mapped]
                     ELSE NoMatrix
    <3>1. CASE f = "mat"
      BY <3>1, <1>4, <1>5, <1>7, <1>11 DEF Arrival
    <3>2. CASE f = "vec"
      <4>1. vec'[r] = Part("vec", r)' /\ Has("vec", r)'
        BY <3>2, <1>4, <1>5, <1>11
      <4>2. Part("vec", r)' = [Part("vec", r)' EXCEPT !.mapped = vec'[r].mapped]
        BY <4>1 DEF Part
      <4> QED
        BY <4>1, <4>2
    <3> QED
      BY <1>2, <3>1, <3>2
  <2>4. net'[<<0, r, 0>>] = Line(Announced("mat", r)' /\ ~ Told("mat", r)', Parcel("mat", r)'.bufsize,
                                 Announced("vec", r)' /\ ~ Told("vec", r)', Parcel("vec", r)'.bufsize)
    <3>1. net'[<<0, r, 0>>] = Line(Announced("mat", r) /\ ~ Told("mat", r), Parcel("mat", r).bufsize,
                                   Announced("vec", r) /\ ~ Told("vec", r), Parcel("vec", r).bufsize)
      BY <1>2, <1>3, <1>7 DEF Arrival
    <3>2. /\ Parcel("mat", r)'.bufsize = Parcel("mat", r).bufsize
          /\ Parcel("vec", r)'.bufsize = Parcel("vec", r).bufsize
      BY <1>4
    <3> QED
      BY <1>5, <3>1, <3>2 DEF Line
  <2>5. net'[<<0, r, 1>>] = Line(Sent("mat", r)' /\ ~ Has("mat", r)', Parcel("mat", r)',
                                 Sent("vec", r)' /\ ~ Has("vec", r)', Parcel("vec", r)')
    BY <1>9, <1>10 DEF x, y, Line
  <2>6. pc'[r] # "part"
    BY <1>3
  <2> QED
    BY <2>1, <2>2, <2>3, <2>4, <2>5, <2>6 DEF Arrival, NoMatrix, Line
<1>13. Together'
  <2>1. \A phase \in Phases : pc[r] \in phase => l \in phase
    BY <1>1 DEF Phases, InExchange
  <2>2. \A s \in Ranks : which'[s] = which[s] \/ which'[s] = "vec"
    BY <1>3
  <2>3. l \notin {"share", "isend"}
    OBVIOUS
  <2> QED
    BY <1>1, <1>2, <1>3, <2>1, <2>2, <2>3, Moves
<1>14. Types'
  <2>1. 0 \in 0 .. input.p * input.p /\ l \in Labels
    BY <1>2, Squares DEF Labels, After
  <2>2. pc' \in [Ranks -> Labels] /\ which' \in [Ranks -> {"mat", "vec"}]
        /\ count' \in [Ranks -> 0 .. input.p * input.p]
    <3>1. /\ count \in [Ranks -> 0 .. input.p * input.p] /\ pc \in [Ranks -> Labels]
          /\ which \in [Ranks -> {"mat", "vec"}]
      BY DEF IInv, Types
    <3> QED
      BY <1>1, <2>1, <3>1
  <2>3. DOMAIN net' = Channels /\ DOMAIN mat' = Ranks /\ DOMAIN vec' = Ranks
    BY <1>1, <1>2 DEF Keep
  <2>4. /\ Ranks' = Ranks /\ Channels' = Channels /\ (input.p * input.p)' = input.p * input.p
        /\ Lines(which[0])' = Lines(which[0])
    BY <1>1, <1>2, <1>3, InputSame DEF Lines
  <2>5. pos' \in 0 .. Lines(which[0])'
    BY <1>1, <2>4 DEF IInv, Types
  <2> QED
    BY <1>1, <2>2, <2>3, <2>4, <2>5 DEF IInv, Types
<1>15. DOMAIN vec'[r].mapped = {}
  <2>1. DOMAIN vec[r].mapped = {}
    BY <1>1, EarlyFacts DEF Early
  <2>2. Part("vec", r).mapped = << >>
    BY DEF Part
  <2> QED
    BY <1>2, <1>11, <2>1, <2>2
<1> QED
  <2>1. \A s \in Ranks \ {r} :
              UNCHANGED <<pc[s], which[s], count[s], mat[s], vec[s], buf[s], net[<<0, s, 0>>], net[<<0, s, 1>>]>>
    BY <1>1, <1>2, <1>3
  <2>2. \A s, t \in Ranks : UNCHANGED <<net[<<s, t, 2>>], net[<<s, t, 3>>]>>
    BY <1>3
  <2>3. pc[r] \in {"size", "part"} /\ pc'[r] \in {"size", "part", "barrier1"}
        /\ UNCHANGED <<input, pos, comm_map, recv_cols, res>>
    BY <1>1, <1>3
  <2> QED
    BY <1>2, <1>3, <1>12, <1>13, <1>14, <1>15, <2>1, <2>2, <2>3, Receives

-----------------------------------------------------------------------------
(***************************************************************************)
(* The schedule: each row needed once, in the order in which the rank      *)
(* meets it.                                                               *)
(***************************************************************************)
\* A finite set with a strict total order can be listed in that order.
LEMMA InOrder ==
    ASSUME NEW T, IsFiniteSet(T), NEW before \in SUBSET (T \X T),
           \A a \in T : <<a, a>> \notin before,
           \A a, b, c \in T : <<a, b>> \in before /\ <<b, c>> \in before => <<a, c>> \in before,
           \A a, b \in T : a # b => <<a, b>> \in before \/ <<b, a>> \in before
    PROVE  \E q \in [1 .. Cardinality(T) -> T] :
              /\ Range(q) = T
              /\ \A i, j \in DOMAIN q : i < j => <<q[i], q[j]>> \in before
<1> DEFINE n == Cardinality(T)
           upto(a) == {t \in T : t = a \/ <<t, a>> \in before}
           place == [a \in T |-> Cardinality(upto(a))]
<1>1. n \in Nat /\ Cardinality(1 .. n) = n /\ IsFiniteSet(1 .. n)
  <2>1. n \in Nat
    BY FS_CardinalityType
  <2> HIDE DEF n
  <2>2. IsFiniteSet(1 .. n) /\ Cardinality(1 .. n) = n
    BY <2>1, FS_Interval
  <2> QED
    BY <2>1, <2>2
<1>2. ASSUME NEW a \in T
      PROVE  place[a] \in 1 .. n /\ IsFiniteSet(upto(a))
  <2>1. upto(a) \in SUBSET T /\ upto(a) # {}
    OBVIOUS
  <2> HIDE DEF upto
  <2>2. IsFiniteSet(upto(a)) /\ Cardinality(upto(a)) <= n
    BY <2>1, FS_Subset
  <2>3. Cardinality(upto(a)) \in Nat /\ Cardinality(upto(a)) # 0
    BY <2>1, <2>2, FS_CardinalityType, FS_EmptySet
  <2>4. Cardinality(upto(a)) \in 1 .. n
    BY <1>1, <2>2, <2>3
  <2> QED
    BY <2>2, <2>4
<1>3. ASSUME NEW a \in T, NEW b \in T, <<a, b>> \in before
      PROVE  place[a] < place[b]
  <2>1. upto(a) \in SUBSET upto(b)
    BY <1>3
  <2>2. b \in upto(b) /\ b \notin upto(a)
    BY <1>3
  <2>3. IsFiniteSet(upto(a)) /\ IsFiniteSet(upto(b)) /\ place[a] \in 1 .. n /\ place[b] \in 1 .. n
        /\ place[a] = Cardinality(upto(a)) /\ place[b] = Cardinality(upto(b))
    BY <1>2
  <2> HIDE DEF upto, place
  <2>4. Cardinality(upto(a)) <= Cardinality(upto(b)) /\ Cardinality(upto(a)) # Cardinality(upto(b))
    BY <2>1, <2>2, <2>3, FS_Subset
  <2> QED
    BY <1>1, <2>3, <2>4
<1> HIDE DEF upto
<1>4. place \in [T -> 1 .. n]
  BY <1>2
<1>5. \A a, b \in T : place[a] = place[b] => a = b
  <2> SUFFICES ASSUME NEW a \in T, NEW b \in T, a # b
               PROVE  place[a] # place[b]
    OBVIOUS
  <2>1. place[a] < place[b] \/ place[b] < place[a]
    BY <1>3
  <2>2. place[a] \in 1 .. n /\ place[b] \in 1 .. n
    BY <1>2
  <2> QED
    BY <1>1, <2>1, <2>2
<1> HIDE DEF place, n
<1>6. place \in Surjection(T, 1 .. n)
  <2>1. place \in Injection(T, 1 .. n)
    BY <1>4, <1>5 DEF Injection, IsInjective
  <2>2. Cardinality(T) = Cardinality(1 .. n)
    BY <1>1 DEF n
  <2> QED
    BY <1>1, <2>1, <2>2, FS_Injection
<1>7. \A i \in 1 .. n : \E a \in T : place[a] = i
  BY <1>6 DEF Surjection
<1> DEFINE q == [i \in 1 .. n |-> CHOOSE a \in T : place[a] = i]
<1>8. \A i \in 1 .. n : q[i] \in T /\ place[q[i]] = i
  BY <1>7
<1>9. q \in [1 .. n -> T] /\ DOMAIN q = 1 .. n
  BY <1>7
<1> HIDE DEF q
<1>10. Range(q) = T
  <2>1. \A a \in T : q[place[a]] = a /\ place[a] \in 1 .. n
    BY <1>4, <1>5, <1>8
  <2> QED
    BY <1>8, <1>9, <2>1 DEF Range
<1>11. ASSUME NEW i \in 1 .. n, NEW j \in 1 .. n, i < j
       PROVE  <<q[i], q[j]>> \in before
  <2>1. q[i] \in T /\ q[j] \in T /\ place[q[i]] = i /\ place[q[j]] = j
    BY <1>8
  <2>2. q[i] # q[j]
    BY <1>11, <2>1
  <2>3. ~ (place[q[j]] < place[q[i]])
    BY <1>1, <1>11, <2>1
  <2>4. <<q[j], q[i]>> \notin before
    BY <1>3, <2>1, <2>3
  <2> QED
    BY <2>1, <2>2, <2>4
<1> QED
  BY <1>9, <1>10, <1>11 DEF n

\* No column is met before itself, and of two columns one is met first.
LEMMA MeetingOrder ==
    ASSUME input \in Inputs, NEW r
    PROVE  /\ \A a \in Columns(r) : mat[r] = Part("mat", r) => ~ MetBefore(r, a, a)
           /\ \A a, b, c : MetBefore(r, a, b) /\ MetBefore(r, b, c) => MetBefore(r, a, c)
           /\ \A a, b \in Columns(r) : mat[r] = Part("mat", r) /\ a # b =>
                                          MetBefore(r, a, b) \/ MetBefore(r, b, a)
<1> DEFINE D == DOMAIN input.cells
           row(k) == input.cells[k].i
           col(k) == input.cells[k].j
           mine == mat[r].from .. mat[r].to
           cells(a) == {k \in D : col(k) = a /\ row(k) \in mine}
           first(k, l) == row(k) < row(l) \/ (row(k) = row(l) /\ k < l)
<1>1. D \subseteq Nat /\ \A k \in D : row(k) \in Nat
  BY InputTypes
<1>2. \A a, b : MetBefore(r, a, b) <=> \E k \in cells(a) : \A l \in cells(b) : first(k, l)
  BY DEF MetBefore
<1>3. \A k, l, m \in D : first(k, l) /\ first(l, m) => first(k, m)
  BY <1>1
<1>4. \A k \in D : ~ first(k, k)
  BY <1>1
<1>5. \A k, l \in D : k # l => first(k, l) \/ first(l, k)
  BY <1>1
<1>6. ASSUME NEW a \in Columns(r), mat[r] = Part("mat", r)
      PROVE  \E k \in cells(a) : \A l \in cells(a) : k = l \/ first(k, l)
  <2>1. cells(a) # {}
    <3>0. PICK i \in mat[r].from .. mat[r].to : \E k \in mat[r].rows[i] : a = input.cells[k].j
      BY DEF Columns
    <3>1. PICK k \in mat[r].rows[i] : a = input.cells[k].j
      BY <3>0
    <3>2. mat[r].rows[i] = Seen(i)
      BY <1>6, <3>1 DEF Part
    <3>3. k \in D /\ row(k) = i
      BY <3>1, <3>2 DEF Seen
    <3> QED
      BY <3>1, <3>3
  <2> HIDE DEF row, mine, col
  <2>2. PICK i \in {row(k) : k \in cells(a)} : \A j \in {row(k) : k \in cells(a)} : i <= j
    <3>1. {row(k) : k \in cells(a)} \in SUBSET Nat /\ {row(k) : k \in cells(a)} # {}
      BY <1>1, <2>1
    <3> QED
      BY <3>1, Least
  <2>3. PICK k \in {l \in cells(a) : row(l) = i} : \A l \in {m \in cells(a) : row(m) = i} : k <= l
    <3>1. {l \in cells(a) : row(l) = i} \in SUBSET Nat /\ {l \in cells(a) : row(l) = i} # {}
      BY <1>1, <2>2
    <3> QED
      BY <3>1, Least
  <2>4. ASSUME NEW l \in cells(a)
        PROVE  k = l \/ first(k, l)
    <3>1. i <= row(l) /\ row(k) = i /\ row(l) \in Nat /\ k \in Nat /\ l \in Nat /\ i \in Nat
      BY <1>1, <2>2, <2>3
    <3>2. row(l) = i => k <= l
      BY <2>3
    <3> QED
      BY <3>1, <3>2
  <2> QED
    BY <2>3, <2>4
<1> HIDE DEF first
<1>7. ASSUME NEW a \in Columns(r), mat[r] = Part("mat", r)
      PROVE  ~ MetBefore(r, a, a)
  BY <1>2, <1>4
<1>8. ASSUME NEW a, NEW b, NEW c, MetBefore(r, a, b), MetBefore(r, b, c)
      PROVE  MetBefore(r, a, c)
  <2>1. PICK k \in cells(a) : \A l \in cells(b) : first(k, l)
    BY <1>2, <1>8
  <2>2. PICK l \in cells(b) : \A m \in cells(c) : first(l, m)
    BY <1>2, <1>8
  <2> QED
    BY <1>2, <1>3, <2>1, <2>2
<1>9. ASSUME NEW a \in Columns(r), NEW b \in Columns(r), mat[r] = Part("mat", r), a # b
      PROVE  MetBefore(r, a, b) \/ MetBefore(r, b, a)
  <2>1. PICK k \in cells(a) : \A l \in cells(a) : k = l \/ first(k, l)
    BY <1>6, <1>9
  <2>2. PICK l \in cells(b) : \A m \in cells(b) : l = m \/ first(l, m)
    BY <1>6, <1>9
  <2>3. k # l /\ k \in D /\ l \in D
    BY <1>9, <2>1, <2>2
  <2>4. CASE first(k, l)
    <3>1. \A m \in cells(b) : first(k, m)
      BY <1>3, <2>1, <2>2, <2>4
    <3> QED
      BY <1>2, <2>1, <3>1
  <2>5. CASE first(l, k)
    <3>1. \A m \in cells(a) : first(l, m)
      BY <1>3, <2>1, <2>2, <2>5
    <3> QED
      BY <1>2, <2>2, <3>1
  <2> QED
    BY <1>5, <2>3, <2>4, <2>5
<1> QED
  BY <1>7, <1>8, <1>9

\* What rank r needs of rank s are rows of the vector in the share of s.
LEMMA Needs ==
    ASSUME input \in Inputs, partition_size > 0, NEW r \in Ranks, NEW s \in Ranks,
           mat[r] = Part("mat", r)
    PROVE  /\ Columns(r) \subseteq Rows
           /\ \A j \in Needed(r, s) : /\ j \in FromRow(s) .. ToRow(s) /\ j \in Columns(r)
                                      /\ j \notin FromRow(r) .. ToRow(r)
           /\ Needed(r, r) = {}
           /\ IsFiniteSet(Needed(r, s)) /\ Cardinality(Needed(r, s)) \in Nat
           /\ Cardinality(Needed(r, s)) = 0 <=> Needed(r, s) = {}
<1>1. Columns(r) \subseteq Rows
  <2> SUFFICES ASSUME NEW i \in mat[r].from .. mat[r].to, NEW k \in mat[r].rows[i]
               PROVE  input.cells[k].j \in Rows
    BY DEF Columns
  <2>1. k \in Seen(i)
    BY DEF Part
  <2> QED
    BY <2>1, InputTypes DEF Seen
<1>2. \A t \in Ranks : \A j \in Needed(r, t) :
          j \in FromRow(t) .. ToRow(t) /\ j \in Columns(r) /\ ~ (j \in FromRow(r) .. ToRow(r))
  <2> SUFFICES ASSUME NEW t \in Ranks, NEW j \in Needed(r, t)
               PROVE  j \in FromRow(t) .. ToRow(t) /\ j \in Columns(r) /\ ~ (j \in FromRow(r) .. ToRow(r))
    OBVIOUS
  <2>1. j \in Columns(r) /\ (j < FromRow(r) \/ j > ToRow(r)) /\ src_r(j) = t
    BY DEF Needed, Part
  <2>2. j \in Rows
    BY <1>1, <2>1
  <2>3. j \in FromRow(t) .. ToRow(t)
    BY <2>1, <2>2, Owner
  <2>4. j \in Int /\ FromRow(r) \in Int /\ ToRow(r) \in Int
    BY <2>2, InputTypes, ShareBounds
  <2> QED
    BY <2>1, <2>3, <2>4
<1>3. Needed(r, r) = {}
  BY <1>2
<1>4. IsFiniteSet(Needed(r, s))
  <2>1. Needed(r, s) \in SUBSET (0 .. input.n - 1)
    BY <1>1, <1>2 DEF Rows
  <2>2. input.n - 1 \in Int
    BY InputTypes
  <2>3. IsFiniteSet(0 .. input.n - 1)
    BY <2>2, FS_Interval
  <2> QED
    BY <2>1, <2>3, FS_Subset
<1>5. Cardinality(Needed(r, s)) \in Nat /\ (Cardinality(Needed(r, s)) = 0 <=> Needed(r, s) = {})
  BY <1>4, FS_CardinalityType, FS_EmptySet
<1> QED
  BY <1>1, <1>2, <1>3, <1>4, <1>5

LEMMA SchedulesExist ==
    ASSUME input \in Inputs, partition_size > 0, NEW r \in Ranks, NEW s \in Ranks,
           mat[r] = Part("mat", r)
    PROVE  Schedules(r, s) # {}
<1> SUFFICES ASSUME NEW T, T = Needed(r, s),
                    NEW before, before = {pair \in T \X T : MetBefore(r, pair[1], pair[2])}
             PROVE  Schedules(r, s) # {}
  OBVIOUS
<1>1. IsFiniteSet(T) /\ T \subseteq Columns(r)
  BY Needs
<1>2. /\ before \in SUBSET (T \X T)
      /\ \A a, b \in T : <<a, b>> \in before <=> MetBefore(r, a, b)
  OBVIOUS
<1>3. /\ \A a \in T : ~ MetBefore(r, a, a)
      /\ \A a, b, c : MetBefore(r, a, b) /\ MetBefore(r, b, c) => MetBefore(r, a, c)
      /\ \A a, b \in T : a # b => MetBefore(r, a, b) \/ MetBefore(r, b, a)
  BY <1>1, MeetingOrder
<1>4. /\ \A a \in T : <<a, a>> \notin before
      /\ \A a, b, c \in T : <<a, b>> \in before /\ <<b, c>> \in before => <<a, c>> \in before
      /\ \A a, b \in T : a # b => <<a, b>> \in before \/ <<b, a>> \in before
  BY <1>2, <1>3
<1>5. PICK q \in [1 .. Cardinality(T) -> T] :
              /\ Range(q) = T
              /\ \A i, j \in DOMAIN q : i < j => <<q[i], q[j]>> \in before
  BY <1>1, <1>2, <1>4, InOrder
<1>6. q \in Schedules(r, s)
  <2>1. \A i, j \in DOMAIN q : i < j => MetBefore(r, q[i], q[j])
    BY <1>2, <1>5
  <2> QED
    BY <1>5, <2>1 DEF Schedules
<1> QED
  BY <1>6

-----------------------------------------------------------------------------
(***************************************************************************)
(* After the files.                                                        *)
(***************************************************************************)
\* The exchanges are numbered: one for each pair of ranks.
LEMMA IdParts ==
    ASSUME input \in Inputs
    PROVE  /\ \A id \in 0 .. input.p * input.p - 1 :
                 recv_r(id) \in Ranks /\ send_r(id) \in Ranks /\ Id(recv_r(id), send_r(id)) = id
           /\ \A a, b \in Ranks : /\ recv_r(Id(a, b)) = a /\ send_r(Id(a, b)) = b
                                  /\ Id(a, b) \in 0 .. input.p * input.p - 1
           /\ \A a, b, c, d \in Ranks : Id(a, b) = Id(c, d) => a = c /\ b = d
<1> SUFFICES ASSUME NEW p, p = input.p
             PROVE  /\ \A id \in 0 .. p * p - 1 :
                          recv_r(id) \in Ranks /\ send_r(id) \in Ranks /\ Id(recv_r(id), send_r(id)) = id
                    /\ \A a, b \in Ranks : /\ recv_r(Id(a, b)) = a /\ send_r(Id(a, b)) = b
                                           /\ Id(a, b) \in 0 .. p * p - 1
                    /\ \A a, b, c, d \in Ranks : Id(a, b) = Id(c, d) => a = c /\ b = d
  OBVIOUS
<1>1. p \in Nat \ {0} /\ Ranks = 0 .. p - 1
  BY InputTypes DEF Ranks
<1>2. p * p \in Nat
  BY <1>1
<1>3. ASSUME NEW id \in 0 .. p * p - 1
      PROVE  recv_r(id) \in Ranks /\ send_r(id) \in Ranks /\ Id(recv_r(id), send_r(id)) = id
  <2>1. id \in Nat /\ id < p * p
    BY <1>2
  <2>2. id \div p \in Nat /\ id % p \in 0 .. p - 1 /\ id = p * (id \div p) + (id % p)
    BY <1>1, <2>1, DivMod
  <2>3. id \div p < p
    <3> SUFFICES ASSUME id \div p >= p PROVE FALSE
      <4> DEFINE d == id \div p
      <4>1. d \in Nat /\ p \in Nat
        BY <1>1, <2>2
      <4> HIDE DEF d
      <4>2. d >= p \/ d < p
        BY <4>1
      <4> QED
        BY <4>2 DEF d
    <3> DEFINE d == id \div p  m == id % p
    <3>1. d \in Nat /\ m \in 0 .. p - 1 /\ id = p * d + m /\ d >= p
      BY <2>2
    <3> HIDE DEF d, m
    <3>2. d * p >= p * p
      <4>1. CASE d = p
        BY <4>1, <1>1
      <4>2. CASE d > p
        BY <4>2, <1>1, <3>1, Grows
      <4> QED
        BY <1>1, <3>1, <4>1, <4>2
    <3>3. p * d = d * p /\ p * d \in Nat
      BY <1>1, <3>1
    <3> QED
      BY <1>1, <1>2, <2>1, <3>1, <3>2, <3>3
  <2>4. recv_r(id) = id \div p /\ send_r(id) = id % p
    BY DEF recv_r, send_r
  <2>5. recv_r(id) \in Ranks /\ send_r(id) \in Ranks
    BY <1>1, <2>2, <2>3, <2>4
  <2> QED
    BY <2>2, <2>4, <2>5 DEF Id
<1>4. ASSUME NEW a \in Ranks, NEW b \in Ranks
      PROVE  /\ recv_r(Id(a, b)) = a /\ send_r(Id(a, b)) = b
             /\ Id(a, b) \in 0 .. p * p - 1
  <2>1. a \in Nat /\ b \in Nat /\ a < p /\ b < p
    BY <1>1
  <2>2. (p * a + b) \div p = a /\ (p * a + b) % p = b
    BY <1>1, <2>1, DivUnique
  <2>3. p * a + b \in 0 .. p * p - 1
    <3>0. p \in Nat /\ a < p
      BY <1>1, <2>1
    <3>1. a * p + p <= p * p /\ a * p \in Nat
      BY <2>1, <3>0, Grows, Zenon
    <3> DEFINE u == a * p  z == p * p
    <3>2. p * a = u
      BY <2>1, <3>0
    <3> HIDE DEF u, z
    <3>3. u + p <= z /\ u \in Nat /\ z \in Nat
      BY <1>2, <3>1 DEF u, z
    <3>4. u + b \in 0 .. z - 1
      BY <1>1, <2>1, <3>3
    <3> QED
      BY <3>2, <3>4 DEF z
  <2> QED
    BY <2>2, <2>3 DEF recv_r, send_r, Id
<1> QED
  BY <1>3, <1>4

Late == \A r \in Ranks : pc[r] \notin {"share", "isend", "size", "part"}

\* Every rank has its shares, and nothing of them is under way.
LEMMA LateFacts ==
    ASSUME IInv, Late
    PROVE  /\ input \in Inputs /\ partition_size > 0 /\ ~ Reading
           /\ \A r \in Ranks :
                /\ which[r] = "vec" /\ mat[r] = Part("mat", r)
                /\ mat[r].from = FromRow(r) /\ mat[r].to = ToRow(r)
                /\ \A i \in FromRow(r) .. ToRow(r) : mat[r].rows[i] = LinesOf(i)
                /\ vec[r] = [Part("vec", r) EXCEPT !.mapped = vec[r].mapped]
                /\ vec[r].from = FromRow(r) /\ vec[r].to = ToRow(r)
                /\ \A i \in FromRow(r) .. ToRow(r) : vec[r].rows[i] = {i + 1}
                /\ r # 0 => net[<<0, r, 0>>] = << >> /\ net[<<0, r, 1>>] = << >>
<1>1. input \in Inputs /\ 0 \in Ranks
  BY InputTypes DEF IInv, Types
<1>2. ~ Reading /\ partition_size > 0 /\ \A r \in Ranks : which[r] = "vec"
  BY <1>1 DEF IInv, SharesRead, Reading, Late, Together
<1>3. \A f, r : r \in Ranks => Sent(f, r) /\ Announced(f, r) /\ Has(f, r) /\ Told(f, r)
  BY <1>2 DEF Sent, Announced, Has, Told, Late
<1>4. \A i : Seen(i) = LinesOf(i)
  BY <1>1, <1>2 DEF Seen, LinesOf
<1>5. ASSUME NEW r \in Ranks
      PROVE  /\ mat[r] = Part("mat", r)
             /\ mat[r].from = FromRow(r) /\ mat[r].to = ToRow(r)
             /\ \A i \in FromRow(r) .. ToRow(r) : mat[r].rows[i] = LinesOf(i)
             /\ vec[r] = [Part("vec", r) EXCEPT !.mapped = vec[r].mapped]
             /\ vec[r].from = FromRow(r) /\ vec[r].to = ToRow(r)
             /\ \A i \in FromRow(r) .. ToRow(r) : vec[r].rows[i] = {i + 1}
             /\ r # 0 => net[<<0, r, 0>>] = << >> /\ net[<<0, r, 1>>] = << >>
  <2>1. Arrival(r)
    BY DEF IInv, SharesArrive
  <2>2. mat[r] = Part("mat", r) /\ vec[r] = [Part("vec", r) EXCEPT !.mapped = vec[r].mapped]
    BY <1>3, <2>1 DEF Arrival
  <2>3. r # 0 => net[<<0, r, 0>>] = << >> /\ net[<<0, r, 1>>] = << >>
    BY <1>3, <2>1 DEF Arrival, Line
  <2>4. /\ mat[r].from = FromRow(r) /\ mat[r].to = ToRow(r)
        /\ \A i \in FromRow(r) .. ToRow(r) : mat[r].rows[i] = LinesOf(i)
    BY <1>4, <2>2 DEF Part
  <2> DEFINE m == vec[r].mapped
  <2>5. vec[r] = [Part("vec", r) EXCEPT !.mapped = m]
    BY <2>2
  <2> HIDE DEF m
  <2>6. /\ vec[r].from = FromRow(r) /\ vec[r].to = ToRow(r)
        /\ \A i \in FromRow(r) .. ToRow(r) : vec[r].rows[i] = {i + 1}
    BY <2>5 DEF Part
  <2> QED
    BY <2>2, <2>3, <2>4, <2>6
<1> QED
  BY <1>1, <1>2, <1>5

\* No step after the files touches the shares.
LEMMA SharesStay ==
    ASSUME IInv, Late, Late', UNCHANGED <<input, which, mat>>,
           \A r \in Ranks : vec'[r] = [vec[r] EXCEPT !.mapped = vec'[r].mapped],
           \A r \in Ranks : UNCHANGED <<net[<<0, r, 0>>], net[<<0, r, 1>>]>>
    PROVE  /\ SharesRead' /\ SharesArrive'
           /\ \A r, s : Needed(r, s)' = Needed(r, s) /\ Schedules(r, s)' = Schedules(r, s)
<1>1. Ranks' = Ranks /\ 0 \in Ranks /\ partition_size' = partition_size /\ partition_size > 0
  BY InputSame, InputTypes, LateFacts
<1>2. ~ Reading /\ ~ Reading'
  BY <1>1 DEF Reading, Late
<1>3. SharesRead'
  BY <1>1, <1>2 DEF SharesRead, Reading, Late
<1>4. which[0] = "vec" /\ which'[0] = "vec"
  BY <1>1, LateFacts
<1>5. \A f, r : Part(f, r)' = Part(f, r)
  <2>1. \A i : Seen(i)' = Seen(i)
    BY <1>4 DEF Seen
  <2>2. \A r : FromRow(r)' = FromRow(r) /\ ToRow(r)' = ToRow(r)
    BY InputSame
  <2> QED
    BY <2>1, <2>2 DEF Part
<1>6. \A f, r : r \in Ranks => Sent(f, r)' /\ Announced(f, r)' /\ Has(f, r)' /\ Told(f, r)'
  BY <1>1, <1>2 DEF Sent, Announced, Has, Told, Late
<1>7. ASSUME NEW r \in Ranks
      PROVE  Arrival(r)'
  <2>1. /\ mat[r] = Part("mat", r)
        /\ vec[r] = [Part("vec", r) EXCEPT !.mapped = vec[r].mapped]
        /\ r # 0 => net[<<0, r, 0>>] = << >> /\ net[<<0, r, 1>>] = << >>
    BY LateFacts
  <2>2. mat'[r] = Part("mat", r)'
    BY <1>5, <2>1
  <2>3. vec'[r] = [Part("vec", r)' EXCEPT !.mapped = vec'[r].mapped]
    <3> DEFINE m == vec[r].mapped  n == vec'[r].mapped
    <3>1. vec[r] = [Part("vec", r) EXCEPT !.mapped = m] /\ vec'[r] = [vec[r] EXCEPT !.mapped = n]
      BY <2>1
    <3> HIDE DEF m, n
    <3>2. vec'[r] = [Part("vec", r) EXCEPT !.mapped = n]
      BY <3>1 DEF Part
    <3>3. vec'[r] = [Part("vec", r)' EXCEPT !.mapped = n]
      BY <1>5, <3>2
    <3> QED
      BY <3>3 DEF n
  <2>4. r # 0 => net'[<<0, r, 0>>] = << >> /\ net'[<<0, r, 1>>] = << >>
    BY <2>1
  <2>5. pc'[r] # "part"
    BY <1>1 DEF Late
  <2> QED
    BY <1>6, <2>2, <2>3, <2>4, <2>5 DEF Arrival, Line, NoMatrix
<1>8. SharesArrive'
  BY <1>1, <1>7 DEF SharesArrive
<1>9. \A r, s : Needed(r, s)' = Needed(r, s) /\ Schedules(r, s)' = Schedules(r, s)
  BY PlanSame
<1> QED
  BY <1>3, <1>8, <1>9

\* The phases after the files.
LEMMA LatePhases ==
    ASSUME IInv, NEW q \in Ranks, pc[q] \notin Early
    PROVE  /\ Late
           /\ pc[q] \in {"build", "gather"} => \A r \in Ranks : pc[r] \in {"build", "gather"}
           /\ pc[q] = "barrier2" => \A r \in Ranks : pc[r] = "barrier2"
           /\ pc[q] \in InExchange => \A r \in Ranks : pc[r] \in InExchange
           /\ pc[q] \in {"mult", "barrier4"} => \A r \in Ranks : pc[r] \in {"mult", "barrier4"}
           /\ pc[q] = "done" => \A r \in Ranks : pc[r] = "done"
<1>1. PICK phase \in Phases : \A r \in Ranks : pc[r] \in phase
  BY DEF IInv, Together
<1>2. pc[q] \in phase
  BY <1>1
<1> QED
  BY <1>1, <1>2 DEF Phases, InExchange, Early, Late

\* When the ranks exchange rows of the vector, all know how many.
LEMMA Plan ==
    ASSUME IInv, Late, NEW r \in Ranks, pc[r] \in {"barrier2", "mult"} \cup InExchange
    PROVE  /\ \A id \in 0 .. input.p * input.p - 1 :
                 NumCells(r, id) = Cardinality(Needed(recv_r(id), send_r(id)))
           /\ \A id \in Turns(r) :
                 /\ recv_r(id) \in Ranks /\ send_r(id) \in Ranks /\ Id(recv_r(id), send_r(id)) = id
                 /\ Needed(recv_r(id), send_r(id)) # {} /\ recv_r(id) # send_r(id)
                 /\ id \in 0 .. input.p * input.p - 1 /\ count[r] <= id
                 /\ NumCells(r, id) = Cardinality(Needed(recv_r(id), send_r(id)))
           /\ \A a, b \in Ranks : r \in {a, b} /\ Needed(a, b) # {} =>
                 (Id(a, b) \in Turns(r) <=> count[r] <= Id(a, b))
           /\ Turns(r) # {} => Turn(r) \in Turns(r) /\ \A id \in Turns(r) : Turn(r) <= id
<1>1. input \in Inputs /\ partition_size > 0 /\ \A s \in Ranks : mat[s] = Part("mat", s)
  BY LateFacts
<1>2. comm_map[r] = [s \in Ranks |-> [t \in Ranks |-> Cardinality(Needed(s, t))]]
  BY DEF IInv, Planned
<1>3. \A id \in 0 .. input.p * input.p - 1 :
           /\ recv_r(id) \in Ranks /\ send_r(id) \in Ranks /\ Id(recv_r(id), send_r(id)) = id
           /\ NumCells(r, id) = Cardinality(Needed(recv_r(id), send_r(id)))
  <2> SUFFICES ASSUME NEW id \in 0 .. input.p * input.p - 1
               PROVE  /\ recv_r(id) \in Ranks /\ send_r(id) \in Ranks /\ Id(recv_r(id), send_r(id)) = id
                      /\ NumCells(r, id) = Cardinality(Needed(recv_r(id), send_r(id)))
    OBVIOUS
  <2>1. recv_r(id) \in Ranks /\ send_r(id) \in Ranks /\ Id(recv_r(id), send_r(id)) = id
    BY <1>1, IdParts
  <2> QED
    BY <1>2, <2>1 DEF NumCells
<1>4. count[r] \in Nat /\ input.p * input.p \in Nat
  BY <1>1, Squares DEF IInv, Types
<1>5. \A id \in Turns(r) : /\ id \in 0 .. input.p * input.p - 1 /\ count[r] <= id /\ id \in Nat
                           /\ NumCells(r, id) > 0
  BY <1>4 DEF Turns
<1>6. \A a, b \in Ranks : /\ Needed(a, a) = {} /\ Cardinality(Needed(a, b)) \in Nat
                          /\ (Cardinality(Needed(a, b)) = 0 <=> Needed(a, b) = {})
  BY <1>1, Needs
<1>7. ASSUME NEW id \in Turns(r)
      PROVE  Needed(recv_r(id), send_r(id)) # {} /\ recv_r(id) # send_r(id)
  <2>1. Cardinality(Needed(recv_r(id), send_r(id))) > 0 /\ recv_r(id) \in Ranks /\ send_r(id) \in Ranks
    BY <1>3, <1>5
  <2>2. Needed(recv_r(id), send_r(id)) # {}
    BY <1>6, <2>1
  <2> QED
    BY <1>6, <2>1, <2>2
<1>8. ASSUME NEW a \in Ranks, NEW b \in Ranks, r \in {a, b}, Needed(a, b) # {}
      PROVE  Id(a, b) \in Turns(r) <=> count[r] <= Id(a, b)
  <2>1. /\ recv_r(Id(a, b)) = a /\ send_r(Id(a, b)) = b
        /\ Id(a, b) \in 0 .. input.p * input.p - 1
    BY <1>1, IdParts
  <2>2. NumCells(r, Id(a, b)) > 0
    <3>1. NumCells(r, Id(a, b)) = Cardinality(Needed(a, b))
      BY <1>3, <2>1
    <3> QED
      BY <1>6, <1>8, <3>1
  <2> DEFINE id == Id(a, b)  z == input.p * input.p
  <2>3. id \in 0 .. z - 1 /\ z \in Nat
    BY <1>4, <2>1
  <2>4. r \in {send_r(id), recv_r(id)} /\ NumCells(r, id) > 0
    BY <1>8, <2>1, <2>2
  <2> HIDE DEF id, z
  <2>5. id \in count[r] .. z - 1 <=> count[r] <= id
    BY <1>4, <2>3
  <2> QED
    BY <2>4, <2>5 DEF Turns, id, z
<1>9. ASSUME Turns(r) # {}
      PROVE  Turn(r) \in Turns(r) /\ \A id \in Turns(r) : Turn(r) <= id
  <2>1. Turns(r) \in SUBSET Nat
    BY <1>5
  <2>2. \E id \in Turns(r) : \A other \in Turns(r) : id <= other
    BY <1>9, <2>1, Least
  <2> QED
    BY <2>2 DEF Turn
<1> QED
  BY <1>3, <1>5, <1>7, <1>8, <1>9

\* A step that sends, takes and hands over nothing.
LEMMA ExchangeStays ==
    ASSUME IInv, Late, Late', UNCHANGED <<input, which, count, mat, vec, net>>,
           \A r \in Ranks : /\ pc'[r] = "asked" <=> pc[r] = "asked"
                            /\ pc[r] = "asked" => UNCHANGED <<comm_map[r], recv_cols[r]>>,
           \A a \in Ranks : pc'[a] \in InExchange => pc[a] \in InExchange \/ \A r \in Ranks : count[r] = 0,
           \A r \in Ranks : pc'[r] \in {"barrier3", "mult"} => Turns(r)' = {}
    PROVE  /\ SharesRead' /\ SharesArrive' /\ Exchanged'
           /\ \A r, s : Needed(r, s)' = Needed(r, s) /\ Schedules(r, s)' = Schedules(r, s)
<1>1. Ranks' = Ranks /\ \A a, b : Id(a, b)' = Id(a, b)
  BY InputSame
<1>2. SharesRead' /\ SharesArrive'
      /\ \A r, s : Needed(r, s)' = Needed(r, s) /\ Schedules(r, s)' = Schedules(r, s)
  <2>1. \A r \in Ranks : vec'[r] = [vec[r] EXCEPT !.mapped = vec'[r].mapped]
    <3> SUFFICES ASSUME NEW r \in Ranks
                 PROVE  vec[r] = [vec[r] EXCEPT !.mapped = vec[r].mapped]
      OBVIOUS
    <3> DEFINE m == vec[r].mapped
    <3>1. vec[r] = [Part("vec", r) EXCEPT !.mapped = m]
      BY LateFacts
    <3> HIDE DEF m
    <3>2. vec[r] = [vec[r] EXCEPT !.mapped = m]
      BY <3>1 DEF Part
    <3> QED
      BY <3>2 DEF m
  <2>2. \A r \in Ranks : UNCHANGED <<net[<<0, r, 0>>], net[<<0, r, 1>>]>>
    OBVIOUS
  <2> QED
    BY <2>1, <2>2, SharesStay
<1>3. ASSUME NEW r \in Ranks, pc[r] = "asked"
      PROVE  Turns(r)' = Turns(r) /\ Turn(r)' = Turn(r) /\ recv_r(Turn(r))' = recv_r(Turn(r))
  <2>1. Turns(r)' = Turns(r) /\ Turn(r)' = Turn(r)
    BY <1>3, TurnSame
  <2> QED
    BY <2>1 DEF recv_r
<1>4. \A a \in Ranks : \A b \in Ranks : /\ Asks(a, b)' <=> Asks(a, b)
                                        /\ Asks(a, b) => recv_cols'[a] = recv_cols[a] /\ Values(a, b)' = Values(a, b)
  BY <1>1, <1>3 DEF Asks, Values
<1>5. \A a, b \in Ranks :
         /\ net'[<<a, b, 2>>] = IF Asks(a, b)' /\ count'[b] <= Id(a, b)' THEN <<recv_cols'[a][b]>> ELSE << >>
         /\ net'[<<b, a, 3>>] = IF Asks(a, b)' /\ count'[b] > Id(a, b)' THEN <<Values(a, b)'>> ELSE << >>
  BY <1>1, <1>4 DEF IInv, Exchanged
<1>6. ASSUME NEW a \in Ranks, NEW b \in Ranks, pc'[a] \in InExchange, Needed(a, b)' # {}
      PROVE  /\ count'[a] > Id(a, b)' => count'[b] > Id(a, b)'
             /\ count'[b] > Id(a, b)' => count'[a] > Id(a, b)' \/ Asks(a, b)'
  <2>1. CASE pc[a] \in InExchange
    BY <1>1, <1>2, <1>4, <1>6, <2>1 DEF IInv, Exchanged
  <2>2. CASE count[a] = 0 /\ count[b] = 0
    <3>1. Id(a, b) \in Nat
      BY IdType, LateFacts
    <3> QED
      BY <1>1, <2>2, <3>1
  <2> QED
    BY <1>6, <2>1, <2>2
<1>7. \A r \in Ranks : Given(r)' = Given(r)
  BY <1>1, <1>2 DEF Given
<1>8. \A r \in Ranks :
         /\ pc'[r] = "asked" => Turns(r)' # {} /\ recv_r(Turn(r))' = r
         /\ IF pc'[r] \in {"share", "isend"} THEN DOMAIN vec'[r].mapped = {}
            ELSE /\ DOMAIN vec'[r].mapped = Given(r)'
                 /\ \A j \in Given(r)' : vec'[r].mapped[j] = input'.x[j + 1]
  <2> SUFFICES ASSUME NEW r \in Ranks
               PROVE  /\ pc'[r] = "asked" => Turns(r)' # {} /\ recv_r(Turn(r))' = r
                      /\ DOMAIN vec'[r].mapped = Given(r)'
                      /\ \A j \in Given(r)' : vec'[r].mapped[j] = input'.x[j + 1]
    BY <1>1 DEF Late
  <2>1. pc'[r] = "asked" => Turns(r)' # {} /\ recv_r(Turn(r))' = r
    BY <1>3 DEF IInv, Exchanged
  <2>2. DOMAIN vec[r].mapped = Given(r) /\ \A j \in Given(r) : vec[r].mapped[j] = input.x[j + 1]
    BY DEF IInv, Exchanged, Late
  <2> QED
    BY <1>7, <2>1, <2>2
<1>9. Exchanged'
  BY <1>1, <1>5, <1>6, <1>8 DEF Exchanged
<1> QED
  BY <1>2, <1>9

LEMMA BuildScheduleStep == ASSUME IInv, NEW r \in Ranks, BuildSchedule(r) PROVE IInv'
<1>1. /\ pc[r] = "build"
      /\ recv_cols' = [recv_cols EXCEPT ![r] = [s \in Ranks |-> CHOOSE q \in Schedules(r, s) : TRUE]]
      /\ comm_map' = [comm_map EXCEPT ![r][r] = [s \in Ranks |-> Cardinality(Needed(r, s))]]
      /\ pc' = [pc EXCEPT ![r] = "gather"]
      /\ UNCHANGED <<input, aborted, which, pos, mat, vec, buf, count, res, net, awaits>>
  BY DEF BuildSchedule, At, Goto, read
<1>2. Ranks' = Ranks /\ DOMAIN pc = Ranks /\ DOMAIN recv_cols = Ranks /\ DOMAIN comm_map = Ranks
      /\ \A q \in Ranks : DOMAIN comm_map[q] = Ranks
  BY <1>1, InputSame DEF IInv, Types
<1>3. Late /\ \A q \in Ranks : pc[q] \in {"build", "gather"}
  BY <1>1, LatePhases DEF Early
<1>4. \A q \in Ranks : pc'[q] \in {"build", "gather"} /\ (q # r => pc'[q] = pc[q])
  BY <1>1, <1>2, <1>3
<1>5. Late'
  BY <1>2, <1>4 DEF Late
<1>6. SharesRead' /\ SharesArrive' /\ Exchanged'
      /\ \A q, s : Needed(q, s)' = Needed(q, s) /\ Schedules(q, s)' = Schedules(q, s)
  <2>1. \A q \in Ranks : pc[q] # "asked" /\ pc'[q] \notin InExchange /\ pc'[q] \notin {"asked", "barrier3", "mult"}
    BY <1>3, <1>4 DEF InExchange
  <2> QED
    BY <1>1, <1>3, <1>5, <2>1, ExchangeStays
<1>7. Multiplied'
  BY <1>2, <1>4 DEF Multiplied
<1>8. Together'
  <2>1. \A phase \in Phases : pc[r] \in phase => "gather" \in phase
    BY <1>1 DEF Phases, InExchange
  <2>2. which[r] = "vec"
    BY <1>3, LateFacts
  <2> QED
    BY <1>1, <2>1, <2>2, Moves
<1>9. ASSUME NEW q \in Ranks
      PROVE  /\ pc'[q] = "gather" => /\ \A s \in Ranks : recv_cols'[q][s] \in Schedules(q, s)'
                                     /\ comm_map'[q][q] = [s \in Ranks |-> Cardinality(Needed(q, s))]
             /\ count'[q] = 0
  <2>1. CASE q = r
    <3>1. \A s \in Ranks : recv_cols'[r][s] = CHOOSE x \in Schedules(r, s) : TRUE
      BY <1>1, <1>2
    <3>2. comm_map'[r][r] = [s \in Ranks |-> Cardinality(Needed(r, s))]
      BY <1>1, <1>2
    <3>3. \A s \in Ranks : Schedules(r, s) # {}
      BY <1>3, LateFacts, SchedulesExist
    <3>4. \A s \in Ranks : recv_cols'[r][s] \in Schedules(r, s)
      BY <3>1, <3>3
    <3>5. count[r] = 0
      BY <1>1 DEF IInv, Planned
    <3> QED
      BY <1>1, <1>6, <2>1, <3>2, <3>4, <3>5
  <2>2. CASE q # r
    <3>1. recv_cols'[q] = recv_cols[q] /\ comm_map'[q] = comm_map[q] /\ pc'[q] = pc[q]
      BY <1>1, <1>2, <2>2
    <3> QED
      BY <1>1, <1>3, <1>6, <3>1 DEF IInv, Planned
  <2> QED
    BY <2>1, <2>2
<1>10. Planned'
  <2>1. \A q \in Ranks : pc'[q] \notin {"barrier2", "mult"} \cup InExchange
    BY <1>4 DEF InExchange
  <2>2. \A q \in Ranks : [s \in Ranks |-> Cardinality(Needed(q, s))] = [s \in Ranks |-> Cardinality(Needed(q, s)')]
    BY <1>6
  <2> QED
    BY <1>2, <1>9, <2>1, <2>2 DEF Planned
<1>11. Types'
  <2>1. pc' \in [Ranks -> Labels] /\ DOMAIN recv_cols' = Ranks /\ DOMAIN comm_map' = Ranks
        /\ \A q \in Ranks : DOMAIN comm_map'[q] = Ranks
    <3>1. pc' \in [Ranks -> Labels]
      BY <1>1 DEF IInv, Types, Labels
    <3>2. DOMAIN recv_cols' = Ranks /\ DOMAIN comm_map' = Ranks
      BY <1>1, <1>2
    <3>3. ASSUME NEW q \in Ranks
          PROVE  DOMAIN comm_map'[q] = Ranks
      <4> DEFINE F == [s \in Ranks |-> Cardinality(Needed(r, s))]
      <4>1. comm_map' = [comm_map EXCEPT ![r][r] = F]
        BY <1>1
      <4> HIDE DEF F
      <4> QED
        BY <1>2, <4>1
    <3> QED
      BY <3>1, <3>2, <3>3
  <2>2. /\ Ranks' = Ranks /\ Channels' = Channels /\ (input.p * input.p)' = input.p * input.p
        /\ Lines(which[0])' = Lines(which[0])
    BY <1>1, InputSame DEF Lines
  <2> QED
    BY <1>1, <2>1, <2>2 DEF IInv, Types
<1> QED
  BY <1>6, <1>7, <1>8, <1>10, <1>11 DEF IInv

LEMMA GatherStep == ASSUME IInv, Gather PROVE IInv'
<1>1. /\ \A r \in Ranks : pc[r] = "gather"
      /\ comm_map' = [r \in Ranks |-> [s \in Ranks |-> comm_map[s][s]]]
      /\ pc' = [r \in Ranks |-> "barrier2"]
      /\ UNCHANGED <<input, aborted, which, pos, mat, vec, buf, count, recv_cols, res, net, awaits>>
  BY DEF Gather, At, read
<1>2. Ranks' = Ranks /\ \A r \in Ranks : pc'[r] = "barrier2"
  BY <1>1, InputSame
<1>3. Late /\ Late'
  BY <1>1, <1>2 DEF Late
<1>4. SharesRead' /\ SharesArrive' /\ Exchanged'
      /\ \A q, s : Needed(q, s)' = Needed(q, s) /\ Schedules(q, s)' = Schedules(q, s)
  <2>1. \A q \in Ranks : pc[q] # "asked" /\ pc'[q] \notin InExchange /\ pc'[q] \notin {"asked", "barrier3", "mult"}
    BY <1>1, <1>2 DEF InExchange
  <2> QED
    BY <1>1, <1>3, <2>1, ExchangeStays
<1>5. Multiplied'
  BY <1>2 DEF Multiplied
<1>6. Together'
  <2>1. 0 \in Ranks /\ \A r \in Ranks : which'[r] = "vec"
    BY <1>1, <1>3, InputTypes, LateFacts
  <2> QED
    BY <1>2, <2>1 DEF Together, Phases
<1>7. Planned'
  <2>1. \A s \in Ranks : comm_map[s][s] = [t \in Ranks |-> Cardinality(Needed(s, t))]
    BY <1>1 DEF IInv, Planned
  <2>2. \A r \in Ranks : comm_map'[r] = [s \in Ranks |-> comm_map[s][s]]
    BY <1>1
  <2>3. [s \in Ranks |-> comm_map[s][s]] = [s \in Ranks |-> [t \in Ranks |-> Cardinality(Needed(s, t))]]
    BY <2>1, Zenon
  <2>4. [s \in Ranks |-> [t \in Ranks |-> Cardinality(Needed(s, t))]]
          = [s \in Ranks |-> [t \in Ranks |-> Cardinality(Needed(s, t)')]]
    BY <1>4
  <2>5. \A r \in Ranks : comm_map'[r] = [s \in Ranks |-> [t \in Ranks |-> Cardinality(Needed(s, t)')]]
    BY <2>2, <2>3, <2>4, Zenon
  <2>6. \A r \in Ranks : count'[r] = 0 /\ \A s \in Ranks : recv_cols'[r][s] \in Schedules(r, s)'
    BY <1>1, <1>4 DEF IInv, Planned
  <2> QED
    BY <1>2, <2>5, <2>6 DEF Planned
<1>8. Types'
  <2>1. pc' \in [Ranks -> Labels] /\ DOMAIN comm_map' = Ranks /\ \A r \in Ranks : DOMAIN comm_map'[r] = Ranks
    BY <1>1 DEF Labels, After
  <2>2. /\ Ranks' = Ranks /\ Channels' = Channels /\ (input.p * input.p)' = input.p * input.p
        /\ Lines(which[0])' = Lines(which[0])
    BY <1>1, InputSame DEF Lines
  <2> QED
    BY <1>1, <2>1, <2>2 DEF IInv, Types
<1> QED
  BY <1>4, <1>5, <1>6, <1>7, <1>8 DEF IInv

\* The plan is kept by a step that leaves it alone.
LEMMA PlanStays ==
    ASSUME IInv, Late, Late', UNCHANGED <<input, comm_map, recv_cols>>,
           \A r, s : Needed(r, s)' = Needed(r, s) /\ Schedules(r, s)' = Schedules(r, s),
           \A r \in Ranks :
              /\ pc'[r] \in {"barrier2", "mult"} \cup InExchange
                   => pc[r] \in {"barrier2", "mult"} \cup InExchange
              /\ pc'[r] = "gather" => pc[r] = "gather"
              /\ pc'[r] \in {"barrier1", "build", "gather", "barrier2"} => count'[r] = 0
    PROVE  Planned'
<1>1. Ranks' = Ranks
  BY InputSame
<1>2. /\ \A r \in Ranks : [s \in Ranks |-> Cardinality(Needed(r, s))] = [s \in Ranks |-> Cardinality(Needed(r, s)')]
      /\ [s \in Ranks |-> [t \in Ranks |-> Cardinality(Needed(s, t))]]
          = [s \in Ranks |-> [t \in Ranks |-> Cardinality(Needed(s, t)')]]
  OBVIOUS
<1>3. \A r \in Ranks : pc'[r] \in {"gather", "barrier2", "mult"} \cup InExchange
                          => \A s \in Ranks : recv_cols'[r][s] \in Schedules(r, s)'
  BY DEF IInv, Planned
<1>4. \A r \in Ranks : pc'[r] = "gather" => comm_map'[r][r] = [s \in Ranks |-> Cardinality(Needed(r, s)')]
  BY <1>2 DEF IInv, Planned
<1>5. \A r \in Ranks : pc'[r] \in {"barrier2", "mult"} \cup InExchange =>
            comm_map'[r] = [s \in Ranks |-> [t \in Ranks |-> Cardinality(Needed(s, t)')]]
  <2> SUFFICES ASSUME NEW r \in Ranks, pc'[r] \in {"barrier2", "mult"} \cup InExchange
               PROVE  comm_map[r] = [s \in Ranks |-> [t \in Ranks |-> Cardinality(Needed(s, t)')]]
    OBVIOUS
  <2>1. comm_map[r] = [s \in Ranks |-> [t \in Ranks |-> Cardinality(Needed(s, t))]]
    BY DEF IInv, Planned
  <2> QED
    BY <1>2, <2>1, Zenon
<1> QED
  BY <1>1, <1>3, <1>4, <1>5 DEF Planned

LEMMA BarrierStep == ASSUME IInv, Barrier PROVE IInv'
<1> SUFFICES ASSUME NEW b \in DOMAIN After, NEW l, l = After[b],
                    \A r \in Ranks : pc[r] = b, pc' = [r \in Ranks |-> l],
                    UNCHANGED <<input, aborted, which, pos, mat, vec, buf, count, comm_map, recv_cols,
                                res, net, awaits>>
             PROVE  IInv'
  BY DEF Barrier, At, read, schedule
<1>1. \/ b = "barrier1" /\ l = "build"
      \/ b = "barrier2" /\ l = "exchange"
      \/ b = "barrier3" /\ l = "mult"
      \/ b = "barrier4" /\ l = "done"
  BY DEF After
<1>2. Ranks' = Ranks /\ 0 \in Ranks /\ \A r \in Ranks : pc'[r] = l
  BY InputSame, InputTypes DEF IInv, Types
<1>3. Late /\ Late'
  BY <1>1, <1>2 DEF Late
<1>4. b \in {"barrier1", "barrier2"} => \A r \in Ranks : count[r] = 0
  BY DEF IInv, Planned
<1>5. l = "mult" => \A r \in Ranks : Turns(r)' = {}
  <2>1. \A r \in Ranks : Turns(r)' = Turns(r)
    BY TurnSame
  <2> QED
    BY <1>1, <2>1 DEF IInv, Exchanged
<1>6. SharesRead' /\ SharesArrive' /\ Exchanged'
      /\ \A q, s : Needed(q, s)' = Needed(q, s) /\ Schedules(q, s)' = Schedules(q, s)
  <2>1. \A q \in Ranks : /\ pc[q] # "asked" /\ pc'[q] # "asked"
                         /\ pc'[q] \in InExchange => \A r \in Ranks : count[r] = 0
                         /\ pc'[q] \in {"barrier3", "mult"} => Turns(q)' = {}
    BY <1>1, <1>2, <1>4, <1>5 DEF InExchange
  <2> QED
    BY <1>3, <2>1, ExchangeStays
<1>7. Planned'
  <2>1. \A r \in Ranks :
           /\ pc'[r] \in {"barrier2", "mult"} \cup InExchange
                => pc[r] \in {"barrier2", "mult"} \cup InExchange
           /\ pc'[r] = "gather" => pc[r] = "gather"
           /\ pc'[r] \in {"barrier1", "build", "gather", "barrier2"} => count'[r] = 0
    BY <1>1, <1>2, <1>4 DEF InExchange
  <2> QED
    BY <1>3, <1>6, <2>1, PlanStays
<1>8. Multiplied'
  <2>1. \A i : LinesOf(i)' = LinesOf(i)
    BY InputSame
  <2>2. \A r : FromRow(r)' = FromRow(r) /\ ToRow(r)' = ToRow(r)
    BY InputSame
  <2>3. \A r \in Ranks : pc'[r] \in {"barrier4", "done"} => pc[r] = "barrier4"
    BY <1>1, <1>2
  <2> QED
    BY <1>2, <2>1, <2>2, <2>3 DEF IInv, Multiplied
<1>9. Together'
  <2>1. \A r \in Ranks : which'[r] = "vec"
    BY <1>3, LateFacts
  <2>2. \E phase \in Phases : l \in phase
    BY <1>1 DEF Phases, InExchange
  <2>3. l \notin {"share", "isend", "size", "part"}
    BY <1>1
  <2> QED
    BY <1>2, <2>1, <2>2, <2>3 DEF Together
<1>10. Types'
  <2>1. pc' \in [Ranks -> Labels]
    BY <1>1 DEF Labels
  <2>2. /\ Ranks' = Ranks /\ Channels' = Channels /\ (input.p * input.p)' = input.p * input.p
        /\ Lines(which[0])' = Lines(which[0])
    BY InputSame DEF Lines
  <2> QED
    BY <2>1, <2>2 DEF IInv, Types
<1> QED
  BY <1>6, <1>7, <1>8, <1>9, <1>10 DEF IInv

LEMMA EndOfExchangeStep == ASSUME IInv, NEW r \in Ranks, EndOfExchange(r) PROVE IInv'
<1>1. /\ pc[r] = "exchange" /\ Turns(r) = {}
      /\ pc' = [pc EXCEPT ![r] = "barrier3"]
      /\ UNCHANGED <<input, aborted, which, pos, mat, vec, buf, count, comm_map, recv_cols, res, net, awaits>>
  BY DEF EndOfExchange, At, Goto, read, schedule
<1>2. Ranks' = Ranks /\ DOMAIN pc = Ranks
  BY <1>1, InputSame DEF IInv, Types
<1>3. Late /\ \A q \in Ranks : pc[q] \in InExchange
  BY <1>1, LatePhases DEF Early, InExchange
<1>4. \A q \in Ranks : pc'[q] = IF q = r THEN "barrier3" ELSE pc[q]
  BY <1>1, <1>2
<1>5. Late' /\ \A q \in Ranks : pc'[q] \in InExchange
  BY <1>2, <1>3, <1>4 DEF Late, InExchange
<1>6. SharesRead' /\ SharesArrive' /\ Exchanged'
      /\ \A q, s : Needed(q, s)' = Needed(q, s) /\ Schedules(q, s)' = Schedules(q, s)
  <2>1. \A q \in Ranks : pc'[q] = "asked" <=> pc[q] = "asked"
    BY <1>1, <1>4
  <2>2. \A q \in Ranks : Turns(q)' = Turns(q)
    BY <1>1, TurnSame
  <2>3. \A q \in Ranks : pc'[q] \in {"barrier3", "mult"} => Turns(q)' = {}
    BY <1>1, <1>4, <2>2 DEF IInv, Exchanged
  <2> QED
    BY <1>1, <1>3, <1>5, <2>1, <2>3, ExchangeStays
<1>7. Planned'
  <2>1. \A q \in Ranks :
           /\ pc[q] \in {"barrier2", "mult"} \cup InExchange
           /\ pc'[q] \notin {"barrier1", "build", "gather", "barrier2"}
    BY <1>3, <1>5 DEF InExchange
  <2> QED
    BY <1>1, <1>3, <1>5, <1>6, <2>1, PlanStays
<1>8. Multiplied'
  BY <1>2, <1>5 DEF Multiplied, InExchange
<1>9. Together'
  <2>1. \A phase \in Phases : pc[r] \in phase => "barrier3" \in phase
    BY <1>1 DEF Phases, InExchange
  <2>2. which[r] = "vec"
    BY <1>3, LateFacts
  <2> QED
    BY <1>1, <2>1, <2>2, Moves
<1>10. Types'
  <2>1. pc' \in [Ranks -> Labels]
    BY <1>1 DEF IInv, Types, Labels, After
  <2>2. /\ Ranks' = Ranks /\ Channels' = Channels /\ (input.p * input.p)' = input.p * input.p
        /\ Lines(which[0])' = Lines(which[0])
    BY <1>1, InputSame DEF Lines
  <2> QED
    BY <1>1, <2>1, <2>2 DEF IInv, Types
<1> QED
  BY <1>6, <1>7, <1>8, <1>9, <1>10 DEF IInv

\* A rank that has exchanged has, for every column of its rows, the row of
\* the vector.
LEMMA HasAll ==
    ASSUME IInv, Late, NEW r \in Ranks, pc[r] = "mult", NEW j \in Columns(r)
    PROVE  HasRow(r, j) /\ VecValue(r, j) = input.x[j + 1]
<1>1. input \in Inputs /\ partition_size > 0 /\ mat[r] = Part("mat", r)
      /\ vec[r].from = FromRow(r) /\ vec[r].to = ToRow(r)
      /\ mat[r].from = FromRow(r) /\ mat[r].to = ToRow(r)
      /\ \A i \in FromRow(r) .. ToRow(r) : vec[r].rows[i] = {i + 1}
  BY LateFacts
<1>2. j \in Rows /\ src_r(j) \in Ranks
  BY <1>1, Needs, Owner
<1>3. CASE j \in FromRow(r) .. ToRow(r)
  BY <1>1, <1>3 DEF HasRow, VecValue
<1>4. CASE j \notin FromRow(r) .. ToRow(r)
  <2>1. j \in Int /\ FromRow(r) \in Int /\ ToRow(r) \in Int
    BY <1>1, <1>2, InputTypes, ShareBounds
  <2>2. j \in Needed(r, src_r(j))
    BY <1>1, <1>4, <2>1 DEF Needed
  <2>3. Turns(r) = {}
    BY DEF IInv, Exchanged
  <2>4. ~ (count[r] <= Id(r, src_r(j)))
    BY <1>2, <2>2, <2>3, Plan
  <2>5. count[r] \in Nat /\ Id(r, src_r(j)) \in Nat
    BY <1>1, <1>2, IdType, Squares DEF IInv, Types
  <2>6. j \in Given(r)
    BY <1>2, <2>2, <2>4, <2>5 DEF Given
  <2>7. j \in DOMAIN vec[r].mapped /\ vec[r].mapped[j] = input.x[j + 1]
    BY <2>6 DEF IInv, Exchanged
  <2> QED
    BY <1>1, <1>4, <2>7 DEF HasRow, VecValue
<1> QED
  BY <1>3, <1>4

LEMMA MultiplyStep == ASSUME IInv, NEW r \in Ranks, Multiply(r) PROVE IInv'
<1>1. /\ pc[r] = "mult"
      /\ res' = [res EXCEPT ![r] = [i \in mat[r].from .. mat[r].to |->
            Total([k \in mat[r].rows[i] |-> input.cells[k].val * VecValue(r, input.cells[k].j)])]]
      /\ pc' = [pc EXCEPT ![r] = "barrier4"]
      /\ UNCHANGED <<input, aborted, which, pos, mat, vec, buf, count, comm_map, recv_cols, net, awaits>>
  BY DEF Multiply, At, Goto, read, schedule
<1>2. Ranks' = Ranks /\ DOMAIN pc = Ranks /\ DOMAIN res = Ranks
  BY <1>1, InputSame DEF IInv, Types
<1>3. Late /\ \A q \in Ranks : pc[q] \in {"mult", "barrier4"}
  BY <1>1, LatePhases DEF Early
<1>4. \A q \in Ranks : pc'[q] = IF q = r THEN "barrier4" ELSE pc[q]
  BY <1>1, <1>2
<1>5. Late' /\ \A q \in Ranks : pc'[q] \in {"mult", "barrier4"}
  BY <1>2, <1>3, <1>4 DEF Late
<1>6. SharesRead' /\ SharesArrive' /\ Exchanged'
      /\ \A q, s : Needed(q, s)' = Needed(q, s) /\ Schedules(q, s)' = Schedules(q, s)
  <2>1. \A q \in Ranks : pc'[q] # "asked" /\ pc[q] # "asked" /\ pc'[q] \notin InExchange
    BY <1>3, <1>5 DEF InExchange
  <2>2. \A q \in Ranks : Turns(q)' = Turns(q)
    BY <1>1, TurnSame
  <2>3. \A q \in Ranks : pc'[q] \in {"barrier3", "mult"} => Turns(q)' = {}
    BY <1>1, <1>4, <2>2 DEF IInv, Exchanged
  <2> QED
    BY <1>1, <1>3, <1>5, <2>1, <2>3, ExchangeStays
<1>7. Planned'
  <2>1. \A q \in Ranks :
           /\ pc'[q] \in {"barrier2", "mult"} \cup InExchange => pc[q] \in {"barrier2", "mult"} \cup InExchange
           /\ pc'[q] \notin {"barrier1", "build", "gather", "barrier2"}
    BY <1>1, <1>4, <1>5 DEF InExchange
  <2> QED
    BY <1>1, <1>3, <1>5, <1>6, <2>1, PlanStays
<1>8. res'[r] = [i \in FromRow(r) .. ToRow(r) |->
          Total([k \in LinesOf(i) |-> input.cells[k].val * input.x[input.cells[k].j + 1]])]
  <2>1. mat[r].from = FromRow(r) /\ mat[r].to = ToRow(r)
        /\ \A i \in FromRow(r) .. ToRow(r) : mat[r].rows[i] = LinesOf(i)
    BY <1>3, LateFacts
  <2>2. res'[r] = [i \in mat[r].from .. mat[r].to |->
            Total([k \in mat[r].rows[i] |-> input.cells[k].val * VecValue(r, input.cells[k].j)])]
    BY <1>1, <1>2
  <2>3. ASSUME NEW i \in FromRow(r) .. ToRow(r)
        PROVE  [k \in mat[r].rows[i] |-> input.cells[k].val * VecValue(r, input.cells[k].j)]
                 = [k \in LinesOf(i) |-> input.cells[k].val * input.x[input.cells[k].j + 1]]
    <3>1. \A k \in LinesOf(i) : input.cells[k].j \in Columns(r)
      BY <2>1 DEF Columns
    <3>2. \A k \in LinesOf(i) : VecValue(r, input.cells[k].j) = input.x[input.cells[k].j + 1]
      BY <1>1, <1>3, <3>1, HasAll
    <3> QED
      BY <2>1, <3>2
  <2>4. \A i \in FromRow(r) .. ToRow(r) :
           Total([k \in mat[r].rows[i] |-> input.cells[k].val * VecValue(r, input.cells[k].j)])
             = Total([k \in LinesOf(i) |-> input.cells[k].val * input.x[input.cells[k].j + 1]])
    BY <2>3
  <2> QED
    BY <2>1, <2>2, <2>4, Zenon
<1>9. Multiplied'
  <2>1. \A i : LinesOf(i)' = LinesOf(i)
    BY <1>1, InputSame
  <2>2. \A q : FromRow(q)' = FromRow(q) /\ ToRow(q)' = ToRow(q)
    BY <1>1, InputSame
  <2>3. \A q \in Ranks : q # r => res'[q] = res[q] /\ pc'[q] = pc[q]
    BY <1>1, <1>2, <1>4
  <2>4. \A q \in Ranks : pc'[q] \in {"barrier4", "done"} =>
          res'[q] = [i \in FromRow(q) .. ToRow(q) |->
             Total([k \in LinesOf(i) |-> input.cells[k].val * input.x[input.cells[k].j + 1]])]
    BY <1>8, <2>3 DEF IInv, Multiplied
  <2> QED
    BY <1>1, <1>2, <2>1, <2>2, <2>4 DEF Multiplied
<1>10. Together'
  <2>1. \A phase \in Phases : pc[r] \in phase => "barrier4" \in phase
    BY <1>1 DEF Phases, InExchange
  <2>2. which[r] = "vec"
    BY <1>3, LateFacts
  <2> QED
    BY <1>1, <2>1, <2>2, Moves
<1>11. Types'
  <2>1. pc' \in [Ranks -> Labels] /\ DOMAIN res' = Ranks
    BY <1>1, <1>2 DEF IInv, Types, Labels, After
  <2>2. /\ Ranks' = Ranks /\ Channels' = Channels /\ (input.p * input.p)' = input.p * input.p
        /\ Lines(which[0])' = Lines(which[0])
    BY <1>1, InputSame DEF Lines
  <2> QED
    BY <1>1, <2>1, <2>2 DEF IInv, Types
<1> QED
  BY <1>6, <1>7, <1>9, <1>10, <1>11 DEF IInv

\* A step of the exchange changes the places and counts of one rank, what it
\* has been given, and what is under way.
LEMMA ExchangeStep ==
    ASSUME IInv, NEW r \in Ranks, pc[r] \in {"exchange", "asked"},
           NEW l \in {"exchange", "asked"}, pc' = [pc EXCEPT ![r] = l],
           UNCHANGED <<input, aborted, which, pos, mat, buf, comm_map, recv_cols, res>>,
           \A s \in Ranks : vec'[s] = [vec[s] EXCEPT !.mapped = vec'[s].mapped],
           \A s \in Ranks : UNCHANGED <<net[<<0, s, 0>>], net[<<0, s, 1>>]>>,
           count' \in [Ranks -> 0 .. input.p * input.p],
           DOMAIN vec' = Ranks, DOMAIN net' = Channels, DOMAIN awaits' = Ranks,
           \A s \in Ranks : awaits'[s] \in Channels \cup {None},
           Exchanged'
    PROVE  IInv'
<1>1. Ranks' = Ranks /\ DOMAIN pc = Ranks
  BY InputSame DEF IInv, Types
<1>2. Late /\ \A q \in Ranks : pc[q] \in InExchange
  BY LatePhases DEF Early, InExchange
<1>3. \A q \in Ranks : pc'[q] \in InExchange
  BY <1>1, <1>2 DEF InExchange
<1>4. Late'
  BY <1>1, <1>3 DEF Late, InExchange
<1>5. SharesRead' /\ SharesArrive'
      /\ \A q, s : Needed(q, s)' = Needed(q, s) /\ Schedules(q, s)' = Schedules(q, s)
  BY <1>2, <1>4, SharesStay
<1>6. Planned'
  <2>1. \A q \in Ranks : /\ pc[q] \in {"barrier2", "mult"} \cup InExchange
                         /\ pc'[q] \notin {"barrier1", "build", "gather", "barrier2"}
    BY <1>2, <1>3 DEF InExchange
  <2> QED
    BY <1>2, <1>4, <1>5, <2>1, PlanStays
<1>7. Multiplied'
  BY <1>1, <1>3 DEF Multiplied, InExchange
<1>8. Together'
  <2>1. \A phase \in Phases : pc[r] \in phase => l \in phase
    BY DEF Phases, InExchange
  <2>2. which[r] = "vec"
    BY <1>2, LateFacts
  <2> QED
    BY <2>1, <2>2, Moves
<1>9. Types'
  <2>1. pc' \in [Ranks -> Labels]
    <3>1. l \in Labels
      BY DEF Labels
    <3> QED
      BY <3>1 DEF IInv, Types
  <2>2. /\ Ranks' = Ranks /\ Channels' = Channels /\ (input.p * input.p)' = input.p * input.p
        /\ Lines(which[0])' = Lines(which[0])
    BY InputSame DEF Lines
  <2> QED
    BY <2>1, <2>2 DEF IInv, Types
<1> QED
  BY <1>5, <1>6, <1>7, <1>8, <1>9 DEF IInv

LEMMA Asking ==
    ASSUME IInv, Late, NEW a \in Ranks, NEW b \in Ranks, Asks(a, b)
    PROVE  Needed(a, b) # {} /\ a # b /\ recv_cols[a][b] \in Schedules(a, b)
<1>1. pc[a] = "asked" /\ Turn(a) = Id(a, b) /\ pc[a] \in InExchange
  BY DEF Asks, InExchange
<1>2. Turns(a) # {}
  BY <1>1 DEF IInv, Exchanged
<1>3. Id(a, b) \in Turns(a)
  BY <1>1, <1>2, Plan
<1>4. recv_r(Id(a, b)) = a /\ send_r(Id(a, b)) = b
  BY LateFacts, IdParts
<1>5. Needed(a, b) # {} /\ a # b
  BY <1>1, <1>3, <1>4, Plan
<1>6. recv_cols[a][b] \in Schedules(a, b)
  BY <1>1 DEF IInv, Planned
<1> QED
  BY <1>5, <1>6

LEMMA CountTypes ==
    ASSUME IInv
    PROVE  /\ input \in Inputs
           /\ \A r \in Ranks : count[r] \in Nat
           /\ \A a, b \in Ranks : Id(a, b) \in Nat
<1>1. input \in Inputs /\ count \in [Ranks -> 0 .. input.p * input.p]
  BY DEF IInv, Types
<1> DEFINE z == input.p * input.p
<1>2. z \in Nat /\ count \in [Ranks -> 0 .. z]
  BY <1>1, Squares
<1> HIDE DEF z
<1>3. \A r \in Ranks : count[r] \in Nat
  BY <1>2
<1> QED
  BY <1>1, <1>3, IdType

\* Of two ranks with something to exchange, both have passed it, or none, or
\* the one that asks is waiting for its answer.
LEMMA Agreed ==
    ASSUME IInv, NEW a \in Ranks, NEW b \in Ranks, pc[a] \in InExchange, Needed(a, b) # {}
    PROVE  /\ count[a] > Id(a, b) => count[b] > Id(a, b)
           /\ count[b] > Id(a, b) => count[a] > Id(a, b) \/ Asks(a, b)
BY DEF IInv, Exchanged

\* A rank that has finished its turn has passed it, and no other exchange in
\* which it takes part.
LEMMA Passes ==
    ASSUME IInv, Late, NEW r \in Ranks, pc[r] \in InExchange, Turns(r) # {}, NEW c, c = Turn(r)
    PROVE  /\ c \in Nat /\ c + 1 \in 0 .. input.p * input.p /\ count[r] \in Nat /\ count[r] <= c
           /\ recv_r(c) \in Ranks /\ send_r(c) \in Ranks /\ recv_r(c) # send_r(c)
           /\ Id(recv_r(c), send_r(c)) = c /\ r \in {recv_r(c), send_r(c)}
           /\ Needed(recv_r(c), send_r(c)) # {}
           /\ \A a, b \in Ranks : r \in {a, b} /\ Needed(a, b) # {} =>
                 (c + 1 > Id(a, b) <=> count[r] > Id(a, b) \/ Id(a, b) = c)
<1>1. input \in Inputs /\ count[r] \in Nat /\ input.p * input.p \in Nat
  BY LateFacts, Squares DEF IInv, Types
<1>2. c \in Turns(r) /\ (\A id \in Turns(r) : c <= id)
      /\ recv_r(c) \in Ranks /\ send_r(c) \in Ranks /\ recv_r(c) # send_r(c)
      /\ Id(recv_r(c), send_r(c)) = c /\ c \in 0 .. input.p * input.p - 1 /\ count[r] <= c
      /\ Needed(recv_r(c), send_r(c)) # {}
  BY Plan
<1>3. r \in {recv_r(c), send_r(c)}
  BY <1>2 DEF Turns
<1>4. ASSUME NEW a \in Ranks, NEW b \in Ranks, r \in {a, b}, Needed(a, b) # {}
      PROVE  c + 1 > Id(a, b) <=> count[r] > Id(a, b) \/ Id(a, b) = c
  <2>1. Id(a, b) \in Turns(r) <=> count[r] <= Id(a, b)
    BY <1>4, Plan
  <2>2. Id(a, b) \in Nat
    BY <1>1, IdType
  <2> QED
    BY <1>1, <1>2, <2>1, <2>2
<1>5. c \in Nat /\ c + 1 \in 0 .. input.p * input.p
  <2> DEFINE z == input.p * input.p
  <2>1. c \in 0 .. z - 1 /\ z \in Nat
    BY <1>1, <1>2
  <2> HIDE DEF z
  <2>2. c \in Nat /\ c + 1 \in 0 .. z
    BY <2>1
  <2> QED
    BY <2>2 DEF z
<1> QED
  BY <1>1, <1>2, <1>3, <1>4, <1>5

LEMMA AskColsStep == ASSUME IInv, NEW r \in Ranks, AskCols(r) PROVE IInv'
<1> DEFINE Fixed(c, s, m) == c = Turn(r) /\ s = send_r(c) /\ m = recv_cols[r][s]
<1> SUFFICES ASSUME NEW c, NEW s, NEW m, Fixed(c, s, m)
             PROVE  IInv'
  OBVIOUS
<1>0. c = Turn(r) /\ s = send_r(c) /\ m = recv_cols[r][s]
  OBVIOUS
<1> HIDE DEF Fixed
<1>1. /\ pc[r] = "exchange" /\ Turns(r) # {} /\ r = recv_r(c) /\ Turn(r) = c
      /\ m = recv_cols[r][s]
      /\ SendTo(r, s, 2, m)
      /\ pc' = [pc EXCEPT ![r] = "asked"]
      /\ UNCHANGED <<input, aborted, which, pos, mat, vec, buf, count, comm_map, recv_cols, res>>
  BY <1>0 DEF AskCols, At, Goto, read, schedule
<1>2. Ranks' = Ranks /\ DOMAIN pc = Ranks /\ DOMAIN net = Channels /\ \A a, b : Id(a, b)' = Id(a, b)
  BY <1>1, InputSame DEF IInv, Types
<1>3. Late /\ \A q \in Ranks : pc[q] \in InExchange
  BY <1>1, LatePhases DEF Early, InExchange
<1>4. /\ s \in Ranks /\ s # r /\ c = Id(r, s) /\ Needed(r, s) # {} /\ count[r] <= c /\ count[r] \in Nat /\ c \in Nat
  BY <1>0, <1>1, <1>3, Passes
<1>5. /\ DOMAIN net' = Channels /\ DOMAIN awaits' = Ranks
      /\ \A q \in Ranks : awaits'[q] \in Channels \cup {None}
      /\ net' = [net EXCEPT ![<<r, s, 2>>] = Append(@, m)]
  <2>1. SendTo(r, s, 2, m)
    BY <1>1, Zenon
  <2>2. 2 \in 0 .. 3
    OBVIOUS
  <2>3. s \in Ranks
    BY <1>4, Zenon
  <2>4. DOMAIN awaits' = Ranks /\ \A q \in Ranks : awaits'[q] \in Channels \cup {None}
    BY <2>1, <2>2, <2>3, SendTypes
  <2>5. DOMAIN net' = Channels /\ net' = [net EXCEPT ![<<r, s, 2>>] = Append(@, m)]
    BY <1>2, <2>1 DEF SendTo
  <2> QED
    BY <2>4, <2>5
<1>6. /\ net'[<<r, s, 2>>] = Append(net[<<r, s, 2>>], m)
      /\ \A a, b \in Ranks : /\ UNCHANGED <<net[<<a, b, 0>>], net[<<a, b, 1>>], net[<<a, b, 3>>]>>
                             /\ a # r \/ b # s => UNCHANGED net[<<a, b, 2>>]
  <2>0. s \in Ranks /\ DOMAIN net = Channels
    BY <1>2, <1>4, Zenon
  <2>1. <<r, s, 2>> \in Channels /\ DOMAIN net = Channels
    BY <2>0 DEF Channels
  <2>2. net'[<<r, s, 2>>] = Append(net[<<r, s, 2>>], m)
    BY <1>5, <2>1
  <2>3. \A w \in Channels : w # <<r, s, 2>> => net'[w] = net[w]
    BY <1>5, <2>1
  <2>4. \A a, b \in Ranks : \A t \in 0 .. 3 : <<a, b, t>> \in Channels
    BY DEF Channels
  <2>5. ASSUME NEW a \in Ranks, NEW b \in Ranks
        PROVE  /\ UNCHANGED <<net[<<a, b, 0>>], net[<<a, b, 1>>], net[<<a, b, 3>>]>>
               /\ a # r \/ b # s => UNCHANGED net[<<a, b, 2>>]
    <3>1. /\ <<a, b, 0>> \in Channels /\ <<a, b, 1>> \in Channels
          /\ <<a, b, 2>> \in Channels /\ <<a, b, 3>> \in Channels
      BY <2>4
    <3> QED
      BY <2>3, <3>1
  <2> QED
    BY <2>2, <2>5
<1>7. \A a \in Ranks : pc'[a] = IF a = r THEN "asked" ELSE pc[a]
  BY <1>1, <1>2
<1>8. \A a \in Ranks : Turns(a)' = Turns(a) /\ Turn(a)' = Turn(a) /\ recv_r(Turn(a))' = recv_r(Turn(a))
  BY <1>1, TurnSame DEF recv_r
<1>9. \A a, b : Needed(a, b)' = Needed(a, b)
  BY <1>1, PlanSame
<1>10. \A a, b \in Ranks : /\ Asks(a, b)' <=> Asks(a, b) \/ (a = r /\ b = s)
                           /\ ~ Asks(r, b)
                           /\ Values(a, b)' = Values(a, b)
  <2> SUFFICES ASSUME NEW a \in Ranks, NEW b \in Ranks
               PROVE  /\ Asks(a, b)' <=> Asks(a, b) \/ (a = r /\ b = s)
                      /\ ~ Asks(r, b)
    BY <1>1 DEF Values
  <2>1. ~ Asks(r, b)
    BY <1>1 DEF Asks
  <2>2. CASE a = r
    <3>0. s \in Ranks /\ c = Id(r, s) /\ input \in Inputs
      BY <1>4, CountTypes, Zenon
    <3>1. c = Id(r, b) <=> b = s
      BY <3>0, IdParts
    <3>2. pc'[r] = "asked" /\ Turn(r)' = c /\ Id(r, b)' = Id(r, b)
      BY <1>1, <1>2, <1>7, <1>8
    <3>3. Asks(r, b)' <=> b = s
      BY <3>1, <3>2 DEF Asks
    <3> QED
      BY <2>1, <2>2, <3>3
  <2>3. CASE a # r
    BY <1>2, <1>7, <1>8, <2>1, <2>3 DEF Asks
  <2> QED
    BY <2>1, <2>2, <2>3
<1>11. count[s] <= Id(r, s) /\ ~ (count[s] > Id(r, s))
  <2>1. count[s] > Id(r, s) => count[r] > Id(r, s) \/ Asks(r, s)
    BY <1>3, <1>4, Agreed
  <2>3. count[s] \in Nat
    BY <1>4, CountTypes
  <2>2. ~ (count[s] > c)
    BY <1>4, <1>10, <2>1
  <2> QED
    BY <1>4, <2>2, <2>3
<1>12. ASSUME NEW a \in Ranks, NEW b \in Ranks
       PROVE /\ net'[<<a, b, 2>>] = IF Asks(a, b)' /\ count'[b] <= Id(a, b)' THEN <<recv_cols'[a][b]>> ELSE << >>
             /\ net'[<<b, a, 3>>] = IF Asks(a, b)' /\ count'[b] > Id(a, b)' THEN <<Values(a, b)'>> ELSE << >>
  <2>0. /\ net[<<a, b, 2>>] = IF Asks(a, b) /\ count[b] <= Id(a, b) THEN <<recv_cols[a][b]>> ELSE << >>
        /\ net[<<b, a, 3>>] = IF Asks(a, b) /\ count[b] > Id(a, b) THEN <<Values(a, b)>> ELSE << >>
    BY DEF IInv, Exchanged
  <2>1. CASE a = r /\ b = s
    <3>1. net[<<r, s, 2>>] = << >> /\ net[<<s, r, 3>>] = << >>
      BY <1>4, <1>10, <2>0, <2>1
    <3>2. net'[<<r, s, 2>>] = <<m>>
      BY <1>6, <3>1, Tuples
    <3> QED
      BY <1>1, <1>2, <1>4, <1>6, <1>10, <1>11, <2>1, <3>1, <3>2
  <2>2. CASE ~ (a = r /\ b = s)
    <3>1. Asks(a, b)' <=> Asks(a, b)
      BY <1>10, <2>2
    <3>2. net'[<<a, b, 2>>] = net[<<a, b, 2>>] /\ net'[<<b, a, 3>>] = net[<<b, a, 3>>]
      BY <1>6, <2>2
    <3>3. Id(a, b)' = Id(a, b) /\ count'[b] = count[b] /\ recv_cols'[a][b] = recv_cols[a][b]
          /\ Values(a, b)' = Values(a, b)
      BY <1>1, <1>2, <1>10
    <3> QED
      BY <2>0, <3>1, <3>2, <3>3
  <2> QED
    BY <2>1, <2>2
<1>13. ASSUME NEW a \in Ranks, NEW b \in Ranks, Needed(a, b) # {}
       PROVE /\ count[a] > Id(a, b) => count[b] > Id(a, b)
             /\ count[b] > Id(a, b) => count[a] > Id(a, b) \/ Asks(a, b)'
  BY <1>3, <1>10, <1>13, Agreed
<1>14. \A a \in Ranks : Given(a)' = Given(a)
  BY <1>1, <1>2, <1>9 DEF Given
<1>15. Exchanged'
  <2>1. \A a \in Ranks :
         /\ pc'[a] = "asked" => Turns(a)' # {} /\ recv_r(Turn(a))' = a
         /\ pc'[a] \in {"barrier3", "mult"} => Turns(a)' = {}
         /\ pc'[a] \notin {"share", "isend"}
         /\ DOMAIN vec'[a].mapped = Given(a)'
         /\ \A j \in Given(a)' : vec'[a].mapped[j] = input'.x[j + 1]
    <3> SUFFICES ASSUME NEW a \in Ranks
                 PROVE  /\ pc'[a] = "asked" => Turns(a)' # {} /\ recv_r(Turn(a))' = a
                        /\ pc'[a] \in {"barrier3", "mult"} => Turns(a)' = {}
                        /\ pc'[a] \notin {"share", "isend"}
                        /\ DOMAIN vec'[a].mapped = Given(a)'
                        /\ \A j \in Given(a)' : vec'[a].mapped[j] = input'.x[j + 1]
      OBVIOUS
    <3>1. pc'[a] = "asked" => Turns(a)' # {} /\ recv_r(Turn(a))' = a
      BY <1>1, <1>7, <1>8 DEF IInv, Exchanged
    <3>2. pc'[a] \in {"barrier3", "mult"} => Turns(a)' = {}
      BY <1>7, <1>8 DEF IInv, Exchanged
    <3>3. pc[a] \notin {"share", "isend"} /\ pc'[a] \notin {"share", "isend"}
      BY <1>3, <1>7 DEF InExchange
    <3>4. DOMAIN vec[a].mapped = Given(a) /\ \A j \in Given(a) : vec[a].mapped[j] = input.x[j + 1]
      BY <3>3 DEF IInv, Exchanged
    <3> QED
      BY <1>1, <1>14, <3>1, <3>2, <3>3, <3>4
  <2> QED
    BY <1>1, <1>2, <1>9, <1>12, <1>13, <2>1 DEF Exchanged
<1> QED
  <2>1. \A q \in Ranks : vec'[q] = [vec[q] EXCEPT !.mapped = vec'[q].mapped]
    <3> SUFFICES ASSUME NEW q \in Ranks
                 PROVE  vec[q] = [vec[q] EXCEPT !.mapped = vec[q].mapped]
      BY <1>1
    <3> DEFINE w == vec[q].mapped
    <3>1. vec[q] = [Part("vec", q) EXCEPT !.mapped = w]
      BY <1>3, LateFacts
    <3> HIDE DEF w
    <3>2. vec[q] = [vec[q] EXCEPT !.mapped = w]
      BY <3>1 DEF Part
    <3> QED
      BY <3>2 DEF w
  <2>2. 0 \in Ranks /\ count' \in [Ranks -> 0 .. input.p * input.p] /\ DOMAIN vec' = Ranks
    BY <1>1, <1>3, InputTypes, LateFacts DEF IInv, Types
  <2>3. \A q \in Ranks : UNCHANGED <<net[<<0, q, 0>>], net[<<0, q, 1>>]>>
    BY <1>6, <2>2
  <2> QED
    BY <1>1, <1>5, <1>15, <2>1, <2>2, <2>3, ExchangeStep

\* What a rank has been sent is added to what it has been sent before.
LEMMA MapsRow ==
    ASSUME NEW v, v = [from |-> v.from, to |-> v.to, rows |-> v.rows, mapped |-> v.mapped],
           NEW cols, \A a \in DOMAIN cols : cols[a] \notin v.from .. v.to,
           NEW x, NEW values, \A a \in DOMAIN cols : values[a] = x[cols[a] + 1],
           \A j \in DOMAIN v.mapped : v.mapped[j] = x[j + 1]
    PROVE  /\ matrix_map_row(v, cols, values) = [v EXCEPT !.mapped = matrix_map_row(v, cols, values).mapped]
           /\ DOMAIN matrix_map_row(v, cols, values).mapped = DOMAIN v.mapped \cup {cols[a] : a \in DOMAIN cols}
           /\ \A j \in DOMAIN v.mapped \cup {cols[a] : a \in DOMAIN cols} :
                 matrix_map_row(v, cols, values).mapped[j] = x[j + 1]
<1> DEFINE new == {a \in DOMAIN cols : cols[a] \notin (v.from .. v.to) \cup DOMAIN v.mapped}
           D == DOMAIN v.mapped \cup {cols[a] : a \in new}
           m == [j \in D |-> IF j \in DOMAIN v.mapped THEN v.mapped[j]
                             ELSE values[CHOOSE a \in new : cols[a] = j]]
<1>1. matrix_map_row(v, cols, values) = [v EXCEPT !.mapped = m]
  BY DEF matrix_map_row
<1>2. D = DOMAIN v.mapped \cup {cols[a] : a \in DOMAIN cols}
  OBVIOUS
<1>3. ASSUME NEW j \in D
      PROVE  m[j] = x[j + 1]
  <2>1. CASE j \in DOMAIN v.mapped
    BY <2>1
  <2>2. CASE j \notin DOMAIN v.mapped
    <3>1. \E a \in new : cols[a] = j
      BY <1>3, <2>2
    <3> DEFINE a == CHOOSE a \in new : cols[a] = j
    <3>2. a \in new /\ cols[a] = j
      BY <3>1
    <3>3. m[j] = values[a]
      BY <1>3, <2>2
    <3> HIDE DEF a, m
    <3>4. values[a] = x[cols[a] + 1]
      BY <3>2
    <3> QED
      BY <3>2, <3>3, <3>4
  <2> QED
    BY <2>1, <2>2
<1>4. DOMAIN m = D
  OBVIOUS
<1> HIDE DEF m, D, new
<1>5. matrix_map_row(v, cols, values) = [from |-> v.from, to |-> v.to, rows |-> v.rows, mapped |-> m]
  BY <1>1
<1>6. matrix_map_row(v, cols, values).mapped = m
  BY <1>5
<1> QED
  BY <1>1, <1>2, <1>3, <1>4, <1>6

LEMMA GetValuesStep == ASSUME IInv, NEW r \in Ranks, GetValues(r) PROVE IInv'
<1> DEFINE Fixed(c, s) == c = Turn(r) /\ s = send_r(c)
<1> SUFFICES ASSUME NEW c, NEW s, Fixed(c, s)
             PROVE  IInv'
  OBVIOUS
<1>0. c = Turn(r) /\ s = send_r(c)
  OBVIOUS
<1> HIDE DEF Fixed
<1>1. /\ pc[r] = "asked" /\ Turn(r) = c
      /\ net[<<s, r, 3>>] # << >>
      /\ vec' = [vec EXCEPT ![r] = matrix_map_row(@, recv_cols[r][s], Head(net[<<s, r, 3>>]))]
      /\ net' = [net EXCEPT ![<<s, r, 3>>] = Tail(@)]
      /\ count' = [count EXCEPT ![r] = c + 1]
      /\ pc' = [pc EXCEPT ![r] = "exchange"]
      /\ UNCHANGED <<input, aborted, which, pos, mat, buf, comm_map, recv_cols, res, awaits>>
  BY <1>0 DEF GetValues, At, Goto, schedule, Arrived, Message, Take
<1>2. Ranks' = Ranks /\ DOMAIN pc = Ranks /\ DOMAIN net = Channels /\ DOMAIN count = Ranks
      /\ DOMAIN vec = Ranks /\ \A a, b : Id(a, b)' = Id(a, b)
  BY <1>1, InputSame DEF IInv, Types
<1>3. Late /\ \A q \in Ranks : pc[q] \in InExchange
  BY <1>1, LatePhases DEF Early, InExchange
<1>4. Turns(r) # {} /\ recv_r(c) = r
  BY <1>1 DEF IInv, Exchanged
<1>5. /\ c + 1 \in 0 .. input.p * input.p /\ Id(recv_r(c), send_r(c)) = c
      /\ send_r(c) \in Ranks /\ recv_r(c) # send_r(c) /\ Needed(recv_r(c), send_r(c)) # {}
      /\ count[r] <= c /\ count[r] \in Nat /\ c \in Nat
      /\ \A a, b \in Ranks : r \in {a, b} /\ Needed(a, b) # {} =>
                 (c + 1 > Id(a, b) <=> count[r] > Id(a, b) \/ Id(a, b) = c)
  BY <1>1, <1>3, <1>4, Passes
<1>6. s \in Ranks /\ s # r /\ Id(r, s) = c /\ Needed(r, s) # {}
  BY <1>0, <1>4, <1>5
<1>7. \A a, b \in Ranks : Id(a, b) = c => a = r /\ b = s
  BY <1>6, CountTypes, IdParts
<1>8. Asks(r, s) /\ \A b \in Ranks : b # s => ~ Asks(r, b)
  BY <1>1, <1>6, <1>7 DEF Asks
<1>9. count[s] > c /\ net[<<s, r, 3>>] = <<Values(r, s)>>
  <2>1. net[<<s, r, 3>>] = IF Asks(r, s) /\ count[s] > Id(r, s) THEN <<Values(r, s)>> ELSE << >>
    BY <1>6 DEF IInv, Exchanged
  <2> QED
    BY <1>1, <1>6, <1>8, <2>1
<1>10. /\ net'[<<s, r, 3>>] = << >>
       /\ \A a, b \in Ranks : /\ UNCHANGED <<net[<<a, b, 0>>], net[<<a, b, 1>>], net[<<a, b, 2>>]>>
                              /\ a # s \/ b # r => UNCHANGED net[<<a, b, 3>>]
  <2>1. <<s, r, 3>> \in Channels
    BY <1>6 DEF Channels
  <2>2. net'[<<s, r, 3>>] = Tail(net[<<s, r, 3>>])
    BY <1>1, <1>2, <2>1
  <2>3. \A w \in Channels : w # <<s, r, 3>> => net'[w] = net[w]
    BY <1>1, <1>2, <2>1
  <2>4. Tail(net[<<s, r, 3>>]) = << >>
    BY <1>9, Tuples
  <2>5. ASSUME NEW a \in Ranks, NEW b \in Ranks
        PROVE  /\ UNCHANGED <<net[<<a, b, 0>>], net[<<a, b, 1>>], net[<<a, b, 2>>]>>
               /\ a # s \/ b # r => UNCHANGED net[<<a, b, 3>>]
    <3>1. /\ <<a, b, 0>> \in Channels /\ <<a, b, 1>> \in Channels
          /\ <<a, b, 2>> \in Channels /\ <<a, b, 3>> \in Channels
      BY DEF Channels
    <3> QED
      BY <2>3, <3>1
  <2> QED
    BY <2>2, <2>4, <2>5
<1>11. \A a \in Ranks : /\ pc'[a] = IF a = r THEN "exchange" ELSE pc[a]
                        /\ count'[a] = IF a = r THEN c + 1 ELSE count[a]
                        /\ a # r => vec'[a] = vec[a]
  BY <1>1, <1>2
<1>12. \A a, b : Needed(a, b)' = Needed(a, b)
  BY <1>1, PlanSame
<1>13. \A a \in Ranks : a # r => Turns(a)' = Turns(a) /\ Turn(a)' = Turn(a) /\ recv_r(Turn(a))' = recv_r(Turn(a))
  <2> SUFFICES ASSUME NEW a \in Ranks, a # r
               PROVE  Turns(a)' = Turns(a) /\ Turn(a)' = Turn(a) /\ recv_r(Turn(a))' = recv_r(Turn(a))
    OBVIOUS
  <2>1. Turns(a)' = Turns(a) /\ Turn(a)' = Turn(a)
    BY <1>1, <1>11, TurnSame
  <2> QED
    BY <1>1, <2>1 DEF recv_r
<1>14. \A a, b \in Ranks : /\ Asks(a, b)' <=> Asks(a, b) /\ a # r
                           /\ Values(a, b)' = Values(a, b)
  BY <1>1, <1>2, <1>11, <1>13 DEF Asks, Values
<1>15. \A a \in Ranks : count[a] \in Nat /\ count'[a] \in Nat /\ count[a] <= count'[a]
  BY <1>5, <1>11, CountTypes
<1>16. \A a, b \in Ranks : Id(a, b) \in Nat
  BY CountTypes
<1>17. ASSUME NEW a \in Ranks, NEW b \in Ranks
       PROVE /\ net'[<<a, b, 2>>] = IF Asks(a, b)' /\ count'[b] <= Id(a, b)' THEN <<recv_cols'[a][b]>> ELSE << >>
             /\ net'[<<b, a, 3>>] = IF Asks(a, b)' /\ count'[b] > Id(a, b)' THEN <<Values(a, b)'>> ELSE << >>
  <2>0. /\ net[<<a, b, 2>>] = IF Asks(a, b) /\ count[b] <= Id(a, b) THEN <<recv_cols[a][b]>> ELSE << >>
        /\ net[<<b, a, 3>>] = IF Asks(a, b) /\ count[b] > Id(a, b) THEN <<Values(a, b)>> ELSE << >>
    BY DEF IInv, Exchanged
  <2>1. CASE a = r
    <3>1. ~ Asks(a, b)'
      BY <1>14, <2>1
    <3>2. net'[<<a, b, 2>>] = net[<<a, b, 2>>]
      BY <1>10
    <3>3. CASE b = s
      <4>1. ~ (count[b] <= Id(a, b))
        BY <1>6, <1>9, <1>15, <1>5, <2>1, <3>3
      <4> QED
        BY <1>10, <2>0, <2>1, <3>1, <3>2, <3>3, <4>1
    <3>4. CASE b # s
      <4>1. net'[<<b, a, 3>>] = net[<<b, a, 3>>] /\ ~ Asks(a, b)
        BY <1>8, <1>10, <2>1, <3>4
      <4> QED
        BY <2>0, <3>1, <3>2, <4>1
    <3> QED
      BY <3>3, <3>4
  <2>2. CASE a # r
    <3>1. Asks(a, b)' <=> Asks(a, b)
      BY <1>14, <2>2
    <3>2. net'[<<a, b, 2>>] = net[<<a, b, 2>>] /\ net'[<<b, a, 3>>] = net[<<b, a, 3>>]
      BY <1>10, <2>2
    <3>3. Asks(a, b) => (count'[b] > Id(a, b) <=> count[b] > Id(a, b))
      <4>1. Asks(a, b) => Needed(a, b) # {}
        BY <1>3, Asking
      <4>2. Id(a, b) # c
        BY <1>7, <2>2
      <4> QED
        BY <1>5, <1>11, <4>1, <4>2
    <3>4. (count[b] <= Id(a, b) <=> ~ (count[b] > Id(a, b))) /\ (count'[b] <= Id(a, b) <=> ~ (count'[b] > Id(a, b)))
      BY <1>15, <1>16
    <3>5. Id(a, b)' = Id(a, b) /\ recv_cols'[a][b] = recv_cols[a][b] /\ Values(a, b)' = Values(a, b)
      BY <1>1, <1>2, <1>14
    <3> QED
      BY <2>0, <3>1, <3>2, <3>3, <3>4, <3>5
  <2> QED
    BY <2>1, <2>2
<1>18. ASSUME NEW a \in Ranks, NEW b \in Ranks, Needed(a, b) # {}
       PROVE /\ count'[a] > Id(a, b) => count'[b] > Id(a, b)
             /\ count'[b] > Id(a, b) => count'[a] > Id(a, b) \/ Asks(a, b)'
  <2>0. /\ count[a] > Id(a, b) => count[b] > Id(a, b)
        /\ count[b] > Id(a, b) => count[a] > Id(a, b) \/ Asks(a, b)
    BY <1>3, <1>18, Agreed
  <2>1. CASE a = r
    <3>1. count'[a] > Id(a, b) <=> count[a] > Id(a, b) \/ Id(a, b) = c
      BY <1>5, <1>11, <1>18, <2>1
    <3>2. Id(a, b) = c => b = s /\ count[b] > Id(a, b)
      BY <1>7, <1>9
    <3>3. count[b] > Id(a, b) => count'[b] > Id(a, b)
      BY <1>15, <1>16
    <3>4. a # b
      BY <1>3, <1>18, Needs, LateFacts
    <3>5. count'[b] = count[b]
      BY <1>11, <2>1, <3>4
    <3>6. Asks(a, b) => Id(a, b) = c
      BY <1>6, <1>8, <2>1
    <3> QED
      BY <2>0, <3>1, <3>2, <3>3, <3>5, <3>6
  <2>2. CASE a # r
    <3>1. Asks(a, b)' <=> Asks(a, b)
      BY <1>14, <2>2
    <3>2. Id(a, b) # c /\ count'[a] = count[a]
      BY <1>7, <1>11, <2>2
    <3>3. count'[b] > Id(a, b) <=> count[b] > Id(a, b)
      BY <1>5, <1>11, <1>18, <3>2
    <3> QED
      BY <2>0, <3>1, <3>2, <3>3
  <2> QED
    BY <2>1, <2>2
<1>19. \A a \in Ranks : Given(a)' = Given(a) \cup (IF a = r THEN Needed(r, s) ELSE {})
  <2> SUFFICES ASSUME NEW a \in Ranks
               PROVE  Given(a)' = Given(a) \cup (IF a = r THEN Needed(r, s) ELSE {})
    OBVIOUS
  <2>1. Given(a)' = UNION {Needed(a, t) : t \in {q \in Ranks : Id(a, q) < count'[a]}}
    BY <1>1, <1>2, <1>12 DEF Given
  <2>2. CASE a # r
    BY <1>11, <2>1, <2>2 DEF Given
  <2>3. CASE a = r
    <3>1. \A q \in Ranks : Needed(r, q) # {} =>
              (Id(r, q) < count'[r] <=> Id(r, q) < count[r] \/ q = s)
      <4> SUFFICES ASSUME NEW q \in Ranks, Needed(r, q) # {}
                   PROVE  Id(r, q) < count'[r] <=> Id(r, q) < count[r] \/ q = s
        OBVIOUS
      <4>1. c + 1 > Id(r, q) <=> count[r] > Id(r, q) \/ Id(r, q) = c
        BY <1>5
      <4>2. Id(r, q) = c <=> q = s
        BY <1>6, <1>7
      <4>3. count'[r] = c + 1 /\ Id(r, q) \in Nat
        BY <1>11, <1>16
      <4> QED
        BY <1>5, <4>1, <4>2, <4>3
    <3>2. ASSUME NEW j
          PROVE  j \in Given(r)' <=> j \in Given(r) \/ j \in Needed(r, s)
      <4>1. j \in Given(r)' <=> \E q \in Ranks : Id(r, q) < count'[r] /\ j \in Needed(r, q)
        BY <2>1, <2>3
      <4>2. j \in Given(r) <=> \E q \in Ranks : Id(r, q) < count[r] /\ j \in Needed(r, q)
        BY DEF Given
      <4> QED
        BY <1>6, <3>1, <4>1, <4>2
    <3> QED
      BY <2>3, <3>2
  <2> QED
    BY <2>2, <2>3
<1>20. /\ vec'[r] = [vec[r] EXCEPT !.mapped = vec'[r].mapped]
       /\ DOMAIN vec'[r].mapped = Given(r)'
       /\ \A j \in Given(r)' : vec'[r].mapped[j] = input.x[j + 1]
  <2> DEFINE Held(v, cols, values, x) == v = vec[r] /\ cols = recv_cols[r][s] /\ values = Values(r, s) /\ x = input.x
  <2> SUFFICES ASSUME NEW v, NEW cols, NEW values, NEW x, Held(v, cols, values, x)
               PROVE  /\ vec'[r] = [vec[r] EXCEPT !.mapped = vec'[r].mapped]
                      /\ DOMAIN vec'[r].mapped = Given(r)'
                      /\ \A j \in Given(r)' : vec'[r].mapped[j] = input.x[j + 1]
    OBVIOUS
  <2>0. vec[r] = v /\ recv_cols[r][s] = cols /\ Values(r, s) = values /\ input.x = x
    OBVIOUS
  <2> HIDE DEF Held
  <2>1. vec'[r] = matrix_map_row(v, cols, values)
    <3>1. Head(net[<<s, r, 3>>]) = values
      BY <1>9, <2>0, Tuples
    <3> QED
      BY <1>1, <1>2, <2>0, <3>1
  <2>2. v = [from |-> v.from, to |-> v.to, rows |-> v.rows, mapped |-> v.mapped]
        /\ v.from = FromRow(r) /\ v.to = ToRow(r)
    <3>1. vec[r].from = FromRow(r) /\ vec[r].to = ToRow(r)
      BY <1>3, LateFacts
    <3> DEFINE w == vec[r].mapped
    <3>2. vec[r] = [Part("vec", r) EXCEPT !.mapped = w]
      BY <1>3, LateFacts
    <3> HIDE DEF w
    <3>3. v = [Part("vec", r) EXCEPT !.mapped = w]
      BY <2>0, <3>2
    <3>4. v = [from |-> v.from, to |-> v.to, rows |-> v.rows, mapped |-> v.mapped]
      BY <3>3 DEF Part
    <3> QED
      BY <2>0, <3>1, <3>4
  <2>3. cols \in Schedules(r, s)
    BY <1>3, <1>6, <1>8, <2>0, Asking
  <2>4. {cols[a] : a \in DOMAIN cols} = Needed(r, s)
    BY <2>3 DEF Schedules, Range
  <2>5. \A a \in DOMAIN cols : cols[a] \notin v.from .. v.to
    <3>1. \A j \in Needed(r, s) : j \notin FromRow(r) .. ToRow(r)
      BY <1>3, <1>6, LateFacts, Needs
    <3> QED
      BY <2>2, <2>4, <3>1
  <2>6. \A a \in DOMAIN cols : values[a] = x[cols[a] + 1]
    BY <2>0 DEF Values
  <2>7. DOMAIN v.mapped = Given(r) /\ \A j \in DOMAIN v.mapped : v.mapped[j] = x[j + 1]
    BY <1>1, <2>0 DEF IInv, Exchanged
  <2> DEFINE w == matrix_map_row(v, cols, values)
  <2>8. /\ w = [v EXCEPT !.mapped = w.mapped]
        /\ DOMAIN w.mapped = DOMAIN v.mapped \cup {cols[a] : a \in DOMAIN cols}
        /\ \A j \in DOMAIN v.mapped \cup {cols[a] : a \in DOMAIN cols} : w.mapped[j] = x[j + 1]
    BY <2>2, <2>5, <2>6, <2>7, MapsRow
  <2>9. vec'[r] = w
    BY <2>1
  <2> HIDE DEF w
  <2>10. Given(r)' = DOMAIN v.mapped \cup {cols[a] : a \in DOMAIN cols}
    BY <1>19, <2>4, <2>7
  <2> QED
    BY <2>0, <2>8, <2>9, <2>10
<1>21. Exchanged'
  <2>1. ASSUME NEW a \in Ranks
        PROVE  /\ pc'[a] = "asked" => Turns(a)' # {} /\ recv_r(Turn(a))' = a
               /\ pc'[a] \in {"barrier3", "mult"} => Turns(a)' = {}
               /\ pc'[a] \notin {"share", "isend"}
               /\ DOMAIN vec'[a].mapped = Given(a)'
               /\ \A j \in Given(a)' : vec'[a].mapped[j] = input'.x[j + 1]
    <3>1. CASE a = r
      BY <1>1, <1>11, <1>20, <3>1
    <3>2. CASE a # r
      <4>1. pc'[a] = "asked" => Turns(a)' # {} /\ recv_r(Turn(a))' = a
        BY <1>11, <1>13, <3>2 DEF IInv, Exchanged
      <4>2. pc'[a] \in {"barrier3", "mult"} => Turns(a)' = {}
        BY <1>11, <1>13, <3>2 DEF IInv, Exchanged
      <4>3. pc[a] \notin {"share", "isend"} /\ pc'[a] \notin {"share", "isend"}
        BY <1>3, <1>11 DEF InExchange
      <4>4. DOMAIN vec[a].mapped = Given(a) /\ \A j \in Given(a) : vec[a].mapped[j] = input.x[j + 1]
        BY <4>3 DEF IInv, Exchanged
      <4>5. Given(a)' = Given(a) /\ vec'[a] = vec[a]
        BY <1>11, <1>19, <3>2
      <4> QED
        BY <1>1, <4>1, <4>2, <4>3, <4>4, <4>5
    <3> QED
      BY <3>1, <3>2
  <2> QED
    BY <1>2, <1>12, <1>17, <1>18, <2>1 DEF Exchanged
<1> QED
  <2>1. \A q \in Ranks : vec'[q] = [vec[q] EXCEPT !.mapped = vec'[q].mapped]
    <3> SUFFICES ASSUME NEW q \in Ranks, q # r
                 PROVE  vec[q] = [vec[q] EXCEPT !.mapped = vec[q].mapped]
      BY <1>11, <1>20
    <3> DEFINE w == vec[q].mapped
    <3>1. vec[q] = [Part("vec", q) EXCEPT !.mapped = w]
      BY <1>3, LateFacts
    <3> HIDE DEF w
    <3>2. vec[q] = [vec[q] EXCEPT !.mapped = w]
      BY <3>1 DEF Part
    <3> QED
      BY <3>2 DEF w
  <2>2. 0 \in Ranks /\ count' \in [Ranks -> 0 .. input.p * input.p]
    <3>1. 0 \in Ranks /\ count \in [Ranks -> 0 .. input.p * input.p]
      BY <1>3, InputTypes, LateFacts DEF IInv, Types
    <3> QED
      BY <1>1, <1>5, <3>1
  <2>3. DOMAIN vec' = Ranks /\ DOMAIN net' = Channels /\ DOMAIN awaits' = Ranks
        /\ \A q \in Ranks : awaits'[q] \in Channels \cup {None}
    <3>1. DOMAIN awaits = Ranks /\ \A q \in Ranks : awaits[q] \in Channels \cup {None}
      BY DEF IInv, Types
    <3> QED
      BY <1>1, <1>2, <3>1
  <2>4. \A q \in Ranks : UNCHANGED <<net[<<0, q, 0>>], net[<<0, q, 1>>]>>
    BY <1>10, <2>2
  <2>5. UNCHANGED <<input, aborted, which, pos, mat, buf, comm_map, recv_cols, res>>
        /\ pc[r] \in {"exchange", "asked"} /\ pc' = [pc EXCEPT ![r] = "exchange"]
    BY <1>1
  <2> QED
    BY <1>21, <2>1, <2>2, <2>3, <2>4, <2>5, ExchangeStep

\* A rank is only asked by the one whose turn it is, and for rows it owns.
LEMMA Question ==
    ASSUME IInv, NEW r \in Ranks, Asked(r), NEW c, Turn(r) = c, NEW s, recv_r(c) = s
    PROVE  /\ Late /\ s \in Ranks /\ s # r /\ send_r(c) = r /\ Id(s, r) = c
           /\ Needed(s, r) # {} /\ Asks(s, r)
           /\ net[<<s, r, 2>>] = <<recv_cols[s][r]>> /\ net[<<r, s, 3>>] = << >>
           /\ recv_cols[s][r] \in Schedules(s, r)
           /\ \A j \in Needed(s, r) : HasRow(r, j) /\ VecValue(r, j) = input.x[j + 1]
<1>1. /\ pc[r] = "exchange" /\ Turns(r) # {} /\ r = send_r(Turn(r))
      /\ net[<<recv_r(Turn(r)), r, 2>>] # << >>
  BY DEF Asked, At, Arrived
<1>2. send_r(c) = r /\ net[<<s, r, 2>>] # << >>
  BY <1>1
<1>3. Late /\ pc[r] \in InExchange
  BY <1>1, LatePhases DEF Early, InExchange
<1>4. s \in Ranks /\ s # r /\ Id(s, r) = c /\ Needed(s, r) # {}
  <2>1. /\ recv_r(c) \in Ranks /\ recv_r(c) # send_r(c)
        /\ Id(recv_r(c), send_r(c)) = c /\ Needed(recv_r(c), send_r(c)) # {}
    BY <1>1, <1>3, Passes
  <2> QED
    BY <1>2, <2>1
<1>5. /\ net[<<s, r, 2>>] = IF Asks(s, r) /\ count[r] <= Id(s, r) THEN <<recv_cols[s][r]>> ELSE << >>
      /\ net[<<r, s, 3>>] = IF Asks(s, r) /\ count[r] > Id(s, r) THEN <<Values(s, r)>> ELSE << >>
  BY <1>4 DEF IInv, Exchanged
<1>6. Asks(s, r) /\ count[r] <= Id(s, r)
  BY <1>2, <1>5
<1>7. ~ (count[r] > Id(s, r))
  <2>1. count[r] \in Nat /\ Id(s, r) \in Nat
    BY <1>4, CountTypes
  <2> QED
    BY <1>6, <2>1
<1>8. recv_cols[s][r] \in Schedules(s, r)
  BY <1>3, <1>4, <1>6, Asking
<1>9. ASSUME NEW j \in Needed(s, r)
      PROVE  HasRow(r, j) /\ VecValue(r, j) = input.x[j + 1]
  <2>1. input \in Inputs /\ partition_size > 0 /\ mat[s] = Part("mat", s)
        /\ vec[r].from = FromRow(r) /\ vec[r].to = ToRow(r)
        /\ \A i \in FromRow(r) .. ToRow(r) : vec[r].rows[i] = {i + 1}
    BY <1>3, <1>4, LateFacts
  <2>2. j \in FromRow(r) .. ToRow(r)
    BY <1>4, <1>9, <2>1, Needs
  <2>3. vec[r].rows[j] = {j + 1} /\ (CHOOSE k \in {j + 1} : TRUE) = j + 1
    BY <2>1, <2>2
  <2> QED
    BY <2>1, <2>2, <2>3 DEF HasRow, VecValue
<1> QED
  BY <1>2, <1>3, <1>4, <1>5, <1>6, <1>7, <1>8, <1>9

LEMMA AnswerStep == ASSUME IInv, NEW r \in Ranks, Answer(r) PROVE IInv'
<1> DEFINE Fixed(c, s, m, w) == /\ c = Turn(r) /\ s = recv_r(c) /\ m = recv_cols[s][r]
                                /\ w = Values(s, r)
<1> SUFFICES ASSUME NEW c, NEW s, NEW m, NEW w, Fixed(c, s, m, w)
             PROVE  IInv'
  OBVIOUS
<1>0. Turn(r) = c /\ recv_r(c) = s /\ recv_cols[s][r] = m /\ Values(s, r) = w
  OBVIOUS
<1> HIDE DEF Fixed
<1>1. /\ Asked(r) /\ pc[r] = "exchange" /\ Turns(r) # {}
      /\ net' = [[net EXCEPT ![<<s, r, 2>>] = Tail(@)] EXCEPT ![<<r, s, 3>>] =
                   Append(@, [a \in DOMAIN Request(r) |-> VecValue(r, Request(r)[a])])]
      /\ Request(r) = Head(net[<<s, r, 2>>])
      /\ awaits' = [awaits EXCEPT ![r] = None]
      /\ count' = [count EXCEPT ![r] = c + 1]
      /\ UNCHANGED <<input, aborted, pc, which, pos, mat, vec, buf, comm_map, recv_cols, res>>
  BY <1>0 DEF Answer, Asked, At, Message, Request, Take, read, schedule
<1>2. Ranks' = Ranks /\ DOMAIN pc = Ranks /\ DOMAIN net = Channels /\ DOMAIN count = Ranks
      /\ \A a, b : Id(a, b)' = Id(a, b)
  BY <1>1, InputSame DEF IInv, Types
<1>3. Late /\ \A q \in Ranks : pc[q] \in InExchange
  BY <1>1, LatePhases DEF Early, InExchange
<1>4. /\ c + 1 \in 0 .. input.p * input.p /\ count[r] <= c /\ count[r] \in Nat /\ c \in Nat
      /\ \A a, b \in Ranks : r \in {a, b} /\ Needed(a, b) # {} =>
                 (c + 1 > Id(a, b) <=> count[r] > Id(a, b) \/ Id(a, b) = c)
  BY <1>0, <1>1, <1>3, Passes
<1>5. /\ s \in Ranks /\ s # r /\ Id(s, r) = c /\ Needed(s, r) # {} /\ Asks(s, r)
      /\ net[<<s, r, 2>>] = <<m>> /\ net[<<r, s, 3>>] = << >>
      /\ m \in Schedules(s, r)
      /\ \A j \in Needed(s, r) : VecValue(r, j) = input.x[j + 1]
  BY <1>0, <1>1, Question
<1>6. Request(r) = m /\ [a \in DOMAIN m |-> VecValue(r, m[a])] = w
  <2>1. Request(r) = m
    BY <1>1, <1>5, Tuples
  <2>2. \A a \in DOMAIN m : m[a] \in Needed(s, r)
    BY <1>5 DEF Schedules, Range
  <2>3. w = [k \in DOMAIN m |-> input.x[m[k] + 1]]
    BY <1>0 DEF Values
  <2> QED
    BY <1>5, <2>1, <2>2, <2>3
<1>7. \A a, b \in Ranks : Id(a, b) = c => a = s /\ b = r
  BY <1>5, CountTypes, IdParts
<1>8. /\ net'[<<s, r, 2>>] = << >> /\ net'[<<r, s, 3>>] = <<w>>
      /\ \A a, b \in Ranks : /\ UNCHANGED <<net[<<a, b, 0>>], net[<<a, b, 1>>]>>
                             /\ a # s \/ b # r => UNCHANGED <<net[<<a, b, 2>>], net[<<b, a, 3>>]>>
      /\ DOMAIN net' = Channels
  <2>1. <<s, r, 2>> \in Channels /\ <<r, s, 3>> \in Channels /\ <<s, r, 2>> # <<r, s, 3>>
    BY <1>5 DEF Channels
  <2>2. net' = [[net EXCEPT ![<<s, r, 2>>] = Tail(@)] EXCEPT ![<<r, s, 3>>] = Append(@, w)]
    BY <1>1, <1>6
  <2>3. net'[<<s, r, 2>>] = Tail(<<m>>) /\ net'[<<r, s, 3>>] = Append(<< >>, w)
    BY <1>2, <1>5, <2>1, <2>2
  <2>4. \A v \in Channels : v # <<s, r, 2>> /\ v # <<r, s, 3>> => net'[v] = net[v]
    BY <1>2, <2>1, <2>2
  <2>5. ASSUME NEW a \in Ranks, NEW b \in Ranks
        PROVE  /\ UNCHANGED <<net[<<a, b, 0>>], net[<<a, b, 1>>]>>
               /\ a # s \/ b # r => UNCHANGED <<net[<<a, b, 2>>], net[<<b, a, 3>>]>>
    <3>1. /\ <<a, b, 0>> \in Channels /\ <<a, b, 1>> \in Channels
          /\ <<a, b, 2>> \in Channels /\ <<b, a, 3>> \in Channels
      BY DEF Channels
    <3> QED
      BY <2>4, <3>1
  <2>6. DOMAIN net' = Channels
    BY <1>2, <2>2
  <2> QED
    BY <2>3, <2>5, <2>6, Tuples
<1>9. \A a \in Ranks : count'[a] = IF a = r THEN c + 1 ELSE count[a]
  BY <1>1, <1>2
<1>10. \A a, b : Needed(a, b)' = Needed(a, b)
  BY <1>1, PlanSame
<1>11. \A a \in Ranks : a # r => Turns(a)' = Turns(a) /\ Turn(a)' = Turn(a) /\ recv_r(Turn(a))' = recv_r(Turn(a))
  <2> SUFFICES ASSUME NEW a \in Ranks, a # r
               PROVE  Turns(a)' = Turns(a) /\ Turn(a)' = Turn(a) /\ recv_r(Turn(a))' = recv_r(Turn(a))
    OBVIOUS
  <2>1. Turns(a)' = Turns(a) /\ Turn(a)' = Turn(a)
    BY <1>1, <1>9, TurnSame
  <2> QED
    BY <1>1, <2>1 DEF recv_r
<1>12. \A a, b \in Ranks : (Asks(a, b)' <=> Asks(a, b)) /\ Values(a, b)' = Values(a, b)
  <2> SUFFICES ASSUME NEW a \in Ranks, NEW b \in Ranks
               PROVE  Asks(a, b)' <=> Asks(a, b)
    BY <1>1 DEF Values
  <2>1. CASE a = r
    BY <1>1, <2>1 DEF Asks
  <2>2. CASE a # r
    BY <1>1, <1>2, <1>11, <2>2 DEF Asks
  <2> QED
    BY <2>1, <2>2
<1>13. \A a, b \in Ranks : count[a] \in Nat /\ count'[a] \in Nat /\ count[a] <= count'[a] /\ Id(a, b) \in Nat
  BY <1>4, <1>9, CountTypes
<1>14. \A b \in Ranks : ~ Asks(r, b)
  BY <1>1 DEF Asks
<1>15. ASSUME NEW a \in Ranks, NEW b \in Ranks
       PROVE /\ net'[<<a, b, 2>>] = IF Asks(a, b)' /\ count'[b] <= Id(a, b)' THEN <<recv_cols'[a][b]>> ELSE << >>
             /\ net'[<<b, a, 3>>] = IF Asks(a, b)' /\ count'[b] > Id(a, b)' THEN <<Values(a, b)'>> ELSE << >>
  <2>0. /\ net[<<a, b, 2>>] = IF Asks(a, b) /\ count[b] <= Id(a, b) THEN <<recv_cols[a][b]>> ELSE << >>
        /\ net[<<b, a, 3>>] = IF Asks(a, b) /\ count[b] > Id(a, b) THEN <<Values(a, b)>> ELSE << >>
    BY DEF IInv, Exchanged
  <2>1. CASE a = s /\ b = r
    <3>1. Asks(s, r)' /\ Id(s, r)' = c /\ count'[r] = c + 1 /\ Values(s, r)' = w
      BY <1>0, <1>2, <1>5, <1>9, <1>12
    <3>2. ~ (c + 1 <= c) /\ c + 1 > c
      BY <1>4
    <3> QED
      BY <1>8, <2>1, <3>1, <3>2
  <2>2. CASE ~ (a = s /\ b = r)
    <3>1. Asks(a, b)' <=> Asks(a, b)
      BY <1>12
    <3>2. net'[<<a, b, 2>>] = net[<<a, b, 2>>] /\ net'[<<b, a, 3>>] = net[<<b, a, 3>>]
      BY <1>8, <2>2
    <3>3. Asks(a, b) => (count'[b] > Id(a, b) <=> count[b] > Id(a, b))
      <4>1. Asks(a, b) => Needed(a, b) # {}
        BY <1>3, Asking
      <4>2. Id(a, b) # c
        BY <1>7, <2>2
      <4> QED
        BY <1>4, <1>9, <4>1, <4>2
    <3>4. (count[b] <= Id(a, b) <=> ~ (count[b] > Id(a, b))) /\ (count'[b] <= Id(a, b) <=> ~ (count'[b] > Id(a, b)))
      BY <1>13
    <3>5. Id(a, b)' = Id(a, b) /\ recv_cols'[a][b] = recv_cols[a][b] /\ Values(a, b)' = Values(a, b)
      BY <1>1, <1>2, <1>12
    <3> QED
      BY <2>0, <3>1, <3>2, <3>3, <3>4, <3>5
  <2> QED
    BY <2>1, <2>2
<1>16. ASSUME NEW a \in Ranks, NEW b \in Ranks, Needed(a, b) # {}
       PROVE /\ count'[a] > Id(a, b) => count'[b] > Id(a, b)
             /\ count'[b] > Id(a, b) => count'[a] > Id(a, b) \/ Asks(a, b)'
  <2>0. /\ count[a] > Id(a, b) => count[b] > Id(a, b)
        /\ count[b] > Id(a, b) => count[a] > Id(a, b) \/ Asks(a, b)
    BY <1>3, <1>16, Agreed
  <2>1. CASE Id(a, b) = c
    <3>1. a = s /\ b = r /\ count'[b] = c + 1
      BY <1>7, <1>9, <2>1
    <3> QED
      BY <1>4, <1>5, <1>12, <2>1, <3>1
  <2>2. CASE Id(a, b) # c
    <3>1. /\ count'[a] > Id(a, b) <=> count[a] > Id(a, b)
          /\ count'[b] > Id(a, b) <=> count[b] > Id(a, b)
      BY <1>4, <1>9, <1>16, <2>2
    <3> QED
      BY <1>12, <2>0, <3>1
  <2> QED
    BY <2>1, <2>2
<1>17. \A a \in Ranks : Given(a)' = Given(a)
  <2> SUFFICES ASSUME NEW a \in Ranks
               PROVE  Given(a)' = Given(a)
    OBVIOUS
  <2>1. Given(a)' = UNION {Needed(a, t) : t \in {q \in Ranks : Id(a, q) < count'[a]}}
    BY <1>1, <1>2, <1>10 DEF Given
  <2>2. CASE a # r
    BY <1>9, <2>1, <2>2 DEF Given
  <2>3. CASE a = r
    <3>1. \A q \in Ranks : Needed(r, q) # {} => (Id(r, q) < count'[r] <=> Id(r, q) < count[r])
      <4> SUFFICES ASSUME NEW q \in Ranks, Needed(r, q) # {}
                   PROVE  Id(r, q) < count'[r] <=> Id(r, q) < count[r]
        OBVIOUS
      <4>1. c + 1 > Id(r, q) <=> count[r] > Id(r, q) \/ Id(r, q) = c
        BY <1>4
      <4>2. Id(r, q) # c
        BY <1>5, <1>7
      <4> QED
        BY <1>4, <1>9, <1>13, <4>1, <4>2
    <3> QED
      BY <2>1, <2>3, <3>1 DEF Given
  <2> QED
    BY <2>2, <2>3
<1>18. Exchanged'
  <2>1. ASSUME NEW a \in Ranks
        PROVE  /\ pc'[a] = "asked" => Turns(a)' # {} /\ recv_r(Turn(a))' = a
               /\ pc'[a] \in {"barrier3", "mult"} => Turns(a)' = {}
               /\ pc'[a] \notin {"share", "isend"}
               /\ DOMAIN vec'[a].mapped = Given(a)'
               /\ \A j \in Given(a)' : vec'[a].mapped[j] = input'.x[j + 1]
    <3>1. pc'[a] = "asked" => Turns(a)' # {} /\ recv_r(Turn(a))' = a
      BY <1>1, <1>11 DEF IInv, Exchanged
    <3>2. pc'[a] \in {"barrier3", "mult"} => Turns(a)' = {}
      BY <1>1, <1>11 DEF IInv, Exchanged
    <3>3. pc[a] \notin {"share", "isend"} /\ pc'[a] \notin {"share", "isend"}
      BY <1>1, <1>3 DEF InExchange
    <3>4. DOMAIN vec[a].mapped = Given(a) /\ \A j \in Given(a) : vec[a].mapped[j] = input.x[j + 1]
      BY <3>3 DEF IInv, Exchanged
    <3> QED
      BY <1>1, <1>17, <3>1, <3>2, <3>3, <3>4
  <2> QED
    BY <1>2, <1>10, <1>15, <1>16, <2>1 DEF Exchanged
<1> QED
  <2>1. \A q \in Ranks : vec'[q] = [vec[q] EXCEPT !.mapped = vec'[q].mapped]
    <3> SUFFICES ASSUME NEW q \in Ranks
                 PROVE  vec[q] = [vec[q] EXCEPT !.mapped = vec[q].mapped]
      BY <1>1
    <3> DEFINE v == vec[q].mapped
    <3>1. vec[q] = [Part("vec", q) EXCEPT !.mapped = v]
      BY <1>3, LateFacts
    <3> HIDE DEF v
    <3>2. vec[q] = [vec[q] EXCEPT !.mapped = v]
      BY <3>1 DEF Part
    <3> QED
      BY <3>2 DEF v
  <2>2. 0 \in Ranks /\ count' \in [Ranks -> 0 .. input.p * input.p]
    <3>1. 0 \in Ranks /\ count \in [Ranks -> 0 .. input.p * input.p]
      BY <1>3, InputTypes, LateFacts DEF IInv, Types
    <3> QED
      BY <1>1, <1>4, <3>1
  <2>3. DOMAIN vec' = Ranks /\ DOMAIN awaits' = Ranks
        /\ \A q \in Ranks : awaits'[q] \in Channels \cup {None}
    <3>1. DOMAIN vec = Ranks /\ DOMAIN awaits = Ranks /\ \A q \in Ranks : awaits[q] \in Channels \cup {None}
      BY DEF IInv, Types
    <3> QED
      BY <1>1, <3>1
  <2>4. \A q \in Ranks : UNCHANGED <<net[<<0, q, 0>>], net[<<0, q, 1>>]>>
    BY <1>8, <2>2
  <2>5. UNCHANGED <<input, aborted, which, pos, mat, buf, comm_map, recv_cols, res>>
        /\ pc[r] \in {"exchange", "asked"} /\ pc' = [pc EXCEPT ![r] = "exchange"]
    <3>1. pc \in [Ranks -> Labels]
      BY DEF IInv, Types
    <3> QED
      BY <1>1, <3>1
  <2> QED
    BY <1>8, <1>18, <2>1, <2>2, <2>3, <2>4, <2>5, ExchangeStep

-----------------------------------------------------------------------------
(***************************************************************************)
(* Every step keeps the invariant.                                         *)
(***************************************************************************)
LEMMA NextIInv == IInv /\ [Next]_vars => IInv'
<1> SUFFICES ASSUME IInv, [Next]_vars
             PROVE  IInv'
  OBVIOUS
<1>1. aborted \in BOOLEAN
  BY DEF IInv, Types
<1>2. CASE UNCHANGED vars
  <2>1. aborted' \in BOOLEAN
        /\ UNCHANGED <<input, pc, which, count, pos, mat, vec, buf, comm_map, recv_cols, res, net, awaits>>
    BY <1>1, <1>2 DEF vars
  <2> QED
    BY <2>1, OnlyAborted
<1>3. ASSUME NEW r \in Ranks, Rank(r)
      PROVE  IInv'
  <2>1. CASE Share
    BY <2>1, ShareStep
  <2>2. CASE ShareAborts
    <3>1. aborted' \in BOOLEAN
          /\ UNCHANGED <<input, pc, which, count, pos, mat, vec, buf, comm_map, recv_cols, res, net, awaits>>
      BY <2>2 DEF ShareAborts, Abort
    <3> QED
      BY <3>1, OnlyAborted
  <2>3. CASE IsendShare
    BY <2>3, IsendStep
  <2>4. CASE EndOfShares
    BY <2>4, EndOfSharesStep
  <2>5. CASE RecvSize(r)
    BY <2>5, RecvSizeStep
  <2>6. CASE RecvPart(r)
    BY <2>6, RecvPartStep
  <2>7. CASE BuildSchedule(r)
    BY <2>7, BuildScheduleStep
  <2>8. CASE AskCols(r)
    BY <2>8, AskColsStep
  <2>9. CASE GetValues(r)
    BY <2>9, GetValuesStep
  <2>10. CASE Answer(r)
    BY <2>10, AnswerStep
  <2>11. CASE EndOfExchange(r)
    BY <2>11, EndOfExchangeStep
  <2>12. CASE Multiply(r)
    BY <2>12, MultiplyStep
  <2> QED
    BY <1>3, <2>1, <2>2, <2>3, <2>4, <2>5, <2>6, <2>7, <2>8, <2>9, <2>10, <2>11, <2>12 DEF Rank
<1>4. CASE Gather
  BY <1>4, GatherStep
<1>5. CASE Barrier
  BY <1>5, BarrierStep
<1>6. CASE Over
  BY <1>2, <1>6 DEF Over
<1> QED
  BY <1>2, <1>3, <1>4, <1>5, <1>6 DEF Next

\* The invariant holds for any number of ranks, sorted file or not.
THEOREM AlwaysIInv == Spec => []IInv
<1> QED
  BY InitIInv, NextIInv, PTL DEF Spec

-----------------------------------------------------------------------------
(***************************************************************************)
(* What follows from it.                                                   *)
(***************************************************************************)
LEMMA IInvTypeOK == IInv => TypeOK
<1> SUFFICES ASSUME IInv
             PROVE  TypeOK
  OBVIOUS
<1>1. ASSUME NEW r \in Ranks
      PROVE  /\ DOMAIN mat[r].rows = mat[r].from .. mat[r].to
             /\ DOMAIN vec[r].rows = vec[r].from .. vec[r].to
             /\ DOMAIN vec[r].mapped \subseteq Rows \ (vec[r].from .. vec[r].to)
  <2>1. DOMAIN mat[r].rows = mat[r].from .. mat[r].to
    <3>1. mat[r] = Part("mat", r) \/ mat[r] = NoMatrix
      BY DEF IInv, SharesArrive, Arrival
    <3>2. CASE mat[r] = Part("mat", r)
      BY <3>2 DEF Part
    <3>3. CASE mat[r] = NoMatrix
      BY <3>3 DEF NoMatrix
    <3> QED
      BY <3>1, <3>2, <3>3
  <2>2. DOMAIN vec[r].rows = vec[r].from .. vec[r].to
    <3> DEFINE m == vec[r].mapped
    <3>1. vec[r] = [Part("vec", r) EXCEPT !.mapped = m] \/ vec[r] = NoMatrix
      BY DEF IInv, SharesArrive, Arrival
    <3> HIDE DEF m
    <3>2. CASE vec[r] = [Part("vec", r) EXCEPT !.mapped = m]
      BY <3>2 DEF Part
    <3>3. CASE vec[r] = NoMatrix
      BY <3>3 DEF NoMatrix
    <3> QED
      BY <3>1, <3>2, <3>3
  <2>3. DOMAIN vec[r].mapped \subseteq Rows \ (vec[r].from .. vec[r].to)
    <3>1. CASE pc[r] \in Early
      BY <3>1, EarlyFacts
    <3>2. CASE pc[r] \notin Early
      <4>1. Late
        BY <3>2, LatePhases
      <4>2. DOMAIN vec[r].mapped = Given(r)
        BY <3>2 DEF IInv, Exchanged, Early
      <4>3. /\ input \in Inputs /\ partition_size > 0 /\ mat[r] = Part("mat", r)
            /\ vec[r].from = FromRow(r) /\ vec[r].to = ToRow(r)
        BY <4>1, LateFacts
      <4>4. \A s \in Ranks : Needed(r, s) \subseteq Rows \ (vec[r].from .. vec[r].to)
        BY <4>3, Needs
      <4> QED
        BY <4>2, <4>4 DEF Given
    <3> QED
      BY <3>1, <3>2
  <2> QED
    BY <2>1, <2>2, <2>3
<1> QED
  BY <1>1 DEF IInv, Types, TypeOK

\* The size of a share that is under way.
LEMMA SizeIsInt ==
    ASSUME input \in Inputs, partition_size > 0, NEW r \in Ranks, NEW f \in {"mat", "vec"}
    PROVE  Parcel(f, r).bufsize \in Int
<1>1. FromRow(r) \in Nat /\ ToRow(r) \in Nat /\ ToRow(r) <= input.n - 1
  BY ShareBounds
<1>2. /\ input.n \in Nat /\ Len(input.cells) \in Nat
      /\ DOMAIN input.cells = 1 .. Len(input.cells)
  BY InputTypes
<1> DEFINE lines == UNION {Part(f, r).rows[i] : i \in Part(f, r).from .. Part(f, r).to}
<1>3. IsFiniteSet(lines)
  <2>1. CASE f = "mat"
    <3>1. lines \subseteq 1 .. Len(input.cells)
      BY <1>2, <2>1 DEF Part, Seen
    <3>2. IsFiniteSet(1 .. Len(input.cells))
      BY <1>2, FS_Interval
    <3> HIDE DEF lines
    <3> QED
      BY <3>1, <3>2, FS_Subset
  <2>2. CASE f = "vec"
    <3>1. lines \subseteq 1 .. input.n
      BY <1>1, <1>2, <2>2 DEF Part
    <3>2. IsFiniteSet(1 .. input.n)
      BY <1>2, FS_Interval
    <3> HIDE DEF lines
    <3> QED
      BY <3>1, <3>2, FS_Subset
  <2> QED
    BY <2>1, <2>2
<1>4. Cardinality(lines) \in Nat
  BY <1>3, FS_CardinalityType
<1>5. Part(f, r).from = FromRow(r) /\ Part(f, r).to = ToRow(r)
  BY DEF Part
<1>6. Parcel(f, r).bufsize = NumRows(Part(f, r)) + Cardinality(lines)
  BY DEF Parcel, matrix_serialize
<1> HIDE DEF lines
<1> QED
  BY <1>1, <1>4, <1>5, <1>6 DEF NumRows

LEMMA BufferFits ==
    ASSUME IInv, NEW r \in Ranks, pc[r] = "part", Arrived(r, 0, 1)
    PROVE  Message(r, 0, 1).bufsize <= buf[r]
<1>1. /\ r # 0 /\ input \in Inputs /\ r \in Nat /\ 0 \in Ranks
      /\ which[r] \in {"mat", "vec"} /\ which[0] \in {"mat", "vec"}
  BY InputTypes DEF IInv, Types, Together
<1>2. /\ \A f \in {"mat", "vec"} : which[r] = f => Announced(f, r) /\ buf[r] = Parcel(f, r).bufsize
      /\ net[<<0, r, 1>>] = Line(Sent("mat", r) /\ ~ Has("mat", r), Parcel("mat", r),
                                 Sent("vec", r) /\ ~ Has("vec", r), Parcel("vec", r))
  BY <1>1 DEF IInv, SharesArrive, Arrival, Told
<1>3. partition_size > 0
  <2>1. count[0] \in Nat
    BY <1>1, CountTypes
  <2>2. ~ Reading \/ which[0] = "vec" \/ Coming > 0
    BY <1>1, <1>2, <2>1 DEF Announced, Sent, Coming
  <2> QED
    BY <2>2 DEF IInv, SharesRead
<1>4. net[<<0, r, 1>>] # << >>
  BY DEF Arrived
<1>5. Sent("vec", r) => Sent("mat", r)
  BY DEF Sent
<1>6. ASSUME NEW f \in {"mat", "vec"}, which[r] = f
      PROVE  Head(net[<<0, r, 1>>]) = Parcel(f, r)
  <2>1. CASE f = "mat"
    <3>1. ~ Has("mat", r)
      BY <1>1, <1>6, <2>1 DEF Has
    <3>2. Sent("mat", r)
      BY <1>2, <1>4, <1>5 DEF Line
    <3>3. \/ net[<<0, r, 1>>] = <<Parcel("mat", r)>>
          \/ net[<<0, r, 1>>] = <<Parcel("mat", r), Parcel("vec", r)>>
      BY <1>2, <3>1, <3>2 DEF Line
    <3> QED
      BY <2>1, <3>3, Tuples
  <2>2. CASE f = "vec"
    <3>1. Has("mat", r)
      BY <1>1, <1>6, <2>2 DEF Has
    <3>2. net[<<0, r, 1>>] = <<Parcel("vec", r)>>
      BY <1>2, <1>4, <3>1 DEF Line
    <3> QED
      BY <2>2, <3>2, Tuples
  <2> QED
    BY <2>1, <2>2
<1> DEFINE f == which[r]
<1>7. f \in {"mat", "vec"} /\ Head(net[<<0, r, 1>>]) = Parcel(f, r) /\ buf[r] = Parcel(f, r).bufsize
  BY <1>1, <1>2, <1>6
<1> HIDE DEF f
<1>8. Parcel(f, r).bufsize \in Int
  BY <1>1, <1>3, <1>7, SizeIsInt
<1> QED
  BY <1>7, <1>8 DEF Message

LEMMA AskedForItsOwn ==
    ASSUME IInv, NEW r \in Ranks, Asked(r)
    PROVE  /\ Len(Request(r)) = NumCells(r, Turn(r))
           /\ \A j \in Range(Request(r)) : HasRow(r, j)
<1> DEFINE Fixed(c, s) == c = Turn(r) /\ s = recv_r(c)
<1> SUFFICES ASSUME NEW c, NEW s, Fixed(c, s)
             PROVE  /\ Len(Request(r)) = NumCells(r, c)
                    /\ \A j \in Range(Request(r)) : HasRow(r, j)
  OBVIOUS
<1>0. Turn(r) = c /\ recv_r(c) = s
  OBVIOUS
<1> HIDE DEF Fixed
<1>1. /\ Late /\ s \in Ranks /\ send_r(c) = r /\ Id(s, r) = c
      /\ net[<<s, r, 2>>] = <<recv_cols[s][r]>>
      /\ recv_cols[s][r] \in Schedules(s, r)
      /\ \A j \in Needed(s, r) : HasRow(r, j)
  BY <1>0, Question
<1>2. Request(r) = recv_cols[s][r]
  BY <1>0, <1>1, Tuples DEF Request, Message
<1> DEFINE q == recv_cols[s][r]  k == Cardinality(Needed(s, r))
<1>3. Range(q) = Needed(s, r) /\ q \in [1 .. k -> Needed(s, r)]
  BY <1>1 DEF Schedules
<1>4. k \in Nat
  BY <1>1, LateFacts, Needs
<1>5. NumCells(r, c) = k
  <2>1. pc[r] \in InExchange
    BY DEF Asked, At, InExchange
  <2>2. c \in 0 .. input.p * input.p - 1
    BY <1>1, LateFacts, IdParts
  <2>3. NumCells(r, c) = Cardinality(Needed(recv_r(c), send_r(c)))
    BY <1>1, <2>1, <2>2, Plan
  <2> QED
    BY <1>0, <1>1, <2>3
<1> HIDE DEF q, k
<1>6. Len(q) = k
  BY <1>3, <1>4
<1> QED
  BY <1>1, <1>2, <1>3, <1>5, <1>6 DEF q

LEMMA IInvAssertions == IInv => AssertionsHold
<1> SUFFICES ASSUME IInv, NEW r \in Ranks
             PROVE  /\ pc[r] = "part" /\ Arrived(r, 0, 1) => Message(r, 0, 1).bufsize <= buf[r]
                    /\ pc[r] = "exchange" /\ Turns(r) # {} => send_r(Turn(r)) # recv_r(Turn(r))
                    /\ Asked(r) => /\ Len(Request(r)) = NumCells(r, Turn(r))
                                   /\ \A j \in Range(Request(r)) : HasRow(r, j)
                    /\ pc[r] = "mult" => \A j \in Columns(r) : HasRow(r, j)
  BY DEF AssertionsHold
<1>1. pc[r] = "part" /\ Arrived(r, 0, 1) => Message(r, 0, 1).bufsize <= buf[r]
  BY BufferFits
<1>2. ASSUME pc[r] = "exchange", Turns(r) # {}
      PROVE  send_r(Turn(r)) # recv_r(Turn(r))
  <2>1. Late /\ pc[r] \in InExchange
    BY <1>2, LatePhases DEF Early, InExchange
  <2> QED
    BY <1>2, <2>1, Passes
<1>3. pc[r] = "mult" => \A j \in Columns(r) : HasRow(r, j)
  <2>1. pc[r] = "mult" => Late
    BY LatePhases DEF Early
  <2> QED
    BY <2>1, HasAll
<1> QED
  BY <1>1, <1>2, <1>3, AskedForItsOwn

LEMMA IInvProduct == IInv => ProductCorrect
<1> SUFFICES ASSUME IInv
             PROVE  ProductCorrect
  OBVIOUS
<1>1. ASSUME NEW r \in Ranks, pc[r] \in {"barrier4", "done"}
      PROVE  /\ DOMAIN res[r] = FromRow(r) .. ToRow(r)
             /\ mat[r].from = FromRow(r) /\ mat[r].to = ToRow(r)
             /\ \A i \in DOMAIN res[r] :
                  res[r][i] = Total([k \in LinesOf(i) |-> input.cells[k].val * input.x[input.cells[k].j + 1]])
  <2>1. Late
    BY <1>1, LatePhases DEF Early
  <2>2. mat[r].from = FromRow(r) /\ mat[r].to = ToRow(r)
    BY <2>1, LateFacts
  <2>3. res[r] = [i \in FromRow(r) .. ToRow(r) |->
                    Total([k \in LinesOf(i) |-> input.cells[k].val * input.x[input.cells[k].j + 1]])]
    BY <1>1 DEF IInv, Multiplied
  <2> QED
    BY <2>2, <2>3
<1>2. ASSUME AllDone, NEW i \in Rows
      PROVE  \E r \in Ranks : i \in DOMAIN res[r] /\ \A s \in Ranks \ {r} : i \notin DOMAIN res[s]
  <2>1. \A r \in Ranks : pc[r] = "done" /\ DOMAIN res[r] = FromRow(r) .. ToRow(r)
    BY <1>1, <1>2 DEF AllDone
  <2>2. Late
    BY <2>1 DEF Late
  <2>3. input \in Inputs /\ partition_size > 0
    BY <2>2, LateFacts
  <2>4. /\ src_r(i) \in Ranks /\ i \in FromRow(src_r(i)) .. ToRow(src_r(i))
        /\ \A s \in Ranks : i \in FromRow(s) .. ToRow(s) => s = src_r(i)
    BY <2>3, Owner
  <2> QED
    BY <2>1, <2>4
<1> QED
  BY <1>1, <1>2 DEF ProductCorrect

\* Every rank is always at a place of hw5.c, its partitions begin and end
\* where they say, and it maps rows of the vector that are not its own.
THEOREM TypeCorrect == Spec => []TypeOK
<1> QED
  BY AlwaysIInv, IInvTypeOK, PTL

\* No assertion of mpi_matrix.c fails but those on the size of a share: the
\* buffer announced holds the partition, a rank is asked for rows it owns and
\* never by itself, and has all the rows its columns need when it multiplies.
THEOREM NoAssertionFails == Spec => []AssertionsHold
<1> QED
  BY AlwaysIInv, IInvAssertions, PTL

\* The ranks' rows of the result are the product of the matrix and the vector
\* in the files, and at the end every row is in exactly one rank's share.
THEOREM ProductIsRight == Spec => []ProductCorrect
<1> QED
  BY AlwaysIInv, IInvProduct, PTL

-----------------------------------------------------------------------------
(***************************************************************************)
(* No deadlock.  The message an MPI_Send waits to see received is the size *)
(* of the share that is being sent, or a question of its own.              *)
(***************************************************************************)
Awaited ==
    \A r \in Ranks :
       \/ awaits[r] = None
       \/ r = 0 /\ pc[0] = "isend" /\ awaits[0] = <<0, count[0], 0>>
       \/ \E s \in Ranks : awaits[r] = <<r, s, 2>>

\* A rank that sends sets what it waits for, the others go on waiting.
LEMMA AwaitedStays ==
    ASSUME IInv, Awaited, input' = input, NEW r \in Ranks, NEW w, awaits' = [awaits EXCEPT ![r] = w],
           \/ w = None
           \/ r = 0 /\ pc'[0] = "isend" /\ w = <<0, count'[0], 0>>
           \/ \E s \in Ranks : w = <<r, s, 2>>,
           r # 0 => pc'[0] = pc[0] /\ count'[0] = count[0]
    PROVE  Awaited'
<1>1. Ranks' = Ranks /\ DOMAIN awaits = Ranks
  BY InputSame DEF IInv, Types
<1>2. awaits'[r] = w /\ \A q \in Ranks : q # r => awaits'[q] = awaits[q]
  BY <1>1
<1>3. ASSUME NEW q \in Ranks
      PROVE  \/ awaits'[q] = None
             \/ q = 0 /\ pc'[0] = "isend" /\ awaits'[0] = <<0, count'[0], 0>>
             \/ \E s \in Ranks : awaits'[q] = <<q, s, 2>>
  <2>1. CASE q = r
    BY <1>2, <2>1
  <2>2. CASE q # r
    <3>1. awaits'[q] = awaits[q]
      BY <1>2, <2>2
    <3>2. CASE awaits[q] = None
      BY <3>1, <3>2
    <3>3. CASE q = 0 /\ pc[0] = "isend" /\ awaits[0] = <<0, count[0], 0>>
      <4>1. pc'[0] = pc[0] /\ count'[0] = count[0]
        BY <2>2, <3>3
      <4> QED
        BY <3>1, <3>3, <4>1
    <3>4. CASE \E s \in Ranks : awaits[q] = <<q, s, 2>>
      BY <3>1, <3>4
    <3> QED
      BY <3>2, <3>3, <3>4 DEF Awaited
  <2> QED
    BY <2>1, <2>2
<1> QED
  BY <1>1, <1>3 DEF Awaited

LEMMA AwaitedSame ==
    ASSUME IInv, Awaited, UNCHANGED <<input, awaits>>,
           pc[0] = "isend" => pc'[0] = "isend" /\ count'[0] = count[0]
    PROVE  Awaited'
<1>1. Ranks' = Ranks
  BY InputSame
<1> QED
  BY <1>1 DEF Awaited

LEMMA InitAwaited == Init => Awaited
BY DEF Init, Awaited

\* Only rank 0 is ever at "isend", and only it counts there.
LEMMA NextAwaited == IInv /\ Awaited /\ [Next]_vars => Awaited'
<1> SUFFICES ASSUME IInv, Awaited, [Next]_vars
             PROVE  Awaited'
  OBVIOUS
<1>1. /\ DOMAIN pc = Ranks /\ DOMAIN count = Ranks /\ 0 \in Ranks
      /\ \A r \in Ranks : r # 0 => pc[r] \notin {"share", "isend"}
  BY InputTypes DEF IInv, Types, Together
<1>2. CASE UNCHANGED vars
  <2>1. UNCHANGED <<input, awaits, pc, count>>
    BY <1>2 DEF vars
  <2> QED
    BY <2>1, AwaitedSame
<1>3. ASSUME NEW r \in Ranks, Rank(r)
      PROVE  Awaited'
  <2>1. CASE Share
    <3>1. /\ pc[0] = "share" /\ input' = input
          /\ \/ awaits' = awaits
             \/ SendTo(0, count[0], 0, matrix_serialize([from |-> FromRow(count[0]), to |-> ToRow(count[0]),
                    rows |-> matrix_read_rows(which[0], FromRow(count[0]), ToRow(count[0])), mapped |-> << >>]).bufsize)
                /\ pc' = [pc EXCEPT ![0] = "isend"] /\ count' = count
      BY <2>1 DEF Share, At, Goto
    <3>2. CASE awaits' = awaits
      BY <3>1, <3>2, AwaitedSame
    <3>3. CASE /\ pc' = [pc EXCEPT ![0] = "isend"] /\ count' = count
               /\ \E w \in {None, <<0, count[0], 0>>} : awaits' = [awaits EXCEPT ![0] = w]
      <4>1. PICK w \in {None, <<0, count[0], 0>>} : awaits' = [awaits EXCEPT ![0] = w]
        BY <3>3
      <4>2. pc'[0] = "isend" /\ count'[0] = count[0]
        BY <1>1, <3>3
      <4>3. w = None \/ w = <<0, count'[0], 0>>
        BY <4>1, <4>2
      <4> QED
        BY <1>1, <3>1, <4>1, <4>2, <4>3, AwaitedStays
    <3> QED
      BY <3>1, <3>2, <3>3 DEF SendTo
  <2>2. CASE ShareAborts
    <3>1. UNCHANGED <<input, awaits, pc, count>>
      BY <2>2 DEF ShareAborts, Abort
    <3> QED
      BY <3>1, AwaitedSame
  <2>3. CASE IsendShare
    <3>1. input' = input /\ awaits' = [awaits EXCEPT ![0] = None]
      BY <2>3 DEF IsendShare, Isend
    <3> QED
      BY <1>1, <3>1, AwaitedStays
  <2>4. CASE EndOfShares
    <3>1. pc[0] = "share" /\ UNCHANGED <<input, awaits>>
      BY <2>4 DEF EndOfShares, At
    <3> QED
      BY <3>1, AwaitedSame
  <2>5. CASE RecvSize(r) \/ RecvPart(r) \/ BuildSchedule(r) \/ GetValues(r) \/ EndOfExchange(r) \/ Multiply(r)
    <3>1. /\ UNCHANGED <<input, awaits>> /\ pc[r] # "isend"
          /\ \E l : pc' = [pc EXCEPT ![r] = l]
          /\ count' = count \/ \E n : count' = [count EXCEPT ![r] = n]
      <4>1. CASE RecvSize(r)
        BY <4>1 DEF RecvSize, At, Goto
      <4>2. CASE RecvPart(r)
        BY <4>2 DEF RecvPart, NextFile, At, Goto
      <4>3. CASE BuildSchedule(r)
        BY <4>3 DEF BuildSchedule, At, Goto
      <4>4. CASE GetValues(r)
        BY <4>4 DEF GetValues, At, Goto
      <4>5. CASE EndOfExchange(r)
        BY <4>5 DEF EndOfExchange, At, Goto
      <4>6. CASE Multiply(r)
        BY <4>6 DEF Multiply, At, Goto
      <4> QED
        BY <2>5, <4>1, <4>2, <4>3, <4>4, <4>5, <4>6
    <3>2. ASSUME pc[0] = "isend"
          PROVE  pc'[0] = "isend" /\ count'[0] = count[0]
      <4>1. r # 0
        BY <3>1, <3>2
      <4> QED
        BY <1>1, <3>1, <3>2, <4>1
    <3> QED
      BY <3>1, <3>2, AwaitedSame
  <2>6. CASE AskCols(r) \/ Answer(r)
    <3>1. /\ input' = input /\ pc[r] = "exchange"
          /\ \E s : \E w \in {None, <<r, s, 2>>} : awaits' = [awaits EXCEPT ![r] = w]
                                                   /\ (w # None => s = send_r(Turn(r)))
          /\ pc' = pc \/ \E l : pc' = [pc EXCEPT ![r] = l]
          /\ count' = count \/ \E n : count' = [count EXCEPT ![r] = n]
      <4>1. CASE AskCols(r)
        BY <4>1 DEF AskCols, At, Goto, SendTo
      <4>2. CASE Answer(r)
        BY <4>2 DEF Answer, Asked, At
      <4> QED
        BY <2>6, <4>1, <4>2
    <3>2. PICK s, w : /\ w \in {None, <<r, s, 2>>} /\ awaits' = [awaits EXCEPT ![r] = w]
                      /\ w # None => s = send_r(Turn(r))
      BY <3>1
    <3>3. Late /\ Turns(r) # {} /\ pc[r] \in InExchange
      <4>1. Turns(r) # {}
        BY <2>6 DEF AskCols, Answer, Asked
      <4> QED
        BY <3>1, <4>1, LatePhases DEF Early, InExchange
    <3>4. send_r(Turn(r)) \in Ranks
      BY <3>3, Passes
    <3>5. w = None \/ \E t \in Ranks : w = <<r, t, 2>>
      BY <3>2, <3>4
    <3>6. r # 0 => pc'[0] = pc[0] /\ count'[0] = count[0]
      BY <1>1, <3>1
    <3> QED
      BY <3>1, <3>2, <3>5, <3>6, AwaitedStays
  <2> QED
    BY <1>3, <2>1, <2>2, <2>3, <2>4, <2>5, <2>6 DEF Rank
<1>4. CASE Gather
  <2>1. pc[0] # "isend" /\ UNCHANGED <<input, awaits>>
    BY <1>1, <1>4 DEF Gather, At
  <2> QED
    BY <2>1, AwaitedSame
<1>5. CASE Barrier
  <2>1. pc[0] # "isend" /\ UNCHANGED <<input, awaits>>
    BY <1>1, <1>5 DEF Barrier, At, After
  <2> QED
    BY <2>1, AwaitedSame
<1>6. CASE Over
  BY <1>2, <1>6 DEF Over
<1> QED
  BY <1>2, <1>3, <1>4, <1>5, <1>6 DEF Next

\* A question waits for its answer at once, so nobody else waits in MPI_Send.
LEMMA NotInSend ==
    ASSUME IInv, Awaited, ~ aborted, NEW r \in Ranks, pc[r] \notin {"isend", "asked"}
    PROVE  At(r, pc[r])
<1>1. ASSUME awaits[r] # None
      PROVE  net[awaits[r]] = << >>
  <2>1. PICK s \in Ranks : awaits[r] = <<r, s, 2>>
    BY <1>1 DEF Awaited
  <2>2. ~ Asks(r, s)
    BY DEF Asks
  <2>3. net[<<r, s, 2>>] = << >>
    BY <2>2 DEF IInv, Exchanged
  <2> QED
    BY <2>1, <2>3
<1> QED
  BY <1>1 DEF At

\* While the files are read, a rank that waits for its share or the size of it
\* has it coming once rank 0 has sent it.
LEMMA ShareComes ==
    ASSUME IInv, Awaited, ~ aborted, NEW r \in Ranks \ {0}, pc[r] \in {"size", "part"},
           NEW f, f = which[r],
           pc[r] = "size" => Announced(f, r),
           pc[r] = "part" => Sent(f, r)
    PROVE  CanMove(r)
<1>1. f \in {"mat", "vec"} /\ Arrival(r)
  BY DEF IInv, Types, SharesArrive
<1>2. At(r, pc[r])
  BY NotInSend
<1>3. ~ Has(f, r)
  BY <1>1 DEF Has
<1>4. CASE pc[r] = "size"
  <2>1. ~ Told(f, r)
    BY <1>3, <1>4 DEF Told
  <2>2. Announced(f, r)
    BY <1>4
  <2>3. net[<<0, r, 0>>] # << >>
    BY <1>1, <2>1, <2>2, Tuples DEF Arrival, Line
  <2> QED
    BY <1>2, <1>4, <2>3 DEF CanMove, Arrived
<1>5. CASE pc[r] = "part"
  <2>1. Sent(f, r)
    BY <1>5
  <2>2. net[<<0, r, 1>>] # << >>
    BY <1>1, <1>3, <2>1, Tuples DEF Arrival, Line
  <2> QED
    BY <1>2, <1>5, <2>2 DEF CanMove, Arrived
<1> QED
  BY <1>4, <1>5

LEMMA EarlyMoves ==
    ASSUME IInv, Awaited, ~ aborted, pc[0] \in Early
    PROVE  \/ \E r \in Ranks : CanMove(r)
           \/ \A r \in Ranks : At(r, "barrier1")
<1>1. 0 \in Ranks /\ input.p \in Nat \ {0} /\ pc[0] \notin {"size", "part"}
  BY InputTypes DEF IInv, Types, Together
<1>2. \A r \in Ranks : /\ pc[r] \in Early
                       /\ r # 0 => pc[r] \in {"size", "part", "barrier1"}
  BY <1>1, EarlyFacts DEF IInv, Together, Early
<1>3. CASE pc[0] = "share"
  BY <1>1, <1>3, NotInSend DEF CanMove
<1>4. CASE pc[0] = "isend"
  <2>1. CASE awaits[0] = None \/ net[awaits[0]] = << >>
    BY <1>1, <1>4, <2>1 DEF CanMove, At
  <2>2. CASE awaits[0] # None /\ net[awaits[0]] # << >>
    <3> DEFINE c == count[0]
    <3>1. awaits[0] = <<0, c, 0>>
      <4>1. \A s \in Ranks : net[<<0, s, 2>>] = << >>
        BY <1>1, <1>2, EarlyFacts
      <4> QED
        BY <1>1, <2>2, <4>1 DEF Awaited
    <3>2. c \in Ranks \ {0}
      <4>1. c \in 1 .. input.p - 1
        BY <1>4 DEF IInv, SharesRead
      <4> QED
        BY <1>1, <4>1 DEF Ranks
    <3>3. net[<<0, c, 0>>] # << >> /\ pc[c] \in {"size", "part", "barrier1"}
      BY <1>2, <2>2, <3>1, <3>2
    <3> HIDE DEF c
    <3>4. Arrival(c) /\ which[c] \in {"mat", "vec"} /\ which[0] \in {"mat", "vec"}
      BY <1>1, <3>2 DEF IInv, Types, SharesArrive
    <3>5. \E f \in {"mat", "vec"} : Announced(f, c) /\ ~ Told(f, c)
      BY <3>2, <3>3, <3>4 DEF Arrival, Line
    <3>6. pc[c] # "barrier1"
      BY <3>2, <3>5 DEF Told, Has
    <3>7. CASE pc[c] = "size"
      <4>1. Announced(which[c], c)
        BY <3>2, <3>4, <3>5, <3>7, <1>4 DEF Announced, Sent, Told, Has
      <4> QED
        BY <3>2, <3>7, <4>1, ShareComes
    <3>8. CASE pc[c] = "part"
      <4>1. Sent(which[c], c)
        BY <3>2, <3>4, <3>5, <3>8, <1>4 DEF Announced, Sent, Told, Has, Arrival
      <4> QED
        BY <3>2, <3>8, <4>1, ShareComes
    <3> QED
      BY <3>2, <3>3, <3>6, <3>7, <3>8
  <2> QED
    BY <2>1, <2>2
<1>5. CASE pc[0] = "barrier1"
  <2>1. \A f, r : Sent(f, r) /\ Announced(f, r)
    BY <1>5 DEF Sent, Announced, Reading
  <2>2. CASE \E r \in Ranks : pc[r] # "barrier1"
    <3>1. PICK r \in Ranks : pc[r] # "barrier1"
      BY <2>2
    <3>2. r # 0 /\ pc[r] \in {"size", "part"}
      BY <1>2, <1>5, <3>1
    <3> QED
      BY <2>1, <3>2, ShareComes
  <2>3. CASE \A r \in Ranks : pc[r] = "barrier1"
    BY <2>3, NotInSend
  <2> QED
    BY <2>2, <2>3
<1> QED
  BY <1>1, <1>3, <1>4, <1>5 DEF Early

\* The ranks whose next exchange comes first in the order of comm_id can go on
\* with it: all other exchanges of both come later.
LEMMA ExchangeMoves ==
    ASSUME IInv, Awaited, ~ aborted, \A r \in Ranks : pc[r] \in InExchange
    PROVE  \/ \E r \in Ranks : CanMove(r)
           \/ \A r \in Ranks : At(r, "barrier3")
<1>1. 0 \in Ranks /\ input \in Inputs
  BY InputTypes DEF IInv, Types
<1>2. Late /\ pc[0] # "isend"
  BY <1>1 DEF Late, InExchange
<1>3. CASE \A r \in Ranks : pc[r] = "barrier3"
  BY <1>3, NotInSend
<1>4. CASE \E r \in Ranks : pc[r] = "exchange" /\ Turns(r) = {}
  <2>1. PICK r \in Ranks : pc[r] = "exchange" /\ Turns(r) = {}
    BY <1>4
  <2>2. At(r, "exchange")
    BY <2>1, NotInSend
  <2> QED
    BY <2>1, <2>2 DEF CanMove
<1>5. CASE /\ \E r \in Ranks : pc[r] # "barrier3"
           /\ \A r \in Ranks : pc[r] = "exchange" => Turns(r) # {}
  <2>1. \A r \in Ranks : pc[r] # "barrier3" <=> Turns(r) # {}
    BY <1>5 DEF IInv, Exchanged, InExchange
  <2> DEFINE First == {Turn(r) : r \in {q \in Ranks : Turns(q) # {}}}
  <2>2. First # {} /\ First \in SUBSET Nat
    <3>1. \A r \in Ranks : Turns(r) # {} => Turn(r) \in Nat
      BY <1>2, Passes
    <3> QED
      BY <1>5, <2>1, <3>1
  <2>3. PICK c \in First : \A d \in First : c <= d
    <3> HIDE DEF First
    <3> QED
      BY <2>2, Least
  <2>4. PICK q \in Ranks : Turns(q) # {} /\ c = Turn(q)
    BY <2>3
  <2>5. \A r \in Ranks : Turns(r) # {} => c <= Turn(r)
    BY <2>3
  <2> HIDE DEF First
  <2>6. /\ c \in Nat /\ count[q] <= c /\ q \in {recv_r(c), send_r(c)}
        /\ recv_r(c) \in Ranks /\ send_r(c) \in Ranks /\ recv_r(c) # send_r(c)
        /\ Id(recv_r(c), send_r(c)) = c /\ Needed(recv_r(c), send_r(c)) # {}
    BY <1>2, <2>4, Passes
  <2> DEFINE a == recv_r(c)  b == send_r(c)
  <2>7. /\ a \in Ranks /\ b \in Ranks /\ a # b /\ Id(a, b) = c /\ Needed(a, b) # {} /\ q \in {a, b}
        /\ recv_r(c) = a /\ send_r(c) = b
    BY <2>6
  <2> HIDE DEF a, b
  <2>8. count[a] \in Nat /\ count[b] \in Nat
    BY <2>7, CountTypes
  <2>9. ASSUME NEW r \in {a, b}, count[r] <= c
        PROVE  Turns(r) # {} /\ Turn(r) = c /\ pc[r] \in {"exchange", "asked"}
    <3>1. c \in Turns(r)
      BY <1>2, <2>7, <2>9, Plan
    <3>2. Turn(r) \in Nat /\ Turn(r) <= c
      BY <1>2, <2>7, <3>1, Plan, Passes
    <3>3. c <= Turn(r)
      BY <2>5, <2>7, <3>1
    <3>4. pc[r] \in {"exchange", "asked"}
      BY <2>1, <2>7, <3>1 DEF InExchange
    <3> QED
      BY <2>6, <3>1, <3>2, <3>3, <3>4
  <2>10. /\ count[a] > c => count[b] > c
         /\ count[b] > c => count[a] > c \/ Asks(a, b)
    BY <2>7, Agreed
  <2>11. /\ net[<<a, b, 2>>] = IF Asks(a, b) /\ count[b] <= c THEN <<recv_cols[a][b]>> ELSE << >>
         /\ net[<<b, a, 3>>] = IF Asks(a, b) /\ count[b] > c THEN <<Values(a, b)>> ELSE << >>
    BY <2>7 DEF IInv, Exchanged
  <2>12. CASE count[b] <= c
    <3>1. count[a] <= c
      BY <2>6, <2>8, <2>10, <2>12
    <3>2. Turns(a) # {} /\ Turn(a) = c /\ pc[a] \in {"exchange", "asked"}
      BY <2>9, <3>1
    <3>3. Turns(b) # {} /\ Turn(b) = c /\ pc[b] \in {"exchange", "asked"}
      BY <2>9, <2>12
    <3>4. pc[b] = "exchange"
      BY <2>7, <3>3 DEF IInv, Exchanged
    <3>5. CASE pc[a] = "exchange"
      <4>1. At(a, "exchange")
        BY <2>7, <3>5, NotInSend
      <4> QED
        BY <2>7, <3>2, <4>1 DEF CanMove
    <3>6. CASE pc[a] = "asked"
      <4>1. Asks(a, b)
        BY <2>7, <3>2, <3>6 DEF Asks
      <4>2. net[<<a, b, 2>>] # << >>
        BY <2>11, <2>12, <4>1, Tuples
      <4>3. At(b, "exchange")
        BY <2>7, <3>4, NotInSend
      <4>4. Asked(b)
        BY <2>7, <3>3, <4>2, <4>3 DEF Asked, Arrived
      <4> QED
        BY <2>7, <4>3, <4>4 DEF CanMove
    <3> QED
      BY <3>2, <3>5, <3>6
  <2>13. CASE count[b] > c
    <3>1. q = a /\ ~ (count[a] > c)
      BY <2>6, <2>7, <2>8, <2>13
    <3>2. Asks(a, b) /\ pc[a] = "asked" /\ Turn(a) = c
      BY <2>7, <2>10, <2>13, <3>1 DEF Asks
    <3>3. net[<<b, a, 3>>] # << >>
      BY <2>11, <2>13, <3>2, Tuples
    <3>4. net[<<a, b, 2>>] = << >>
      BY <2>6, <2>8, <2>11, <2>13
    <3>5. ASSUME awaits[a] # None
          PROVE  net[awaits[a]] = << >>
      <4>1. PICK s \in Ranks : awaits[a] = <<a, s, 2>>
        BY <1>2, <2>7, <3>5 DEF Awaited
      <4>2. CASE s = b
        BY <3>4, <4>1, <4>2
      <4>3. CASE s # b
        <5>1. Id(a, s) # c
          BY <1>1, <2>7, <4>3, IdParts
        <5>2. ~ Asks(a, s)
          BY <3>2, <5>1 DEF Asks
        <5>3. net[<<a, s, 2>>] = << >>
          BY <2>7, <5>2 DEF IInv, Exchanged
        <5> QED
          BY <4>1, <5>3
      <4> QED
        BY <4>2, <4>3
    <3>6. At(a, "asked")
      BY <3>2, <3>5 DEF At
    <3> QED
      BY <2>7, <3>2, <3>3, <3>6 DEF CanMove, Arrived
  <2> QED
    BY <2>6, <2>7, <2>8, <2>12, <2>13
<1> QED
  BY <1>3, <1>4, <1>5

LEMMA IInvNobodyStuck == IInv /\ Awaited => NobodyStuck
<1> SUFFICES ASSUME IInv, Awaited, ~ aborted
             PROVE  NobodyStuck
  BY DEF NobodyStuck
<1>1. 0 \in Ranks
  BY InputTypes DEF IInv, Types
<1>2. {"barrier1", "barrier2", "barrier3", "barrier4"} = DOMAIN After
  BY DEF After
<1>3. CASE pc[0] \in Early
  BY <1>2, <1>3, EarlyMoves DEF NobodyStuck
<1>4. CASE pc[0] \in InExchange
  <2>1. \A r \in Ranks : pc[r] \in InExchange
    BY <1>1, <1>4, LatePhases DEF Early, InExchange
  <2> QED
    BY <1>2, <2>1, ExchangeMoves DEF NobodyStuck
<1>5. CASE pc[0] \in {"build", "gather"}
  <2>1. \A r \in Ranks : pc[r] \in {"build", "gather"} /\ At(r, pc[r])
    BY <1>1, <1>5, LatePhases, NotInSend DEF Early
  <2> QED
    BY <2>1 DEF NobodyStuck, CanMove
<1>6. CASE pc[0] = "barrier2"
  <2>1. \A r \in Ranks : At(r, "barrier2")
    BY <1>1, <1>6, LatePhases, NotInSend DEF Early
  <2> QED
    BY <1>2, <2>1 DEF NobodyStuck
<1>7. CASE pc[0] \in {"mult", "barrier4"}
  <2>1. \A r \in Ranks : pc[r] \in {"mult", "barrier4"} /\ At(r, pc[r])
    BY <1>1, <1>7, LatePhases, NotInSend DEF Early
  <2> QED
    BY <1>2, <2>1 DEF NobodyStuck, CanMove
<1>8. CASE pc[0] = "done"
  BY <1>1, <1>8, LatePhases DEF NobodyStuck, AllDone, Early
<1>9. pc[0] \in Labels
  BY <1>1 DEF IInv, Types
<1>10. pc[0] \in Early \/ pc[0] \in InExchange
       \/ pc[0] \in {"build", "gather"} \/ pc[0] = "barrier2"
       \/ pc[0] \in {"mult", "barrier4"} \/ pc[0] = "done"
  BY <1>2, <1>9 DEF Labels, Early, InExchange
<1> QED
  BY <1>3, <1>4, <1>5, <1>6, <1>7, <1>8, <1>10

\* However many ranks there are, whatever they need of each other, and whether
\* MPI_Send buffers or waits: matrix_read, the barriers, MPI_Allgather and
\* comm_schedule_sendrecv never leave all of them waiting.
THEOREM NoDeadlock == Spec => []NobodyStuck
<1>1. Spec => []Awaited
  BY InitAwaited, NextAwaited, AlwaysIInv, PTL DEF Spec
<1> QED
  BY <1>1, AlwaysIInv, IInvNobodyStuck, PTL
=============================================================================
