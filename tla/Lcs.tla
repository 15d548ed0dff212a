------------------------------- MODULE Lcs -------------------------------
(***************************************************************************)
(* The parallel longest common subsequence of HW3.  The grid of lengths is *)
(* cut into input.p bands of rows, one per thread or MPI rank, and each    *)
(* band into blocks of columns; a band may compute a block when the band   *)
(* above has.  Then the path is followed back from the last cell, band by  *)
(* band.  lcs_pthreads.c (and lcs_openmp.c, which has the same text) keeps *)
(* one grid in shared memory and passes the first column of a finished     *)
(* block, and later the backtrack state, through a prodcon_queue_t per     *)
(* thread; lcs_mpi.c keeps a grid per rank and sends the block's last row. *)
(* HW4/lcs_serial.cu computes the grid by diagonals, in one thread.        *)
(*                                                                         *)
(* HW3/queue.c is the web server's queue.c: QueueProofs shows it to be a *)
(* channel of `capacity' places, and so it is modelled here.               *)
(***************************************************************************)
EXTENDS Integers, Sequences, FiniteSets, SequencesExt

CONSTANTS
  Inputs,     \* records [version, p, m, n, s1, s2]
  MaxP        \* the largest p

(* m and n are the lengths of the strings, s1 and s2 the memory they begin at,
   as far as it is read: cell i, j compares s1[i] and s2[j] with i up to n, the
   length of s2, and j up to m, the length of s1; with diagonals, n is the
   length of s1, as it should be, and m that of s2.  A rank of lcs_mpi.c whose
   band begins behind the last row would receive into memory behind its grid. *)
ASSUME InputsAssumption ==
  /\ MaxP \in Nat
  /\ \A in \in Inputs :
       /\ in.version \in {"threads", "mpi", "diagonals"} /\ in.p \in 1 .. MaxP
       /\ in.version = "diagonals" => in.p = 1
       /\ in.m \in Nat \ {0} /\ in.n \in Nat \ {0}
       /\ in.s1 \in Seq(STRING) /\ in.s2 \in Seq(STRING)
       /\ Len(in.s1) >= in.n /\ Len(in.s1) >= in.m
       /\ Len(in.s2) >= in.n /\ Len(in.s2) >= in.m
       /\ in.version = "mpi" => (in.p - 1) * ((in.n + in.p - 1) \div in.p) <= in.n

VARIABLES
  input,      \* the command line and the files
  pc,         \* where a thread or rank is
  grid,       \* the cells, of all threads (at 0) or of every rank
  next, w, h, \* lcs_length_*: first column, width and height of the block
  cur,        \* the cell the loops of lcs_length_block are at
  q,          \* prodcon_queue_t of a thread: [capacity, items]
  net,        \* MPI messages to a rank, by tag
  state,      \* backtrack_state_t a thread or rank holds
  result      \* what is printed

block == <<next, w, h, cur>>
vars == <<input, pc, grid, next, w, h, cur, q, net, state, result>>

Threads == input.version = "threads"
Diagonals == input.version = "diagonals"
Ranks == 0 .. input.p - 1
CeilDiv(a, b) == (a + b - 1) \div b

Cells == (0 .. input.n) \X (0 .. input.m)
NoCell == [len |-> 0, dir |-> "none"]
grid_init == [c \in Cells |-> NoCell]

(* The grid rank r works on. *)
G(r) == IF Threads THEN 0 ELSE r

Height == CeilDiv(input.n, input.p)
y(r) == r * Height + 1

NoQueue == [capacity |-> 0, items |-> <<>>]

Init ==
  /\ input \in Inputs
  /\ pc = [r \in Ranks |-> IF Threads THEN "init1" ELSE IF Diagonals THEN "diagonal" ELSE "next"]
  /\ grid = [g \in {G(r) : r \in Ranks} |-> grid_init]
  /\ next = [r \in Ranks |-> 0]
  /\ w = [r \in Ranks |-> CeilDiv(input.m, input.p * input.p)]
  /\ h = [r \in Ranks |-> Height]
  /\ cur = [r \in Ranks |-> IF Diagonals THEN <<1, 1>> ELSE <<0, 0>>]
  /\ q = [r \in Ranks |-> NoQueue]
  /\ net = [t \in {"block", "state"} |-> [r \in Ranks |-> <<>>]]
  /\ state = [r \in Ranks |-> <<>>]
  /\ result = <<>>

Goto(r, label) == pc' = [pc EXCEPT ![r] = label]

-----------------------------------------------------------------------------
(* common.c *)

(* One cell of lcs_length_block. *)
lcs_cell(g, i, j) ==
  LET above == g[<<i - 1, j>>]
      before == g[<<i, j - 1>>]
  IN  IF input.s1[i] = input.s2[j] THEN [len |-> g[<<i - 1, j - 1>>].len + 1, dir |-> "upleft"]
      ELSE IF above.len >= before.len THEN [len |-> above.len, dir |-> "up"]
      ELSE [len |-> before.len, dir |-> "left"]

(* One cell back on the path. *)
StepBack(s, dir) ==
  CASE dir = "upleft" -> [i |-> s.i - 1, j |-> s.j - 1, res |-> Append(s.res, input.s1[s.i])]
    [] dir = "up"     -> [s EXCEPT !.i = @ - 1]
    [] dir = "left"   -> [s EXCEPT !.j = @ - 1]

(* The block of columns from x on: the last one is cut to what is left, and so
   is the height of the last band, which may be 0 or less. *)
StartBlock(r, x) ==
  LET height == IF y(r) + h[r] > input.n THEN input.n - y(r) + 1 ELSE h[r]
  IN  /\ next' = [next EXCEPT ![r] = x]
      /\ w' = [w EXCEPT ![r] = IF x + @ > input.m THEN input.m - x + 1 ELSE @]
      /\ h' = [h EXCEPT ![r] = height]
      /\ cur' = [cur EXCEPT ![r] = <<y(r), x>>]
      /\ Goto(r, IF height > 0 THEN "cells" ELSE "pass")

ComputeCell(r) ==
  LET i == cur[r][1]
      j == cur[r][2]
      lastcol == next[r] + w[r] - 1
  IN  /\ pc[r] = "cells"
      /\ grid' = [grid EXCEPT ![G(r)][<<i, j>>] = lcs_cell(grid[G(r)], i, j)]
      /\ cur' = [cur EXCEPT ![r] = IF j < lastcol THEN <<i, j + 1>> ELSE <<i + 1, next[r]>>]
      /\ Goto(r, IF j = lastcol /\ i = y(r) + h[r] - 1 THEN "pass" ELSE "cells")
      /\ UNCHANGED <<input, next, w, h, q, net, state, result>>

-----------------------------------------------------------------------------
(* lcs_pthreads.c *)

prodcon_queue_init(r, capacity) == q' = [q EXCEPT ![r] = [capacity |-> capacity, items |-> <<>>]]

queue_produce(r, item) ==
  /\ Len(q[r].items) < q[r].capacity
  /\ q' = [q EXCEPT ![r].items = Append(@, item)]

queue_consume(r) ==
  /\ q[r].items # <<>>
  /\ q' = [q EXCEPT ![r].items = Tail(@)]

(* Without the barriers. *)
InitQueue_NoBarrier(r) ==
  /\ \/ /\ pc[r] = "init1" /\ Goto(r, "next")
        /\ prodcon_queue_init(r, CeilDiv(input.m, w[r]))
     \/ /\ pc[r] = "init2" /\ Goto(r, "take")
        /\ prodcon_queue_init(r, 2)
  /\ UNCHANGED <<input, grid, block, net, state, result>>

InitQueue(r) ==
  /\ \/ /\ pc[r] = "init1" /\ Goto(r, "barrier1")
        /\ prodcon_queue_init(r, CeilDiv(input.m, w[r]))
     \/ /\ pc[r] = "init2" /\ Goto(r, "barrier2")
        /\ prodcon_queue_init(r, 2)
  /\ UNCHANGED <<input, grid, block, net, state, result>>

After == [barrier1 |-> "next", barrier2 |-> "take"]

(* pthread_barrier_wait *)
Barrier ==
  /\ \E b \in DOMAIN After : (\A r \in Ranks : pc[r] = b) /\ pc' = [r \in Ranks |-> After[b]]
  /\ UNCHANGED <<input, grid, block, q, net, state, result>>

(* A block that begins behind the last column ends the loop. *)
NextBlock(r) ==
  /\ Threads /\ pc[r] = "next"
  /\ LET x == IF r # 0 THEN Head(q[r].items) ELSE IF next[0] = 0 THEN 1 ELSE next[0] + w[0]
     IN  /\ IF r = 0 THEN UNCHANGED q ELSE queue_consume(r)
         /\ IF x <= input.m THEN StartBlock(r, x)
            ELSE next' = [next EXCEPT ![r] = x] /\ Goto(r, "pass") /\ UNCHANGED <<w, h, cur>>
  /\ UNCHANGED <<input, grid, net, state, result>>

(* The band below is not told of the end. *)
PassOn_NoPill(r) ==
  /\ Threads /\ pc[r] = "pass"
  /\ IF r = input.p - 1 \/ next[r] > input.m THEN UNCHANGED q ELSE queue_produce(r + 1, next[r])
  /\ Goto(r, IF next[r] <= input.m THEN "next" ELSE "destroy1")
  /\ UNCHANGED <<input, grid, block, net, state, result>>

PassOn(r) ==
  /\ Threads /\ pc[r] = "pass"
  /\ IF r = input.p - 1 THEN UNCHANGED q ELSE queue_produce(r + 1, next[r])
  /\ Goto(r, IF next[r] <= input.m THEN "next" ELSE "destroy1")
  /\ UNCHANGED <<input, grid, block, net, state, result>>

DestroyQueue(r) ==
  /\ pc[r] \in {"destroy1", "destroy2"}
  /\ q' = [q EXCEPT ![r] = NoQueue]
  /\ Goto(r, IF pc[r] = "destroy1" THEN "init2" ELSE "done")
  /\ UNCHANGED <<input, grid, block, net, state, result>>

-----------------------------------------------------------------------------
(* lcs_mpi.c *)

NextBlockMpi(r) ==
  LET x == IF next[r] = 0 THEN 1 ELSE next[r] + w[r]
      row == Head(net["block"][r])
  IN  /\ ~Threads /\ pc[r] = "next"
      /\ IF x > input.m THEN Goto(r, "take") /\ UNCHANGED <<grid, block, net>>
         ELSE /\ StartBlock(r, x)
              /\ IF r = 0 THEN UNCHANGED <<grid, net>>
                 ELSE /\ net["block"][r] # <<>>
                      /\ net' = [net EXCEPT !["block"][r] = Tail(@)]
                      /\ grid' = [grid EXCEPT ![r] = [c \in Cells |->
                           IF c[1] = y(r) - 1 /\ c[2] \in x .. x + Len(row) - 1
                             THEN row[c[2] - x + 1] ELSE @[c]]]
      /\ UNCHANGED <<input, q, state, result>>

(* The first row of the block. *)
SendRow_First(r) ==
  /\ ~Threads /\ pc[r] = "pass"
  /\ IF r = input.p - 1 THEN UNCHANGED net
     ELSE net' = [net EXCEPT !["block"][r + 1] =
            Append(@, [k \in 1 .. w[r] |-> grid[r][<<y(r), next[r] + k - 1>>]])]
  /\ Goto(r, "next")
  /\ UNCHANGED <<input, grid, block, q, state, result>>

(* The block's last row, sent without waiting. *)
SendRow(r) ==
  /\ ~Threads /\ pc[r] = "pass"
  /\ IF r = input.p - 1 THEN UNCHANGED net
     ELSE net' = [net EXCEPT !["block"][r + 1] =
            Append(@, [k \in 1 .. w[r] |-> grid[r][<<y(r) + h[r] - 1, next[r] + k - 1>>]])]
  /\ Goto(r, "next")
  /\ UNCHANGED <<input, grid, block, q, state, result>>

-----------------------------------------------------------------------------
(* lcs_serial.cu *)

(* A row has room for n + 1 cells, but holds m + 1. *)
grid_cell(c) == (input.n + 1) * c[1] + c[2]

(* One cell of lcs_length_cuda: down the diagonal, then on to the next. *)
DiagonalCell(r) ==
  LET i == cur[r][1]
      j == cur[r][2]
      d == i + j - 1
      sx == Max({d + 1 - input.m + 1, 1})
  IN  /\ pc[r] = "diagonal"
      /\ grid' = [grid EXCEPT ![G(r)] = [c \in Cells |->
           IF grid_cell(c) = grid_cell(cur[r]) THEN lcs_cell(grid[G(r)], i, j) ELSE @[c]]]
      /\ cur' = [cur EXCEPT ![r] = IF i < Min({d, input.n}) THEN <<i + 1, j - 1>> ELSE <<sx, d + 2 - sx>>]
      /\ Goto(r, IF d = input.n + input.m - 1 THEN "take" ELSE "diagonal")
      /\ UNCHANGED <<input, next, w, h, q, net, state, result>>

-----------------------------------------------------------------------------
(* lcs_backtrack_pthreads, lcs_backtrack_mpi, lcs_backtrack_cuda *)

(* The threads cut the height of a band before they multiply it. *)
min_i(r) == r * (IF Threads /\ y(r) + Height > input.n THEN input.n - y(r) + 1 ELSE Height)

TakeState(r) ==
  /\ pc[r] = "take"
  /\ IF r = input.p - 1
       THEN /\ state' = [state EXCEPT ![r] = [i |-> input.n, j |-> input.m, res |-> <<>>]]
            /\ UNCHANGED <<q, net>>
     ELSE IF Threads
       THEN /\ queue_consume(r)
            /\ state' = [state EXCEPT ![r] = Head(q[r].items)]
            /\ UNCHANGED net
     ELSE /\ net["state"][r] # <<>>
          /\ net' = [net EXCEPT !["state"][r] = Tail(@)]
          /\ state' = [state EXCEPT ![r] = Head(net["state"][r])]
          /\ UNCHANGED q
  /\ Goto(r, "back")
  /\ UNCHANGED <<input, grid, block, result>>

OnPath(r) == pc[r] = "back" /\ state[r].i > min_i(r) /\ state[r].j > 0
Dir(r) == grid[G(r)][<<state[r].i, state[r].j>>].dir

BacktrackCell(r) ==
  /\ OnPath(r) /\ Dir(r) # "none"
  /\ state' = [state EXCEPT ![r] = StepBack(@, Dir(r))]
  /\ UNCHANGED <<input, pc, grid, block, q, net, result>>

(* "WTF BAD CELL", and round again. *)
BadCell(r) == OnPath(r) /\ Dir(r) = "none" /\ UNCHANGED vars

HandOver(r) ==
  /\ pc[r] = "back" /\ ~OnPath(r)
  /\ IF r = 0 THEN result' = Reverse(state[0].res) /\ UNCHANGED <<q, net>>
     ELSE /\ UNCHANGED result
          /\ IF Threads THEN queue_produce(r - 1, state[r]) /\ UNCHANGED net
             ELSE net' = [net EXCEPT !["state"][r - 1] = Append(@, state[r])] /\ UNCHANGED q
  /\ state' = [state EXCEPT ![r] = <<>>]
  /\ Goto(r, IF Threads THEN "destroy2" ELSE "done")
  /\ UNCHANGED <<input, grid, block>>

Rank(r) ==
  \/ ComputeCell(r)
  \/ InitQueue(r) \/ NextBlock(r) \/ PassOn(r) \/ DestroyQueue(r)
  \/ NextBlockMpi(r) \/ SendRow(r) \/ DiagonalCell(r)
  \/ TakeState(r) \/ BacktrackCell(r) \/ BadCell(r) \/ HandOver(r)

AllDone == \A r \in Ranks : pc[r] = "done"
Over == AllDone /\ UNCHANGED vars

Next == (\E r \in Ranks : Rank(r)) \/ Barrier \/ Over

(* Every thread runs, and the barrier opens when all have come. *)
Spec == /\ Init /\ [][Next]_vars
        /\ \A r \in 0 .. MaxP - 1 : WF_vars(r \in Ranks /\ Rank(r))
        /\ WF_vars(Barrier)

-----------------------------------------------------------------------------
(* lcs_serial.c, the program all others are a parallel form of *)

(* The grid after k steps of the two loops. *)
lcs_length_steps[k \in Nat] ==
  IF k = 0 THEN grid_init
  ELSE LET g == lcs_length_steps[k - 1]
           i == 1 + (k - 1) \div input.m
           j == 1 + ((k - 1) % input.m)
       IN  [g EXCEPT ![<<i, j>>] = lcs_cell(g, i, j)]

lcs_length_serial == lcs_length_steps[input.n * input.m]

(* The place on the path after k rounds of the loop, if there are so many. *)
lcs_backtrack_steps[k \in Nat] ==
  IF k = 0 THEN [i |-> input.n, j |-> input.m, res |-> <<>>]
  ELSE LET s == lcs_backtrack_steps[k - 1]
       IN  IF s.i > 0 /\ s.j > 0 THEN StepBack(s, lcs_length_serial[<<s.i, s.j>>].dir) ELSE s

lcs_backtrack_serial == Reverse(lcs_backtrack_steps[input.n + input.m].res)

-----------------------------------------------------------------------------
(* Properties *)

Labels == {"diagonal", "init1", "next", "cells", "pass", "destroy1", "init2", "take", "back", "destroy2", "done"}
            \cup DOMAIN After

(* The places of the code, with what they need: a thread that takes from its
   queue finds it initialised for this phase, so does one that puts into its
   neighbour's, and no queue is destroyed or set up anew with an item in it; a
   rank receives as many cells as it has room for; the cells are in the grid. *)
TypeOK ==
  /\ pc \in [Ranks -> Labels]
  /\ \A r \in Ranks :
       /\ next[r] \in 0 .. input.m + 1
       /\ pc[r] \in {"cells", "diagonal"} => cur[r] \in (1 .. input.n) \X (1 .. input.m)
       /\ pc[r] \in {"destroy1", "init1", "init2", "destroy2"} => q[r].items = <<>>
       /\ Threads /\ pc[r] = "next" => q[r].capacity > 0
       /\ Threads /\ pc[r] = "pass" /\ r < input.p - 1 =>
            q[r + 1].capacity > 0 /\ pc[r + 1] \notin {"init1", "init2", "take"}
       /\ Threads /\ pc[r] = "back" /\ r > 0 =>
            q[r - 1].capacity > 0 /\ pc[r - 1] \in {"barrier2", "take"}
       /\ ~Threads => \A k \in DOMAIN net["block"][r] : Len(net["block"][r][k]) <= w[r]

(* Whether the calls thread or rank r is in, if any, can return. *)
CanMove(r) ==
  \/ pc[r] \in {"diagonal", "init1", "cells", "destroy1", "init2", "destroy2"}
  \/ pc[r] = "next" /\ \/ r = 0
                       \/ Threads /\ q[r].items # <<>>
                       \/ ~Threads /\ (net["block"][r] # <<>> \/ (next[r] > 0 /\ next[r] + w[r] > input.m))
  \/ pc[r] = "pass" /\ (Threads /\ r < input.p - 1 => Len(q[r + 1].items) < q[r + 1].capacity)
  \/ pc[r] = "take" /\ \/ r = input.p - 1
                       \/ IF Threads THEN q[r].items # <<>> ELSE net["state"][r] # <<>>
  \/ pc[r] = "back" /\ (Threads /\ r > 0 /\ ~OnPath(r) => Len(q[r - 1].items) < q[r - 1].capacity)

(* The threads or ranks never all wait for each other, neither for a block or a
   place in a queue, nor in the barriers, nor for the way back. *)
NobodyStuck ==
  \/ AllDone
  \/ \E r \in Ranks : CanMove(r)
  \/ \E b \in DOMAIN After : \A r \in Ranks : pc[r] = b

(* The characters of s at those of the first l places that are in S. *)
Letters(s, l, S) ==
  LET upto[k \in Nat] == IF k = 0 THEN <<>>
                         ELSE IF k \in S THEN Append(upto[k - 1], s[k]) ELSE upto[k - 1]
  IN  upto[l]

(* What the parallel programs compute is what the serial one does: every band
   is right when its thread turns to the backtracking, all of them when a thread
   follows the path through the shared grid, and so is the string printed,
   which is a longest common subsequence of the strings compared.  By diagonals
   that needs a second string no longer than the first: rows overlap otherwise. *)
ResultCorrect ==
  (Diagonals => input.m <= input.n) =>
  /\ LET serial == lcs_length_serial
     IN  \A r \in Ranks : pc[r] \in {"destroy1", "init2", "barrier2", "take", "back"} =>
           \A c \in Cells :
             \/ c[1] \notin y(r) .. y(r) + Height - 1 /\ ~(Threads /\ pc[r] = "back")
             \/ grid[G(r)][c] = serial[c]
  /\ AllDone =>
       LET Common(S, T) == Letters(input.s1, input.n, S) = Letters(input.s2, input.m, T)
       IN  /\ result = lcs_backtrack_serial
           /\ \E S \in SUBSET (1 .. input.n), T \in SUBSET (1 .. input.m) :
                Common(S, T) /\ result = Letters(input.s1, input.n, S)
           /\ \A S \in SUBSET (1 .. input.n), T \in SUBSET (1 .. input.m) :
                Common(S, T) => Len(Letters(input.s1, input.n, S)) <= Len(result)

(* The path is followed to its end when the bands reach no further than the
   grid; behind it a thread would go on from row 0 for ever. *)
RunsToEnd == ((input.p - 1) * Height <= input.n) ~> AllDone
=============================================================================
