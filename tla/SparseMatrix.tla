---------------------------- MODULE SparseMatrix ----------------------------
(***************************************************************************)
(* The sparse matrix-vector product of HW5 (hw5.c, mpi_matrix.c), run by   *)
(* input.p MPI ranks.  Rank 0 reads both files and sends every rank its    *)
(* rows; each rank works out which rows of the vector its columns need,    *)
(* all ranks share how many rows each needs of each (comm_map), they       *)
(* exchange them pair by pair in the order of comm_id, and multiply.       *)
(*                                                                         *)
(* MPI, as the code uses it: messages of one sender, receiver and tag      *)
(* arrive in order; MPI_Send returns at once or only when its message has  *)
(* been received, as the library pleases; MPI_Isend returns at once;       *)
(* barriers and MPI_Allgather wait for everybody.  A failed assertion      *)
(* takes the whole job down.                                               *)
(*                                                                         *)
(* A row is the set of the numbers of its lines in the file, so repeated   *)
(* cells stay apart and the order in a row is that of the file.            *)
(***************************************************************************)
EXTENDS Integers, Sequences, FiniteSets, Functions

CONSTANTS
  Inputs,     \* records [p, n, cells, x]: ranks, size, lines of the .ij and of the .vec file
  MaxRanks    \* the largest p

ASSUME InputsAssumption ==
  /\ MaxRanks \in Nat
  /\ \A in \in Inputs :
       /\ in.p \in 1 .. MaxRanks /\ in.n \in Nat \ {0}
       /\ in.cells \in Seq([i : 0 .. in.n - 1, j : 0 .. in.n - 1, val : Nat])
       /\ in.x \in [1 .. in.n -> Nat]

VARIABLES
  input,      \* the command line and the two files
  aborted,    \* an assertion has failed somewhere
  pc,         \* where a rank is
  which,      \* "mat" or "vec": the file a rank is reading or waiting for
  count,      \* to_r of matrix_read in rank 0, comm_id of comm_schedule_sendrecv
  pos,        \* lines of the file rank 0 has read
  mat, vec,   \* matrix_t of a rank: its rows, and the values of rows mapped from others
  buf,        \* buffer of matrix_read: at the root the partition it is sending,
              \* elsewhere the size the rank has been told
  comm_map,   \* comm_schedule_t of a rank: how many rows r needs of s
  recv_cols,  \* and which
  res,        \* the rank's rows of the product
  net,        \* messages under way, by sender, receiver and tag
  awaits      \* the channel whose message an unbuffered MPI_Send waits to see received

read == <<which, pos, mat, vec, buf>>
schedule == <<comm_map, recv_cols>>
vars == <<input, aborted, pc, which, count, pos, mat, vec, buf,
          comm_map, recv_cols, res, net, awaits>>

Ranks == 0 .. input.p - 1
Rows == 0 .. input.n - 1
Channels == Ranks \X Ranks \X (0 .. 3)
None == <<>>

Lines(f) == IF f = "mat" THEN Len(input.cells) ELSE Len(input.x)
ColsOf(f) == IF f = "mat" THEN input.n ELSE 1

NoMatrix == [from |-> 0, to |-> -1, rows |-> <<>>, mapped |-> <<>>]

Init ==
  /\ input \in Inputs
  /\ aborted = FALSE
  /\ pc = [r \in Ranks |-> IF r = 0 THEN "share" ELSE "size"]
  /\ which = [r \in Ranks |-> "mat"]
  /\ count = [r \in Ranks |-> 0]
  /\ pos = 0
  /\ mat = [r \in Ranks |-> NoMatrix] /\ vec = [r \in Ranks |-> NoMatrix]
  /\ buf = [r \in Ranks |-> 0]
  /\ comm_map = [r \in Ranks |-> [s \in Ranks |-> [t \in Ranks |-> 0]]]
  /\ recv_cols = [r \in Ranks |-> [s \in Ranks |-> <<>>]]
  /\ res = [r \in Ranks |-> <<>>]
  /\ net = [c \in Channels |-> <<>>]
  /\ awaits = [r \in Ranks |-> None]

-----------------------------------------------------------------------------
(* MPI *)

At(r, label) == /\ ~aborted
                /\ pc[r] = label
                /\ (awaits[r] # None => net[awaits[r]] = <<>>)

Goto(r, label) == pc' = [pc EXCEPT ![r] = label]

Isend(r, s, tag, msg) ==
  /\ net' = [net EXCEPT ![<<r, s, tag>>] = Append(@, msg)]
  /\ awaits' = [awaits EXCEPT ![r] = None]

SendTo(r, s, tag, msg) ==
  /\ net' = [net EXCEPT ![<<r, s, tag>>] = Append(@, msg)]
  /\ \E c \in {None, <<r, s, tag>>} : awaits' = [awaits EXCEPT ![r] = c]

Arrived(r, s, tag) == net[<<s, r, tag>>] # <<>>
Message(r, s, tag) == Head(net[<<s, r, tag>>])
Take(r, s, tag) == [net EXCEPT ![<<s, r, tag>>] = Tail(@)]

Abort == /\ aborted' = TRUE
         /\ UNCHANGED <<input, pc, which, count, pos, mat, vec, buf,
                        comm_map, recv_cols, res, net, awaits>>

-----------------------------------------------------------------------------
(* matrix_read: the root reads partition after partition and sends it on. *)

partition_size == input.n \div input.p

(* The bounds of to_r's partition.  offset_t is unsigned: with no row per
   rank, to_i wraps and matrix_init brings it down to the last row. *)
FromRow(to_r) == to_r * partition_size
ToRow(to_r) ==
  LET to_i == (to_r + 1) * partition_size - 1
  IN  IF to_r = input.p - 1 \/ to_i < 0 \/ to_i >= input.n THEN input.n - 1 ELSE to_i

(* The row line k of the file belongs to, when reading begins after line pos
   into a partition that begins at row from: the lines of a vector count on. *)
RowOf(f, k, from) == IF f = "mat" THEN input.cells[k].i ELSE from + (k - pos - 1)

(* Without fsetpos: the line of the next partition is lost. *)
Block_Consumes(f, from, to) ==
  {k \in pos + 1 .. Lines(f) :
     \A l \in pos + 1 .. k : RowOf(f, l, from) <= to \/ (f = "mat" /\ l = k)}

(* matrix_read_rows: lines up to the first of a row behind the partition,
   at which the file is set back. *)
Block(f, from, to) ==
  {k \in pos + 1 .. Lines(f) : \A l \in pos + 1 .. k : RowOf(f, l, from) <= to}

matrix_read_rows(f, from, to) ==
  [i \in from .. to |-> {k \in Block(f, from, to) : RowOf(f, k, from) = i}]

NumRows(a) == a.to - a.from + 1

(* The last share is not allowed its slack. *)
ShareFits_NoSlack(f, from, to) == to - from + 1 = partition_size

(* The assertions of matrix_init, matrix_read_rows and matrix_read. *)
ShareFits(f, from, to) ==
  /\ from <= to
  /\ \A k \in Block(f, from, to) : RowOf(f, k, from) >= from
  /\ \A i \in from .. to : Cardinality(matrix_read_rows(f, from, to)[i]) <= ColsOf(f)
  /\ partition_size <= to - from + 1 /\ to - from + 1 < 2 * partition_size

(* What goes over the wire: the rows, and not what is mapped; the size counts
   rows and cells. *)
matrix_serialize(a) ==
  [from |-> a.from, to |-> a.to, rows |-> a.rows,
   bufsize |-> NumRows(a) + Cardinality(UNION {a.rows[i] : i \in a.from .. a.to})]

matrix_deserialize(b) == [from |-> b.from, to |-> b.to, rows |-> b.rows, mapped |-> <<>>]

Keep(r, f, a) == IF f = "mat" THEN mat' = [mat EXCEPT ![r] = a] /\ UNCHANGED vec
                              ELSE vec' = [vec EXCEPT ![r] = a] /\ UNCHANGED mat

(* One turn of the root's loop up to MPI_Send of the size: read the
   partition, serialize it; the root keeps the first one for itself. *)
Share ==
  LET f == which[0]  to_r == count[0]  from == FromRow(to_r)  to == ToRow(to_r)
      a == [from |-> from, to |-> to, rows |-> matrix_read_rows(f, from, to), mapped |-> <<>>]
  IN  /\ At(0, "share") /\ to_r < input.p
      /\ ShareFits(f, from, to)
      /\ pos' = pos + Cardinality(Block(f, from, to))
      /\ IF to_r = 0
           THEN /\ Keep(0, f, a)
                /\ count' = [count EXCEPT ![0] = 1]
                /\ UNCHANGED <<pc, buf, net, awaits>>
           ELSE /\ SendTo(0, to_r, 0, matrix_serialize(a).bufsize)
                /\ buf' = [buf EXCEPT ![0] = matrix_serialize(a)]
                /\ Goto(0, "isend")
                /\ UNCHANGED <<mat, vec, count>>
      /\ UNCHANGED <<input, aborted, which, schedule, res>>

ShareAborts ==
  /\ At(0, "share") /\ count[0] < input.p
  /\ ~ShareFits(which[0], FromRow(count[0]), ToRow(count[0]))
  /\ Abort

IsendShare ==
  /\ At(0, "isend")
  /\ Isend(0, count[0], 1, buf[0])
  /\ count' = [count EXCEPT ![0] = @ + 1]
  /\ Goto(0, "share")
  /\ UNCHANGED <<input, aborted, which, pos, mat, vec, buf, schedule, res>>

(* The next file begins at its first line, the next loop at 0. *)
NextFile(r, label) ==
  /\ which' = [which EXCEPT ![r] = "vec"]
  /\ count' = [count EXCEPT ![r] = 0]
  /\ Goto(r, IF which[r] = "mat" THEN label ELSE "barrier1")

EndOfShares ==
  /\ At(0, "share") /\ count[0] = input.p
  /\ NextFile(0, "share")
  /\ pos' = 0
  /\ UNCHANGED <<input, aborted, mat, vec, buf, schedule, res, net, awaits>>

RecvSize(r) ==
  /\ At(r, "size") /\ Arrived(r, 0, 0)
  /\ buf' = [buf EXCEPT ![r] = Message(r, 0, 0)]
  /\ net' = Take(r, 0, 0)
  /\ Goto(r, "part")
  /\ UNCHANGED <<input, aborted, which, count, pos, mat, vec, schedule, res, awaits>>

(* MPI_Recv into a buffer of the size announced, and matrix_deserialize. *)
RecvPart(r) ==
  /\ At(r, "part") /\ Arrived(r, 0, 1)
  /\ Keep(r, which[r], matrix_deserialize(Message(r, 0, 1)))
  /\ net' = Take(r, 0, 1)
  /\ NextFile(r, "size")
  /\ UNCHANGED <<input, aborted, pos, buf, schedule, res, awaits>>

-----------------------------------------------------------------------------
(* matrix_sync_build_schedule, comm_schedule_add and comm_schedule_sync *)

Columns(r) == {input.cells[k].j : k \in UNION {mat[r].rows[i] : i \in mat[r].from .. mat[r].to}}

(* Without the last rank's slack. *)
src_r_NoCap(j) == j \div partition_size

(* The rank asked for row j of the vector. *)
src_r(j) == LET s == j \div partition_size IN IF s >= input.p THEN input.p - 1 ELSE s

Needed(r, s) == {j \in Columns(r) : (j < mat[r].from \/ j > mat[r].to) /\ src_r(j) = s}

(* Every element once, in the order the loop over rows and cells meets it. *)
MetBefore(r, a, b) ==
  \E k \in DOMAIN input.cells :
     /\ input.cells[k].j = a /\ input.cells[k].i \in mat[r].from .. mat[r].to
     /\ \A l \in DOMAIN input.cells :
          input.cells[l].j = b /\ input.cells[l].i \in mat[r].from .. mat[r].to
            => \/ input.cells[k].i < input.cells[l].i
               \/ input.cells[k].i = input.cells[l].i /\ k < l

Schedules(r, s) ==
  {q \in [1 .. Cardinality(Needed(r, s)) -> Needed(r, s)] :
     /\ Range(q) = Needed(r, s)
     /\ \A a, b \in DOMAIN q : a < b => MetBefore(r, q[a], q[b])}

BuildSchedule(r) ==
  /\ At(r, "build")
  /\ recv_cols' = [recv_cols EXCEPT ![r] = [s \in Ranks |-> CHOOSE q \in Schedules(r, s) : TRUE]]
  /\ comm_map' = [comm_map EXCEPT ![r][r] = [s \in Ranks |-> Cardinality(Needed(r, s))]]
  /\ Goto(r, "gather")
  /\ UNCHANGED <<input, aborted, read, count, res, net, awaits>>

(* Without MPI_Allgather's result: every rank only knows its own row. *)
Gather_OwnRow ==
  /\ \A r \in Ranks : At(r, "gather")
  /\ pc' = [r \in Ranks |-> "barrier2"]
  /\ UNCHANGED <<input, aborted, read, schedule, count, res, net, awaits>>

(* MPI_Allgather of every rank's own row of the map. *)
Gather ==
  /\ \A r \in Ranks : At(r, "gather")
  /\ comm_map' = [r \in Ranks |-> [s \in Ranks |-> comm_map[s][s]]]
  /\ pc' = [r \in Ranks |-> "barrier2"]
  /\ UNCHANGED <<input, aborted, read, count, recv_cols, res, net, awaits>>

-----------------------------------------------------------------------------
(* comm_schedule_sendrecv: the exchange of comm_id is between recv_r, which
   asks, and send_r, which answers.  Exchanges of others are passed over. *)

send_r(comm_id) == comm_id % input.p
recv_r(comm_id) == comm_id \div input.p
NumCells(r, comm_id) == comm_map[r][recv_r(comm_id)][send_r(comm_id)]

Turns(r) == {id \in count[r] .. input.p * input.p - 1 :
               NumCells(r, id) > 0 /\ r \in {send_r(id), recv_r(id)}}
Turn(r) == LET turns == Turns(r) IN CHOOSE id \in turns : \A other \in turns : id <= other

AskCols(r) ==
  /\ At(r, "exchange") /\ Turns(r) # {}
  /\ r = recv_r(Turn(r))
  /\ SendTo(r, send_r(Turn(r)), 2, recv_cols[r][send_r(Turn(r))])
  /\ Goto(r, "asked")
  /\ UNCHANGED <<input, aborted, read, count, schedule, res>>

(* A value for each of the rows cols, but for those the rank has. *)
matrix_map_row(v, cols, values) ==
  LET new == {a \in DOMAIN cols : cols[a] \notin (v.from .. v.to) \cup DOMAIN v.mapped}
  IN  [v EXCEPT !.mapped = [j \in DOMAIN @ \cup {cols[a] : a \in new} |->
         IF j \in DOMAIN @ THEN @[j] ELSE values[CHOOSE a \in new : cols[a] = j]]]

GetValues(r) ==
  LET s == send_r(Turn(r))
  IN  /\ At(r, "asked") /\ Arrived(r, s, 3)
      /\ vec' = [vec EXCEPT ![r] = matrix_map_row(@, recv_cols[r][s], Message(r, s, 3))]
      /\ net' = Take(r, s, 3)
      /\ count' = [count EXCEPT ![r] = Turn(r) + 1]
      /\ Goto(r, "exchange")
      /\ UNCHANGED <<input, aborted, which, pos, mat, buf, schedule, res, awaits>>

(* matrix_row finds a row with a cell in it among the rank's own or the mapped
   rows of its vector; its value. *)
HasRow(r, j) == (j \in vec[r].from .. vec[r].to /\ vec[r].rows[j] # {}) \/ j \in DOMAIN vec[r].mapped
VecValue(r, j) == IF j \in vec[r].from .. vec[r].to
                    THEN input.x[CHOOSE k \in vec[r].rows[j] : TRUE]
                    ELSE vec[r].mapped[j]

Asked(r) == /\ At(r, "exchange") /\ Turns(r) # {} /\ r = send_r(Turn(r))
            /\ Arrived(r, recv_r(Turn(r)), 2)
Request(r) == Message(r, recv_r(Turn(r)), 2)

Answer(r) ==
  LET s == recv_r(Turn(r))
  IN  /\ Asked(r)
      /\ net' = [Take(r, s, 2) EXCEPT ![<<r, s, 3>>] =
                   Append(@, [a \in DOMAIN Request(r) |-> VecValue(r, Request(r)[a])])]
      /\ awaits' = [awaits EXCEPT ![r] = None]
      /\ count' = [count EXCEPT ![r] = Turn(r) + 1]
      /\ UNCHANGED <<input, aborted, pc, read, schedule, res>>

EndOfExchange(r) ==
  /\ At(r, "exchange") /\ Turns(r) = {}
  /\ Goto(r, "barrier3")
  /\ UNCHANGED <<input, aborted, read, count, schedule, res, net, awaits>>

-----------------------------------------------------------------------------
(* matrix_vector_mult, and the phases of hw5.c *)

Total(f) == FoldFunction(+, 0, f)

Multiply(r) ==
  /\ At(r, "mult")
  /\ res' = [res EXCEPT ![r] = [i \in mat[r].from .. mat[r].to |->
       Total([k \in mat[r].rows[i] |-> input.cells[k].val * VecValue(r, input.cells[k].j)])]]
  /\ Goto(r, "barrier4")
  /\ UNCHANGED <<input, aborted, read, count, schedule, net, awaits>>

After == [barrier1 |-> "build", barrier2 |-> "exchange", barrier3 |-> "mult", barrier4 |-> "done"]

Barrier ==
  /\ \E b \in DOMAIN After : /\ \A r \in Ranks : At(r, b)
                             /\ pc' = [r \in Ranks |-> After[b]]
  /\ UNCHANGED <<input, aborted, read, count, schedule, res, net, awaits>>

Rank(r) ==
  \/ r = 0 /\ (Share \/ ShareAborts \/ IsendShare \/ EndOfShares)
  \/ RecvSize(r) \/ RecvPart(r)
  \/ BuildSchedule(r)
  \/ AskCols(r) \/ GetValues(r) \/ Answer(r) \/ EndOfExchange(r)
  \/ Multiply(r)

AllDone == \A r \in Ranks : pc[r] = "done"

Over == (aborted \/ AllDone) /\ UNCHANGED vars

Next == (\E r \in Ranks : Rank(r)) \/ Gather \/ Barrier \/ Over

(* Every rank runs, and a collective call returns once all have made it. *)
Spec == /\ Init /\ [][Next]_vars
        /\ \A r \in 0 .. MaxRanks - 1 : WF_vars(r \in Ranks /\ Rank(r))
        /\ WF_vars(Gather) /\ WF_vars(Barrier)

-----------------------------------------------------------------------------
(* Properties *)

Labels == {"share", "isend", "size", "part", "build", "gather", "exchange", "asked", "mult", "done"}
            \cup DOMAIN After

(* Every rank is at a place of hw5.c, its partitions begin and end where they
   say, and a rank maps rows of the vector that are not its own. *)
TypeOK ==
  /\ aborted \in BOOLEAN
  /\ pc \in [Ranks -> Labels] /\ which \in [Ranks -> {"mat", "vec"}]
  /\ pos \in 0 .. Lines(which[0]) /\ count \in [Ranks -> 0 .. input.p * input.p]
  /\ \A r \in Ranks :
       /\ DOMAIN mat[r].rows = mat[r].from .. mat[r].to
       /\ DOMAIN vec[r].rows = vec[r].from .. vec[r].to
       /\ DOMAIN vec[r].mapped \subseteq Rows \ (vec[r].from .. vec[r].to)
       /\ awaits[r] \in Channels \cup {None}

(* No assertion of mpi_matrix.c fails but those on the size of a share, and
   no pointer is NULL: a partition fits the buffer announced for it, a rank
   is only asked for rows of the vector that it owns and never by itself, and
   when the ranks multiply every one has all the rows its columns need. *)
AssertionsHold ==
  \A r \in Ranks :
    /\ pc[r] = "part" /\ Arrived(r, 0, 1) => Message(r, 0, 1).bufsize <= buf[r]
    /\ pc[r] = "exchange" /\ Turns(r) # {} => send_r(Turn(r)) # recv_r(Turn(r))
    /\ Asked(r) => /\ Len(Request(r)) = NumCells(r, Turn(r))
                   /\ \A j \in Range(Request(r)) : HasRow(r, j)
    /\ pc[r] = "mult" => \A j \in Columns(r) : HasRow(r, j)

(* Whether the call rank r is in, if any, can return. *)
CanMove(r) ==
  \/ At(r, "share") \/ At(r, "isend") \/ At(r, "build") \/ At(r, "mult")
  \/ At(r, "size") /\ Arrived(r, 0, 0)
  \/ At(r, "part") /\ Arrived(r, 0, 1)
  \/ At(r, "exchange") /\ (Turns(r) = {} \/ r = recv_r(Turn(r)) \/ Asked(r))
  \/ At(r, "asked") /\ Arrived(r, send_r(Turn(r)), 3)

(* The ranks never all wait for each other, whichever MPI_Send blocks: until
   the job is over, some rank is in none of its calls, or the message its call
   waits for is there, or all have made the same collective call. *)
NobodyStuck ==
  \/ aborted \/ AllDone
  \/ \E r \in Ranks : CanMove(r)
  \/ \E l \in {"gather"} \cup DOMAIN After : \A r \in Ranks : At(r, l)

LinesOf(i) == {k \in DOMAIN input.cells : input.cells[k].i = i}

(* The result is the product of the matrix and the vector in the files: a
   rank that has multiplied has the right value in every row of its share,
   and at the end every row is in exactly one share. *)
ProductCorrect ==
  /\ \A r \in Ranks : pc[r] \in {"barrier4", "done"} =>
       /\ DOMAIN res[r] = mat[r].from .. mat[r].to
       /\ \A i \in DOMAIN res[r] :
            res[r][i] = Total([k \in LinesOf(i) |-> input.cells[k].val * input.x[input.cells[k].j + 1]])
  /\ AllDone => \A i \in Rows : \E r \in Ranks :
       /\ i \in DOMAIN res[r]
       /\ \A s \in Ranks \ {r} : i \notin DOMAIN res[s]

Sorted == \A k, l \in DOMAIN input.cells : k < l => input.cells[k].i <= input.cells[l].i

(* The shares fit when the remainder of the division is smaller than a share. *)
SharesFit == input.n % input.p < partition_size

(* Whether MPI_Send buffers or not, nobody waits for ever: a job with a sorted
   file and fitting shares ends with all ranks done, one whose shares do not
   fit ends with a failed assertion. *)
RunsToEnd == /\ (Sorted /\ SharesFit) ~> AllDone
             /\ ~SharesFit ~> aborted
=============================================================================
