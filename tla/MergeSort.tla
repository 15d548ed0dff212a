----------------------------- MODULE MergeSort -----------------------------
(***************************************************************************)
(* The parallel merge sorts of HW2.  The input is cut into p parts of      *)
(* n \div p numbers; each is sorted on its own, and neighbours are merged  *)
(* level by level.  mg_pthreads.c starts a thread per task and copies what *)
(* a thread has merged back after joining it; mg_openmp.c runs the tasks   *)
(* as iterations of a parallel loop, which copy back themselves; in        *)
(* mg_mpi.c a right sibling sends its part to the left one, which merges.  *)
(*                                                                         *)
(* A task is one step, or two with the copy: SegmentsDisjoint shows that   *)
(* no other thread uses what it uses.  What p does not divide is left      *)
(* over, and when p is not a power of two parts stay unmerged, or a rank   *)
(* waits for one that does not exist, which ends the MPI job.              *)
(***************************************************************************)
EXTENDS Integers, Sequences, FiniteSets

CONSTANTS
    Inputs,     \* records [version, p, data]
    Junk        \* what memory holds that nobody has written

ASSUME InputsAssumption ==
    \A in \in Inputs :
        /\ in.version \in {"pthreads", "openmp", "mpi"}
        /\ in.p \in Nat \ {0}
        /\ in.data \in Seq(Int) \ {<< >>}

VARIABLES
    input,           \* the command line and the file
    data,
    partition_size,  \* of main (at 0), or of every rank
    kind,            \* what the tasks of this level do: "sort" or "merge"
    nodes,           \* how many tasks there are
    r,               \* the loop variable of main: the task created or joined
    pc,              \* where main (at -1) and the threads or ranks are
    buf,             \* a thread's result, a rank's partition
    level,           \* the loop variable of collect_results
    net              \* what has been sent to a rank and not received

vars == <<input, data, partition_size, kind, nodes, r, pc, buf, level, net>>

Mpi == input.version = "mpi"
n == Len(input.data)
Ranks == 0 .. input.p - 1
Main == -1

Init ==
    /\ input \in Inputs
    /\ data = input.data
    /\ partition_size = [t \in Ranks |-> Len(input.data) \div input.p]
    /\ kind = "sort" /\ nodes = input.p /\ r = 0
    /\ pc = [t \in Ranks \cup {Main} |->
               IF t # Main THEN IF Mpi THEN "scatter" ELSE "idle"
               ELSE IF Mpi THEN "done" ELSE "create"]
    /\ buf = [t \in Ranks |-> << >>]
    /\ level = [t \in Ranks |-> 1]
    /\ net = {}

-----------------------------------------------------------------------------
\* serial_sort.c

\* merge, and the loop of merge_helper; which of two equal numbers they take
\* first, a and input[l] or b and input[r], makes no difference to the result.
merge[halves \in Seq(Int) \X Seq(Int)] ==
    LET a == halves[1]
        b == halves[2]
    IN  IF a = << >> THEN b
        ELSE IF b = << >> THEN a
        ELSE IF Head(a) < Head(b)
        THEN << Head(a) >> \o merge[<<Tail(a), b>>]
        ELSE << Head(b) >> \o merge[<<a, Tail(b)>>]

\* merge_helper, of one number or more.
mergesort[s \in Seq(Int) \ {<< >>}] ==
    LET mid == Len(s) \div 2
    IN  IF Len(s) = 1 THEN s
        ELSE merge[<<mergesort[SubSeq(s, 1, mid)],
                     mergesort[SubSeq(s, mid + 1, Len(s))]>>]

\* With no number to sort, merge_helper calls itself for ever: the stack
\* overflows and the program dies.
Overflow(size) == size = 0

Crash == pc' = [t \in DOMAIN pc |-> "dead"]

-----------------------------------------------------------------------------
\* mg_pthreads.c and mg_openmp.c

ps == partition_size[0]

\* Slip: tasks of every level begin where the partitions do.
Segment_NotDoubled(t) ==
    IF kind = "sort" THEN [start |-> t * ps, len |-> ps]
                     ELSE [start |-> t * ps, len |-> 2 * ps]

\* What task t works on: its partition, or the two it merges.
Segment(t) ==
    IF kind = "sort" THEN [start |-> t * ps, len |-> ps]
                     ELSE [start |-> (2 * t) * ps, len |-> 2 * ps]

From(t) == Segment(t).start + 1
To(t) == Segment(t).start + Segment(t).len

\* data with the numbers of s from place a on, counted from 1.
Stored(a, s) == SubSeq(data, 1, a - 1) \o s \o SubSeq(data, a + Len(s), n)

\* A thread is created, or an iteration handed out.
Create ==
    /\ pc[Main] = "create"
    /\ IF r < nodes
       THEN pc' = [pc EXCEPT ![r] = "task"] /\ r' = r + 1
       ELSE pc' = [pc EXCEPT ![Main] = "join"] /\ r' = 0
    /\ UNCHANGED <<input, data, partition_size, kind, nodes, buf, level, net>>

sort_thread_main(t) ==
    /\ pc[t] = "task" /\ kind = "sort"
    /\ IF Overflow(ps)
       THEN Crash /\ UNCHANGED data
       ELSE /\ data' = Stored(From(t), mergesort[SubSeq(data, From(t), To(t))])
            /\ pc' = [pc EXCEPT ![t] = "ended"]
    /\ UNCHANGED <<input, partition_size, kind, nodes, r, buf, level, net>>

\* The result goes to temp, and in an OpenMP iteration to data then.
merge_thread_main(t) ==
    /\ pc[t] = "task" /\ kind = "merge"
    /\ LET mid == From(t) + ps
       IN  buf' = [buf EXCEPT ![t] = merge[<<SubSeq(data, From(t), mid - 1),
                                             SubSeq(data, mid, To(t))>>]]
    /\ pc' = [pc EXCEPT ![t] = IF input.version = "openmp" THEN "copy" ELSE "ended"]
    /\ UNCHANGED <<input, data, partition_size, kind, nodes, r, level, net>>

CopyBack(t) ==
    /\ pc[t] = "copy"
    /\ data' = Stored(From(t), buf[t])
    /\ pc' = [pc EXCEPT ![t] = "ended"]
    /\ UNCHANGED <<input, partition_size, kind, nodes, r, buf, level, net>>

\* Slip: main does not wait for the thread.
Join_NoWait ==
    /\ pc[Main] = "join" /\ r < nodes
    /\ data' = IF kind = "merge" /\ input.version = "pthreads"
               THEN Stored(From(r), buf[r]) ELSE data
    /\ r' = r + 1
    /\ UNCHANGED <<input, partition_size, kind, nodes, pc, buf, level, net>>

\* Main waits for thread r, and copies what it has merged back; the end of a
\* parallel loop waits for its iterations.
Join ==
    /\ pc[Main] = "join" /\ r < nodes
    /\ pc[r] = "ended"
    /\ data' = IF kind = "merge" /\ input.version = "pthreads"
               THEN Stored(From(r), buf[r]) ELSE data
    /\ pc' = [pc EXCEPT ![r] = "idle"]
    /\ r' = r + 1
    /\ UNCHANGED <<input, partition_size, kind, nodes, buf, level, net>>

\* The next level: half as many tasks, of twice the size after the first.
NextLevel ==
    /\ pc[Main] = "join" /\ r = nodes
    /\ nodes' = nodes \div 2
    /\ partition_size' =
           IF kind = "merge" THEN [partition_size EXCEPT ![0] = 2 * @]
                             ELSE partition_size
    /\ kind' = "merge" /\ r' = 0
    /\ pc' = [pc EXCEPT ![Main] = IF nodes' > 0 THEN "create" ELSE "done"]
    /\ UNCHANGED <<input, data, buf, level, net>>

-----------------------------------------------------------------------------
\* mg_mpi.c

Send(from, to, part) == [from |-> from, to |-> to, part |-> part]

\* The root gives every rank its part, and has data cleared, which nobody
\* looks at before it is overwritten.
ScatterRoot ==
    /\ pc[0] = "scatter"
    /\ LET part(t) == SubSeq(data, t * ps + 1, (t + 1) * ps)
       IN  /\ net' = {Send(0, t, part(t)) : t \in Ranks \ {0}}
           /\ buf' = [buf EXCEPT ![0] = part(0)]
    /\ data' = [k \in 1 .. n |-> Junk]
    /\ pc' = [pc EXCEPT ![0] = "sort"]
    /\ UNCHANGED <<input, partition_size, kind, nodes, r, level>>

ScatterOther(t) ==
    /\ t # 0 /\ pc[t] = "scatter"
    /\ \E m \in net :
           /\ m.from = 0 /\ m.to = t
           /\ net' = net \ {m}
           /\ buf' = [buf EXCEPT ![t] = m.part]
    /\ pc' = [pc EXCEPT ![t] = "sort"]
    /\ UNCHANGED <<input, data, partition_size, kind, nodes, r, level>>

sort_partition(t) ==
    /\ pc[t] = "sort"
    /\ IF Overflow(partition_size[t])
       THEN Crash /\ UNCHANGED buf
       ELSE /\ buf' = [buf EXCEPT ![t] = mergesort[@]]
            /\ pc' = [pc EXCEPT ![t] = "collect"]
    /\ UNCHANGED <<input, data, partition_size, kind, nodes, r, level, net>>

\* 2 to the power of k.
pow2[k \in Nat] == IF k = 0 THEN 1 ELSE 2 * pow2[k - 1]

levels == CHOOSE k \in 0 .. input.p : pow2[k] <= input.p /\ input.p < pow2[k + 1]

left_sib(t) == pow2[level[t]]
right_sib(t) == pow2[level[t] - 1]
Collects(t) == pc[t] = "collect" /\ level[t] <= levels
IsLeft(t) == t % left_sib(t) = 0
IsRight(t) == (t + right_sib(t)) % left_sib(t) = 0

\* A left sibling merges what the right one sends; when there is none, the
\* receive names a rank that does not exist, and the job is aborted.
RecvMerge(t) ==
    /\ Collects(t) /\ IsLeft(t)
    /\ LET sender == t + right_sib(t)
       IN  IF sender \notin Ranks
           THEN Crash /\ UNCHANGED <<partition_size, buf, level, net>>
           ELSE \E m \in net :
                  /\ m.from = sender /\ m.to = t
                  /\ net' = net \ {m}
                  /\ buf' = [buf EXCEPT ![t] = merge[<<@, m.part>>]]
                  /\ partition_size' = [partition_size EXCEPT ![t] = 2 * @]
                  /\ level' = [level EXCEPT ![t] = @ + 1]
                  /\ UNCHANGED pc
    /\ UNCHANGED <<input, data, kind, nodes, r>>

\* Slip: the part goes to the left sibling of the level above.
SendUp_TooFar(t) ==
    /\ Collects(t) /\ ~ IsLeft(t)
    /\ net' = IF IsRight(t) THEN net \cup {Send(t, t - left_sib(t), buf[t])} ELSE net
    /\ level' = [level EXCEPT ![t] = @ + 1]
    /\ UNCHANGED <<input, data, partition_size, kind, nodes, r, pc, buf>>

\* A right sibling sends its part, and any other rank has nothing to do.
\* Whether MPI_Send waits for the receiver makes no difference to anybody:
\* a rank that has sent is idle on the levels that follow.
SendUp(t) ==
    /\ Collects(t) /\ ~ IsLeft(t)
    /\ net' = IF IsRight(t) THEN net \cup {Send(t, t - right_sib(t), buf[t])} ELSE net
    /\ level' = [level EXCEPT ![t] = @ + 1]
    /\ UNCHANGED <<input, data, partition_size, kind, nodes, r, pc, buf>>

\* The end of collect_results: the root copies n numbers out of its part,
\* however many there are.
Collected(t) ==
    /\ pc[t] = "collect" /\ level[t] > levels
    /\ data' = IF t = 0
               THEN [k \in 1 .. n |-> IF k <= Len(buf[0]) THEN buf[0][k] ELSE Junk]
               ELSE data
    /\ pc' = [pc EXCEPT ![t] = "done"]
    /\ UNCHANGED <<input, partition_size, kind, nodes, r, buf, level, net>>

-----------------------------------------------------------------------------
Thread(t) == sort_thread_main(t) \/ merge_thread_main(t) \/ CopyBack(t)

Rank(t) ==
    \/ t = 0 /\ ScatterRoot
    \/ ScatterOther(t) \/ sort_partition(t)
    \/ RecvMerge(t) \/ SendUp(t) \/ Collected(t)

Next ==
    \/ Create \/ Join \/ NextLevel
    \/ \E t \in Ranks : Thread(t) \/ Rank(t)

Spec == Init /\ [][Next]_vars

\* Every thread and every rank runs: there is always a step that one of them
\* takes until none is left, and the steps are finitely many.
FairSpec == Spec /\ WF_vars(Next)

-----------------------------------------------------------------------------
Dead == pc[Main] = "dead"

\* The variables keep their types; a rank has as many numbers as it says.
TypeOK ==
    /\ DOMAIN data = 1 .. n
    /\ partition_size \in [Ranks -> Nat]
    /\ kind \in {"sort", "merge"} /\ nodes \in 0 .. input.p /\ r \in 0 .. input.p
    /\ pc \in [Ranks \cup {Main} ->
                 {"create", "join", "idle", "task", "copy", "ended",
                  "scatter", "sort", "collect", "done", "dead"}]
    /\ level \in [Ranks -> 1 .. input.p + 1]
    /\ \A m \in net :
           Len(m.part) = partition_size[IF m.from = 0 THEN m.to ELSE m.from]
    /\ \A t \in Ranks : pc[t] \in {"sort", "collect"} => Len(buf[t]) = partition_size[t]

\* The numbers a thread is using: those of its task until it has ended, and
\* those of a merge until main has copied it back.
Uses(t) ==
    \/ pc[t] \in {"task", "copy"}
    \/ pc[t] = "ended" /\ kind = "merge" /\ input.version = "pthreads"

\* Threads that run at the same time use different numbers, all of them in
\* the array: on no level does a task begin before those that made its
\* halves have ended.
SegmentsDisjoint ==
    \A t \in Ranks : Uses(t) =>
        /\ 0 < From(t) /\ To(t) <= n
        /\ \A u \in Ranks \ {t} : Uses(u) => To(t) < From(u) \/ To(u) < From(t)

Count(s, v) == Cardinality({k \in DOMAIN s : s[k] = v})
Numbers(s) == {s[k] : k \in DOMAIN s}
SameNumbers(s, t) == \A v \in Numbers(s) \cup Numbers(t) : Count(s, v) = Count(t, v)

\* The parts that end up in the first one: a power of two of them.
Merged == pow2[levels] * (n \div input.p)

\* The result of every version: the parts that have been merged are sorted,
\* and no number is lost or doubled; the numbers of the other parts, and
\* those that p leaves over, are still there in threads, and lost in MPI.
\* With a power of two that divides n the whole input is sorted.
ResultSorted ==
    pc[IF Mpi THEN 0 ELSE Main] = "done" =>
        /\ \A k \in 2 .. Merged : data[k - 1] <= data[k]
        /\ SameNumbers(SubSeq(data, 1, Merged), SubSeq(input.data, 1, Merged))
        /\ IF Mpi
           THEN \A k \in Merged + 1 .. n : data[k] = Junk
           ELSE SameNumbers(data, input.data)

Sent(from, to) == \E m \in net : m.from = from /\ m.to = to

\* Whether main, a task or a rank need not wait.
CanMove(t) ==
    \/ pc[t] \in {"create", "task", "copy", "sort"}
    \/ pc[t] = "join" /\ (r < nodes => pc[r] = "ended")
    \/ pc[t] = "scatter" /\ (t = 0 \/ Sent(0, t))
    \/ /\ pc[t] = "collect"
       /\ Collects(t) /\ IsLeft(t) /\ t + right_sib(t) \in Ranks => Sent(t + right_sib(t), t)

AllEnded == \A t \in Ranks \cup {Main} : pc[t] \in {"done", "idle"}

\* Main and the threads, or the ranks, never all wait for each other: who works
\* out that it has to receive has a sibling that works out that it has to send.
\* And the program dies only where p is more than n, or, in MPI, no power of two.
NobodyStuck ==
    IF Dead THEN input.p > n \/ (Mpi /\ input.p # pow2[levels])
    ELSE AllEnded \/ \E t \in Ranks \cup {Main} : CanMove(t)

\* Everybody ends, or the program dies.
RunsToEnd == <>(Dead \/ AllEnded)
=============================================================================
