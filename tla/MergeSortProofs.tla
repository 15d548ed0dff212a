-------------------------- MODULE MergeSortProofs --------------------------
(***************************************************************************)
(* Proofs about MergeSort for every input, every number of parts and all   *)
(* versions: threads that run at the same time use different numbers, the  *)
(* variables keep their types, the parts that are merged are sorted, with  *)
(* the numbers of the input, and nobody is ever stuck.                     *)
(*                                                                         *)
(* Sortedness needs what the recursive functions compute.  Recursion       *)
(* shows that a definition that looks back along a measure defines a       *)
(* function, MergeFunction, MergesortFunction and Powers apply it, and     *)
(* MergeWorks and MergesortWorks say what they make, by induction on a set *)
(* of lengths.  Sorting is the inductive invariant.                        *)
(***************************************************************************)
EXTENDS MergeSort, SequenceTheorems, FiniteSetTheorems, TLAPS

\* What a task of this level works on, in numbers.
TaskSize == IF kind = "sort" THEN ps ELSE 2 * ps

Places == {"create", "join", "idle", "task", "copy", "ended",
           "scatter", "sort", "collect", "done", "dead"}

Shape ==
    /\ input \in Inputs
    /\ partition_size \in [Ranks -> Nat]
    /\ kind \in {"sort", "merge"} /\ nodes \in Nat /\ r \in Nat
    /\ pc \in [Ranks \cup {Main} -> Places]

IsIdle(t) == pc[t] = "idle"

\* Which tasks may run: those that main has created and not joined.
TasksOfMain ==
    /\ pc[Main] = "create" => r <= nodes /\ \A t \in Ranks : t >= r => IsIdle(t)
    /\ pc[Main] = "join" =>
           r <= nodes /\ \A t \in Ranks : t >= nodes \/ t < r => IsIdle(t)
    /\ pc[Main] = "done" => \A t \in Ranks : IsIdle(t)
    /\ pc[Main] = "dead" => \A t \in Ranks : pc[t] = "dead"
    /\ pc[Main] \in {"create", "join", "done", "dead"}

\* The inductive invariant: the tasks of a level fit into the array.
IInv ==
    /\ Shape
    /\ Mpi => /\ pc[Main] \in {"done", "dead"}
              /\ \A t \in Ranks : pc[t] \notin {"idle", "task", "copy", "ended"}
    /\ ~ Mpi => /\ nodes * TaskSize <= n
                /\ TasksOfMain
                /\ \A t \in Ranks : pc[t] \notin {"scatter", "sort", "collect"}

-----------------------------------------------------------------------------
\* Arithmetic.

LEMMA Mono ==
    ASSUME NEW a \in Nat, NEW b \in Nat, NEW l \in Nat, a <= b
    PROVE  a * l <= b * l
OBVIOUS

\* Half as many tasks of twice the size need no more room.
LEMMA Halved ==
    ASSUME NEW a \in Nat, NEW l \in Nat
    PROVE  a \div 2 \in Nat /\ (a \div 2) * (2 * l) <= a * l
<1> DEFINE h == a \div 2
<1>1. h \in Nat /\ 2 * h <= a
  OBVIOUS
<1>2. (2 * h) * l <= a * l
  BY <1>1, Mono
<1>3. h * (2 * l) = (2 * h) * l
  BY <1>1
<1> QED
  BY <1>1, <1>2, <1>3

LEMMA PartsFit ==
    ASSUME NEW a \in Nat, NEW p \in Nat \ {0}
    PROVE  a \div p \in Nat /\ p * (a \div p) <= a
OBVIOUS

\* A task ends where the next one begins, or before.
LEMMA EndsBefore ==
    ASSUME NEW a \in Nat, NEW b \in Nat, NEW l \in Nat, a < b
    PROVE  a * l + l <= b * l
<1>1. (a + 1) * l <= b * l
  BY Mono
<1>2. (a + 1) * l = a * l + l
  OBVIOUS
<1> QED
  BY <1>1, <1>2

LEMMA InputOK ==
    ASSUME input \in Inputs
    PROVE  /\ input.p \in Nat \ {0} /\ n \in Nat
           /\ 0 \in Ranks /\ Ranks \subseteq Nat /\ Main \notin Ranks
<1>1. input.p \in Nat \ {0} /\ n \in Nat
  BY InputsAssumption DEF n
<1> QED
  BY <1>1 DEF Ranks, Main

-----------------------------------------------------------------------------
LEMMA InitIInv == Init => IInv
<1> SUFFICES ASSUME Init
             PROVE  IInv
  OBVIOUS
<1>1. input \in Inputs
  BY DEF Init
<1>2. /\ input.p \in Nat \ {0} /\ n \in Nat
      /\ 0 \in Ranks /\ Ranks \subseteq Nat /\ Main \notin Ranks
  BY <1>1, InputOK
<1>3. n \div input.p \in Nat /\ input.p * (n \div input.p) <= n
  BY <1>2, PartsFit
<1>4. Shape
  BY <1>2, <1>3 DEF Init, Shape, Places, n
<1>5. nodes * TaskSize <= n
  BY <1>2, <1>3 DEF Init, TaskSize, ps, n
<1> QED
  BY <1>2, <1>4, <1>5 DEF Init, IInv, TasksOfMain, IsIdle

\* A program that dies leaves no task behind.
LEMMA CrashIInv ==
    ASSUME IInv, Crash, UNCHANGED <<input, partition_size, kind, nodes, r>>
    PROVE  IInv'
<1>1. pc' \in [Ranks \cup {Main} -> Places]
  BY DEF IInv, Shape, Crash, Places
<1>2. pc'[Main] = "dead" /\ \A t \in Ranks : pc'[t] = "dead"
  BY DEF IInv, Shape, Crash
<1>3. /\ Shape' /\ Mpi' = Mpi /\ n' = n /\ Ranks' = Ranks /\ TaskSize' = TaskSize
      /\ nodes' = nodes
  BY <1>1 DEF IInv, Shape, Mpi, n, Ranks, TaskSize, ps, Main
<1> QED
  BY <1>2, <1>3 DEF IInv, TasksOfMain, IsIdle, Main

\* What a step that leaves the sizes alone keeps.
LEMMA SameSizes ==
    ASSUME IInv, UNCHANGED <<input, partition_size, kind, nodes>>,
           r' \in Nat, pc' \in [Ranks \cup {Main} -> Places]
    PROVE  /\ Shape' /\ Mpi' = Mpi /\ Ranks' = Ranks /\ Main' = Main
           /\ (~ Mpi => nodes' * TaskSize' <= n')
  BY DEF IInv, Shape, Mpi, n, Ranks, TaskSize, ps, Main

-----------------------------------------------------------------------------
\* The steps of threads.

LEMMA CreateIInv == ASSUME IInv, Create PROVE IInv'
<1>1. ~ Mpi /\ TasksOfMain
  BY DEF IInv, Create
<1>2. /\ Ranks \subseteq Nat /\ Main \notin Ranks
  BY InputOK DEF IInv, Shape
<1>3. r' \in Nat /\ pc' \in [Ranks \cup {Main} -> Places]
  BY DEF IInv, Shape, Create, Places
<1>4. UNCHANGED <<input, partition_size, kind, nodes>>
  BY DEF Create
<1>5. /\ Shape' /\ Mpi' = Mpi /\ Ranks' = Ranks /\ Main' = Main
      /\ nodes' * TaskSize' <= n'
  BY <1>1, <1>3, <1>4, SameSizes
<1>6. TasksOfMain'
  <2>1. CASE r < nodes
    <3>1. pc' = [pc EXCEPT ![r] = "task"] /\ r' = r + 1 /\ pc[Main] = "create"
      BY <2>1 DEF Create
    <3>2. r # Main /\ pc'[Main] = "create"
      BY <3>1 DEF IInv, Shape, Main
    <3>3. \A t \in Ranks : t >= r' => pc'[t] = "idle"
      BY <1>1, <1>2, <3>1 DEF IInv, Shape, TasksOfMain, IsIdle
    <3>4. r' <= nodes'
      BY <2>1, <3>1, <1>4 DEF IInv, Shape
    <3> QED
      BY <3>2, <3>3, <3>4, <1>5 DEF TasksOfMain, IsIdle
  <2>2. CASE ~ (r < nodes)
    <3>1. pc' = [pc EXCEPT ![Main] = "join"] /\ r' = 0 /\ pc[Main] = "create"
      BY <2>2 DEF Create
    <3>2. pc'[Main] = "join"
      BY <3>1 DEF IInv, Shape
    <3>3. r = nodes
      BY <1>1, <2>2, <3>1 DEF IInv, Shape, TasksOfMain
    <3>4. \A t \in Ranks : t >= nodes' \/ t < r' => pc'[t] = "idle"
      BY <1>1, <1>2, <1>4, <3>1, <3>3 DEF IInv, Shape, TasksOfMain, IsIdle
    <3>5. r' <= nodes'
      BY <3>1, <1>4 DEF IInv, Shape
    <3> QED
      BY <3>2, <3>4, <3>5, <1>5 DEF TasksOfMain, IsIdle
  <2> QED
    BY <2>1, <2>2
<1>7. \A t \in Ranks : pc'[t] \notin {"scatter", "sort", "collect"}
  BY <1>1, <1>2 DEF IInv, Shape, Create
<1> QED
  BY <1>1, <1>5, <1>6, <1>7 DEF IInv

\* A thread that ends stays with main, or stops working with it.
LEMMA ThreadIInv ==
    ASSUME IInv, NEW t \in Ranks, pc[t] \in {"task", "copy"},
           NEW place \in {"copy", "ended"}, pc' = [pc EXCEPT ![t] = place],
           UNCHANGED <<input, partition_size, kind, nodes, r>>
    PROVE  IInv'
<1>1. ~ Mpi /\ TasksOfMain
  BY DEF IInv
<1>2. /\ Ranks \subseteq Nat /\ Main \notin Ranks
  BY InputOK DEF IInv, Shape
<1>3. r' \in Nat /\ pc' \in [Ranks \cup {Main} -> Places]
  BY DEF IInv, Shape, Places
<1>4. /\ Shape' /\ Mpi' = Mpi /\ Ranks' = Ranks /\ Main' = Main
      /\ nodes' * TaskSize' <= n'
  BY <1>1, <1>3, SameSizes
<1>5. pc'[Main] = pc[Main] /\ \A u \in Ranks : IsIdle(u) => pc'[u] = "idle"
  BY <1>2 DEF IInv, Shape, IsIdle
<1>6. pc[Main] \notin {"done", "dead"}
  BY <1>1 DEF TasksOfMain, IsIdle
<1>7. TasksOfMain'
  BY <1>1, <1>4, <1>5, <1>6 DEF TasksOfMain, IsIdle
<1>8. \A u \in Ranks : pc'[u] \notin {"scatter", "sort", "collect"}
  BY <1>1 DEF IInv, Shape
<1> QED
  BY <1>1, <1>4, <1>7, <1>8 DEF IInv

LEMMA JoinIInv == ASSUME IInv, Join PROVE IInv'
<1>1. ~ Mpi /\ TasksOfMain
  BY DEF IInv, Join
<1>2. /\ Ranks \subseteq Nat /\ Main \notin Ranks
  BY InputOK DEF IInv, Shape
<1>3. r' = r + 1 /\ pc' = [pc EXCEPT ![r] = "idle"] /\ r < nodes /\ pc[Main] = "join"
  BY DEF Join
<1>4. r' \in Nat /\ pc' \in [Ranks \cup {Main} -> Places]
  <2>1. r' \in Nat
    BY <1>3 DEF IInv, Shape
  <2>2. pc' \in [Ranks \cup {Main} -> Places]
    BY <1>3 DEF IInv, Shape, Places
  <2> QED
    BY <2>1, <2>2
<1>5. UNCHANGED <<input, partition_size, kind, nodes>>
  BY DEF Join
<1>6. /\ Shape' /\ Mpi' = Mpi /\ Ranks' = Ranks /\ Main' = Main
      /\ nodes' * TaskSize' <= n'
  BY <1>1, <1>4, <1>5, SameSizes
<1>7. r # Main /\ pc'[Main] = "join"
  BY <1>3 DEF IInv, Shape, Main
<1>8. \A t \in Ranks : t >= nodes' \/ t < r' => pc'[t] = "idle"
  BY <1>1, <1>2, <1>3, <1>5 DEF IInv, Shape, TasksOfMain, IsIdle
<1>9. r' <= nodes'
  BY <1>3, <1>5 DEF IInv, Shape
<1>10. \A t \in Ranks : pc'[t] \notin {"scatter", "sort", "collect"}
  BY <1>1, <1>3 DEF IInv, Shape
<1> QED
  BY <1>1, <1>6, <1>7, <1>8, <1>9, <1>10 DEF IInv, TasksOfMain, IsIdle

LEMMA NextLevelIInv == ASSUME IInv, NextLevel PROVE IInv'
<1>1. ~ Mpi /\ TasksOfMain
  BY DEF IInv, NextLevel
<1>2. /\ input.p \in Nat \ {0} /\ n \in Nat
      /\ 0 \in Ranks /\ Ranks \subseteq Nat /\ Main \notin Ranks
  BY InputOK DEF IInv, Shape
<1>3. /\ pc[Main] = "join" /\ r = nodes /\ nodes' = nodes \div 2
      /\ kind' = "merge" /\ r' = 0 /\ input' = input
      /\ pc' = [pc EXCEPT ![Main] = IF nodes' > 0 THEN "create" ELSE "done"]
  BY DEF NextLevel
<1>4. ps \in Nat /\ TaskSize \in Nat /\ nodes \in Nat
  BY <1>2 DEF IInv, Shape, ps, TaskSize
<1>5. nodes' \in Nat /\ nodes' * (2 * TaskSize) <= nodes * TaskSize
  BY <1>3, <1>4, Halved
<1>6. partition_size' \in [Ranks -> Nat] /\ ps' = TaskSize
  <2>1. CASE kind = "merge"
    <3>1. partition_size' = [partition_size EXCEPT ![0] = 2 * @]
      BY <2>1 DEF NextLevel
    <3> QED
      BY <2>1, <3>1, <1>2, <1>4 DEF IInv, Shape, ps, TaskSize
  <2>2. CASE kind = "sort"
    BY <2>2, <1>2 DEF NextLevel, IInv, Shape, ps, TaskSize
  <2> QED
    BY <2>1, <2>2 DEF IInv, Shape
<1>7. TaskSize' = 2 * TaskSize
  BY <1>3, <1>6 DEF TaskSize
<1>8. nodes * TaskSize <= n /\ n' = n
  BY <1>1, <1>3 DEF IInv, n
<1>9. nodes' * TaskSize' <= n'
  <2> DEFINE a == nodes' * (2 * TaskSize)
             b == nodes * TaskSize
  <2>1. a \in Int /\ b \in Int
    BY <1>4, <1>5
  <2>2. a <= b /\ b <= n
    BY <1>5, <1>8
  <2>3. a <= n
    BY <2>1, <2>2, <1>2
  <2> QED
    BY <2>3, <1>7, <1>8
<1>10. pc' \in [Ranks \cup {Main} -> Places]
  BY <1>3 DEF IInv, Shape, Places
<1>11. Shape' /\ Mpi' = Mpi /\ Ranks' = Ranks /\ Main' = Main
  BY <1>3, <1>5, <1>6, <1>10 DEF IInv, Shape, Mpi, Ranks, Main
<1>12. \A t \in Ranks : pc'[t] = "idle"
  BY <1>1, <1>2, <1>3 DEF IInv, Shape, TasksOfMain, IsIdle
<1>13. pc'[Main] \in {"create", "done"}
  BY <1>3 DEF IInv, Shape
<1> QED
  BY <1>1, <1>3, <1>5, <1>9, <1>11, <1>12, <1>13 DEF IInv, TasksOfMain, IsIdle

\* The steps of ranks change places of ranks only.
LEMMA RankIInv ==
    ASSUME IInv, NEW t \in Ranks, pc[t] \in {"scatter", "sort", "collect"},
           NEW place \in {"scatter", "sort", "collect", "done"},
           pc' = [pc EXCEPT ![t] = place],
           partition_size' \in [Ranks -> Nat],
           UNCHANGED <<input, kind, nodes, r>>
    PROVE  IInv'
<1>1. Mpi
  BY DEF IInv
<1>2. Main \notin Ranks
  BY InputOK DEF IInv, Shape
<1>3. Shape' /\ Mpi' = Mpi /\ Ranks' = Ranks /\ Main' = Main
  BY DEF IInv, Shape, Places, Mpi, Ranks, Main
<1>4. pc'[Main] = pc[Main]
  BY <1>2 DEF IInv, Shape
<1>5. \A u \in Ranks : pc'[u] \notin {"idle", "task", "copy", "ended"}
  BY <1>1 DEF IInv, Shape
<1> QED
  BY <1>1, <1>3, <1>4, <1>5 DEF IInv

LEMMA NextIInv == IInv /\ [Next]_vars => IInv'
<1> SUFFICES ASSUME IInv, [Next]_vars
             PROVE  IInv'
  OBVIOUS
<1>1. CASE Create
  BY <1>1, CreateIInv
<1>2. CASE Join
  BY <1>2, JoinIInv
<1>3. CASE NextLevel
  BY <1>3, NextLevelIInv
<1>4. ASSUME NEW t \in Ranks, Thread(t)
      PROVE  IInv'
  <2>1. CASE sort_thread_main(t)
    BY <2>1, CrashIInv, ThreadIInv DEF sort_thread_main
  <2>2. CASE merge_thread_main(t)
    BY <2>2, ThreadIInv DEF merge_thread_main
  <2>3. CASE CopyBack(t)
    BY <2>3, ThreadIInv DEF CopyBack
  <2> QED
    BY <1>4, <2>1, <2>2, <2>3 DEF Thread
<1>5. ASSUME NEW t \in Ranks, Rank(t)
      PROVE  IInv'
  <2>0. partition_size \in [Ranks -> Nat]
    BY DEF IInv, Shape
  <2>1. CASE t = 0 /\ ScatterRoot
    BY <2>0, <2>1, RankIInv DEF ScatterRoot
  <2>2. CASE ScatterOther(t)
    BY <2>0, <2>2, RankIInv DEF ScatterOther
  <2>3. CASE sort_partition(t)
    BY <2>0, <2>3, CrashIInv, RankIInv DEF sort_partition
  <2>4. CASE RecvMerge(t)
    <3>1. CASE t + right_sib(t) \notin Ranks
      BY <2>4, <3>1, CrashIInv DEF RecvMerge
    <3>2. CASE t + right_sib(t) \in Ranks
      <4>1. /\ pc[t] = "collect" /\ pc' = pc
            /\ partition_size' = [partition_size EXCEPT ![t] = 2 * @]
            /\ UNCHANGED <<input, kind, nodes, r>>
        BY <2>4, <3>2 DEF RecvMerge, Collects
      <4>2. pc' = [pc EXCEPT ![t] = "collect"]
        BY <4>1 DEF IInv, Shape
      <4>3. partition_size' \in [Ranks -> Nat]
        BY <4>1, <2>0
      <4> QED
        BY <4>1, <4>2, <4>3, RankIInv
    <3> QED
      BY <3>1, <3>2
  <2>5. CASE SendUp(t)
    <3>1. pc[t] = "collect" /\ pc' = [pc EXCEPT ![t] = "collect"]
      BY <2>5 DEF SendUp, Collects, IInv, Shape
    <3> QED
      BY <2>0, <2>5, <3>1, RankIInv DEF SendUp
  <2>6. CASE Collected(t)
    BY <2>0, <2>6, RankIInv DEF Collected
  <2> QED
    BY <1>5, <2>1, <2>2, <2>3, <2>4, <2>5, <2>6 DEF Rank
<1>6. CASE UNCHANGED vars
  <2>1. Shape' /\ pc' = pc /\ UNCHANGED <<Mpi, n, Ranks, TaskSize, nodes, r>>
    BY <1>6 DEF vars, IInv, Shape, Mpi, n, Ranks, TaskSize, ps
  <2> QED
    BY <2>1 DEF IInv, TasksOfMain, IsIdle, Main
<1> QED
  BY <1>1, <1>2, <1>3, <1>4, <1>5, <1>6 DEF Next

-----------------------------------------------------------------------------
\* The place of a task, in multiples of the size of one.
LEMMA Extent ==
    ASSUME IInv, ~ Mpi, NEW t \in Ranks
    PROVE  /\ TaskSize \in Nat /\ t \in Nat
           /\ From(t) = t * TaskSize + 1 /\ To(t) = t * TaskSize + TaskSize
<1>1. 0 \in Ranks /\ t \in Nat
  BY InputOK DEF IInv, Shape
<1>2. ps \in Nat
  BY <1>1 DEF IInv, Shape, ps
<1>3. CASE kind = "sort"
  BY <1>1, <1>2, <1>3 DEF From, To, Segment, TaskSize
<1>4. CASE kind = "merge"
  <2>1. (2 * t) * ps = t * (2 * ps)
    BY <1>1, <1>2
  <2> QED
    BY <1>1, <1>2, <1>4, <2>1 DEF From, To, Segment, TaskSize
<1> QED
  BY <1>3, <1>4 DEF IInv, Shape

\* Only the tasks of the level use numbers.
LEMMA UsersAreTasks ==
    ASSUME IInv, NEW t \in Ranks, Uses(t)
    PROVE  ~ Mpi /\ t < nodes
<1>1. ~ Mpi /\ TasksOfMain /\ ~ IsIdle(t) /\ pc[t] # "dead"
  BY DEF IInv, Uses, IsIdle
<1>2. t \in Nat /\ nodes \in Nat /\ r \in Nat
  BY InputOK DEF IInv, Shape
<1>3. pc[Main] \in {"create", "join"}
  BY <1>1 DEF TasksOfMain
<1> QED
  BY <1>1, <1>2, <1>3 DEF TasksOfMain

\* Neighbours: a task with a smaller number ends before the other begins.
LEMMA Apart ==
    ASSUME IInv, ~ Mpi, NEW t \in Ranks, NEW u \in Ranks, t < u
    PROVE  To(t) < From(u)
<1>1. /\ TaskSize \in Nat /\ t \in Nat /\ u \in Nat
      /\ To(t) = t * TaskSize + TaskSize /\ From(u) = u * TaskSize + 1
  BY Extent
<1>2. t * TaskSize + TaskSize <= u * TaskSize
  BY <1>1, EndsBefore
<1> QED
  BY <1>1, <1>2

LEMMA IInvDisjoint == IInv => SegmentsDisjoint
<1> SUFFICES ASSUME IInv, NEW t \in Ranks, Uses(t)
             PROVE  /\ 0 < From(t) /\ To(t) <= n
                    /\ \A u \in Ranks \ {t} :
                           Uses(u) => To(t) < From(u) \/ To(u) < From(t)
  BY DEF SegmentsDisjoint
<1>1. ~ Mpi /\ t < nodes /\ nodes \in Nat /\ n \in Nat
  BY UsersAreTasks, InputOK DEF IInv, Shape
<1>2. /\ TaskSize \in Nat /\ t \in Nat
      /\ From(t) = t * TaskSize + 1 /\ To(t) = t * TaskSize + TaskSize
  BY <1>1, Extent
<1>3. 0 < From(t)
  <2>1. t * TaskSize \in Nat
    BY <1>2
  <2> QED
    BY <1>2, <2>1
<1>4. To(t) <= n
  <2>1. t * TaskSize + TaskSize <= nodes * TaskSize
    BY <1>1, <1>2, EndsBefore
  <2>2. nodes * TaskSize <= n
    BY <1>1 DEF IInv
  <2>3. nodes * TaskSize \in Int /\ To(t) \in Int
    BY <1>1, <1>2
  <2>4. To(t) <= nodes * TaskSize
    BY <1>2, <2>1
  <2> DEFINE b == nodes * TaskSize
  <2>5. b \in Int /\ To(t) <= b /\ b <= n
    BY <2>2, <2>3, <2>4
  <2> HIDE DEF b
  <2> QED
    BY <2>3, <2>5, <1>1
<1>5. ASSUME NEW u \in Ranks \ {t}
      PROVE  To(t) < From(u) \/ To(u) < From(t)
  <2>1. t \in Nat /\ u \in Nat
    BY InputOK DEF IInv, Shape
  <2>2. t < u \/ u < t
    BY <2>1
  <2> QED
    BY <1>1, <2>2, Apart
<1> QED
  BY <1>3, <1>4, <1>5

\* Whatever the input, the number of parts and the version: a task reads and
\* writes inside the array, and not where another one does (mg_pthreads.c's
\* and mg_openmp.c's starts and sizes, level by level).
THEOREM TasksKeepApart == Spec => []SegmentsDisjoint
<1>1. Init => IInv
  BY InitIInv
<1>2. IInv /\ [Next]_vars => IInv'
  BY NextIInv
<1>3. IInv => SegmentsDisjoint
  BY IInvDisjoint
<1> QED
  BY <1>1, <1>2, <1>3, PTL DEF Spec
-----------------------------------------------------------------------------
\* What the programs compute.

Whole == n \div input.p

\* The t-th of the pieces of l numbers.
Piece(s, t, l) == SubSeq(s, t * l + 1, t * l + l)

Ascends(s) == \A k \in 2 .. Len(s) : s[k - 1] <= s[k]
Same(s, t) == \A v \in Int : Count(s, v) = Count(t, v)
Sorts(s, t) == Ascends(s) /\ Same(s, t)

\* Where the numbers of a task are: not touched yet, in the thread's result,
\* or back in data.
Untouched(t) == pc[t] = "task" \/ (pc[Main] = "create" /\ t >= r)
InBuffer(t) ==
    kind = "merge" /\ (pc[t] = "copy" \/ (pc[t] = "ended" /\ input.version = "pthreads"))
Finished(t) == (pc[Main] = "join" /\ t < r) \/ (pc[t] = "ended" /\ ~ InBuffer(t))

TaskSorts(t) ==
    LET part == Piece(input.data, t, TaskSize)
    IN  /\ Same(Piece(data, t, TaskSize), part)
        /\ Untouched(t) /\ kind = "merge" =>
               \A u \in {2 * t, 2 * t + 1} : Sorts(Piece(data, u, ps), Piece(input.data, u, ps))
        /\ InBuffer(t) => Len(buf[t]) = TaskSize /\ Sorts(buf[t], part)
        /\ Finished(t) => Sorts(Piece(data, t, TaskSize), part)

\* Half as many tasks of twice the size: one will be left, as large as Merged.
Makes(a, l, m) == \E k \in Nat : pow2[k] <= a /\ a < pow2[k + 1] /\ pow2[k] * l = m
Halves == Makes(nodes, TaskSize, Merged)

ThreadsSort ==
    /\ net = {}
    /\ data \in [1 .. n -> Int] /\ Same(data, input.data)
    /\ pc[Main] # "done" => Halves /\ \A t \in Ranks : t < nodes => TaskSorts(t)
    /\ pc[Main] = "done" => ps = Merged /\ Sorts(Piece(data, 0, ps), Piece(input.data, 0, ps))
    /\ kind = "sort" => ps = Whole /\ nodes = input.p
    /\ \A t \in Ranks : pc[t] = "copy" => kind = "merge"

Reach(t) == pow2[level[t] - 1]
Active(t) == t % Reach(t) = 0

\* What rank t has when it has all of d parts from its own on.
Gathered(s, t, d) ==
    /\ s \in Seq(Int) /\ Len(s) = d * Whole
    /\ Sorts(s, SubSeq(input.data, t * Whole + 1, t * Whole + d * Whole))

Message(m) ==
    /\ m.to \in Ranks /\ m.from \in Ranks
    /\ IF m.from = 0
       THEN /\ m = Send(0, m.to, Piece(input.data, m.to, Whole))
            /\ pc[m.to] = "scatter"
       ELSE /\ m.to < m.from /\ 2 * m.from - m.to <= input.p
            /\ Gathered(m.part, m.from, m.from - m.to)
            /\ partition_size[m.from] = (m.from - m.to) * Whole
            /\ pc[m.from] \in {"collect", "done"} /\ ~ Active(m.from)

RankSorts(t) ==
    /\ level[t] \in 1 .. levels + 1
    /\ pc[t] \in {"scatter", "sort"} => level[t] = 1 /\ partition_size[t] = Whole
    /\ pc[t] = "sort" => buf[t] = Piece(input.data, t, Whole)
    /\ pc[t] = "collect" => Len(buf[t]) = partition_size[t]
    /\ pc[t] = "collect" /\ Active(t) =>
           /\ t + Reach(t) <= input.p
           /\ Gathered(buf[t], t, Reach(t))

RanksSort ==
    /\ pc[0] = "scatter" =>
           data = input.data /\ net = {} /\ \A t \in Ranks : pc[t] = "scatter"
    /\ DOMAIN data = 1 .. n
    /\ \A m \in net : Message(m)
    /\ \A t \in Ranks : RankSorts(t)
    /\ pc[0] = "done" =>
           /\ Gathered(SubSeq(data, 1, Merged), 0, pow2[levels])
           /\ \A k \in Merged + 1 .. n : data[k] = Junk

Sorting ==
    /\ IInv /\ TypeOK /\ buf \in [Ranks -> Seq(Int)]
    /\ Dead => \A t \in Ranks : pc[t] = "dead"
    /\ ~ Mpi /\ ~ Dead => ThreadsSort
    /\ Mpi /\ ~ Dead => RanksSort

-----------------------------------------------------------------------------
(* Recursion *)

LEMMA Least ==
    ASSUME NEW S \in SUBSET Nat, S # {}
    PROVE  \E x \in S : \A y \in S : x <= y
<1>1. PICK x \in S : \A y \in S : <<y, x>> \notin OpToRel(<, Nat)
  BY NatLessThanWellFounded, WFMin
<1>2. ASSUME NEW y \in S
      PROVE  x <= y
  <2>1. <<y, x>> \notin {pair \in Nat \X Nat : pair[1] < pair[2]}
    BY <1>1 DEF OpToRel
  <2> QED
    BY <2>1
<1> QED
  BY <1>2

\* Complete induction, on a set of numbers rather than a predicate.
LEMMA Induction ==
    ASSUME NEW S, \A k \in Nat : (\A l \in 0 .. k - 1 : l \in S) => k \in S
    PROVE  \A k \in Nat : k \in S
<1> SUFFICES ASSUME NEW k \in Nat, k \notin S
             PROVE  FALSE
  OBVIOUS
<1> DEFINE T == {l \in Nat : l \notin S}
<1>1. PICK x \in T : \A y \in T : x <= y
  BY Least
<1>2. \A l \in 0 .. x - 1 : l \in S
  BY <1>1
<1> QED
  BY <1>2

\* B makes functions from D to R out of such functions, and looks at smaller
\* arguments only, by the measure M.
LooksBack(D, R, M, B) ==
    /\ M \in [D -> Nat] /\ B \in [[D -> R] -> [D -> R]] /\ R # {}
    /\ \A f, g \in [D -> R] : \A x \in D :
           (\A y \in D : M[y] < M[x] => f[y] = g[y]) => B[f][x] = B[g][x]

\* A recursive definition F == B[F] of that kind defines a function.
LEMMA Recursion ==
    ASSUME NEW D, NEW R, NEW M, NEW B, LooksBack(D, R, M, B)
    PROVE  \E F \in [D -> R] : F = B[F]
<1>0. /\ M \in [D -> Nat] /\ B \in [[D -> R] -> [D -> R]] /\ R # {}
      /\ \A f, g \in [D -> R] : \A x \in D :
             (\A y \in D : M[y] < M[x] => f[y] = g[y]) => B[f][x] = B[g][x]
  BY DEF LooksBack
<1> DEFINE Good(f, k) == \A x \in D : M[x] < k => f[x] = B[f][x]
           Agree == {k \in Nat : \A f, g \in [D -> R] : \A x \in D :
                        M[x] = k /\ Good(f, k + 1) /\ Good(g, k + 1) => f[x] = g[x]}
           Have == {k \in Nat : \E f \in [D -> R] : Good(f, k)}
<1>1. ASSUME NEW f \in [D -> R], NEW k \in Nat, NEW l \in Nat, Good(f, k), l <= k
      PROVE  Good(f, l)
  BY <1>0, <1>1
<1>2. ASSUME NEW k \in Nat, \A l \in 0 .. k - 1 : l \in Agree
      PROVE  k \in Agree
  <2> SUFFICES ASSUME NEW f \in [D -> R], NEW g \in [D -> R], NEW x \in D,
                      M[x] = k, Good(f, k + 1), Good(g, k + 1)
               PROVE  f[x] = g[x]
    OBVIOUS
  <2>1. ASSUME NEW y \in D, M[y] < M[x]
        PROVE  f[y] = g[y]
    <3>1. M[y] \in 0 .. k - 1
      BY <1>0, <2>1
    <3>2. Good(f, M[y] + 1) /\ Good(g, M[y] + 1)
      BY <1>0, <3>1, <1>1
    <3> HIDE DEF Good
    <3> QED
      BY <3>1, <3>2, <1>2
  <2>2. B[f][x] = B[g][x]
    BY <1>0, <2>1
  <2> QED
    BY <1>0, <2>2
<1>3. \A k \in Nat : k \in Agree
  <2> HIDE DEF Agree
  <2> QED
    BY <1>2, Induction
<1>4. ASSUME NEW k \in Nat, \A l \in 0 .. k - 1 : l \in Have
      PROVE  k \in Have
  <2>1. CASE k = 0
    <3>1. PICK z : z \in R
      BY <1>0
    <3>2. [x \in D |-> z] \in [D -> R]
      BY <3>1
    <3>3. \A x \in D : ~ (M[x] < 0)
      BY <1>0
    <3>4. Good([x \in D |-> z], 0)
      BY <3>3
    <3> QED
      BY <2>1, <3>2, <3>4
  <2>2. CASE k > 0
    <3>1. PICK f \in [D -> R] : Good(f, k - 1)
      BY <1>4, <2>2
    <3>2. B[f] \in [D -> R]
      BY <1>0
    <3>3. ASSUME NEW x \in D, M[x] < k
          PROVE  B[f][x] = B[B[f]][x]
      <4>1. \A y \in D : M[y] < M[x] => f[y] = B[f][y]
        BY <1>0, <3>1, <3>3
      <4> QED
        BY <1>0, <3>2, <4>1
    <3> QED
      BY <3>2, <3>3
  <2> QED
    BY <2>1, <2>2
<1>5. \A k \in Nat : k \in Have
  <2> HIDE DEF Have
  <2> QED
    BY <1>4, Induction
<1> DEFINE Upto(k) == CHOOSE f \in [D -> R] : Good(f, k)
           F == [x \in D |-> Upto(M[x] + 1)[x]]
<1>6. ASSUME NEW k \in Nat
      PROVE  Upto(k) \in [D -> R] /\ Good(Upto(k), k)
  <2>1. \E f \in [D -> R] : Good(f, k)
    BY <1>5
  <2> HIDE DEF Good
  <2> QED
    BY <2>1
<1> HIDE DEF Upto
<1>7. F \in [D -> R]
  BY <1>0, <1>6
<1>8. ASSUME NEW x \in D
      PROVE  F[x] = B[F][x]
  <2>1. Upto(M[x] + 1) \in [D -> R] /\ Good(Upto(M[x] + 1), M[x] + 1)
    BY <1>0, <1>6
  <2>2. ASSUME NEW y \in D, M[y] < M[x]
        PROVE  F[y] = Upto(M[x] + 1)[y]
    <3>1. Upto(M[y] + 1) \in [D -> R] /\ Good(Upto(M[y] + 1), M[y] + 1)
      BY <1>0, <1>6
    <3>2. Good(Upto(M[x] + 1), M[y] + 1)
      BY <1>0, <2>1, <2>2, <1>1
    <3>3. M[y] \in Agree
      BY <1>0, <1>3
    <3> HIDE DEF Good
    <3> QED
      BY <1>0, <2>1, <3>1, <3>2, <3>3
  <2>3. B[F][x] = B[Upto(M[x] + 1)][x]
    <3> HIDE DEF F
    <3> QED
      BY <1>0, <1>7, <2>1, <2>2
  <2>4. F[x] = Upto(M[x] + 1)[x] /\ M[x] + 1 > M[x]
    BY <1>0
  <2>5. Upto(M[x] + 1)[x] = B[Upto(M[x] + 1)][x]
    BY <2>1, <2>4
  <2> HIDE DEF F
  <2> QED
    BY <2>3, <2>4, <2>5
<1> QED
  <2>1. B[F] \in [D -> R]
    BY <1>0, <1>7
  <2>2. F = B[F]
    <3> HIDE DEF F
    <3> QED
      BY <1>7, <1>8, <2>1
  <2> QED
    BY <1>7, <2>2
-----------------------------------------------------------------------------
\* How often numbers occur in sequences.

At(s, v) == {k \in DOMAIN s : s[k] = v}

LEMMA CountType ==
    ASSUME NEW s \in Seq(Int), NEW v
    PROVE  Count(s, v) \in Nat /\ IsFiniteSet(At(s, v)) /\ Count(s, v) = Cardinality(At(s, v))
<1>1. IsFiniteSet(1 .. Len(s)) /\ At(s, v) \in SUBSET (1 .. Len(s))
  <2>1. Len(s) \in Nat /\ DOMAIN s = 1 .. Len(s)
    BY LenProperties
  <2>2. IsFiniteSet(1 .. Len(s))
    BY <2>1, FS_Interval
  <2> QED
    BY <2>1, <2>2 DEF At
<1>2. IsFiniteSet(At(s, v))
  BY <1>1, FS_Subset
<1>3. Cardinality(At(s, v)) \in Nat
  BY <1>2, FS_CardinalityType
<1> QED
  BY <1>2, <1>3 DEF Count, At

LEMMA CountConcat ==
    ASSUME NEW s \in Seq(Int), NEW t \in Seq(Int), NEW v
    PROVE  Count(s \o t, v) = Count(s, v) + Count(t, v)
<1> DEFINE Moved == {k + Len(s) : k \in At(t, v)}
           f == [k \in At(t, v) |-> k + Len(s)]
<1>1. /\ s \o t \in Seq(Int) /\ Len(s) \in Nat /\ Len(t) \in Nat
      /\ DOMAIN s = 1 .. Len(s) /\ DOMAIN t = 1 .. Len(t)
      /\ DOMAIN (s \o t) = 1 .. Len(s) + Len(t)
      /\ \A i \in 1 .. Len(s) + Len(t) :
             (s \o t)[i] = IF i <= Len(s) THEN s[i] ELSE t[i - Len(s)]
  BY ConcatProperties, LenProperties
<1>2. f \in Bijection(At(t, v), Moved)
  <2>1. At(t, v) \subseteq Nat
    BY <1>1 DEF At
  <2>2. \A k, l \in At(t, v) : k + Len(s) = l + Len(s) => k = l
    BY <1>1, <2>1
  <2>3. f \in Injection(At(t, v), Moved)
    BY <2>2 DEF Injection, IsInjective
  <2>4. f \in Surjection(At(t, v), Moved)
    BY DEF Surjection
  <2> QED
    BY <2>3, <2>4 DEF Bijection
<1>3. IsFiniteSet(Moved) /\ Cardinality(Moved) = Cardinality(At(t, v))
  BY <1>2, CountType, FS_Bijection DEF ExistsBijection
<1>4. At(s \o t, v) = At(s, v) \cup Moved
  <2>1. ASSUME NEW k \in At(s \o t, v)
        PROVE  k \in At(s, v) \cup Moved
    <3>1. k \in 1 .. Len(s) + Len(t) /\ (s \o t)[k] = v
      BY <1>1 DEF At
    <3>2. CASE k <= Len(s)
      BY <1>1, <3>1, <3>2 DEF At
    <3>3. CASE k > Len(s)
      <4>1. k - Len(s) \in At(t, v)
        BY <1>1, <3>1, <3>3 DEF At
      <4>2. k = (k - Len(s)) + Len(s)
        BY <1>1, <3>1
      <4> QED
        BY <4>1, <4>2
    <3> QED
      BY <1>1, <3>1, <3>2, <3>3
  <2>2. At(s, v) \subseteq At(s \o t, v)
    BY <1>1 DEF At
  <2>3. ASSUME NEW k \in At(t, v)
        PROVE  k + Len(s) \in At(s \o t, v)
    <3>1. k \in 1 .. Len(t) /\ t[k] = v
      BY <1>1 DEF At
    <3>2. k + Len(s) \in 1 .. Len(s) + Len(t) /\ ~ (k + Len(s) <= Len(s))
          /\ (k + Len(s)) - Len(s) = k
      BY <1>1, <3>1
    <3> QED
      BY <1>1, <3>1, <3>2 DEF At
  <2> QED
    BY <2>1, <2>2, <2>3
<1>5. At(s, v) \cap Moved = {}
  BY <1>1 DEF At
<1>6. Cardinality(At(s, v) \cup Moved) =
          Cardinality(At(s, v)) + Cardinality(Moved) - Cardinality(At(s, v) \cap Moved)
  BY <1>3, CountType, FS_Union
<1>7. Cardinality(At(s, v) \cap Moved) = 0
  BY <1>5, FS_EmptySet
<1>8. Count(s \o t, v) = Cardinality(At(s \o t, v))
  BY <1>1, CountType
<1>9. Count(s, v) = Cardinality(At(s, v)) /\ Count(t, v) = Cardinality(At(t, v))
      /\ Count(s, v) \in Nat /\ Count(t, v) \in Nat
  BY CountType
<1> QED
  BY <1>3, <1>4, <1>6, <1>7, <1>8, <1>9

LEMMA SameNumbersIfSame ==
    ASSUME NEW s \in Seq(Int), NEW t \in Seq(Int), Same(s, t)
    PROVE  SameNumbers(s, t)
<1>1. Numbers(s) \subseteq Int /\ Numbers(t) \subseteq Int
  BY LenProperties DEF Numbers
<1> QED
  BY <1>1 DEF Same, SameNumbers

LEMMA SameConcat ==
    ASSUME NEW a \in Seq(Int), NEW b \in Seq(Int), NEW c \in Seq(Int), NEW d \in Seq(Int),
           Same(a, c), Same(b, d)
    PROVE  Same(a \o b, c \o d)
  BY CountConcat DEF Same

-----------------------------------------------------------------------------
\* merge and mergesort.

MergeBody(f, halves) ==
    LET a == halves[1]
        b == halves[2]
    IN  IF a = << >> THEN b
        ELSE IF b = << >> THEN a
        ELSE IF Head(a) < Head(b)
        THEN << Head(a) >> \o f[<<Tail(a), b>>]
        ELSE << Head(b) >> \o f[<<a, Tail(b)>>]

Pairs == Seq(Int) \X Seq(Int)

LEMMA MergeFunction == merge = [halves \in Pairs |-> MergeBody(merge, halves)]
<1> DEFINE M == [x \in Pairs |-> Len(x[1]) + Len(x[2])]
           B == [f \in [Pairs -> Seq(Int)] |-> [x \in Pairs |-> MergeBody(f, x)]]
<1>0. ASSUME NEW x \in Pairs
      PROVE  /\ x[1] \in Seq(Int) /\ x[2] \in Seq(Int) /\ x = <<x[1], x[2]>>
             /\ Len(x[1]) \in Nat /\ Len(x[2]) \in Nat
  <2>1. x[1] \in Seq(Int) /\ x[2] \in Seq(Int) /\ x = <<x[1], x[2]>>
    BY DEF Pairs
  <2> QED
    BY <2>1, LenProperties
<1>1. M \in [Pairs -> Nat]
  <2>1. ASSUME NEW x \in Pairs
        PROVE  Len(x[1]) + Len(x[2]) \in Nat
    <3> DEFINE a == Len(x[1])
               b == Len(x[2])
    <3>1. a \in Nat /\ b \in Nat
      BY <1>0
    <3> HIDE DEF a, b
    <3>2. a + b \in Nat
      BY <3>1
    <3> QED
      BY <3>2 DEF a, b
  <2> QED
    BY <2>1
<1>2. ASSUME NEW x \in Pairs, x[1] # << >>, x[2] # << >>
      PROVE  /\ <<Tail(x[1]), x[2]>> \in Pairs /\ M[<<Tail(x[1]), x[2]>>] < M[x]
             /\ <<x[1], Tail(x[2])>> \in Pairs /\ M[<<x[1], Tail(x[2])>>] < M[x]
             /\ << Head(x[1]) >> \in Seq(Int) /\ << Head(x[2]) >> \in Seq(Int)
  <2>1. x[1] \in Seq(Int) /\ x[2] \in Seq(Int)
    BY DEF Pairs
  <2>2. /\ Tail(x[1]) \in Seq(Int) /\ Len(Tail(x[1])) = Len(x[1]) - 1 /\ Len(x[1]) \in Nat
        /\ Tail(x[2]) \in Seq(Int) /\ Len(Tail(x[2])) = Len(x[2]) - 1 /\ Len(x[2]) \in Nat
        /\ Head(x[1]) \in Int /\ Head(x[2]) \in Int
    BY <1>2, <2>1, HeadTailProperties, LenProperties
  <2>3. <<Tail(x[1]), x[2]>> \in Pairs /\ <<x[1], Tail(x[2])>> \in Pairs
    BY <2>1, <2>2 DEF Pairs
  <2>4. /\ M[<<Tail(x[1]), x[2]>>] = Len(Tail(x[1])) + Len(x[2])
        /\ M[<<x[1], Tail(x[2])>>] = Len(x[1]) + Len(Tail(x[2]))
        /\ M[x] = Len(x[1]) + Len(x[2])
    BY <2>3
  <2>5. << Head(x[1]) >> \in Seq(Int) /\ << Head(x[2]) >> \in Seq(Int)
    BY <2>2
  <2>6. /\ M[<<Tail(x[1]), x[2]>>] < M[x]
        /\ M[<<x[1], Tail(x[2])>>] < M[x]
    <3> DEFINE a == Len(x[1])
               b == Len(x[2])
               c == Len(Tail(x[1]))
               d == Len(Tail(x[2]))
    <3>1. a \in Nat /\ b \in Nat /\ c = a - 1 /\ d = b - 1
      BY <2>2
    <3> HIDE DEF a, b, c, d
    <3>2. c + b < a + b /\ a + d < a + b
      BY <3>1
    <3>3. /\ M[<<Tail(x[1]), x[2]>>] = c + b /\ M[<<x[1], Tail(x[2])>>] = a + d
          /\ M[x] = a + b
      BY <2>4 DEF a, b, c, d
    <3> HIDE DEF M
    <3> QED
      BY <3>2, <3>3
  <2> QED
    BY <2>3, <2>5, <2>6
<1>3. B \in [[Pairs -> Seq(Int)] -> [Pairs -> Seq(Int)]]
  <2> SUFFICES ASSUME NEW f \in [Pairs -> Seq(Int)], NEW x \in Pairs
               PROVE  MergeBody(f, x) \in Seq(Int)
    OBVIOUS
  <2>1. x[1] \in Seq(Int) /\ x[2] \in Seq(Int)
    BY DEF Pairs
  <2>2. CASE x[1] = << >> \/ x[2] = << >>
    BY <2>1, <2>2 DEF MergeBody
  <2>3. CASE x[1] # << >> /\ x[2] # << >>
    <3>1. f[<<Tail(x[1]), x[2]>>] \in Seq(Int) /\ f[<<x[1], Tail(x[2])>>] \in Seq(Int)
      BY <1>2, <2>3
    <3>2. /\ << Head(x[1]) >> \o f[<<Tail(x[1]), x[2]>>] \in Seq(Int)
          /\ << Head(x[2]) >> \o f[<<x[1], Tail(x[2])>>] \in Seq(Int)
      BY <1>2, <2>3, <3>1, ConcatProperties
    <3> QED
      BY <2>3, <3>2 DEF MergeBody
  <2> QED
    BY <2>2, <2>3
<1>4. ASSUME NEW f \in [Pairs -> Seq(Int)], NEW g \in [Pairs -> Seq(Int)], NEW x \in Pairs,
             \A y \in Pairs : M[y] < M[x] => f[y] = g[y]
      PROVE  B[f][x] = B[g][x]
  <2> SUFFICES MergeBody(f, x) = MergeBody(g, x)
    OBVIOUS
  <2>1. CASE x[1] = << >> \/ x[2] = << >>
    BY <2>1 DEF MergeBody
  <2>2. CASE x[1] # << >> /\ x[2] # << >>
    <3>1. /\ f[<<Tail(x[1]), x[2]>>] = g[<<Tail(x[1]), x[2]>>]
          /\ f[<<x[1], Tail(x[2])>>] = g[<<x[1], Tail(x[2])>>]
      <4> HIDE DEF M
      <4> QED
        BY <1>2, <1>4, <2>2
    <3> QED
      BY <2>2, <3>1 DEF MergeBody
  <2> QED
    BY <2>1, <2>2
<1>5. LooksBack(Pairs, Seq(Int), M, B)
  <2>1. Seq(Int) # {}
    BY EmptySeq
  <2>2. \A f, g \in [Pairs -> Seq(Int)] : \A x \in Pairs :
            (\A y \in Pairs : M[y] < M[x] => f[y] = g[y]) => B[f][x] = B[g][x]
    BY <1>4
  <2> HIDE DEF M, B
  <2> QED
    BY <1>1, <1>3, <2>1, <2>2 DEF LooksBack
<1>6. \E F \in [Pairs -> Seq(Int)] : F = B[F]
  <2> HIDE DEF M, B
  <2> QED
    BY <1>5, Recursion
<1>7. PICK F : F = [halves \in Pairs |-> MergeBody(F, halves)]
  BY <1>6
<1> QED
  BY <1>7 DEF merge, Pairs, MergeBody

\* m is what a and b make together, in order if they are.
Below(x, s) == s # << >> => x <= s[1]
Merges(m, a, b) ==
    /\ m \in Seq(Int) /\ Len(m) = Len(a) + Len(b)
    /\ \A v \in Int : Count(m, v) = Count(a, v) + Count(b, v)
    /\ Ascends(a) /\ Ascends(b) => Ascends(m)
    /\ \A x \in Int : Below(x, a) /\ Below(x, b) => Below(x, m)

LEMMA Cons ==
    ASSUME NEW x \in Int, NEW s \in Seq(Int)
    PROVE  /\ << x >> \o s \in Seq(Int) /\ << x >> \in Seq(Int)
           /\ Len(s) \in Nat /\ Len(<< x >> \o s) = Len(s) + 1
           /\ (<< x >> \o s)[1] = x
           /\ \A i \in 2 .. Len(s) + 1 : (<< x >> \o s)[i] = s[i - 1]
<1> DEFINE h == << x >>
<1>1. h \in Seq(Int) /\ Len(h) = 1 /\ h[1] = x /\ Len(s) \in Nat
  BY LenProperties
<1> HIDE DEF h
<1>2. /\ h \o s \in Seq(Int) /\ Len(h \o s) = Len(h) + Len(s)
      /\ \A i \in 1 .. Len(h) + Len(s) : (h \o s)[i] = IF i <= Len(h) THEN h[i] ELSE s[i - Len(h)]
  BY <1>1, ConcatProperties
<1>3. (h \o s)[1] = x
  BY <1>1, <1>2
<1>4. \A i \in 2 .. Len(s) + 1 : (h \o s)[i] = s[i - 1]
  BY <1>1, <1>2
<1> QED
  BY <1>1, <1>2, <1>3, <1>4 DEF h

LEMMA HeadFirst ==
    ASSUME NEW s \in Seq(Int), s # << >>
    PROVE  /\ Head(s) \in Int /\ Tail(s) \in Seq(Int) /\ << Head(s) >> \in Seq(Int)
           /\ Len(s) \in Nat \ {0} /\ Len(Tail(s)) = Len(s) - 1
           /\ s = << Head(s) >> \o Tail(s) /\ s[1] = Head(s)
           /\ \A i \in 1 .. Len(s) - 1 : Tail(s)[i] = s[i + 1]
<1>1. /\ Head(s) \in Int /\ Tail(s) \in Seq(Int) /\ Len(Tail(s)) = Len(s) - 1
      /\ Len(s) \in Nat \ {0} /\ \A i \in 1 .. Len(Tail(s)) : Tail(s)[i] = s[i + 1]
  BY HeadTailProperties, EmptySeq
<1>2. s[1] = Head(s)
  OBVIOUS
<1> DEFINE h == << Head(s) >>
<1>3. /\ h \o Tail(s) \in Seq(Int) /\ Len(h \o Tail(s)) = Len(s) /\ h \in Seq(Int)
      /\ (h \o Tail(s))[1] = Head(s)
      /\ \A i \in 2 .. Len(s) : (h \o Tail(s))[i] = Tail(s)[i - 1]
  BY <1>1, Cons
<1>5. \A i \in 1 .. Len(s) : (h \o Tail(s))[i] = s[i]
  <2> SUFFICES ASSUME NEW i \in 1 .. Len(s)
               PROVE  (h \o Tail(s))[i] = s[i]
    OBVIOUS
  <2> HIDE DEF h
  <2>1. CASE i = 1
    BY <1>2, <1>3, <2>1
  <2>2. CASE i > 1
    <3>1. i - 1 \in 1 .. Len(Tail(s)) /\ (i - 1) + 1 = i
      BY <1>1, <2>2
    <3>2. (h \o Tail(s))[i] = Tail(s)[i - 1]
      BY <1>3, <2>2
    <3> QED
      BY <1>1, <3>1, <3>2
  <2>3. i = 1 \/ i > 1
    OBVIOUS
  <2> QED
    BY <2>1, <2>2, <2>3
<1>6. s = h \o Tail(s)
  <2> HIDE DEF h
  <2> QED
    BY <1>3, <1>5, SeqEqual
<1> QED
  BY <1>1, <1>2, <1>3, <1>6

LEMMA ConsAscends ==
    ASSUME NEW x \in Int, NEW s \in Seq(Int), Ascends(s), Below(x, s)
    PROVE  Ascends(<< x >> \o s)
<1> DEFINE w == << x >> \o s
<1>2. /\ Len(w) = Len(s) + 1 /\ Len(s) \in Nat /\ w[1] = x
      /\ \A i \in 2 .. Len(s) + 1 : w[i] = s[i - 1]
  BY Cons
<1> HIDE DEF w
<1>3. ASSUME NEW k \in 2 .. Len(w)
      PROVE  w[k - 1] <= w[k]
  <2>1. k \in 2 .. Len(s) + 1 /\ w[k] = s[k - 1]
    BY <1>2
  <2>2. CASE k = 2
    <3>1. w[k - 1] = x /\ w[k] = s[1]
      BY <1>2, <2>1, <2>2
    <3>2. s # << >>
      BY <1>2, <2>2, EmptySeq
    <3> QED
      BY <3>1, <3>2 DEF Below
  <2>3. CASE k > 2
    <3>1. w[k - 1] = s[(k - 1) - 1] /\ k - 1 \in 2 .. Len(s)
      BY <1>2, <2>1, <2>3
    <3> QED
      BY <2>1, <3>1 DEF Ascends
  <2> QED
    BY <1>2, <2>2, <2>3
<1> QED
  BY <1>3 DEF Ascends, w

LEMMA TailAscends ==
    ASSUME NEW s \in Seq(Int), s # << >>, Ascends(s)
    PROVE  Ascends(Tail(s)) /\ Below(Head(s), Tail(s))
<1>1. /\ Tail(s) \in Seq(Int) /\ Len(s) \in Nat \ {0} /\ Len(Tail(s)) = Len(s) - 1
      /\ s[1] = Head(s) /\ \A i \in 1 .. Len(s) - 1 : Tail(s)[i] = s[i + 1]
  BY HeadFirst
<1>2. ASSUME NEW k \in 2 .. Len(Tail(s))
      PROVE  Tail(s)[k - 1] <= Tail(s)[k]
  <2>1. /\ k - 1 \in 1 .. Len(s) - 1 /\ k \in 1 .. Len(s) - 1
        /\ (k - 1) + 1 = k /\ k + 1 \in 2 .. Len(s) /\ (k + 1) - 1 = k
    BY <1>1
  <2>2. Tail(s)[k - 1] = s[k] /\ Tail(s)[k] = s[k + 1]
    BY <1>1, <2>1
  <2> QED
    BY <2>1, <2>2 DEF Ascends
<1>3. Below(Head(s), Tail(s))
  <2> SUFFICES ASSUME Tail(s) # << >>
               PROVE  Head(s) <= Tail(s)[1]
    BY DEF Below
  <2>1. Len(Tail(s)) \in Nat \ {0}
    BY <1>1, EmptySeq
  <2>2. Tail(s)[1] = s[2] /\ 2 \in 2 .. Len(s) /\ s[2 - 1] = s[1]
    BY <1>1, <2>1
  <2> QED
    BY <1>1, <2>2 DEF Ascends
<1> QED
  BY <1>2, <1>3 DEF Ascends

LEMMA MergesSwap ==
    ASSUME NEW m, NEW a \in Seq(Int), NEW b \in Seq(Int), Merges(m, a, b)
    PROVE  Merges(m, b, a)
<1>1. Len(a) \in Nat /\ Len(b) \in Nat
  BY LenProperties
<1>2. ASSUME NEW v \in Int
      PROVE  Count(m, v) = Count(b, v) + Count(a, v)
  <2>1. Count(a, v) \in Nat /\ Count(b, v) \in Nat
    BY CountType
  <2> QED
    BY <2>1 DEF Merges
<1> QED
  BY <1>1, <1>2 DEF Merges

\* One turn of the loop: the smaller of the first numbers goes in front.
LEMMA OneTurn ==
    ASSUME NEW m, NEW a \in Seq(Int), NEW b \in Seq(Int), a # << >>,
           Below(Head(a), b), Merges(m, Tail(a), b)
    PROVE  Merges(<< Head(a) >> \o m, a, b)
<1> DEFINE h == << Head(a) >>
           w == h \o m
<1>1. /\ Head(a) \in Int /\ Tail(a) \in Seq(Int) /\ h \in Seq(Int)
      /\ Len(a) \in Nat \ {0} /\ Len(Tail(a)) = Len(a) - 1
      /\ a = h \o Tail(a) /\ a[1] = Head(a)
  BY HeadFirst
<1>2. Len(h) = 1 /\ h[1] = Head(a) /\ Len(b) \in Nat
  BY LenProperties
<1>3. m \in Seq(Int) /\ Len(m) = Len(Tail(a)) + Len(b)
  BY DEF Merges
<1> HIDE DEF h
<1>4. /\ w \in Seq(Int) /\ Len(w) = Len(m) + 1 /\ Len(m) \in Nat /\ w[1] = Head(a)
  BY <1>1, <1>3, Cons DEF h
<1>5. Len(w) = Len(a) + Len(b)
  BY <1>1, <1>2, <1>3, <1>4
<1>6. ASSUME NEW v \in Int
      PROVE  Count(w, v) = Count(a, v) + Count(b, v)
  <2>1. Count(w, v) = Count(h, v) + Count(m, v)
    BY <1>1, <1>3, CountConcat
  <2>5. Count(a, v) = Count(h, v) + Count(Tail(a), v)
    <3> DEFINE rest == Tail(a)
    <3>1. h \in Seq(Int) /\ rest \in Seq(Int)
      BY <1>1
    <3>2. a = h \o rest
      BY <1>1
    <3> HIDE DEF rest
    <3>3. Count(h \o rest, v) = Count(h, v) + Count(rest, v)
      BY <3>1, CountConcat
    <3> QED
      BY <3>2, <3>3 DEF rest
  <2>2. /\ Count(h, v) \in Nat /\ Count(m, v) \in Nat
        /\ Count(Tail(a), v) \in Nat /\ Count(b, v) \in Nat
    BY <1>1, <1>3, CountType
  <2>3. Count(m, v) = Count(Tail(a), v) + Count(b, v)
    BY DEF Merges
  <2> QED
    BY <2>1, <2>2, <2>3, <2>5
<1>7. ASSUME Ascends(a), Ascends(b)
      PROVE  Ascends(w)
  <2>1. Ascends(Tail(a)) /\ Below(Head(a), Tail(a))
    BY <1>7, TailAscends
  <2>2. Ascends(m) /\ Below(Head(a), m)
    BY <1>1, <1>7, <2>1 DEF Merges
  <2> QED
    BY <1>1, <1>3, <2>2, ConsAscends DEF h
<1>8. ASSUME NEW x \in Int, Below(x, a)
      PROVE  Below(x, w)
  <2>1. w[1] = Head(a)
    BY <1>4
  <2> QED
    BY <1>1, <1>8, <2>1 DEF Below
<1> QED
  BY <1>4, <1>5, <1>6, <1>7, <1>8 DEF Merges, h

LEMMA MergeNothing ==
    ASSUME NEW a \in Seq(Int)
    PROVE  Merges(a, a, << >>)
<1>1. << >> \in Seq(Int) /\ Len(<< >>) = 0 /\ Len(a) \in Nat
  BY EmptySeq, LenProperties
<1>2. ASSUME NEW v \in Int
      PROVE  Count(<< >>, v) = 0 /\ Count(a, v) \in Nat
  <2>1. At(<< >>, v) = {}
    BY DEF At
  <2>2. Count(<< >>, v) = Cardinality(At(<< >>, v)) /\ Count(a, v) \in Nat
    BY <1>1, CountType
  <2> QED
    BY <2>1, <2>2, FS_EmptySet
<1> QED
  BY <1>1, <1>2 DEF Merges

\* merge makes one ascending sequence of two, with the numbers of both, for
\* sequences of every length (serial_sort.c's merge).
THEOREM MergeWorks ==
    ASSUME NEW a \in Seq(Int), NEW b \in Seq(Int)
    PROVE  Merges(merge[<<a, b>>], a, b)
<1> DEFINE S == {k \in Nat : \A c, d \in Seq(Int) :
                     Len(c) + Len(d) = k => Merges(merge[<<c, d>>], c, d)}
<1>1. ASSUME NEW k \in Nat, \A l \in 0 .. k - 1 : l \in S
      PROVE  k \in S
  <2> SUFFICES ASSUME NEW c \in Seq(Int), NEW d \in Seq(Int), Len(c) + Len(d) = k
               PROVE  Merges(merge[<<c, d>>], c, d)
    OBVIOUS
  <2> DEFINE one == merge[<<Tail(c), d>>]
             two == merge[<<c, Tail(d)>>]
  <2>0. merge[<<c, d>>] = IF c = << >> THEN d
                          ELSE IF d = << >> THEN c
                          ELSE IF Head(c) < Head(d) THEN << Head(c) >> \o one
                          ELSE << Head(d) >> \o two
    <3>1. <<c, d>> \in Pairs
      BY DEF Pairs
    <3>2. merge[<<c, d>>] = MergeBody(merge, <<c, d>>)
      BY <3>1, MergeFunction
    <3> QED
      BY <3>2 DEF MergeBody
  <2>1. CASE c = << >>
    BY <2>0, <2>1, MergeNothing, MergesSwap, EmptySeq
  <2>2. CASE c # << >> /\ d = << >>
    BY <2>0, <2>2, MergeNothing
  <2>3. CASE c # << >> /\ d # << >>
    <3>1. /\ Head(c) \in Int /\ Tail(c) \in Seq(Int) /\ Len(c) \in Nat \ {0}
          /\ Len(Tail(c)) = Len(c) - 1 /\ c[1] = Head(c)
      BY <2>3, HeadFirst
    <3>2. /\ Head(d) \in Int /\ Tail(d) \in Seq(Int) /\ Len(d) \in Nat \ {0}
          /\ Len(Tail(d)) = Len(d) - 1 /\ d[1] = Head(d)
      BY <2>3, HeadFirst
    <3>3. CASE Head(c) < Head(d)
      <4>1. Len(Tail(c)) + Len(d) \in 0 .. k - 1
        BY <3>1, <3>2
      <4>2. Merges(one, Tail(c), d)
        BY <1>1, <3>1, <4>1
      <4>3. Below(Head(c), d)
        BY <3>1, <3>2, <3>3 DEF Below
      <4>4. merge[<<c, d>>] = << Head(c) >> \o one
        BY <2>0, <2>3, <3>3
      <4> HIDE DEF one
      <4> QED
        BY <2>3, <4>2, <4>3, <4>4, OneTurn
    <3>4. CASE ~ (Head(c) < Head(d))
      <4>1. Len(c) + Len(Tail(d)) \in 0 .. k - 1
        BY <3>1, <3>2
      <4>2. Merges(two, c, Tail(d))
        BY <1>1, <3>2, <4>1
      <4>3. Merges(two, Tail(d), c)
        BY <3>2, <4>2, MergesSwap
      <4>4. Below(Head(d), c)
        BY <3>1, <3>2, <3>4 DEF Below
      <4>5. merge[<<c, d>>] = << Head(d) >> \o two
        BY <2>0, <2>3, <3>4
      <4> HIDE DEF two
      <4>6. Merges(merge[<<c, d>>], d, c)
        BY <2>3, <4>3, <4>4, <4>5, OneTurn
      <4> QED
        BY <4>6, MergesSwap
    <3> QED
      BY <3>3, <3>4
  <2> QED
    BY <2>1, <2>2, <2>3
<1>2. \A k \in Nat : k \in S
  <2> HIDE DEF S
  <2> QED
    BY <1>1, Induction
<1>3. Len(a) + Len(b) \in Nat
  BY LenProperties
<1> QED
  BY <1>2, <1>3

-----------------------------------------------------------------------------
\* mergesort.

Some == Seq(Int) \ {<< >>}

SortBody(f, s) ==
    LET mid == Len(s) \div 2
    IN  IF Len(s) = 1 THEN s
        ELSE merge[<<f[SubSeq(s, 1, mid)], f[SubSeq(s, mid + 1, Len(s))]>>]

\* The halves of merge_helper are parts of s, shorter than s and not empty.
LEMMA SortHalves ==
    ASSUME NEW s \in Some, Len(s) # 1
    PROVE  LET a == SubSeq(s, 1, Len(s) \div 2)
               b == SubSeq(s, (Len(s) \div 2) + 1, Len(s))
           IN  /\ a \in Some /\ b \in Some /\ s = a \o b
               /\ Len(a) \in 1 .. Len(s) - 1 /\ Len(b) \in 1 .. Len(s) - 1
               /\ Len(a) + Len(b) = Len(s)
<1> DEFINE l == Len(s)
           mid == l \div 2
           a == SubSeq(s, 1, mid)
           b == SubSeq(s, mid + 1, l)
<1>1. s \in Seq(Int) /\ l \in Nat \ {0} /\ l # 1 /\ \A i \in 1 .. l : s[i] \in Int
  BY EmptySeq, ElementOfSeq DEF Some
<1> HIDE DEF l
<1>2. mid \in Nat /\ 1 <= mid /\ mid < l
  BY <1>1
<1> HIDE DEF mid
<1>3. a \in Seq(Int) /\ Len(a) = mid
  <2>1. \A i \in 1 .. mid : s[i] \in Int
    BY <1>1, <1>2
  <2> QED
    BY <1>2, <2>1, SubSeqProperties
<1>4. b \in Seq(Int) /\ Len(b) = l - mid
  <2>1. mid + 1 \in Int /\ l \in Int /\ \A i \in mid + 1 .. l : s[i] \in Int
    BY <1>1, <1>2
  <2>2. b \in Seq(Int) /\ Len(b) = IF mid + 1 <= l THEN l - (mid + 1) + 1 ELSE 0
    BY <2>1, SubSeqProperties
  <2> QED
    BY <1>1, <1>2, <2>2
<1>5. a \o b = s
  <2>1. SubSeq(s, 1, mid) \o SubSeq(s, mid + 1, l) = SubSeq(s, 1, l)
    <3>1. 1 \in 1 .. Len(s) + 1 /\ mid \in 1 - 1 .. Len(s) /\ l \in mid .. Len(s)
      BY <1>1, <1>2 DEF l
    <3> QED
      BY <1>1, <3>1, ConcatAdjacentSubSeq
  <2> QED
    BY <1>1, <2>1, SubSeqFull DEF l
<1>6. a # << >> /\ b # << >>
  <2>1. Len(a) # 0 /\ Len(b) # 0
    BY <1>1, <1>2, <1>3, <1>4
  <2>2. Len(<< >>) = 0
    OBVIOUS
  <2> HIDE DEF a, b
  <2> QED
    BY <2>1, <2>2
<1> HIDE DEF a, b
<1>7. Len(a) \in 1 .. l - 1 /\ Len(b) \in 1 .. l - 1 /\ Len(a) + Len(b) = l
  BY <1>1, <1>2, <1>3, <1>4
<1> QED
  BY <1>3, <1>4, <1>5, <1>6, <1>7 DEF a, b, mid, l, Some

LEMMA MergesortFunction == mergesort = [s \in Some |-> SortBody(mergesort, s)]
<1> DEFINE M == [s \in Some |-> Len(s)]
           B == [f \in [Some -> Seq(Int)] |-> [s \in Some |-> SortBody(f, s)]]
<1>1. M \in [Some -> Nat]
  BY LenProperties DEF Some
<1>2. B \in [[Some -> Seq(Int)] -> [Some -> Seq(Int)]]
  <2> SUFFICES ASSUME NEW f \in [Some -> Seq(Int)], NEW s \in Some
               PROVE  SortBody(f, s) \in Seq(Int)
    OBVIOUS
  <2>1. CASE Len(s) = 1
    BY <2>1 DEF SortBody, Some
  <2>2. CASE Len(s) # 1
    <3> DEFINE a == SubSeq(s, 1, Len(s) \div 2)
               b == SubSeq(s, (Len(s) \div 2) + 1, Len(s))
    <3>1. a \in Some /\ b \in Some
      BY <2>2, SortHalves
    <3>2. SortBody(f, s) = merge[<<f[a], f[b]>>]
      BY <2>2 DEF SortBody
    <3> HIDE DEF a, b
    <3>3. f[a] \in Seq(Int) /\ f[b] \in Seq(Int)
      BY <3>1
    <3>4. merge[<<f[a], f[b]>>] \in Seq(Int)
      BY <3>3, MergeWorks DEF Merges
    <3> QED
      BY <3>2, <3>4
  <2> QED
    BY <2>1, <2>2
<1>3. ASSUME NEW f \in [Some -> Seq(Int)], NEW g \in [Some -> Seq(Int)], NEW s \in Some,
             \A y \in Some : M[y] < M[s] => f[y] = g[y]
      PROVE  B[f][s] = B[g][s]
  <2> SUFFICES SortBody(f, s) = SortBody(g, s)
    OBVIOUS
  <2>1. CASE Len(s) = 1
    BY <2>1 DEF SortBody
  <2>2. CASE Len(s) # 1
    <3> DEFINE a == SubSeq(s, 1, Len(s) \div 2)
               b == SubSeq(s, (Len(s) \div 2) + 1, Len(s))
    <3>1. /\ a \in Some /\ b \in Some
          /\ Len(a) \in 1 .. Len(s) - 1 /\ Len(b) \in 1 .. Len(s) - 1
      BY <2>2, SortHalves
    <3>2. /\ SortBody(f, s) = merge[<<f[a], f[b]>>]
          /\ SortBody(g, s) = merge[<<g[a], g[b]>>]
      BY <2>2 DEF SortBody
    <3>5. Len(s) \in Nat
      BY LenProperties DEF Some
    <3> HIDE DEF a, b
    <3>3. M[a] < M[s] /\ M[b] < M[s]
      BY <3>1, <3>5
    <3> HIDE DEF M
    <3>4. f[a] = g[a] /\ f[b] = g[b]
      BY <1>3, <3>1, <3>3
    <3> QED
      BY <3>2, <3>4
  <2> QED
    BY <2>1, <2>2
<1>4. LooksBack(Some, Seq(Int), M, B)
  <2>1. Seq(Int) # {}
    BY EmptySeq
  <2>2. \A f, g \in [Some -> Seq(Int)] : \A x \in Some :
            (\A y \in Some : M[y] < M[x] => f[y] = g[y]) => B[f][x] = B[g][x]
    BY <1>3
  <2> HIDE DEF M, B
  <2> QED
    BY <1>1, <1>2, <2>1, <2>2 DEF LooksBack
<1>5. \E F \in [Some -> Seq(Int)] : F = B[F]
  <2> HIDE DEF M, B
  <2> QED
    BY <1>4, Recursion
<1>6. PICK F : F = [s \in Some |-> SortBody(F, s)]
  BY <1>5
<1> QED
  BY <1>6 DEF mergesort, Some, SortBody

LEMMA SameMerged ==
    ASSUME NEW m, NEW a \in Seq(Int), NEW b \in Seq(Int), Merges(m, a, b),
           NEW c \in Seq(Int), NEW d \in Seq(Int), Sorts(a, c), Sorts(b, d)
    PROVE  m \in Seq(Int) /\ Len(m) = Len(a) + Len(b) /\ Sorts(m, c \o d)
<1>1. m \in Seq(Int) /\ Len(m) = Len(a) + Len(b) /\ Ascends(m)
  BY DEF Merges, Sorts
<1>2. ASSUME NEW v \in Int
      PROVE  Count(m, v) = Count(c \o d, v)
  <2>1. Count(m, v) = Count(a, v) + Count(b, v)
    BY DEF Merges
  <2>2. Count(a, v) = Count(c, v) /\ Count(b, v) = Count(d, v)
    BY DEF Sorts, Same
  <2> QED
    BY <2>1, <2>2, CountConcat
<1> QED
  BY <1>1, <1>2 DEF Sorts, Same

\* mergesort sorts every sequence of one number or more, and keeps its numbers
\* (serial_sort.c's merge_helper).
THEOREM MergesortWorks ==
    ASSUME NEW s \in Seq(Int), s # << >>
    PROVE  mergesort[s] \in Seq(Int) /\ Len(mergesort[s]) = Len(s) /\ Sorts(mergesort[s], s)
<1> DEFINE Good(q) == mergesort[q] \in Seq(Int) /\ Len(mergesort[q]) = Len(q) /\ Sorts(mergesort[q], q)
           S == {k \in Nat : \A q \in Some : Len(q) = k => Good(q)}
<1>1. ASSUME NEW k \in Nat, \A l \in 0 .. k - 1 : l \in S
      PROVE  k \in S
  <2> SUFFICES ASSUME NEW q \in Some, Len(q) = k
               PROVE  Good(q)
    OBVIOUS
  <2>0. mergesort[q] = SortBody(mergesort, q) /\ q \in Seq(Int)
    BY MergesortFunction DEF Some
  <2>1. CASE Len(q) = 1
    <3>1. mergesort[q] = q
      BY <2>0, <2>1 DEF SortBody
    <3>2. Ascends(q) /\ Same(q, q)
      BY <2>1 DEF Ascends, Same
    <3> QED
      BY <2>0, <3>1, <3>2 DEF Sorts
  <2>2. CASE Len(q) # 1
    <3> DEFINE a == SubSeq(q, 1, Len(q) \div 2)
               b == SubSeq(q, (Len(q) \div 2) + 1, Len(q))
    <3>1. /\ a \in Some /\ b \in Some /\ q = a \o b
          /\ Len(a) \in 1 .. k - 1 /\ Len(b) \in 1 .. k - 1
          /\ Len(a) + Len(b) = Len(q)
      BY <2>2, SortHalves
    <3>2. mergesort[q] = merge[<<mergesort[a], mergesort[b]>>]
      BY <2>0, <2>2 DEF SortBody
    <3> HIDE DEF a, b
    <3>3. Good(a) /\ Good(b)
      <4>1. Len(a) \in S /\ Len(b) \in S
        BY <1>1, <3>1
      <4> QED
        BY <3>1, <4>1
    <3>4. a \in Seq(Int) /\ b \in Seq(Int)
      BY <3>1 DEF Some
    <3> DEFINE c == mergesort[a]
               d == mergesort[b]
               m == merge[<<c, d>>]
    <3>5. /\ c \in Seq(Int) /\ Len(c) = Len(a) /\ Sorts(c, a)
          /\ d \in Seq(Int) /\ Len(d) = Len(b) /\ Sorts(d, b)
      BY <3>3
    <3> HIDE DEF c, d
    <3>6. Merges(m, c, d)
      BY <3>5, MergeWorks
    <3> HIDE DEF m
    <3>7. m \in Seq(Int) /\ Len(m) = Len(c) + Len(d) /\ Sorts(m, a \o b)
      BY <3>4, <3>5, <3>6, SameMerged
    <3> QED
      BY <3>1, <3>2, <3>5, <3>7 DEF c, d, m
  <2> QED
    BY <2>1, <2>2
<1>2. \A k \in Nat : k \in S
  <2> HIDE DEF S
  <2> QED
    BY <1>1, Induction
<1>3. Len(s) \in Nat /\ s \in Some
  BY LenProperties DEF Some
<1> QED
  BY <1>2, <1>3

-----------------------------------------------------------------------------
\* The powers of 2, and how many levels there are.

LEMMA Powers ==
    /\ pow2[0] = 1
    /\ \A k \in Nat : pow2[k] \in Nat \ {0} /\ pow2[k + 1] = 2 * pow2[k] /\ k < pow2[k]
<1> DEFINE Body(f, k) == IF k = 0 THEN 1 ELSE 2 * f[k - 1]
           M == [k \in Nat |-> k]
           B == [f \in [Nat -> Nat] |-> [k \in Nat |-> Body(f, k)]]
<1>1. LooksBack(Nat, Nat, M, B)
  <2>1. M \in [Nat -> Nat] /\ B \in [[Nat -> Nat] -> [Nat -> Nat]] /\ Nat # {}
    OBVIOUS
  <2>2. ASSUME NEW f \in [Nat -> Nat], NEW g \in [Nat -> Nat], NEW x \in Nat,
               \A y \in Nat : M[y] < M[x] => f[y] = g[y]
        PROVE  B[f][x] = B[g][x]
    <3>1. CASE x = 0
      BY <3>1
    <3>2. CASE x # 0
      <4>1. x - 1 \in Nat /\ M[x - 1] < M[x]
        BY <3>2
      <4>2. f[x - 1] = g[x - 1]
        BY <2>2, <4>1
      <4> QED
        BY <3>2, <4>2
    <3> QED
      BY <3>1, <3>2
  <2> HIDE DEF M, B
  <2> QED
    BY <2>1, <2>2 DEF LooksBack
<1>2. \E F \in [Nat -> Nat] : F = B[F]
  <2> DEFINE D == Nat
  <2>1. LooksBack(D, D, M, B)
    BY <1>1
  <2> HIDE DEF D, M, B
  <2>2. \E F \in [D -> D] : F = B[F]
    BY <2>1, Recursion
  <2> QED
    BY <2>2 DEF D
<1>3. PICK F : F = [k \in Nat |-> Body(F, k)]
  BY <1>2
<1>4. pow2 = [k \in Nat |-> IF k = 0 THEN 1 ELSE 2 * pow2[k - 1]]
  BY <1>3 DEF pow2
<1> HIDE DEF Body, M, B
<1>5. pow2[0] = 1
  BY <1>4
<1>6. ASSUME NEW k \in Nat
      PROVE  pow2[k + 1] = 2 * pow2[k]
  <2>1. k + 1 \in Nat /\ k + 1 # 0 /\ (k + 1) - 1 = k
    OBVIOUS
  <2> QED
    BY <1>4, <2>1
<1> DEFINE S == {k \in Nat : pow2[k] \in Nat \ {0} /\ k < pow2[k]}
<1>7. ASSUME NEW k \in Nat, \A l \in 0 .. k - 1 : l \in S
      PROVE  k \in S
  <2>1. CASE k = 0
    BY <1>5, <2>1
  <2>2. CASE k > 0
    <3>1. k - 1 \in S /\ k - 1 \in Nat /\ (k - 1) + 1 = k
      BY <1>7, <2>2
    <3>2. pow2[k] = 2 * pow2[k - 1]
      BY <1>6, <3>1
    <3> QED
      BY <3>1, <3>2
  <2> QED
    BY <2>1, <2>2
<1>8. \A k \in Nat : k \in S
  <2> HIDE DEF S
  <2> QED
    BY <1>7, Induction
<1> QED
  BY <1>5, <1>6, <1>8

LEMMA Levels ==
    ASSUME input.p \in Nat \ {0}
    PROVE  levels \in 0 .. input.p /\ pow2[levels] <= input.p /\ input.p < pow2[levels + 1]
<1> DEFINE S == {k \in Nat : input.p < pow2[k]}
<1>1. input.p \in S
  BY Powers
<1>2. PICK x \in S : \A y \in S : x <= y
  BY <1>1, Least
<1>3. x # 0
  BY <1>2, Powers
<1>4. x - 1 \in Nat /\ x - 1 \notin S /\ (x - 1) + 1 = x /\ x <= input.p
  BY <1>1, <1>2, <1>3
<1>5. pow2[x - 1] <= input.p /\ input.p < pow2[(x - 1) + 1] /\ x - 1 \in 0 .. input.p
  <2>1. pow2[x - 1] \in Nat /\ ~ (input.p < pow2[x - 1])
    BY <1>4, Powers
  <2> QED
    BY <1>2, <1>4, <2>1
<1> QED
  BY <1>5 DEF levels

-----------------------------------------------------------------------------
\* Parts of sequences.

LEMMA Cut ==
    ASSUME NEW s \in Seq(Int), NEW a \in Nat, NEW l \in Nat, a + l <= Len(s)
    PROVE  /\ SubSeq(s, a + 1, a + l) \in Seq(Int)
           /\ Len(SubSeq(s, a + 1, a + l)) = l
           /\ \A k \in 1 .. l : SubSeq(s, a + 1, a + l)[k] = s[a + k]
<1> DEFINE c == SubSeq(s, a + 1, a + l)
<1>1. \A i \in a + 1 .. a + l : s[i] \in Int
  <2>1. Len(s) \in Nat /\ s \in [1 .. Len(s) -> Int]
    BY LenProperties
  <2> QED
    BY <2>1
<1>2. /\ c \in Seq(Int) /\ Len(c) = (IF a + 1 <= a + l THEN (a + l) - (a + 1) + 1 ELSE 0)
      /\ \A i \in 1 .. (a + l) - (a + 1) + 1 : c[i] = s[(a + 1) + i - 1]
  BY <1>1, SubSeqProperties
<1> HIDE DEF c
<1>3. Len(c) = l
  BY <1>2
<1>4. ASSUME NEW k \in 1 .. l
      PROVE  c[k] = s[a + k]
  <2>1. k \in 1 .. (a + l) - (a + 1) + 1 /\ (a + 1) + k - 1 = a + k
    OBVIOUS
  <2> QED
    BY <1>2, <2>1
<1> QED
  BY <1>2, <1>3, <1>4 DEF c

LEMMA CutTwice ==
    ASSUME NEW s \in Seq(Int), NEW a \in Nat, NEW l \in Nat, NEW m \in Nat, a + l + m <= Len(s)
    PROVE  SubSeq(s, a + 1, a + l) \o SubSeq(s, a + l + 1, a + l + m) = SubSeq(s, a + 1, a + l + m)
<1>1. Len(s) \in Nat
  BY LenProperties
<1>2. /\ a + 1 \in 1 .. Len(s) + 1 /\ a + l \in (a + 1) - 1 .. Len(s)
      /\ a + l + m \in a + l .. Len(s)
  BY <1>1
<1> QED
  BY <1>2, ConcatAdjacentSubSeq

LEMMA CutEqual ==
    ASSUME NEW s \in Seq(Int), NEW t \in Seq(Int), NEW a \in Nat, NEW l \in Nat,
           a + l <= Len(s), a + l <= Len(t), \A k \in 1 .. l : s[a + k] = t[a + k]
    PROVE  SubSeq(s, a + 1, a + l) = SubSeq(t, a + 1, a + l)
<1> DEFINE c == SubSeq(s, a + 1, a + l)
           d == SubSeq(t, a + 1, a + l)
<1>1. /\ c \in Seq(Int) /\ Len(c) = l /\ \A k \in 1 .. l : c[k] = s[a + k]
  BY Cut
<1>2. /\ d \in Seq(Int) /\ Len(d) = l /\ \A k \in 1 .. l : d[k] = t[a + k]
  BY Cut
<1> HIDE DEF c, d
<1>3. \A k \in 1 .. Len(c) : c[k] = d[k]
  BY <1>1, <1>2
<1> QED
  BY <1>1, <1>2, <1>3, SeqEqual DEF c, d

\* s with what is in it from place a + 1 on replaced by w.
Put(s, a, w) == SubSeq(s, 1, a) \o w \o SubSeq(s, a + Len(w) + 1, Len(s))

LEMMA PutOK ==
    ASSUME NEW s \in Seq(Int), NEW w \in Seq(Int), NEW a \in Nat, a + Len(w) <= Len(s)
    PROVE  /\ Put(s, a, w) \in Seq(Int) /\ Len(Put(s, a, w)) = Len(s)
           /\ \A k \in 1 .. Len(s) :
                  Put(s, a, w)[k] = IF a < k /\ k <= a + Len(w) THEN w[k - a] ELSE s[k]
           /\ Same(w, SubSeq(s, a + 1, a + Len(w))) => Same(Put(s, a, w), s)
<1> DEFINE l == Len(w)
           m == Len(s) - (a + l)
           b == SubSeq(s, 1, a)
           o == SubSeq(s, a + 1, a + l)
           e == SubSeq(s, a + l + 1, Len(s))
<1>1. l \in Nat /\ Len(s) \in Nat /\ m \in Nat /\ a + l + m = Len(s)
  BY LenProperties
<1>2. b \in Seq(Int) /\ Len(b) = a /\ \A k \in 1 .. a : b[k] = s[k]
  <2>1. /\ SubSeq(s, 0 + 1, 0 + a) \in Seq(Int) /\ Len(SubSeq(s, 0 + 1, 0 + a)) = a
        /\ \A k \in 1 .. a : SubSeq(s, 0 + 1, 0 + a)[k] = s[0 + k]
    <3>1. 0 + a <= Len(s)
      BY <1>1
    <3> QED
      BY <3>1, Cut
  <2> QED
    BY <2>1
<1>3. o \in Seq(Int) /\ Len(o) = l
  BY <1>1, Cut
<1>4. e \in Seq(Int) /\ Len(e) = m /\ \A k \in 1 .. m : e[k] = s[(a + l) + k]
  <2> DEFINE g == a + l
  <2>1. g \in Nat /\ g + m = Len(s)
    BY <1>1
  <2> HIDE DEF g, m
  <2>2. /\ SubSeq(s, g + 1, g + m) \in Seq(Int) /\ Len(SubSeq(s, g + 1, g + m)) = m
        /\ \A k \in 1 .. m : SubSeq(s, g + 1, g + m)[k] = s[g + k]
    BY <1>1, <2>1, Cut
  <2> QED
    BY <2>1, <2>2 DEF g
<1>5. s = (b \o o) \o e
  <2>1. SubSeq(s, 0 + 1, 0 + a) \o SubSeq(s, 0 + a + 1, 0 + a + l) = SubSeq(s, 0 + 1, 0 + a + l)
    <3>1. 0 \in Nat /\ 0 + a + l <= Len(s)
      BY <1>1
    <3> HIDE DEF l
    <3> QED
      BY <1>1, <3>1, CutTwice
  <2>2. b \o o = SubSeq(s, 1, a + l)
    <3>1. 0 + 1 = 1 /\ 0 + a = a /\ 0 + a + 1 = a + 1 /\ 0 + a + l = a + l
      BY <1>1
    <3> HIDE DEF l
    <3> QED
      BY <2>1, <3>1
  <2>3. SubSeq(s, 1, a + l) \o SubSeq(s, (a + l) + 1, Len(s)) = SubSeq(s, 1, Len(s))
    <3>1. 1 \in 1 .. Len(s) + 1 /\ a + l \in 1 - 1 .. Len(s) /\ Len(s) \in a + l .. Len(s)
      BY <1>1
    <3> QED
      BY <3>1, ConcatAdjacentSubSeq
  <2> QED
    BY <2>2, <2>3, SubSeqFull
<1> DEFINE z == Put(s, a, w)
<1>6. z = (b \o w) \o e
  BY DEF Put
<1> HIDE DEF b, o, e, z
<1>7. /\ b \o w \in Seq(Int) /\ Len(b \o w) = a + l
      /\ \A k \in 1 .. a + l : (b \o w)[k] = IF k <= a THEN b[k] ELSE w[k - a]
  <2>1. /\ b \o w \in Seq(Int) /\ Len(b \o w) = Len(b) + Len(w)
        /\ \A k \in 1 .. Len(b) + Len(w) : (b \o w)[k] = IF k <= Len(b) THEN b[k] ELSE w[k - Len(b)]
    BY <1>2, ConcatProperties
  <2> QED
    BY <1>2, <2>1
<1> DEFINE x == b \o w
<1>8. /\ z \in Seq(Int) /\ Len(z) = Len(x) + Len(e)
      /\ \A k \in 1 .. Len(x) + Len(e) : z[k] = IF k <= Len(x) THEN x[k] ELSE e[k - Len(x)]
  <2> HIDE DEF x
  <2> QED
    BY <1>4, <1>6, <1>7, ConcatProperties DEF x
<1>9. Len(z) = Len(s)
  BY <1>1, <1>4, <1>7, <1>8
<1>10. ASSUME NEW k \in 1 .. Len(s)
       PROVE  z[k] = IF a < k /\ k <= a + l THEN w[k - a] ELSE s[k]
  <2> HIDE DEF x
  <2>0. k \in 1 .. Len(x) + Len(e) /\ Len(x) = a + l
    BY <1>1, <1>4, <1>7 DEF x
  <2>1. CASE k <= a + l
    <3>1. z[k] = x[k] /\ k \in 1 .. a + l
      BY <1>1, <1>8, <2>0, <2>1
    <3>2. CASE k <= a
      <4>1. x[k] = b[k] /\ b[k] = s[k]
        BY <1>2, <1>7, <3>1, <3>2 DEF x
      <4>2. z[k] = s[k]
        BY <3>1, <4>1
      <4>3. ~ (a < k)
        BY <3>2
      <4> QED
        BY <4>2, <4>3
    <3>3. CASE a < k
      <4>1. ~ (k <= a)
        BY <1>1, <3>3
      <4>2. x[k] = w[k - a]
        BY <1>7, <3>1, <4>1 DEF x
      <4>3. z[k] = w[k - a]
        BY <3>1, <4>2
      <4> QED
        BY <2>1, <3>3, <4>3
    <3> QED
      BY <1>1, <3>2, <3>3
  <2>2. CASE a + l < k
    <3>1. z[k] = e[k - (a + l)] /\ k - (a + l) \in 1 .. m /\ (a + l) + (k - (a + l)) = k
      BY <1>1, <1>8, <2>0, <2>2
    <3> QED
      BY <1>1, <1>4, <2>2, <3>1
  <2> QED
    BY <1>1, <2>1, <2>2
<1>11. ASSUME Same(w, o)
       PROVE  Same(z, s)
  <2>1. Same(b, b) /\ Same(e, e) /\ b \o o \in Seq(Int)
    BY <1>2, <1>3, ConcatProperties DEF Same
  <2>2. Same(b \o w, b \o o)
    BY <1>2, <1>3, <1>11, <2>1, SameConcat
  <2>3. Same((b \o w) \o e, (b \o o) \o e)
    BY <1>4, <1>7, <2>1, <2>2, SameConcat
  <2> QED
    BY <1>5, <1>6, <2>3
<1> QED
  BY <1>8, <1>9, <1>10, <1>11 DEF z, o

LEMMA PutPart ==
    ASSUME NEW s \in Seq(Int), NEW w \in Seq(Int), NEW a \in Nat, a + Len(w) <= Len(s)
    PROVE  SubSeq(Put(s, a, w), a + 1, a + Len(w)) = w
<1> DEFINE z == Put(s, a, w)
           c == SubSeq(z, a + 1, a + Len(w))
<1>1. /\ z \in Seq(Int) /\ Len(z) = Len(s) /\ Len(s) \in Nat /\ Len(w) \in Nat
      /\ \A k \in 1 .. Len(s) : z[k] = IF a < k /\ k <= a + Len(w) THEN w[k - a] ELSE s[k]
  BY PutOK, LenProperties
<1> HIDE DEF z
<1>2. c \in Seq(Int) /\ Len(c) = Len(w) /\ \A k \in 1 .. Len(w) : c[k] = z[a + k]
  BY <1>1, Cut
<1> HIDE DEF c
<1>3. ASSUME NEW k \in 1 .. Len(c)
      PROVE  c[k] = w[k]
  <2>1. /\ k \in 1 .. Len(w) /\ a + k \in 1 .. Len(s)
        /\ a < a + k /\ a + k <= a + Len(w) /\ (a + k) - a = k
    BY <1>1, <1>2
  <2> QED
    BY <1>1, <1>2, <2>1
<1> QED
  BY <1>2, <1>3, SeqEqual DEF c, z

Window(s, c, l) == SubSeq(s, c + 1, c + l)

\* b is s wherever w, stored from place a + 1 on, is not.
SameElsewhere(s, a, w, b) ==
    \A c \in Nat, l \in Nat :
        c + l <= Len(s) /\ (c + l <= a \/ a + Len(w) <= c) => Window(b, c, l) = Window(s, c, l)

LEMMA PutElsewhere ==
    ASSUME NEW s \in Seq(Int), NEW w \in Seq(Int), NEW a \in Nat, a + Len(w) <= Len(s)
    PROVE  SameElsewhere(s, a, w, Put(s, a, w))
<1> DEFINE z == Put(s, a, w)
<1>1. /\ z \in Seq(Int) /\ Len(z) = Len(s) /\ Len(s) \in Nat /\ Len(w) \in Nat
      /\ \A k \in 1 .. Len(s) : z[k] = IF a < k /\ k <= a + Len(w) THEN w[k - a] ELSE s[k]
  BY PutOK, LenProperties
<1> HIDE DEF z
<1>2. ASSUME NEW c \in Nat, NEW l \in Nat, c + l <= Len(s), c + l <= a \/ a + Len(w) <= c
      PROVE  Window(z, c, l) = Window(s, c, l)
  <2>1. ASSUME NEW k \in 1 .. l
        PROVE  z[c + k] = s[c + k]
    <3>1. c + k \in 1 .. Len(s) /\ ~ (a < c + k /\ c + k <= a + Len(w))
      BY <1>1, <1>2
    <3> QED
      BY <1>1, <3>1
  <2>2. c + l <= Len(z)
    BY <1>1, <1>2
  <2>3. SubSeq(z, c + 1, c + l) = SubSeq(s, c + 1, c + l)
    BY <1>1, <1>2, <2>1, <2>2, CutEqual
  <2> QED
    BY <2>3 DEF Window
<1> QED
  BY <1>2 DEF z, SameElsewhere

-----------------------------------------------------------------------------
\* The sizes of the parts.

LEMMA Sizes ==
    ASSUME IInv
    PROVE  /\ input.p \in Nat \ {0} /\ n \in Nat \ {0} /\ n = Len(input.data)
           /\ input.data \in Seq(Int)
           /\ Whole \in Nat /\ input.p * Whole <= n
           /\ levels \in 0 .. input.p /\ pow2[levels] \in Nat \ {0}
           /\ Merged = pow2[levels] * Whole /\ Merged \in Nat /\ Merged <= n
           /\ 0 \in Ranks /\ Ranks \subseteq Nat /\ Main \notin Ranks
           /\ \A t \in Nat : t \in Ranks <=> t < input.p
<1>1. input \in Inputs
  BY DEF IInv, Shape
<1>2. /\ input.p \in Nat \ {0} /\ n \in Nat
      /\ 0 \in Ranks /\ Ranks \subseteq Nat /\ Main \notin Ranks
  BY <1>1, InputOK
<1>3. input.data \in Seq(Int) /\ input.data # << >>
  BY <1>1, InputsAssumption
<1>4. n \in Nat \ {0} /\ n = Len(input.data)
  <2>1. Len(input.data) \in Nat \ {0}
    BY <1>3, EmptySeq
  <2> QED
    BY <2>1 DEF n
<1>5. Whole \in Nat /\ input.p * Whole <= n
  BY <1>2, PartsFit DEF Whole
<1>6. levels \in 0 .. input.p /\ pow2[levels] \in Nat \ {0} /\ pow2[levels] <= input.p
  <2>1. levels \in 0 .. input.p /\ pow2[levels] <= input.p
    BY <1>2, Levels
  <2> QED
    BY <1>2, <2>1, Powers
<1>7. Merged = pow2[levels] * Whole /\ Merged \in Nat /\ Merged <= n
  <2> DEFINE q == pow2[levels]
             w == Whole
             m == q * w
             e == input.p * w
  <2>0. Merged = m
    BY DEF Merged, Whole
  <2>1. q \in Nat /\ w \in Nat /\ q <= input.p /\ e <= n
    BY <1>5, <1>6
  <2> HIDE DEF q, w
  <2>2. m <= e
    BY <1>2, <2>1, Mono
  <2>3. m \in Nat /\ e \in Nat
    BY <1>2, <2>1
  <2>4. m <= n
    <3> HIDE DEF m, e
    <3> QED
      BY <1>4, <2>1, <2>2, <2>3
  <2> QED
    BY <2>0, <2>3, <2>4 DEF q, w
<1>8. \A t \in Nat : t \in Ranks <=> t < input.p
  BY <1>2 DEF Ranks
<1> QED
  BY <1>2, <1>3, <1>4, <1>5, <1>6, <1>7, <1>8

\* A task of a level, and each half of it, is in the array.
LEMMA TaskFits ==
    ASSUME IInv, ~ Mpi, NEW t \in Ranks, t < nodes
    PROVE  /\ TaskSize \in Nat /\ ps \in Nat /\ t \in Nat /\ t * TaskSize \in Nat
           /\ t * TaskSize + TaskSize <= n
           /\ From(t) = t * TaskSize + 1
           /\ kind = "merge" => /\ (2 * t) * ps = t * TaskSize
                                /\ (2 * t + 1) * ps = t * TaskSize + ps
                                /\ TaskSize = ps + ps
<1>1. /\ TaskSize \in Nat /\ t \in Nat /\ From(t) = t * TaskSize + 1
  BY Extent
<1>2. ps \in Nat
  BY Sizes DEF IInv, Shape, ps
<1>3. t * TaskSize + TaskSize <= n /\ t * TaskSize \in Nat
  <2> DEFINE a == t * TaskSize
             b == nodes * TaskSize
  <2>1. nodes \in Nat /\ b <= n
    BY DEF IInv, Shape
  <2>2. a \in Nat /\ b \in Nat
    BY <1>1, <2>1
  <2>3. a + TaskSize <= b
    BY <1>1, <2>1, EndsBefore
  <2>4. n \in Nat
    BY Sizes
  <2> HIDE DEF a, b
  <2>5. a + TaskSize <= n
    BY <1>1, <2>1, <2>2, <2>3, <2>4
  <2> QED
    BY <2>2, <2>5 DEF a
<1>4. ASSUME kind = "merge"
      PROVE  (2 * t) * ps = t * TaskSize /\ (2 * t + 1) * ps = t * TaskSize + ps /\ TaskSize = ps + ps
  <2>1. TaskSize = 2 * ps
    BY <1>4 DEF TaskSize
  <2>2. (2 * t) * ps = t * (2 * ps) /\ (2 * t + 1) * ps = t * (2 * ps) + ps /\ 2 * ps = ps + ps
    BY <1>1, <1>2
  <2> QED
    BY <2>1, <2>2
<1> QED
  BY <1>1, <1>2, <1>3, <1>4

\* The array as a sequence.
LEMMA DataSeq ==
    ASSUME IInv, NEW d \in [1 .. n -> Int]
    PROVE  d \in Seq(Int) /\ Len(d) = n
<1>1. n \in Nat
  BY Sizes
<1> QED
  BY <1>1

\* Two sorted halves of the input make a whole.
LEMMA HalvesOfTask ==
    ASSUME IInv, ~ Mpi, NEW t \in Ranks, t < nodes, kind = "merge", NEW s \in Seq(Int), Len(s) = n
    PROVE  /\ Piece(s, 2 * t, ps) \in Seq(Int) /\ Len(Piece(s, 2 * t, ps)) = ps
           /\ Piece(s, 2 * t + 1, ps) \in Seq(Int) /\ Len(Piece(s, 2 * t + 1, ps)) = ps
           /\ Piece(s, t, TaskSize) = Piece(s, 2 * t, ps) \o Piece(s, 2 * t + 1, ps)
<1> DEFINE a == t * TaskSize
           l == ps
<1>1. /\ a \in Nat /\ l \in Nat /\ a + TaskSize <= n /\ TaskSize = l + l
      /\ (2 * t) * ps = a /\ (2 * t + 1) * ps = a + l /\ n \in Nat
  BY TaskFits, Sizes
<1> HIDE DEF a, l
<1>2. /\ Piece(s, 2 * t, ps) = SubSeq(s, a + 1, a + l)
      /\ Piece(s, 2 * t + 1, ps) = SubSeq(s, (a + l) + 1, (a + l) + l)
      /\ Piece(s, t, TaskSize) = SubSeq(s, a + 1, a + TaskSize)
  BY <1>1 DEF Piece, a, l
<1>3. a + l <= Len(s) /\ (a + l) + l <= Len(s) /\ a + l \in Nat /\ a + TaskSize = a + l + l
  BY <1>1
<1>4. /\ SubSeq(s, a + 1, a + l) \in Seq(Int) /\ Len(SubSeq(s, a + 1, a + l)) = l
      /\ SubSeq(s, (a + l) + 1, (a + l) + l) \in Seq(Int)
      /\ Len(SubSeq(s, (a + l) + 1, (a + l) + l)) = l
  BY <1>1, <1>3, Cut
<1>5. SubSeq(s, a + 1, a + l) \o SubSeq(s, a + l + 1, a + l + l) = SubSeq(s, a + 1, a + l + l)
  BY <1>1, <1>3, CutTwice
<1> QED
  BY <1>2, <1>3, <1>4, <1>5 DEF l

LEMMA PieceOfTask ==
    ASSUME IInv, ~ Mpi, NEW t \in Ranks, t < nodes, NEW s \in Seq(Int), Len(s) = n
    PROVE  /\ Piece(s, t, TaskSize) \in Seq(Int) /\ Len(Piece(s, t, TaskSize)) = TaskSize
           /\ Piece(s, t, TaskSize) = SubSeq(s, From(t), To(t))
<1> DEFINE a == t * TaskSize
           l == TaskSize
<1>1. a \in Nat /\ l \in Nat /\ a + l <= Len(s) /\ From(t) = a + 1 /\ To(t) = a + l
  BY TaskFits, Extent
<1>2. Piece(s, t, TaskSize) = SubSeq(s, a + 1, a + l)
  BY DEF Piece
<1> HIDE DEF a, l
<1>3. SubSeq(s, a + 1, a + l) \in Seq(Int) /\ Len(SubSeq(s, a + 1, a + l)) = l
  BY <1>1, Cut
<1> QED
  BY <1>1, <1>2, <1>3 DEF l

\* A task that stores its part leaves the others alone.
LEMMA StoreTask ==
    ASSUME IInv, ~ Mpi, data \in [1 .. n -> Int], NEW t \in Ranks, t < nodes,
           NEW w \in Seq(Int), Len(w) = TaskSize
    PROVE  LET stored == Stored(From(t), w)
           IN  /\ stored \in [1 .. n -> Int]
               /\ Same(w, Piece(data, t, TaskSize)) => Same(stored, data)
               /\ Piece(stored, t, TaskSize) = w
               /\ \A u \in Ranks : u < nodes /\ u # t =>
                      /\ Piece(stored, u, TaskSize) = Piece(data, u, TaskSize)
                      /\ kind = "merge" => \A k \in {2 * u, 2 * u + 1} :
                             Piece(stored, k, ps) = Piece(data, k, ps)
<1> DEFINE a == t * TaskSize
           stored == Stored(From(t), w)
<1>1. data \in Seq(Int) /\ Len(data) = n /\ n \in Nat
  BY DataSeq, Sizes
<1>2. a \in Nat /\ TaskSize \in Nat /\ a + TaskSize <= n /\ From(t) = a + 1 /\ t \in Nat
  BY TaskFits
<1> HIDE DEF a
<1>3. stored = Put(data, a, w)
  <2>1. (a + 1) - 1 = a /\ (a + 1) + Len(w) = a + Len(w) + 1
    BY <1>2
  <2> QED
    BY <1>1, <1>2, <2>1 DEF Stored, Put
<1>4. a + Len(w) <= Len(data)
  BY <1>1, <1>2
<1>5. stored \in Seq(Int) /\ Len(stored) = n
  BY <1>1, <1>2, <1>3, <1>4, PutOK
<1>6. Piece(data, t, TaskSize) = SubSeq(data, a + 1, a + Len(w))
  BY DEF Piece, a
<1>7. Same(w, Piece(data, t, TaskSize)) => Same(stored, data)
  <2>1. Same(w, SubSeq(data, a + 1, a + Len(w))) => Same(Put(data, a, w), data)
    BY <1>1, <1>2, <1>4, PutOK
  <2> QED
    BY <1>3, <1>6, <2>1
<1>8. Piece(stored, t, TaskSize) = w
  <2>1. Piece(stored, t, TaskSize) = SubSeq(stored, a + 1, a + Len(w))
    BY DEF Piece, a
  <2>2. SubSeq(Put(data, a, w), a + 1, a + Len(w)) = w
    BY <1>1, <1>2, <1>4, PutPart
  <2> QED
    BY <1>3, <2>1, <2>2
<1>9. ASSUME NEW c \in Nat, NEW l \in Nat, c + l <= n, c + l <= a \/ a + TaskSize <= c
      PROVE  SubSeq(stored, c + 1, c + l) = SubSeq(data, c + 1, c + l)
  <2>1. c + l <= Len(data) /\ (c + l <= a \/ a + Len(w) <= c)
    BY <1>1, <1>9
  <2>2. SameElsewhere(data, a, w, Put(data, a, w))
    BY <1>1, <1>2, <1>4, PutElsewhere
  <2> HIDE DEF stored
  <2>3. Window(Put(data, a, w), c, l) = Window(data, c, l)
    BY <2>1, <2>2 DEF SameElsewhere
  <2> QED
    BY <1>3, <2>3 DEF Window
<1> HIDE DEF stored
<1>10. ASSUME NEW u \in Ranks, u < nodes, u # t
       PROVE  /\ Piece(stored, u, TaskSize) = Piece(data, u, TaskSize)
              /\ kind = "merge" => \A k \in {2 * u, 2 * u + 1} :
                     Piece(stored, k, ps) = Piece(data, k, ps)
  <2> DEFINE c == u * TaskSize
  <2>1. /\ c \in Nat /\ c + TaskSize <= n /\ u \in Nat /\ ps \in Nat
        /\ kind = "merge" => /\ (2 * u) * ps = c /\ (2 * u + 1) * ps = c + ps
                             /\ TaskSize = ps + ps
    BY <1>10, TaskFits
  <2>2. c + TaskSize <= a \/ a + TaskSize <= c
    <3>1. CASE u < t
      BY <1>2, <2>1, <3>1, EndsBefore DEF a
    <3>2. CASE t < u
      BY <1>2, <2>1, <3>2, EndsBefore DEF a
    <3> QED
      BY <1>2, <1>10, <2>1, <3>1, <3>2
  <2>3. Piece(stored, u, TaskSize) = SubSeq(stored, c + 1, c + TaskSize)
        /\ Piece(data, u, TaskSize) = SubSeq(data, c + 1, c + TaskSize)
    BY DEF Piece
  <2> HIDE DEF c
  <2>4. Piece(stored, u, TaskSize) = Piece(data, u, TaskSize)
    BY <1>2, <1>9, <2>1, <2>2, <2>3
  <2>5. ASSUME kind = "merge"
        PROVE  \A k \in {2 * u, 2 * u + 1} : Piece(stored, k, ps) = Piece(data, k, ps)
    <3>1. /\ Piece(stored, 2 * u, ps) = SubSeq(stored, c + 1, c + ps)
          /\ Piece(data, 2 * u, ps) = SubSeq(data, c + 1, c + ps)
          /\ Piece(stored, 2 * u + 1, ps) = SubSeq(stored, (c + ps) + 1, (c + ps) + ps)
          /\ Piece(data, 2 * u + 1, ps) = SubSeq(data, (c + ps) + 1, (c + ps) + ps)
      BY <2>1, <2>5 DEF Piece
    <3>2. /\ c + ps <= n /\ (c + ps <= a \/ a + TaskSize <= c)
          /\ c + ps \in Nat /\ (c + ps) + ps <= n
          /\ ((c + ps) + ps <= a \/ a + TaskSize <= c + ps)
      BY <1>1, <1>2, <2>1, <2>2, <2>5
    <3>3. SubSeq(stored, c + 1, c + ps) = SubSeq(data, c + 1, c + ps)
      BY <1>9, <2>1, <3>2
    <3>4. SubSeq(stored, (c + ps) + 1, (c + ps) + ps) = SubSeq(data, (c + ps) + 1, (c + ps) + ps)
      BY <1>9, <2>1, <3>2
    <3> QED
      BY <3>1, <3>3, <3>4
  <2> QED
    BY <2>4, <2>5
<1>11. stored \in [1 .. n -> Int]
  BY <1>5, LenProperties
<1> QED
  BY <1>7, <1>8, <1>10, <1>11 DEF stored

-----------------------------------------------------------------------------
\* The steps of threads keep what has been sorted.

\* A step that leaves a task and its numbers where they are.
LEMMA TaskKept ==
    ASSUME NEW t \in Ranks, TaskSorts(t), UNCHANGED <<input, kind, partition_size>>,
           Piece(data', t, TaskSize) = Piece(data, t, TaskSize),
           kind = "merge" => \A k \in {2 * t, 2 * t + 1} : Piece(data', k, ps) = Piece(data, k, ps),
           InBuffer(t)' => InBuffer(t) /\ buf'[t] = buf[t],
           Untouched(t)' => Untouched(t), Finished(t)' => Finished(t)
    PROVE  TaskSorts(t)'
<1>1. TaskSize' = TaskSize /\ ps' = ps /\ input' = input /\ kind' = kind
  BY DEF TaskSize, ps
<1> DEFINE part == Piece(input.data, t, TaskSize)
<1>2. Same(Piece(data', t, TaskSize), part)
  BY DEF TaskSorts
<1>3. Untouched(t)' /\ kind = "merge" =>
          \A u \in {2 * t, 2 * t + 1} : Sorts(Piece(data', u, ps), Piece(input.data, u, ps))
  BY DEF TaskSorts
<1>4. InBuffer(t)' => Len(buf'[t]) = TaskSize /\ Sorts(buf'[t], part)
  BY DEF TaskSorts
<1>5. Finished(t)' => Sorts(Piece(data', t, TaskSize), part)
  BY DEF TaskSorts
<1> QED
  BY <1>1, <1>2, <1>3, <1>4, <1>5 DEF TaskSorts

\* The types, from what has been sorted.
LEMMA ThreadTypes ==
    ASSUME IInv', ~ Mpi', net' = {}, data' \in [1 .. n' -> Int], level' = level, input' = input,
           nodes' <= input.p, r' <= input.p, TypeOK
    PROVE  TypeOK'
<1>1. Ranks' = Ranks /\ Main' = Main /\ n' = n
  BY DEF Ranks, Main, n
<1>2. /\ partition_size' \in [Ranks -> Nat] /\ kind' \in {"sort", "merge"}
      /\ nodes' \in Nat /\ r' \in Nat /\ pc' \in [Ranks \cup {Main} -> Places]
      /\ \A t \in Ranks : pc'[t] \notin {"sort", "collect"}
  BY <1>1 DEF IInv, Shape
<1>3. nodes' \in 0 .. input.p /\ r' \in 0 .. input.p
  <2>1. input.p \in Nat
    BY InputsAssumption DEF IInv, Shape
  <2> QED
    BY <1>2, <2>1
<1>4. DOMAIN data' = 1 .. n /\ level \in [Ranks -> 1 .. input.p + 1]
  BY <1>1 DEF TypeOK
<1> QED
  BY <1>1, <1>2, <1>3, <1>4 DEF TypeOK, Places

\* What is left to show of a step that main or a thread takes.
LEMMA ThreadStep ==
    ASSUME Sorting, ~ Mpi, [Next]_vars, input' = input, level' = level, nodes' <= input.p, r' <= input.p,
           buf' \in [Ranks -> Seq(Int)], pc'[Main] # "dead", ThreadsSort'
    PROVE  Sorting'
<1>1. IInv'
  BY NextIInv DEF Sorting
<1>2. Mpi' = Mpi /\ Ranks' = Ranks /\ Main' = Main /\ n' = n
  BY DEF Mpi, Ranks, Main, n
<1>3. TypeOK'
  BY <1>1, <1>2, ThreadTypes DEF Sorting, ThreadsSort
<1>4. ~ Dead'
  BY <1>2 DEF Dead
<1> QED
  BY <1>1, <1>2, <1>3, <1>4 DEF Sorting

\* Main is at work as long as there is a task, and lives.
LEMMA Working ==
    ASSUME IInv, ~ Mpi, NEW t \in Ranks, pc[t] \in {"task", "copy", "ended"}
    PROVE  /\ pc[Main] \in {"create", "join"} /\ ~ Dead /\ t < nodes
           /\ pc[Main] = "create" => t < r
           /\ pc[Main] = "join" => t >= r
<1>1. TasksOfMain /\ ~ IsIdle(t)
  BY DEF IInv, IsIdle
<1>2. t \in Nat /\ nodes \in Nat /\ r \in Nat
  BY InputOK DEF IInv, Shape
<1> QED
  BY <1>1, <1>2 DEF TasksOfMain, Dead

LEMMA CreateSorts == ASSUME Sorting, Create PROVE Sorting'
<1>0. IInv /\ TypeOK
  BY DEF Sorting
<1>1. ~ Mpi /\ pc[Main] = "create" /\ ~ Dead
  BY <1>0 DEF IInv, Create, Dead
<1>2. ThreadsSort /\ TasksOfMain
  BY <1>0, <1>1 DEF Sorting, IInv
<1>3. Ranks \subseteq Nat /\ Main \notin Ranks /\ pc \in [Ranks \cup {Main} -> Places]
      /\ r \in Nat /\ nodes \in Nat /\ nodes <= input.p /\ input.p \in Nat
      /\ \A t \in Nat : t \in Ranks <=> t < input.p
  BY <1>0, Sizes DEF IInv, Shape, TypeOK
<1>4. UNCHANGED <<input, data, partition_size, kind, nodes, buf, level, net>>
  BY DEF Create
<1>5. UNCHANGED <<Ranks, Main, n, Mpi, ps, TaskSize, Merged, Whole, Halves>>
  BY <1>4 DEF Ranks, Main, n, Mpi, ps, TaskSize, Merged, Whole, Halves, levels
<1>6. /\ r' <= nodes
      /\ pc'[Main] \in {"create", "join"}
      /\ \A t \in Ranks : /\ Untouched(t)' => Untouched(t)
                          /\ InBuffer(t)' => InBuffer(t)
                          /\ Finished(t)' => Finished(t)
      /\ \A t \in Ranks : pc'[t] = "copy" => pc[t] = "copy"
  <2>1. CASE r < nodes
    <3>1. pc' = [pc EXCEPT ![r] = "task"] /\ r' = r + 1 /\ r \in Ranks
      BY <1>3, <2>1 DEF Create
    <3>2. r' <= nodes /\ pc'[Main] = "create" /\ pc'[r] = "task"
          /\ \A t \in Ranks : t # r => pc'[t] = pc[t]
      BY <1>1, <1>3, <2>1, <3>1
    <3>3. ASSUME NEW t \in Ranks
          PROVE  (Untouched(t)' => Untouched(t)) /\ (InBuffer(t)' => InBuffer(t))
                 /\ (Finished(t)' => Finished(t)) /\ (pc'[t] = "copy" => pc[t] = "copy")
      <4>1. CASE t = r
        <5>1. Untouched(t)
          BY <1>1, <1>3, <4>1 DEF Untouched
        <5>2. ~ InBuffer(t)' /\ ~ Finished(t)' /\ pc'[t] # "copy"
          BY <1>5, <3>2, <4>1 DEF InBuffer, Finished
        <5> QED
          BY <5>1, <5>2
      <4>2. CASE t # r
        <5>1. pc'[t] = pc[t] /\ (t >= r + 1 => t >= r) /\ pc'[Main] = pc[Main] /\ pc'[Main] # "join"
          BY <1>1, <1>3, <3>2, <4>2
        <5>2. (Untouched(t)' => Untouched(t)) /\ (InBuffer(t)' = InBuffer(t))
          BY <1>4, <1>5, <3>1, <5>1 DEF Untouched, InBuffer
        <5>3. Finished(t)' => Finished(t)
          BY <1>5, <5>1, <5>2 DEF Finished
        <5> QED
          BY <5>1, <5>2, <5>3
      <4> QED
        BY <4>1, <4>2
    <3> QED
      BY <3>2, <3>3
  <2>2. CASE ~ (r < nodes)
    <3>1. pc' = [pc EXCEPT ![Main] = "join"] /\ r' = 0
      BY <2>2 DEF Create
    <3>2. pc'[Main] = "join" /\ \A t \in Ranks : pc'[t] = pc[t] /\ ~ (t < r')
      BY <1>3, <3>1
    <3>3. \A t \in Ranks : /\ Untouched(t)' => Untouched(t)
                           /\ InBuffer(t)' = InBuffer(t)
      BY <1>4, <1>5, <3>2 DEF Untouched, InBuffer
    <3>4. \A t \in Ranks : Finished(t)' => Finished(t)
      BY <1>5, <3>2, <3>3 DEF Finished
    <3> QED
      BY <1>3, <3>1, <3>2, <3>3, <3>4
  <2> QED
    BY <2>1, <2>2
<1>7. ASSUME NEW t \in Ranks, t < nodes
      PROVE  TaskSorts(t)'
  <2>1. TaskSorts(t)
    BY <1>1, <1>2, <1>7 DEF ThreadsSort
  <2>2. Piece(data', t, TaskSize) = Piece(data, t, TaskSize)
        /\ \A k \in {2 * t, 2 * t + 1} : Piece(data', k, ps) = Piece(data, k, ps)
    BY <1>4
  <2> QED
    BY <1>4, <1>6, <2>1, <2>2, TaskKept
<1>8. ThreadsSort'
  <2>1. /\ net' = {} /\ data' \in [1 .. n -> Int] /\ Same(data', input'.data)
        /\ Halves' /\ (kind' = "sort" => ps = Whole /\ nodes' = input'.p)
        /\ \A t \in Ranks : pc'[t] = "copy" => kind' = "merge"
    BY <1>1, <1>2, <1>4, <1>5, <1>6 DEF ThreadsSort
  <2> QED
    BY <1>4, <1>5, <1>6, <1>7, <2>1 DEF ThreadsSort
<1>9. [Next]_vars /\ r' <= input.p /\ buf' \in [Ranks -> Seq(Int)]
  <2>1. r' \in Nat
    BY <1>3 DEF Create
  <2>2. r' <= input.p
    BY <1>3, <1>6, <2>1
  <2> QED
    BY <1>4, <2>2 DEF Next, Sorting
<1> QED
  BY <1>1, <1>3, <1>4, <1>6, <1>8, <1>9, ThreadStep

\* A program that dies keeps no promise.
LEMMA CrashSorts ==
    ASSUME Sorting, Crash, UNCHANGED <<input, partition_size, kind, nodes, r, level, buf, net>>,
           DOMAIN data' = DOMAIN data
    PROVE  Sorting'
<1>1. IInv'
  BY CrashIInv DEF Sorting
<1>2. Ranks' = Ranks /\ Main' = Main /\ n' = n
  BY DEF Ranks, Main, n
<1>3. pc' = [t \in Ranks \cup {Main} |-> "dead"]
  BY DEF Crash, Sorting, IInv, Shape
<1>4. Dead' /\ \A t \in Ranks : pc'[t] = "dead"
  BY <1>2, <1>3 DEF Dead
<1>5. TypeOK'
  BY <1>2, <1>3 DEF TypeOK, Sorting
<1> QED
  BY <1>1, <1>2, <1>4, <1>5 DEF Sorting

\* A thread that moves on leaves the places of main and the others alone.
LEMMA ThreadMoves ==
    ASSUME Sorting, ~ Mpi, NEW t \in Ranks, pc[t] \in {"task", "copy"},
           NEW place \in {"copy", "ended"}, pc' = [pc EXCEPT ![t] = place],
           UNCHANGED <<input, partition_size, kind, nodes, r, level, net>>
    PROVE  /\ ThreadsSort /\ t < nodes /\ TaskSorts(t)
           /\ pc'[Main] = pc[Main] /\ pc[Main] \in {"create", "join"} /\ pc'[t] = place
           /\ UNCHANGED <<Ranks, Main, n, Mpi, ps, TaskSize, Merged, Whole, Halves>>
           /\ ~ Untouched(t)' /\ (Finished(t)' <=> place = "ended" /\ ~ InBuffer(t)')
           /\ \A u \in Ranks : u # t => /\ Untouched(u)' = Untouched(u)
                                        /\ InBuffer(u)' = InBuffer(u)
                                        /\ Finished(u)' = Finished(u)
           /\ \A u \in Ranks : u # t => pc'[u] = pc[u]
<1>0. IInv /\ TypeOK
  BY DEF Sorting
<1>1. /\ pc[Main] \in {"create", "join"} /\ ~ Dead /\ t < nodes
      /\ pc[Main] = "create" => t < r
      /\ pc[Main] = "join" => t >= r
  BY <1>0, Working
<1>2. ThreadsSort
  BY <1>1 DEF Sorting
<1>3. TaskSorts(t)
  BY <1>1, <1>2 DEF ThreadsSort
<1>4. Main \notin Ranks /\ pc \in [Ranks \cup {Main} -> Places] /\ t \in Nat /\ r \in Nat
  BY <1>0, Sizes DEF IInv, Shape
<1>5. pc'[Main] = pc[Main] /\ pc'[t] = place /\ \A u \in Ranks : u # t => pc'[u] = pc[u]
  BY <1>4
<1>6. UNCHANGED <<Ranks, Main, n, Mpi, ps, TaskSize, Merged, Whole, Halves>>
  BY DEF Ranks, Main, n, Mpi, ps, TaskSize, Merged, Whole, Halves, levels
<1>7. ~ Untouched(t)'
  BY <1>1, <1>4, <1>5, <1>6 DEF Untouched
<1>8. Finished(t)' <=> place = "ended" /\ ~ InBuffer(t)'
  BY <1>1, <1>4, <1>5, <1>6 DEF Finished
<1>9. ASSUME NEW u \in Ranks, u # t
      PROVE  /\ Untouched(u)' = Untouched(u)
             /\ InBuffer(u)' = InBuffer(u)
             /\ Finished(u)' = Finished(u)
  <2>1. Untouched(u)' = Untouched(u) /\ InBuffer(u)' = InBuffer(u)
    BY <1>5, <1>6, <1>9 DEF Untouched, InBuffer
  <2> QED
    BY <1>5, <1>6, <1>9, <2>1 DEF Finished
<1> QED
  BY <1>1, <1>2, <1>3, <1>5, <1>6, <1>7, <1>8, <1>9

\* What the step of a thread has to show of its own task.
LEMMA ThreadDone ==
    ASSUME Sorting, ~ Mpi, [Next]_vars, NEW t \in Ranks, pc[t] \in {"task", "copy"},
           NEW place \in {"copy", "ended"}, pc' = [pc EXCEPT ![t] = place],
           UNCHANGED <<input, partition_size, kind, nodes, r, level, net>>,
           place = "copy" => kind = "merge",
           data' \in [1 .. n -> Int], Same(data', data), buf' \in [Ranks -> Seq(Int)],
           \A u \in Ranks : u # t => buf'[u] = buf[u],
           \A u \in Ranks : u < nodes /\ u # t =>
               /\ Piece(data', u, TaskSize) = Piece(data, u, TaskSize)
               /\ kind = "merge" => \A k \in {2 * u, 2 * u + 1} :
                      Piece(data', k, ps) = Piece(data, k, ps),
           TaskSorts(t)'
    PROVE  Sorting'
<1>1. /\ ThreadsSort
      /\ pc'[Main] = pc[Main] /\ pc[Main] \in {"create", "join"} /\ pc'[t] = place
      /\ UNCHANGED <<Ranks, Main, n, Mpi, ps, TaskSize, Merged, Whole, Halves>>
      /\ \A u \in Ranks : u # t => /\ Untouched(u)' = Untouched(u)
                                   /\ InBuffer(u)' = InBuffer(u)
                                   /\ Finished(u)' = Finished(u)
      /\ \A u \in Ranks : u # t => pc'[u] = pc[u]
  BY ThreadMoves
<1>2. ASSUME NEW u \in Ranks, u < nodes
      PROVE  TaskSorts(u)'
  <2>1. CASE u = t
    BY <2>1
  <2>2. CASE u # t
    <3>1. TaskSorts(u)
      BY <1>1, <1>2 DEF ThreadsSort
    <3> QED
      BY <1>1, <1>2, <2>2, <3>1, TaskKept
  <2> QED
    BY <2>1, <2>2
<1>3. Same(data', input.data)
  BY <1>1 DEF ThreadsSort, Same
<1>4. \A u \in Ranks : pc'[u] = "copy" => kind = "merge"
  BY <1>1 DEF ThreadsSort
<1>5. ThreadsSort'
  BY <1>1, <1>2, <1>3, <1>4 DEF ThreadsSort
<1>6. nodes \in 0 .. input.p /\ r \in 0 .. input.p
  BY DEF Sorting, TypeOK
<1>7. nodes' <= input.p /\ r' <= input.p /\ pc'[Main] # "dead"
  BY <1>1, <1>6
<1> QED
  BY <1>5, <1>7, ThreadStep

LEMMA SortTaskSorts ==
    ASSUME Sorting, NEW t \in Ranks, sort_thread_main(t), [Next]_vars
    PROVE  Sorting'
<1>0. IInv /\ TypeOK
  BY DEF Sorting
<1>1. CASE Overflow(ps)
  BY <1>1, CrashSorts DEF sort_thread_main
<1>2. CASE ~ Overflow(ps)
  <2> DEFINE s == SubSeq(data, From(t), To(t))
             w == mergesort[s]
  <2>1. /\ ~ Mpi /\ pc[t] = "task" /\ kind = "sort" /\ data' = Stored(From(t), w)
        /\ pc' = [pc EXCEPT ![t] = "ended"]
        /\ UNCHANGED <<input, partition_size, kind, nodes, r, buf, level, net>>
    BY <1>0, <1>2 DEF sort_thread_main, IInv
  <2>2. /\ ThreadsSort /\ t < nodes /\ TaskSorts(t)
        /\ ~ Untouched(t)' /\ UNCHANGED <<ps, TaskSize>>
        /\ pc[Main] \in {"create", "join"}
    BY <2>1, ThreadMoves
  <2>3. data \in [1 .. n -> Int] /\ data \in Seq(Int) /\ Len(data) = n
    BY <1>0, <2>2, DataSeq DEF ThreadsSort
  <2>4. s \in Seq(Int) /\ Len(s) = TaskSize /\ s = Piece(data, t, TaskSize)
    <3>1. /\ Piece(data, t, TaskSize) \in Seq(Int) /\ Len(Piece(data, t, TaskSize)) = TaskSize
          /\ Piece(data, t, TaskSize) = SubSeq(data, From(t), To(t))
      <4> HIDE DEF s, w
      <4>1. IInv /\ ~ Mpi /\ t < nodes
        BY <1>0, <2>1, <2>2
      <4> QED
        BY <2>3, <4>1, PieceOfTask
    <3> QED
      BY <3>1
  <2>5. s # << >>
    <3>1. TaskSize # 0
      BY <1>2, <2>1 DEF Overflow, TaskSize
    <3> HIDE DEF s
    <3> QED
      BY <2>4, <3>1, EmptySeq
  <2>6. w \in Seq(Int) /\ Len(w) = TaskSize /\ Sorts(w, s)
    <3> HIDE DEF s
    <3> QED
      BY <2>4, <2>5, MergesortWorks
  <2> HIDE DEF w
  <2>7. /\ data' \in [1 .. n -> Int] /\ Same(data', data)
        /\ Piece(data', t, TaskSize) = w
        /\ \A u \in Ranks : u < nodes /\ u # t =>
               /\ Piece(data', u, TaskSize) = Piece(data, u, TaskSize)
               /\ kind = "merge" => \A k \in {2 * u, 2 * u + 1} :
                      Piece(data', k, ps) = Piece(data, k, ps)
    <3> HIDE DEF s
    <3>1. Same(w, Piece(data, t, TaskSize))
      BY <2>4, <2>6 DEF Sorts
    <3> QED
      BY <1>0, <2>1, <2>2, <2>3, <2>6, <3>1, StoreTask
  <2>8. TaskSorts(t)'
    <3> HIDE DEF s
    <3>1. Same(s, Piece(input.data, t, TaskSize))
      BY <2>2, <2>4 DEF TaskSorts
    <3>2. Sorts(Piece(data', t, TaskSize), Piece(input.data, t, TaskSize))
      BY <2>6, <2>7, <3>1 DEF Sorts, Same
    <3>3. ~ InBuffer(t)'
      BY <2>1 DEF InBuffer
    <3>4. Same(Piece(data', t, TaskSize), Piece(input.data, t, TaskSize))
      BY <3>2 DEF Sorts
    <3> QED
      BY <2>1, <2>2, <3>2, <3>3, <3>4 DEF TaskSorts
  <2>9. buf' \in [Ranks -> Seq(Int)] /\ \A u \in Ranks : buf'[u] = buf[u]
    BY <2>1 DEF Sorting
  <2> QED
    BY <2>1, <2>7, <2>8, <2>9, ThreadDone
<1> QED
  BY <1>1, <1>2

LEMMA MergeTaskSorts ==
    ASSUME Sorting, NEW t \in Ranks, merge_thread_main(t), [Next]_vars
    PROVE  Sorting'
<1>0. IInv /\ TypeOK
  BY DEF Sorting
<1> DEFINE a == Piece(data, 2 * t, ps)
           b == Piece(data, 2 * t + 1, ps)
           m == merge[<<a, b>>]
           place == IF input.version = "openmp" THEN "copy" ELSE "ended"
<1>1. /\ ~ Mpi /\ pc[t] = "task" /\ kind = "merge"
      /\ buf' = [buf EXCEPT ![t] = merge[<<SubSeq(data, From(t), (From(t) + ps) - 1),
                                           SubSeq(data, From(t) + ps, To(t))>>]]
      /\ pc' = [pc EXCEPT ![t] = place]
      /\ UNCHANGED <<input, data, partition_size, kind, nodes, r, level, net>>
  <2>1. /\ pc[t] = "task" /\ kind = "merge"
        /\ pc' = [pc EXCEPT ![t] = place]
        /\ UNCHANGED <<input, data, partition_size, kind, nodes, r, level, net>>
    BY DEF merge_thread_main
  <2>2. ~ Mpi
    BY <1>0, <2>1 DEF IInv
  <2>3. buf' = [buf EXCEPT ![t] = merge[<<SubSeq(data, From(t), (From(t) + ps) - 1),
                                          SubSeq(data, From(t) + ps, To(t))>>]]
    BY DEF merge_thread_main
  <2> QED
    BY <2>1, <2>2, <2>3
<1>2. /\ ThreadsSort /\ t < nodes /\ TaskSorts(t) /\ pc'[t] = place
      /\ ~ Untouched(t)' /\ UNCHANGED <<ps, TaskSize>>
      /\ Finished(t)' <=> place = "ended" /\ ~ InBuffer(t)'
  BY <1>1, ThreadMoves
<1>3. data \in [1 .. n -> Int] /\ data \in Seq(Int) /\ Len(data) = n
  BY <1>0, <1>2, DataSeq DEF ThreadsSort
<1>4. /\ a \in Seq(Int) /\ Len(a) = ps /\ b \in Seq(Int) /\ Len(b) = ps
  BY <1>0, <1>1, <1>2, <1>3, HalvesOfTask
<1>5. /\ TaskSize \in Nat /\ ps \in Nat /\ TaskSize = ps + ps
      /\ SubSeq(data, From(t), (From(t) + ps) - 1) = a
      /\ SubSeq(data, From(t) + ps, To(t)) = b
  <2> DEFINE c == t * TaskSize
  <2>1. /\ c \in Nat /\ ps \in Nat /\ TaskSize \in Nat /\ From(t) = c + 1 /\ To(t) = c + TaskSize
        /\ (2 * t) * ps = c /\ (2 * t + 1) * ps = c + ps /\ TaskSize = ps + ps
    BY <1>0, <1>1, <1>2, TaskFits, Extent
  <2>2. a = SubSeq(data, c + 1, c + ps) /\ b = SubSeq(data, (c + ps) + 1, (c + ps) + ps)
    BY <2>1 DEF Piece
  <2> HIDE DEF a, b, c
  <2>3. /\ (From(t) + ps) - 1 = c + ps /\ From(t) + ps = (c + ps) + 1
        /\ To(t) = (c + ps) + ps
    BY <2>1
  <2> QED
    BY <2>1, <2>2, <2>3
<1>6. buf' = [buf EXCEPT ![t] = m]
  BY <1>1, <1>5
<1>7. /\ Piece(input.data, 2 * t, ps) \in Seq(Int) /\ Piece(input.data, 2 * t + 1, ps) \in Seq(Int)
      /\ Piece(input.data, t, TaskSize)
             = Piece(input.data, 2 * t, ps) \o Piece(input.data, 2 * t + 1, ps)
  <2>1. input.data \in Seq(Int) /\ Len(input.data) = n
    BY <1>0, Sizes
  <2> QED
    BY <1>0, <1>1, <1>2, <2>1, HalvesOfTask
<1>8. Sorts(a, Piece(input.data, 2 * t, ps)) /\ Sorts(b, Piece(input.data, 2 * t + 1, ps))
  <2>1. Untouched(t)
    BY <1>1 DEF Untouched
  <2> QED
    BY <1>1, <1>2, <2>1 DEF TaskSorts
<1> HIDE DEF a, b
<1>9. m \in Seq(Int) /\ Len(m) = TaskSize /\ Sorts(m, Piece(input.data, t, TaskSize))
  <2>1. Merges(m, a, b)
    BY <1>4, MergeWorks
  <2> HIDE DEF m
  <2>2. /\ m \in Seq(Int) /\ Len(m) = Len(a) + Len(b)
        /\ Sorts(m, Piece(input.data, 2 * t, ps) \o Piece(input.data, 2 * t + 1, ps))
    BY <1>4, <1>7, <1>8, <2>1, SameMerged
  <2> QED
    BY <1>4, <1>5, <1>7, <2>2
<1> HIDE DEF m
<1>10. buf' \in [Ranks -> Seq(Int)] /\ buf'[t] = m /\ \A u \in Ranks : u # t => buf'[u] = buf[u]
  BY <1>6, <1>9 DEF Sorting
<1>11. ~ Finished(t)'
  <2>1. input.version \in {"pthreads", "openmp"}
    BY <1>0, <1>1, InputsAssumption DEF IInv, Shape, Mpi
  <2>2. InBuffer(t)'
    BY <1>1, <1>2, <2>1 DEF InBuffer
  <2> QED
    BY <1>2, <2>2
<1>12. TaskSorts(t)'
  <2>1. Same(Piece(data, t, TaskSize), Piece(input.data, t, TaskSize))
    BY <1>2 DEF TaskSorts
  <2> QED
    BY <1>1, <1>2, <1>9, <1>10, <1>11, <2>1 DEF TaskSorts
<1>13. data' \in [1 .. n -> Int] /\ Same(data', data) /\ data' = data
  BY <1>1, <1>3 DEF Same
<1> QED
  BY <1>1, <1>10, <1>12, <1>13, ThreadDone

LEMMA CopyBackSorts ==
    ASSUME Sorting, NEW t \in Ranks, CopyBack(t), [Next]_vars
    PROVE  Sorting'
<1>0. IInv /\ TypeOK
  BY DEF Sorting
<1> DEFINE w == buf[t]
           part == Piece(input.data, t, TaskSize)
<1>1. /\ ~ Mpi /\ pc[t] = "copy" /\ data' = Stored(From(t), w)
      /\ pc' = [pc EXCEPT ![t] = "ended"]
      /\ UNCHANGED <<input, partition_size, kind, nodes, r, buf, level, net>>
  BY <1>0 DEF CopyBack, IInv
<1>2. /\ ThreadsSort /\ t < nodes /\ TaskSorts(t)
      /\ ~ Untouched(t)' /\ UNCHANGED <<ps, TaskSize>>
  BY <1>1, ThreadMoves
<1>3. data \in [1 .. n -> Int] /\ kind = "merge"
  BY <1>1, <1>2 DEF ThreadsSort
<1>4. w \in Seq(Int) /\ Len(w) = TaskSize /\ Sorts(w, part) /\ Same(Piece(data, t, TaskSize), part)
  <2>1. InBuffer(t)
    BY <1>1, <1>3 DEF InBuffer
  <2> QED
    BY <1>2, <2>1 DEF TaskSorts, Sorting
<1> HIDE DEF part
<1>5. /\ data' \in [1 .. n -> Int] /\ Same(data', data)
      /\ Piece(data', t, TaskSize) = w
      /\ \A u \in Ranks : u < nodes /\ u # t =>
             /\ Piece(data', u, TaskSize) = Piece(data, u, TaskSize)
             /\ kind = "merge" => \A k \in {2 * u, 2 * u + 1} :
                    Piece(data', k, ps) = Piece(data, k, ps)
  <2> HIDE DEF w
  <2>1. Same(w, Piece(data, t, TaskSize))
    BY <1>4 DEF Sorts, Same
  <2> QED
    BY <1>0, <1>1, <1>2, <1>3, <1>4, <2>1, StoreTask
<1>6. TaskSorts(t)'
  <2>1. Same(w, part)
    BY <1>4 DEF Sorts
  <2> QED
    BY <1>1, <1>2, <1>4, <1>5, <2>1 DEF TaskSorts, part
<1>7. buf' \in [Ranks -> Seq(Int)] /\ \A u \in Ranks : buf'[u] = buf[u]
  BY <1>1 DEF Sorting
<1> QED
  BY <1>1, <1>3, <1>5, <1>6, <1>7, ThreadDone

LEMMA JoinSorts == ASSUME Sorting, Join, [Next]_vars PROVE Sorting'
<1>0. IInv /\ TypeOK
  BY DEF Sorting
<1>1. /\ pc[Main] = "join" /\ r < nodes /\ pc[r] = "ended"
      /\ pc' = [pc EXCEPT ![r] = "idle"] /\ r' = r + 1
      /\ data' = IF kind = "merge" /\ input.version = "pthreads"
                 THEN Stored(From(r), buf[r]) ELSE data
      /\ UNCHANGED <<input, partition_size, kind, nodes, buf, level, net>>
  BY DEF Join
<1>2. ~ Mpi /\ ~ Dead
  BY <1>0, <1>1 DEF IInv, Dead
<1>3. ThreadsSort
  BY <1>2 DEF Sorting
<1>4. /\ Ranks \subseteq Nat /\ Main \notin Ranks /\ pc \in [Ranks \cup {Main} -> Places]
      /\ r \in Nat /\ nodes \in Nat /\ nodes <= input.p /\ input.p \in Nat
      /\ \A t \in Nat : t \in Ranks <=> t < input.p
  BY <1>0, Sizes DEF IInv, Shape, TypeOK
<1>5. r \in Ranks
  BY <1>1, <1>4
<1>6. TaskSorts(r)
  BY <1>1, <1>3, <1>5 DEF ThreadsSort
<1>7. pc'[Main] = "join" /\ pc'[r] = "idle" /\ \A u \in Ranks : u # r => pc'[u] = pc[u]
  BY <1>1, <1>4, <1>5
<1>8. UNCHANGED <<Ranks, Main, n, Mpi, ps, TaskSize, Merged, Whole, Halves>>
  BY <1>1 DEF Ranks, Main, n, Mpi, ps, TaskSize, Merged, Whole, Halves, levels
<1>9. data \in [1 .. n -> Int]
  BY <1>3 DEF ThreadsSort
<1> DEFINE part == Piece(input.data, r, TaskSize)
<1>10. /\ data' \in [1 .. n -> Int] /\ Same(data', data)
       /\ Sorts(Piece(data', r, TaskSize), part)
       /\ \A u \in Ranks : u < nodes /\ u # r =>
              /\ Piece(data', u, TaskSize) = Piece(data, u, TaskSize)
              /\ kind = "merge" => \A k \in {2 * u, 2 * u + 1} :
                     Piece(data', k, ps) = Piece(data, k, ps)
  <2>1. CASE kind = "merge" /\ input.version = "pthreads"
    <3> DEFINE w == buf[r]
    <3>1. w \in Seq(Int) /\ Len(w) = TaskSize /\ Sorts(w, part) /\ Same(Piece(data, r, TaskSize), part)
      <4>1. InBuffer(r)
        BY <1>1, <2>1 DEF InBuffer
      <4> QED
        BY <1>5, <1>6, <4>1 DEF TaskSorts, Sorting
    <3>2. data' = Stored(From(r), w)
      BY <1>1, <2>1
    <3> HIDE DEF w, part
    <3>3. Same(w, Piece(data, r, TaskSize))
      BY <3>1 DEF Sorts, Same
    <3>4. /\ data' \in [1 .. n -> Int] /\ Same(data', data)
          /\ Piece(data', r, TaskSize) = w
          /\ \A u \in Ranks : u < nodes /\ u # r =>
                 /\ Piece(data', u, TaskSize) = Piece(data, u, TaskSize)
                 /\ kind = "merge" => \A k \in {2 * u, 2 * u + 1} :
                        Piece(data', k, ps) = Piece(data, k, ps)
      BY <1>0, <1>1, <1>2, <1>5, <1>9, <3>1, <3>2, <3>3, StoreTask
    <3> QED
      BY <3>1, <3>4
  <2>2. CASE ~ (kind = "merge" /\ input.version = "pthreads")
    <3>1. data' = data
      BY <1>1, <2>2
    <3>2. Finished(r)
      BY <1>1, <2>2 DEF Finished, InBuffer
    <3>3. Sorts(Piece(data, r, TaskSize), part)
      BY <1>6, <3>2 DEF TaskSorts
    <3>4. Same(data, data)
      BY DEF Same
    <3> QED
      BY <1>9, <3>1, <3>3, <3>4
  <2> QED
    BY <2>1, <2>2
<1>11. ASSUME NEW u \in Ranks, u # r
       PROVE  /\ Untouched(u)' => Untouched(u)
              /\ InBuffer(u)' => InBuffer(u)
              /\ Finished(u)' => Finished(u)
  <2>1. Untouched(u)' => Untouched(u)
    BY <1>7, <1>8, <1>11 DEF Untouched
  <2>2. InBuffer(u)' = InBuffer(u)
    BY <1>1, <1>7, <1>8, <1>11 DEF InBuffer
  <2>3. u < r + 1 => u < r
    BY <1>4, <1>11
  <2>4. Finished(u)' => Finished(u)
    BY <1>1, <1>7, <1>8, <1>11, <2>2, <2>3 DEF Finished
  <2> QED
    BY <2>1, <2>2, <2>4
<1>12. ASSUME NEW t \in Ranks, t = r
       PROVE  TaskSorts(t)'
  <2>1. ~ Untouched(t)' /\ ~ InBuffer(t)'
    BY <1>7, <1>8, <1>12 DEF Untouched, InBuffer
  <2>2. Same(Piece(data', t, TaskSize), part) /\ Sorts(Piece(data', t, TaskSize), part)
    BY <1>10, <1>12 DEF Sorts
  <2> QED
    BY <1>1, <1>8, <1>12, <2>1, <2>2 DEF TaskSorts
<1>13. ASSUME NEW t \in Ranks, t < nodes
       PROVE  TaskSorts(t)'
  <2>1. CASE t = r
    BY <1>12, <2>1
  <2>2. CASE t # r
    <3>1. TaskSorts(t)
      BY <1>1, <1>3, <1>13 DEF ThreadsSort
    <3>2. /\ Piece(data', t, TaskSize) = Piece(data, t, TaskSize)
          /\ kind = "merge" => \A k \in {2 * t, 2 * t + 1} : Piece(data', k, ps) = Piece(data, k, ps)
      BY <1>10, <1>13, <2>2
    <3>3. buf'[t] = buf[t]
      BY <1>1
    <3> QED
      BY <1>1, <1>11, <2>2, <3>1, <3>2, <3>3, TaskKept
  <2> QED
    BY <2>1, <2>2
<1>14. ThreadsSort'
  <2>1. Same(data', input'.data) /\ net' = {} /\ Halves' /\ pc'[Main'] # "done"
    BY <1>1, <1>3, <1>7, <1>8, <1>10 DEF ThreadsSort, Same
  <2>2. /\ kind' = "sort" => ps' = Whole' /\ nodes' = input'.p
        /\ \A u \in Ranks : pc'[u] = "copy" => kind' = "merge"
    BY <1>1, <1>3, <1>7, <1>8 DEF ThreadsSort
  <2> QED
    BY <1>1, <1>8, <1>10, <1>13, <2>1, <2>2 DEF ThreadsSort
<1>15. r' <= input.p /\ nodes' <= input.p /\ buf' \in [Ranks -> Seq(Int)] /\ pc'[Main] # "dead"
  BY <1>1, <1>4, <1>7 DEF Sorting
<1>16. input' = input /\ level' = level
  BY <1>1
<1> QED
  BY <1>2, <1>14, <1>15, <1>16, ThreadStep

\* Half of the tasks of a level and what they are to make.
LEMMA TwoPieces ==
    ASSUME NEW s \in Seq(Int), NEW t \in Nat, NEW l \in Nat, (2 * t + 1) * l + l <= Len(s)
    PROVE  /\ Piece(s, 2 * t, l) \in Seq(Int) /\ Piece(s, 2 * t + 1, l) \in Seq(Int)
           /\ Piece(s, t, 2 * l) = Piece(s, 2 * t, l) \o Piece(s, 2 * t + 1, l)
<1> DEFINE a == t * (2 * l)
<1>1. /\ a \in Nat /\ (2 * t) * l = a /\ (2 * t + 1) * l = a + l
      /\ a + l + l <= Len(s) /\ 2 * l = l + l
  OBVIOUS
<1> HIDE DEF a
<1>2. Len(s) \in Nat
  BY LenProperties
<1>3. /\ a + l \in Nat /\ a + l <= Len(s) /\ (a + l) + l <= Len(s)
      /\ a + 2 * l = a + l + l
  BY <1>1, <1>2
<1>4. /\ Piece(s, 2 * t, l) = SubSeq(s, a + 1, a + l)
      /\ Piece(s, 2 * t + 1, l) = SubSeq(s, (a + l) + 1, (a + l) + l)
      /\ Piece(s, t, 2 * l) = SubSeq(s, a + 1, a + l + l)
  BY <1>1, <1>3 DEF Piece, a
<1>5. SubSeq(s, a + 1, a + l) \in Seq(Int) /\ SubSeq(s, (a + l) + 1, (a + l) + l) \in Seq(Int)
  BY <1>1, <1>3, Cut
<1>6. SubSeq(s, a + 1, a + l) \o SubSeq(s, a + l + 1, a + l + l) = SubSeq(s, a + 1, a + l + l)
  BY <1>1, <1>3, CutTwice
<1> QED
  BY <1>4, <1>5, <1>6

\* Half as many tasks, of twice the size: one is left that makes as much.
LEMMA HalvesHalve ==
    ASSUME NEW a \in Nat, NEW l \in Nat, NEW m, Makes(a, l, m), a \div 2 # 0
    PROVE  Makes(a \div 2, 2 * l, m)
<1> DEFINE b == a \div 2
<1>0. PICK k \in Nat : pow2[k] <= a /\ a < pow2[k + 1] /\ pow2[k] * l = m
  BY DEF Makes
<1>1. /\ pow2[0] = 1
      /\ \A i \in Nat : pow2[i] \in Nat \ {0} /\ pow2[i + 1] = 2 * pow2[i]
  BY Powers
<1>2. k # 0
  <2>1. pow2[1] = 2
    <3>1. pow2[0 + 1] = 2 * pow2[0]
      BY <1>1
    <3> QED
      BY <1>1, <3>1
  <2> SUFFICES ASSUME k = 0
               PROVE  FALSE
    OBVIOUS
  <2>2. a < 2
    BY <1>0, <2>1
  <2> QED
    BY <2>2
<1> DEFINE j == k - 1
           c == pow2[j]
<1>3. j \in Nat /\ j + 1 = k /\ c \in Nat /\ pow2[k] = 2 * c /\ pow2[k + 1] = 2 * (2 * c)
      /\ pow2[j + 1] = 2 * c
  <2>1. j \in Nat /\ j + 1 = k
    BY <1>2
  <2>2. c \in Nat /\ pow2[j + 1] = 2 * c
    BY <1>1, <2>1
  <2>3. pow2[k + 1] = 2 * pow2[k]
    BY <1>1
  <2> HIDE DEF j
  <2> QED
    BY <2>1, <2>2, <2>3
<1> HIDE DEF j, c
<1>4. c <= b /\ b < 2 * c
  BY <1>0, <1>3
<1>5. c * (2 * l) = (2 * c) * l
  BY <1>3
<1> HIDE DEF b
<1> QED
  BY <1>0, <1>3, <1>4, <1>5 DEF b, c, Makes

LEMMA Doubled ==
    ASSUME NEW t \in Nat, NEW a \in Nat, NEW b \in Nat, t < a, 2 * a <= b
    PROVE  2 * t \in Nat /\ 2 * t + 1 \in Nat /\ 2 * t < b /\ 2 * t + 1 < b
OBVIOUS

LEMMA NextLevelSorts == ASSUME Sorting, NextLevel, [Next]_vars PROVE Sorting'
<1>0. IInv /\ TypeOK
  BY DEF Sorting
<1>1. /\ pc[Main] = "join" /\ r = nodes /\ nodes' = nodes \div 2
      /\ partition_size' = IF kind = "merge" THEN [partition_size EXCEPT ![0] = 2 * @]
                                             ELSE partition_size
      /\ kind' = "merge" /\ r' = 0
      /\ pc' = [pc EXCEPT ![Main] = IF nodes' > 0 THEN "create" ELSE "done"]
      /\ UNCHANGED <<input, data, buf, level, net>>
  BY DEF NextLevel
<1>2. ~ Mpi /\ ~ Dead
  BY <1>0, <1>1 DEF IInv, Dead
<1>3. ThreadsSort /\ Halves /\ \A t \in Ranks : t < nodes => TaskSorts(t)
  BY <1>1, <1>2 DEF Sorting, ThreadsSort
<1>4. /\ 0 \in Ranks /\ Ranks \subseteq Nat /\ Main \notin Ranks /\ pc \in [Ranks \cup {Main} -> Places]
      /\ r \in Nat /\ nodes \in Nat /\ nodes <= input.p /\ input.p \in Nat /\ n \in Nat
      /\ \A t \in Nat : t \in Ranks <=> t < input.p
  BY <1>0, Sizes DEF IInv, Shape, TypeOK
<1>5. TaskSize \in Nat /\ ps \in Nat
  BY <1>0, <1>4, Extent, <1>2 DEF IInv, Shape, ps
<1>6. ps' = TaskSize /\ TaskSize' = 2 * TaskSize
  <2>1. ps' = TaskSize
    BY <1>0, <1>1, <1>4 DEF ps, TaskSize, IInv, Shape
  <2> QED
    BY <1>1, <2>1 DEF TaskSize
<1>7. UNCHANGED <<Ranks, Main, n, Mpi, Merged>>
  BY <1>1 DEF Ranks, Main, n, Mpi, Merged, levels
<1>8. /\ \A t \in Ranks : pc'[t] = pc[t] /\ pc'[t] = "idle"
      /\ pc'[Main] = IF nodes' > 0 THEN "create" ELSE "done"
  <2>1. \A t \in Ranks : t >= nodes \/ t < r => pc[t] = "idle"
    BY <1>0, <1>1, <1>2 DEF IInv, TasksOfMain, IsIdle
  <2>2. \A t \in Ranks : pc[t] = "idle"
    BY <1>1, <1>4, <2>1
  <2> QED
    BY <1>1, <1>4, <2>2
<1>9. ASSUME NEW t \in Nat, t < nodes
      PROVE  t \in Ranks /\ Sorts(Piece(data, t, TaskSize), Piece(input.data, t, TaskSize))
  <2>1. t \in Ranks
    BY <1>4, <1>9
  <2>2. Finished(t) /\ TaskSorts(t)
    BY <1>1, <1>3, <1>9, <2>1 DEF Finished
  <2> QED
    BY <2>1, <2>2 DEF TaskSorts
<1>10. nodes' \in Nat /\ nodes' <= nodes /\ 2 * nodes' <= nodes
  BY <1>1, <1>4
<1>11. data \in [1 .. n -> Int] /\ data \in Seq(Int) /\ Len(data) = n
       /\ input.data \in Seq(Int) /\ Len(input.data) = n
  BY <1>0, <1>3, DataSeq, Sizes DEF ThreadsSort
<1>12. ASSUME NEW t \in Ranks, t < nodes'
       PROVE  TaskSorts(t)'
  <2> DEFINE l == TaskSize
  <2>1. t \in Nat /\ 2 * t \in Nat /\ 2 * t + 1 \in Nat /\ 2 * t < nodes /\ 2 * t + 1 < nodes
    <3>1. t \in Nat
      BY <1>4
    <3>2. t < nodes' /\ nodes' \in Nat /\ 2 * nodes' <= nodes /\ nodes \in Nat
      BY <1>4, <1>10, <1>12
    <3> QED
      BY <3>1, <3>2, Doubled
  <2>2. (2 * t + 1) * l + l <= n
    <3>1. 2 * t + 1 \in Ranks
      BY <1>9, <2>1
    <3> QED
      BY <1>0, <1>2, <2>1, <3>1, TaskFits
  <2>3. l \in Nat
    BY <1>5
  <2> HIDE DEF l
  <2>4. /\ Piece(data, 2 * t, l) \in Seq(Int) /\ Piece(data, 2 * t + 1, l) \in Seq(Int)
        /\ Piece(data, t, 2 * l) = Piece(data, 2 * t, l) \o Piece(data, 2 * t + 1, l)
    BY <1>11, <2>1, <2>2, <2>3, TwoPieces
  <2>5. /\ Piece(input.data, 2 * t, l) \in Seq(Int) /\ Piece(input.data, 2 * t + 1, l) \in Seq(Int)
        /\ Piece(input.data, t, 2 * l) = Piece(input.data, 2 * t, l) \o Piece(input.data, 2 * t + 1, l)
    BY <1>11, <2>1, <2>2, <2>3, TwoPieces
  <2>6. /\ Sorts(Piece(data, 2 * t, l), Piece(input.data, 2 * t, l))
        /\ Sorts(Piece(data, 2 * t + 1, l), Piece(input.data, 2 * t + 1, l))
    BY <1>9, <2>1 DEF l
  <2>7. Same(Piece(data, t, 2 * l), Piece(input.data, t, 2 * l))
    <3>1. /\ Same(Piece(data, 2 * t, l), Piece(input.data, 2 * t, l))
          /\ Same(Piece(data, 2 * t + 1, l), Piece(input.data, 2 * t + 1, l))
      BY <2>6 DEF Sorts
    <3>2. Same(Piece(data, 2 * t, l) \o Piece(data, 2 * t + 1, l),
               Piece(input.data, 2 * t, l) \o Piece(input.data, 2 * t + 1, l))
      BY <2>4, <2>5, <3>1, SameConcat
    <3> QED
      BY <2>4, <2>5, <3>2
  <2>8. ~ InBuffer(t)' /\ ~ Finished(t)'
    <3>1. pc'[t] # "copy" /\ pc'[t] # "ended" /\ pc'[Main] # "join"
      BY <1>8
    <3> QED
      BY <1>7, <3>1 DEF InBuffer, Finished
  <2>9. ps' = l /\ TaskSize' = 2 * l
    BY <1>6 DEF l
  <2> QED
    BY <1>1, <2>6, <2>7, <2>8, <2>9 DEF TaskSorts
<1>13. PICK k \in Nat : pow2[k] <= nodes /\ nodes < pow2[k + 1] /\ pow2[k] * TaskSize = Merged
  BY <1>3 DEF Halves, Makes
<1>14. ASSUME nodes' # 0
       PROVE  Halves'
  <2>1. Makes(nodes \div 2, 2 * TaskSize, Merged)
    BY <1>1, <1>3, <1>4, <1>5, <1>14, HalvesHalve DEF Halves
  <2> QED
    BY <1>1, <1>6, <1>7, <2>1 DEF Halves
<1>15. ASSUME nodes' = 0
       PROVE  /\ ps' = Merged'
              /\ Sorts(Piece(data', 0, ps'), Piece(input'.data, 0, ps'))
  <2>1. pow2[k] \in Nat \ {0}
    BY Powers
  <2>2. pow2[k] = 1 /\ 0 < nodes
    BY <1>1, <1>4, <1>13, <1>15, <2>1
  <2>3. 1 * TaskSize = TaskSize
    BY <1>5
  <2> QED
    BY <1>1, <1>6, <1>7, <1>9, <1>13, <2>2, <2>3
<1>16. ThreadsSort'
  <2>1. /\ net' = {} /\ data' \in [1 .. n' -> Int] /\ Same(data', input'.data) /\ kind' # "sort"
        /\ \A t \in Ranks : pc'[t] # "copy"
    BY <1>1, <1>3, <1>7, <1>8 DEF ThreadsSort
  <2>2. /\ pc'[Main] # "done" => nodes' # 0
        /\ pc'[Main] = "done" => nodes' = 0
    BY <1>8, <1>10
  <2> QED
    BY <1>7, <1>12, <1>14, <1>15, <2>1, <2>2 DEF ThreadsSort
<1>17. r' <= input.p /\ nodes' <= input.p /\ buf' \in [Ranks -> Seq(Int)] /\ pc'[Main] # "dead"
  BY <1>1, <1>4, <1>8, <1>10 DEF Sorting
<1>18. input' = input /\ level' = level
  BY <1>1
<1> QED
  BY <1>2, <1>16, <1>17, <1>18, ThreadStep

-----------------------------------------------------------------------------
\* The steps of ranks keep what has been sorted.

LEMMA MessageKept ==
    ASSUME NEW m, Message(m), input' = input,
           m.from = 0 => pc'[m.to] = pc[m.to],
           m.from # 0 => /\ partition_size'[m.from] = partition_size[m.from]
                         /\ pc'[m.from] \in {"collect", "done"}
                         /\ level'[m.from] = level[m.from] \/ ~ Active(m.from)'
    PROVE  Message(m)'
<1>1. UNCHANGED <<Ranks, Whole>> /\ \A s, t, d : Gathered(s, t, d)' = Gathered(s, t, d)
  BY DEF Ranks, Whole, n, Gathered
<1>2. CASE m.from = 0
  BY <1>1, <1>2 DEF Message
<1>3. CASE m.from # 0
  <2>1. ~ Active(m.from)'
    BY <1>3 DEF Message, Active, Reach
  <2> QED
    BY <1>1, <1>3, <2>1 DEF Message
<1> QED
  BY <1>2, <1>3

LEMMA RankKept ==
    ASSUME NEW t \in Ranks, RankSorts(t), input' = input, level'[t] = level[t],
           partition_size'[t] = partition_size[t], pc'[t] = pc[t], buf'[t] = buf[t]
    PROVE  RankSorts(t)'
<1>1. UNCHANGED <<Whole, levels>> /\ Reach(t)' = Reach(t) /\ Active(t)' = Active(t)
  BY DEF Whole, n, levels, Reach, Active
<1>2. Gathered(buf[t], t, Reach(t))' = Gathered(buf[t], t, Reach(t))
  BY <1>1 DEF Gathered
<1> QED
  BY <1>1, <1>2 DEF RankSorts

\* The t-th part.
LEMMA PartOfRank ==
    ASSUME IInv, NEW t \in Ranks, NEW s \in Seq(Int), Len(s) = n
    PROVE  /\ Piece(s, t, Whole) \in Seq(Int) /\ Len(Piece(s, t, Whole)) = Whole
           /\ t * Whole + Whole <= n
<1> DEFINE a == t * Whole
           w == Whole
           b == input.p * w
<1>1. t \in Nat /\ w \in Nat /\ input.p \in Nat /\ t < input.p /\ n \in Nat /\ b <= n
  BY Sizes
<1> HIDE DEF w
<1>2. t * w + w <= b /\ t * w \in Nat /\ b \in Nat
  <2>1. t * w + w <= input.p * w
    BY <1>1, EndsBefore
  <2>2. t * w \in Nat /\ input.p * w \in Nat
    BY <1>1
  <2> QED
    BY <2>1, <2>2
<1>3. t * w + w <= n
  <2> DEFINE c == t * w + w
  <2>1. c \in Nat
    BY <1>1, <1>2
  <2> HIDE DEF b, c
  <2>2. c <= n
    BY <1>1, <1>2, <2>1 DEF c
  <2> QED
    BY <2>2 DEF c
<1>4. a \in Nat /\ a = t * w
  BY <1>1, <1>2 DEF w
<1>5. Piece(s, t, w) = SubSeq(s, a + 1, a + w)
  BY <1>4 DEF Piece
<1> HIDE DEF a
<1>6. SubSeq(s, a + 1, a + w) \in Seq(Int) /\ Len(SubSeq(s, a + 1, a + w)) = w
  BY <1>1, <1>3, <1>4, Cut
<1> QED
  BY <1>3, <1>5, <1>6 DEF w

\* A rank has as many numbers as it says.
LEMMA RankTypes ==
    IInv /\ Mpi /\ RanksSort /\ level \in [Ranks -> Nat]
         /\ nodes \in 0 .. input.p /\ r \in 0 .. input.p => TypeOK
<1> SUFFICES ASSUME IInv, Mpi, RanksSort, level \in [Ranks -> Nat],
                    nodes \in 0 .. input.p, r \in 0 .. input.p
             PROVE  TypeOK
  OBVIOUS
<1>1. /\ input.p \in Nat /\ levels \in 0 .. input.p /\ input.data \in Seq(Int) /\ Len(input.data) = n
      /\ Whole \in Nat
  BY Sizes
<1>2. level \in [Ranks -> 1 .. input.p + 1]
  <2>1. \A t \in Ranks : level[t] \in 1 .. levels + 1
    BY DEF RanksSort, RankSorts
  <2> QED
    BY <1>1, <2>1
<1>3. ASSUME NEW m \in net
      PROVE  Len(m.part) = partition_size[IF m.from = 0 THEN m.to ELSE m.from]
  <2>1. Message(m)
    BY DEF RanksSort
  <2>2. CASE m.from = 0
    <3>1. m.to \in Ranks /\ m = Send(0, m.to, Piece(input.data, m.to, Whole)) /\ pc[m.to] = "scatter"
      BY <2>1, <2>2 DEF Message
    <3>2. m.part = Piece(input.data, m.to, Whole)
      BY <3>1 DEF Send
    <3>3. Len(m.part) = Whole
      BY <1>1, <3>1, <3>2, PartOfRank
    <3>4. partition_size[m.to] = Whole
      BY <3>1 DEF RanksSort, RankSorts
    <3> QED
      BY <2>2, <3>3, <3>4
  <2>3. CASE m.from # 0
    BY <2>1, <2>3 DEF Message, Gathered
  <2> QED
    BY <2>2, <2>3
<1>4. ASSUME NEW t \in Ranks, pc[t] \in {"sort", "collect"}
      PROVE  Len(buf[t]) = partition_size[t]
  <2>1. RankSorts(t)
    BY DEF RanksSort
  <2>2. CASE pc[t] = "sort"
    BY <1>1, <2>1, <2>2, PartOfRank DEF RankSorts
  <2>3. CASE pc[t] = "collect"
    BY <2>1, <2>3 DEF RankSorts
  <2> QED
    BY <1>4, <2>2, <2>3
<1> QED
  BY <1>2, <1>3, <1>4 DEF TypeOK, IInv, Shape, Places, RanksSort

\* What is left to show of a step that a rank takes.
LEMMA RankStep ==
    ASSUME Sorting, Mpi, [Next]_vars, UNCHANGED <<input, nodes, r>>, level' \in [Ranks -> Nat],
           buf' \in [Ranks -> Seq(Int)], pc'[Main] = pc[Main], pc[Main] # "dead", RanksSort'
    PROVE  Sorting'
<1>1. IInv'
  BY NextIInv DEF Sorting
<1>2. Mpi' = Mpi /\ Ranks' = Ranks /\ Main' = Main /\ n' = n
  BY DEF Mpi, Ranks, Main, n
<1>3. TypeOK'
  <2>1. (IInv /\ Mpi /\ RanksSort /\ level \in [Ranks -> Nat]
              /\ nodes \in 0 .. input.p /\ r \in 0 .. input.p)'
    BY <1>1, <1>2 DEF Sorting, TypeOK
  <2> QED
    BY <2>1, RankTypes, PTL
<1>4. ~ Dead'
  BY <1>2 DEF Dead
<1> QED
  BY <1>1, <1>2, <1>3, <1>4 DEF Sorting

\* What the step of a rank has to show of the rank and its messages.
LEMMA RankDone ==
    ASSUME Sorting, [Next]_vars, NEW t \in Ranks, pc[t] \in {"scatter", "sort", "collect"},
           NEW place \in {"sort", "collect", "done"}, pc' = [pc EXCEPT ![t] = place],
           UNCHANGED <<input, kind, nodes, r>>,
           level' \in [Ranks -> Nat], buf' \in [Ranks -> Seq(Int)],
           pc[0] = "scatter" => t = 0, DOMAIN data' = 1 .. n,
           pc'[0] = "done" => \/ pc[0] = "done" /\ data' = data
                              \/ /\ Gathered(SubSeq(data', 1, Merged), 0, pow2[levels])
                                 /\ \A k \in Merged + 1 .. n : data'[k] = Junk,
           \A u \in Ranks : u # t => /\ level'[u] = level[u] /\ buf'[u] = buf[u]
                                     /\ partition_size'[u] = partition_size[u],
           \A m \in net' : Message(m)', RankSorts(t)'
    PROVE  Sorting'
<1>1. IInv /\ Mpi /\ ~ Dead
  BY DEF Sorting, IInv
<1>2. RanksSort
  BY <1>1 DEF Sorting
<1>3. 0 \in Ranks /\ Main \notin Ranks /\ pc \in [Ranks \cup {Main} -> Places]
  BY <1>1, Sizes DEF IInv, Shape
<1>4. pc'[Main] = pc[Main] /\ pc'[t] = place /\ \A u \in Ranks : u # t => pc'[u] = pc[u]
  BY <1>3
<1>5. UNCHANGED <<Ranks, Main, n, Mpi, Merged, Whole, levels>>
      /\ \A s, u, d : Gathered(s, u, d)' = Gathered(s, u, d)
  BY DEF Ranks, Main, n, Mpi, Merged, Whole, levels, Gathered
<1>6. ASSUME NEW u \in Ranks
      PROVE  RankSorts(u)'
  <2>1. CASE u = t
    BY <2>1
  <2>2. CASE u # t
    BY <1>2, <1>4, <2>2, RankKept DEF RanksSort
  <2> QED
    BY <2>1, <2>2
<1>7. pc'[0] # "scatter"
  BY <1>3, <1>4
<1>8. pc'[0] = "done" =>
          /\ Gathered(SubSeq(data', 1, Merged), 0, pow2[levels])
          /\ \A k \in Merged + 1 .. n : data'[k] = Junk
  BY <1>2 DEF RanksSort
<1>9. RanksSort'
  <2>1. pc'[0] = "done" => /\ Gathered(SubSeq(data, 1, Merged), 0, pow2[levels])'
                           /\ \A k \in Merged' + 1 .. n' : data'[k] = Junk
    BY <1>5, <1>8
  <2> QED
    BY <1>5, <1>6, <1>7, <2>1 DEF RanksSort
<1> QED
  BY <1>1, <1>4, <1>9, RankStep DEF Dead

LEMMA ScatterRootSorts ==
    ASSUME Sorting, ScatterRoot, [Next]_vars
    PROVE  Sorting'
<1> DEFINE part(t) == SubSeq(data, t * ps + 1, (t + 1) * ps)
<1>1. /\ pc[0] = "scatter"
      /\ net' = {Send(0, t, part(t)) : t \in Ranks \ {0}}
      /\ buf' = [buf EXCEPT ![0] = part(0)]
      /\ data' = [k \in 1 .. n |-> Junk]
      /\ pc' = [pc EXCEPT ![0] = "sort"]
      /\ UNCHANGED <<input, partition_size, kind, nodes, r, level>>
  BY DEF ScatterRoot
<1>2. IInv /\ TypeOK /\ 0 \in Ranks /\ Ranks \subseteq Nat
  BY Sizes DEF Sorting
<1>3. Mpi /\ ~ Dead /\ RanksSort
  BY <1>1, <1>2 DEF Sorting, IInv
<1>4. /\ data = input.data /\ \A t \in Ranks : pc[t] = "scatter"
      /\ level[0] = 1 /\ ps = Whole /\ RankSorts(0)
  BY <1>1, <1>2, <1>3 DEF RanksSort, RankSorts, ps
<1>5. Whole \in Nat /\ input.data \in Seq(Int) /\ Len(input.data) = n
  BY <1>2, Sizes
<1>6. ASSUME NEW t \in Ranks
      PROVE  part(t) = Piece(input.data, t, Whole) /\ part(t) \in Seq(Int)
  <2>1. (t + 1) * Whole = t * Whole + Whole
    BY <1>2, <1>5
  <2>2. part(t) = Piece(input.data, t, Whole)
    BY <1>4, <2>1 DEF Piece
  <2>3. Piece(input.data, t, Whole) \in Seq(Int)
    BY <1>2, <1>5, PartOfRank
  <2> QED
    BY <2>2, <2>3
<1> HIDE DEF part
<1>7. UNCHANGED <<Ranks, Whole, n, levels>>
  BY <1>1 DEF Ranks, Whole, n, levels
<1>8. /\ buf' \in [Ranks -> Seq(Int)] /\ buf'[0] = Piece(input.data, 0, Whole)
      /\ \A u \in Ranks : u # 0 => buf'[u] = buf[u]
  BY <1>1, <1>2, <1>6 DEF Sorting
<1>9. pc'[0] = "sort" /\ \A u \in Ranks : u # 0 => pc'[u] = "scatter"
  BY <1>1, <1>2, <1>4 DEF IInv, Shape
<1>10. RankSorts(0)'
  <2>1. level'[0] \in 1 .. levels + 1 /\ level'[0] = 1 /\ partition_size'[0] = Whole
    BY <1>1, <1>2, <1>4 DEF RankSorts
  <2> QED
    BY <1>1, <1>7, <1>8, <1>9, <2>1 DEF RankSorts
<1>11. ASSUME NEW m \in net'
       PROVE  Message(m)'
  <2>1. PICK t \in Ranks \ {0} : m = Send(0, t, part(t))
    BY <1>1
  <2>2. m.from = 0 /\ m.to = t
    BY <2>1 DEF Send
  <2>3. m = Send(0, t, Piece(input.data, t, Whole))
    BY <1>6, <2>1
  <2> QED
    BY <1>1, <1>2, <1>7, <1>9, <2>2, <2>3 DEF Message
<1>12. /\ level' \in [Ranks -> Nat] /\ DOMAIN data' = 1 .. n /\ pc'[0] # "done"
       /\ \A u \in Ranks : level'[u] = level[u] /\ partition_size'[u] = partition_size[u]
  <2>1. level \in [Ranks -> 1 .. input.p + 1]
    BY <1>2 DEF TypeOK
  <2>2. level' \in [Ranks -> Nat]
    BY <1>1, <2>1
  <2> QED
    BY <1>1, <1>9, <2>2
<1> QED
  BY <1>1, <1>2, <1>8, <1>10, <1>11, <1>12, RankDone

LEMMA ScatterOtherSorts ==
    ASSUME Sorting, NEW t \in Ranks, ScatterOther(t), [Next]_vars
    PROVE  Sorting'
<1>1. PICK m \in net : /\ m.from = 0 /\ m.to = t
                       /\ net' = net \ {m}
                       /\ buf' = [buf EXCEPT ![t] = m.part]
  BY DEF ScatterOther
<1>2. /\ t # 0 /\ pc[t] = "scatter" /\ pc' = [pc EXCEPT ![t] = "sort"]
      /\ UNCHANGED <<input, data, partition_size, kind, nodes, r, level>>
  BY DEF ScatterOther
<1>3. IInv /\ TypeOK /\ 0 \in Ranks /\ Ranks \subseteq Nat
  BY Sizes DEF Sorting
<1>4. Mpi /\ ~ Dead /\ RanksSort
  BY <1>2, <1>3 DEF Sorting, IInv
<1>5. pc[0] # "scatter"
  BY <1>1, <1>4 DEF RanksSort
<1>6. UNCHANGED <<Ranks, Whole, n, levels>>
  BY <1>2 DEF Ranks, Whole, n, levels
<1>7. m = Send(0, t, Piece(input.data, t, Whole)) /\ m.part = Piece(input.data, t, Whole)
  BY <1>1, <1>4 DEF RanksSort, Message, Send
<1>8. Piece(input.data, t, Whole) \in Seq(Int)
  <2>1. input.data \in Seq(Int) /\ Len(input.data) = n
    BY <1>3, Sizes
  <2> QED
    BY <1>3, <2>1, PartOfRank
<1>9. /\ buf' \in [Ranks -> Seq(Int)] /\ buf'[t] = Piece(input.data, t, Whole)
      /\ \A u \in Ranks : u # t => buf'[u] = buf[u]
  BY <1>1, <1>7, <1>8 DEF Sorting
<1>10. pc'[t] = "sort" /\ \A u \in Ranks : u # t => pc'[u] = pc[u]
  BY <1>2, <1>3 DEF IInv, Shape
<1>11. RankSorts(t)'
  <2>1. level[t] \in 1 .. levels + 1 /\ level[t] = 1 /\ partition_size[t] = Whole
    BY <1>2, <1>4 DEF RanksSort, RankSorts
  <2> QED
    BY <1>2, <1>6, <1>9, <1>10, <2>1 DEF RankSorts
<1>12. ASSUME NEW k \in net'
       PROVE  Message(k)'
  <2>1. Message(k) /\ k \in net /\ k # m
    BY <1>1, <1>4 DEF RanksSort
  <2>2. ASSUME k.from = 0
        PROVE  pc'[k.to] = pc[k.to]
    <3>1. k = Send(0, k.to, Piece(input.data, k.to, Whole)) /\ k.to \in Ranks
      BY <2>1, <2>2 DEF Message
    <3>2. k.to # t
      BY <1>7, <2>1, <3>1
    <3> QED
      BY <1>10, <3>1, <3>2
  <2>3. ASSUME k.from # 0
        PROVE  pc'[k.from] \in {"collect", "done"}
    <3>1. k.from \in Ranks /\ pc[k.from] \in {"collect", "done"}
      BY <2>1, <2>3 DEF Message
    <3> QED
      BY <1>2, <1>10, <3>1
  <2> QED
    BY <1>2, <2>1, <2>2, <2>3, MessageKept
<1>13. /\ level' \in [Ranks -> Nat] /\ DOMAIN data' = 1 .. n /\ pc'[0] = pc[0] /\ data' = data
       /\ \A u \in Ranks : level'[u] = level[u] /\ partition_size'[u] = partition_size[u]
  <2>1. level \in [Ranks -> 1 .. input.p + 1] /\ DOMAIN data = 1 .. n
    BY <1>3 DEF TypeOK
  <2>2. level' \in [Ranks -> Nat]
    BY <1>2, <2>1
  <2> QED
    BY <1>2, <1>3, <1>10, <2>1, <2>2
<1> QED
  BY <1>2, <1>5, <1>9, <1>11, <1>12, <1>13, RankDone

LEMMA SortPartitionSorts ==
    ASSUME Sorting, NEW t \in Ranks, sort_partition(t), [Next]_vars
    PROVE  Sorting'
<1>1. IInv /\ TypeOK /\ 0 \in Ranks /\ Ranks \subseteq Nat
  BY Sizes DEF Sorting
<1>2. CASE Overflow(partition_size[t])
  BY <1>2, CrashSorts DEF sort_partition
<1>3. CASE ~ Overflow(partition_size[t])
  <2> DEFINE s == buf[t]
             w == mergesort[s]
  <2>1. /\ pc[t] = "sort" /\ buf' = [buf EXCEPT ![t] = w]
        /\ pc' = [pc EXCEPT ![t] = "collect"]
        /\ UNCHANGED <<input, data, partition_size, kind, nodes, r, level, net>>
    BY <1>3 DEF sort_partition
  <2>2. Mpi /\ ~ Dead /\ RanksSort
    BY <1>1, <2>1 DEF Sorting, IInv
  <2>3. RankSorts(t)
    BY <2>2 DEF RanksSort
  <2>4. /\ level[t] = 1 /\ partition_size[t] = Whole /\ s = Piece(input.data, t, Whole)
    BY <2>1, <2>3 DEF RankSorts
  <2>5. /\ input.data \in Seq(Int) /\ Len(input.data) = n /\ Whole \in Nat /\ input.p \in Nat
        /\ t \in Nat /\ t < input.p
    BY <1>1, Sizes
  <2>6. s \in Seq(Int) /\ Len(s) = Whole
    BY <1>1, <2>4, <2>5, PartOfRank
  <2>7. s # << >>
    <3>1. Whole # 0
      BY <1>3, <2>4 DEF Overflow
    <3> HIDE DEF s
    <3> QED
      BY <2>6, <3>1, EmptySeq
  <2>8. w \in Seq(Int) /\ Len(w) = Whole /\ Sorts(w, s)
    <3> HIDE DEF s
    <3> QED
      BY <2>6, <2>7, MergesortWorks
  <2> HIDE DEF s, w
  <2>9. Gathered(w, t, 1)
    <3>1. 1 * Whole = Whole
      BY <2>5
    <3>2. s = SubSeq(input.data, t * Whole + 1, t * Whole + 1 * Whole)
      BY <2>4, <3>1 DEF Piece
    <3> QED
      BY <2>8, <3>1, <3>2 DEF Gathered
  <2>10. UNCHANGED <<Ranks, Whole, n, levels>>
    BY <2>1 DEF Ranks, Whole, n, levels
  <2>11. /\ buf' \in [Ranks -> Seq(Int)] /\ buf'[t] = w
         /\ \A u \in Ranks : u # t => buf'[u] = buf[u]
    BY <2>1, <2>8 DEF Sorting
  <2>12. pc'[t] = "collect" /\ \A u \in Ranks : u # t => pc'[u] = pc[u]
    BY <1>1, <2>1 DEF IInv, Shape
  <2>13. RankSorts(t)'
    <3>1. level'[t] = 1 /\ level'[t] \in 1 .. levels + 1 /\ partition_size'[t] = Whole
      BY <2>1, <2>3, <2>4 DEF RankSorts
    <3>2. Reach(t)' = 1
      <4>1. level'[t] - 1 = 0
        BY <3>1
      <4> QED
        BY <4>1, Powers DEF Reach
    <3>3. t + 1 <= input.p
      BY <2>5
    <3>4. Gathered(buf[t], t, Reach(t))'
      BY <2>1, <2>9, <2>10, <2>11, <3>2 DEF Gathered
    <3> QED
      BY <2>1, <2>8, <2>10, <2>11, <2>12, <3>1, <3>2, <3>3, <3>4 DEF RankSorts
  <2>14. ASSUME NEW k \in net'
         PROVE  Message(k)'
    <3>1. Message(k) /\ k \in net
      BY <2>1, <2>2 DEF RanksSort
    <3>2. ASSUME k.from = 0
          PROVE  pc'[k.to] = pc[k.to]
      BY <2>1, <2>12, <3>1, <3>2 DEF Message
    <3>3. ASSUME k.from # 0
          PROVE  pc'[k.from] \in {"collect", "done"}
      BY <2>1, <2>12, <3>1, <3>3 DEF Message
    <3> QED
      BY <2>1, <3>1, <3>2, <3>3, MessageKept
  <2>15. /\ level' \in [Ranks -> Nat] /\ DOMAIN data' = 1 .. n /\ data' = data
         /\ \A u \in Ranks : level'[u] = level[u] /\ partition_size'[u] = partition_size[u]
    <3>1. level \in [Ranks -> 1 .. input.p + 1] /\ DOMAIN data = 1 .. n
      BY <1>1 DEF TypeOK
    <3>2. level' \in [Ranks -> Nat]
      BY <2>1, <3>1
    <3> QED
      BY <2>1, <3>1, <3>2
  <2>16. pc[0] # "scatter" /\ (pc'[0] = "done" => pc[0] = "done")
    BY <1>1, <2>1, <2>2, <2>12 DEF RanksSort
  <2> QED
    BY <2>1, <2>11, <2>13, <2>14, <2>15, <2>16, RankDone
<1> QED
  BY <1>2, <1>3

-----------------------------------------------------------------------------
\* Siblings of a level.

\* What % says.
LEMMA Multiple ==
    ASSUME NEW t \in Nat, NEW d \in Nat, d > 0
    PROVE  /\ t % d = 0 => t \div d \in Nat /\ t = d * (t \div d)
           /\ \A q \in Nat : t = d * q => t % d = 0
<1>1. t \div d \in Nat
  BY Z3
<1>2. t % d = 0 => t = d * (t \div d)
  BY Z3
<1>3. ASSUME NEW q \in Nat, t = d * q
      PROVE  t % d = 0
  BY <1>3, Z3
<1> QED
  BY <1>1, <1>2, <1>3

\* Every other multiple of d is one of 2 * d, and the others are d away.
LEMMA Siblings ==
    ASSUME NEW t \in Nat, NEW d \in Nat, d > 0
    PROVE  /\ t % (2 * d) = 0 => t % d = 0
           /\ (t + d) % (2 * d) = 0 => t % d = 0 /\ t >= d
<1>0. 2 * d \in Nat /\ 2 * d > 0 /\ t + d \in Nat
  OBVIOUS
<1>1. ASSUME t % (2 * d) = 0
      PROVE  t % d = 0
  <2> DEFINE q == t \div (2 * d)
  <2>1. q \in Nat /\ t = (2 * d) * q
    BY <1>0, <1>1, Multiple
  <2> HIDE DEF q
  <2>2. t = d * (2 * q) /\ 2 * q \in Nat
    BY <2>1
  <2> QED
    BY <2>2, Multiple
<1>2. ASSUME (t + d) % (2 * d) = 0
      PROVE  t % d = 0 /\ t >= d
  <2> DEFINE q == (t + d) \div (2 * d)
  <2>1. q \in Nat /\ t + d = (2 * d) * q
    BY <1>0, <1>2, Multiple
  <2> HIDE DEF q
  <2>2. q # 0
    BY <2>1
  <2>3. PICK j \in Nat : q = j + 1
    <3>1. q - 1 \in Nat /\ q = (q - 1) + 1
      BY <2>1, <2>2
    <3> QED
      BY <3>1
  <2>4. (2 * d) * q = d * (2 * j + 1) + d
    BY <2>3
  <2>5. t = d * (2 * j + 1) /\ 2 * j + 1 \in Nat
    BY <2>1, <2>3, <2>4
  <2>6. d * (2 * j + 1) = d * (2 * j) + d /\ d * (2 * j) >= 0
    BY <2>3
  <2>7. t >= d
    BY <2>5, <2>6
  <2>8. t % d = 0
    BY <2>5, Multiple
  <2> QED
    BY <2>7, <2>8
<1> QED
  BY <1>1, <1>2

\* Who a rank is on a level.
LEMMA RankLevel ==
    ASSUME Sorting, NEW t \in Ranks, Collects(t)
    PROVE  /\ IInv /\ TypeOK /\ Mpi /\ ~ Dead /\ RanksSort /\ RankSorts(t) /\ t \in Nat
           /\ level[t] \in Nat /\ level[t] + 1 \in 1 .. levels + 1
           /\ Reach(t) \in Nat /\ Reach(t) > 0
           /\ right_sib(t) = Reach(t) /\ left_sib(t) = 2 * Reach(t)
           /\ IsLeft(t) => Active(t)
           /\ IsRight(t) => Active(t) /\ t >= Reach(t)
           /\ pc[0] # "scatter" /\ Whole \in Nat
<1>1. IInv /\ TypeOK /\ 0 \in Ranks /\ t \in Nat /\ levels \in Nat /\ Whole \in Nat
  BY Sizes DEF Sorting
<1>2. Mpi /\ ~ Dead /\ RanksSort
  BY <1>1 DEF Sorting, IInv, Collects
<1>3. RankSorts(t)
  BY <1>2 DEF RanksSort
<1> DEFINE k == level[t] - 1
<1>4. level[t] \in Nat /\ level[t] + 1 \in 1 .. levels + 1 /\ k \in Nat /\ k + 1 = level[t]
  BY <1>1, <1>3 DEF RankSorts, Collects
<1>5. pow2[k] \in Nat \ {0} /\ pow2[k + 1] = 2 * pow2[k]
  <2> HIDE DEF k
  <2> QED
    BY <1>4, Powers
<1>6. /\ Reach(t) \in Nat /\ Reach(t) > 0
      /\ right_sib(t) = Reach(t) /\ left_sib(t) = 2 * Reach(t)
  BY <1>4, <1>5 DEF Reach, right_sib, left_sib
<1> HIDE DEF k
<1>7. /\ t % (2 * Reach(t)) = 0 => t % Reach(t) = 0
      /\ (t + Reach(t)) % (2 * Reach(t)) = 0 => t % Reach(t) = 0 /\ t >= Reach(t)
  BY <1>1, <1>6, Siblings
<1>8. pc[0] # "scatter"
  BY <1>2 DEF RanksSort, Collects
<1> QED
  BY <1>1, <1>2, <1>3, <1>4, <1>6, <1>7, <1>8 DEF IsLeft, IsRight, Active

\* Two neighbours' numbers, merged.
LEMMA GatheredTwice ==
    ASSUME IInv, NEW t \in Nat, NEW d \in Nat, t + 2 * d <= input.p,
           NEW a, NEW b, Gathered(a, t, d), Gathered(b, t + d, d)
    PROVE  /\ merge[<<a, b>>] \in Seq(Int) /\ Len(a) = d * Whole
           /\ Len(merge[<<a, b>>]) = 2 * (d * Whole)
           /\ Gathered(merge[<<a, b>>], t, 2 * d)
<1> DEFINE w == Whole
           c == t * w
           l == d * w
           m == merge[<<a, b>>]
<1>1. /\ w \in Nat /\ input.p \in Nat /\ n \in Nat /\ input.p * w <= n
      /\ input.data \in Seq(Int) /\ Len(input.data) = n
  BY Sizes
<1>2. /\ a \in Seq(Int) /\ Len(a) = l /\ b \in Seq(Int) /\ Len(b) = l
      /\ Sorts(a, SubSeq(input.data, c + 1, c + l))
      /\ Sorts(b, SubSeq(input.data, (t + d) * w + 1, (t + d) * w + l))
  BY DEF Gathered
<1> HIDE DEF w
<1>3. c \in Nat /\ l \in Nat /\ (t + d) * w = c + l /\ (2 * d) * w = l + l /\ 2 * l = l + l
  BY <1>1
<1>4. c + l + l <= n
  <2> DEFINE e == input.p * w
             f == (t + 2 * d) * w
  <2>1. t + 2 * d \in Nat
    OBVIOUS
  <2>2. f <= e
    BY <1>1, <2>1, Mono
  <2>3. f = c + l + l
    BY <1>1
  <2>4. e \in Nat /\ e <= n
    BY <1>1
  <2> HIDE DEF e, f, c, l
  <2> QED
    BY <1>1, <1>3, <2>2, <2>3, <2>4
<1>5. Merges(m, a, b)
  BY <1>2, MergeWorks
<1> HIDE DEF m, c, l
<1>6. /\ SubSeq(input.data, c + 1, c + l) \in Seq(Int)
      /\ SubSeq(input.data, (c + l) + 1, (c + l) + l) \in Seq(Int)
  <2>1. c + l \in Nat /\ c + l <= Len(input.data) /\ (c + l) + l <= Len(input.data)
    BY <1>1, <1>3, <1>4
  <2> QED
    BY <1>1, <1>3, <2>1, Cut
<1>7. SubSeq(input.data, c + 1, c + l) \o SubSeq(input.data, c + l + 1, c + l + l)
          = SubSeq(input.data, c + 1, c + l + l)
  <2>1. c + l + l <= Len(input.data) /\ input.data \in Seq(Int) /\ c \in Nat /\ l \in Nat
    BY <1>1, <1>3, <1>4
  <2> QED
    BY <2>1, CutTwice
<1>8. /\ m \in Seq(Int) /\ Len(m) = l + l
      /\ Sorts(m, SubSeq(input.data, c + 1, c + l) \o SubSeq(input.data, (c + l) + 1, (c + l) + l))
  <2> DEFINE x == SubSeq(input.data, c + 1, c + l)
             y == SubSeq(input.data, (c + l) + 1, (c + l) + l)
  <2>1. Sorts(a, x) /\ Sorts(b, y) /\ x \in Seq(Int) /\ y \in Seq(Int)
    BY <1>2, <1>3, <1>6
  <2> HIDE DEF x, y
  <2>2. m \in Seq(Int) /\ Len(m) = Len(a) + Len(b) /\ Sorts(m, x \o y)
    BY <1>2, <1>5, <2>1, SameMerged
  <2> QED
    BY <1>2, <2>2 DEF x, y
<1>9. Gathered(m, t, 2 * d)
  <2>1. Sorts(m, SubSeq(input.data, c + 1, c + l + l))
    BY <1>7, <1>8
  <2>2. c + (2 * d) * w = c + l + l
    BY <1>3
  <2>3. Sorts(m, SubSeq(input.data, t * w + 1, t * w + (2 * d) * w)) /\ Len(m) = (2 * d) * w
    BY <1>3, <1>8, <2>1, <2>2 DEF c
  <2> QED
    BY <1>8, <2>3 DEF Gathered, w
<1> QED
  BY <1>2, <1>3, <1>8, <1>9 DEF m, l, w

-----------------------------------------------------------------------------
LEMMA RecvMergeSorts ==
    ASSUME Sorting, NEW t \in Ranks, RecvMerge(t), [Next]_vars
    PROVE  Sorting'
<1>1. Collects(t) /\ IsLeft(t)
  BY DEF RecvMerge
<1> DEFINE d == Reach(t)
<1>2. /\ IInv /\ TypeOK /\ Mpi /\ ~ Dead /\ RanksSort /\ RankSorts(t) /\ t \in Nat
      /\ level[t] \in Nat /\ level[t] + 1 \in 1 .. levels + 1
      /\ d \in Nat /\ d > 0 /\ right_sib(t) = d /\ left_sib(t) = 2 * d
      /\ Active(t) /\ pc[0] # "scatter" /\ Whole \in Nat
  BY <1>1, RankLevel
<1>3. CASE t + right_sib(t) \notin Ranks
  BY <1>3, CrashSorts DEF RecvMerge
<1>4. CASE t + right_sib(t) \in Ranks
  <2>1. PICK m \in net : /\ m.from = t + d /\ m.to = t
                         /\ net' = net \ {m}
                         /\ buf' = [buf EXCEPT ![t] = merge[<<buf[t], m.part>>]]
                         /\ partition_size' = [partition_size EXCEPT ![t] = 2 * partition_size[t]]
                         /\ level' = [level EXCEPT ![t] = level[t] + 1]
                         /\ UNCHANGED pc
    <3> HIDE DEF d
    <3> QED
      BY <1>2, <1>4 DEF RecvMerge
  <2>2. UNCHANGED <<input, data, kind, nodes, r>>
    BY DEF RecvMerge
  <2>3. m.from # 0 /\ t + 2 * d <= input.p /\ Gathered(m.part, t + d, d)
    <3> HIDE DEF d
    <3>1. Message(m) /\ m.from # 0 /\ m.from - m.to = d /\ 2 * m.from - m.to = t + 2 * d
      BY <1>2, <2>1 DEF RanksSort
    <3>2. /\ 2 * m.from - m.to <= input.p
          /\ Gathered(m.part, m.from, m.from - m.to)
      BY <3>1 DEF Message
    <3> QED
      BY <2>1, <3>1, <3>2
  <2>4. Gathered(buf[t], t, d) /\ Len(buf[t]) = partition_size[t]
    BY <1>1, <1>2 DEF RankSorts, Collects
  <2> DEFINE w == merge[<<buf[t], m.part>>]
  <2>5. w \in Seq(Int) /\ Len(w) = 2 * partition_size[t] /\ Gathered(w, t, 2 * d)
    <3> HIDE DEF d
    <3>1. /\ w \in Seq(Int) /\ Len(buf[t]) = d * Whole
          /\ Len(w) = 2 * (d * Whole)
          /\ Gathered(w, t, 2 * d)
      <4> DEFINE a == buf[t]
                 b == m.part
      <4>1. IInv /\ d \in Nat /\ t + 2 * d <= input.p /\ Gathered(a, t, d) /\ Gathered(b, t + d, d)
        BY <1>2, <2>3, <2>4
      <4>2. w = merge[<<a, b>>] /\ t \in Nat
        BY <1>2
      <4> HIDE DEF a, b, w
      <4>3. /\ merge[<<a, b>>] \in Seq(Int) /\ Len(a) = d * Whole
            /\ Len(merge[<<a, b>>]) = 2 * (d * Whole)
            /\ Gathered(merge[<<a, b>>], t, 2 * d)
        BY <4>1, <4>2, GatheredTwice
      <4> QED
        BY <4>2, <4>3 DEF a
    <3> QED
      BY <2>4, <3>1
  <2> HIDE DEF w
  <2>6. UNCHANGED <<Ranks, Whole, n, levels>>
    BY <2>2 DEF Ranks, Whole, n, levels
  <2>7. /\ buf' \in [Ranks -> Seq(Int)] /\ buf'[t] = w
        /\ \A u \in Ranks : u # t => buf'[u] = buf[u]
    BY <2>1, <2>5 DEF Sorting, w
  <2>8. /\ level' \in [Ranks -> Nat] /\ level'[t] = level[t] + 1
        /\ \A u \in Ranks : u # t => level'[u] = level[u]
    <3>1. level \in [Ranks -> 1 .. input.p + 1]
      BY <1>2 DEF TypeOK
    <3>2. level' \in [Ranks -> Nat]
      BY <1>2, <2>1, <3>1
    <3> QED
      BY <2>1, <3>1, <3>2
  <2>9. /\ partition_size'[t] = 2 * partition_size[t]
        /\ \A u \in Ranks : u # t => partition_size'[u] = partition_size[u]
    BY <1>2, <2>1 DEF IInv, Shape
  <2>10. pc[t] = "collect" /\ pc' = [pc EXCEPT ![t] = "collect"] /\ pc' = pc
    BY <1>1, <1>2, <2>1 DEF Collects, IInv, Shape
  <2>11. Reach(t)' = 2 * d
    <3>1. Reach(t)' = pow2[level[t]]
      <4>1. level'[t] - 1 = level[t]
        BY <1>2, <2>8
      <4> QED
        BY <4>1 DEF Reach
    <3> QED
      BY <1>2, <3>1 DEF left_sib
  <2>12. RankSorts(t)'
    <3> HIDE DEF d
    <3>1. t + Reach(t)' <= input.p /\ Gathered(buf[t], t, Reach(t))'
      BY <2>2, <2>3, <2>5, <2>6, <2>7, <2>11 DEF Gathered
    <3> QED
      BY <1>2, <2>2, <2>5, <2>6, <2>7, <2>8, <2>9, <2>10, <3>1 DEF RankSorts
  <2>13. ASSUME NEW k \in net'
         PROVE  Message(k)'
    <3>1. Message(k) /\ k \in net
      BY <1>2, <2>1 DEF RanksSort
    <3>2. ASSUME k.from # 0
          PROVE  /\ partition_size'[k.from] = partition_size[k.from]
                 /\ pc'[k.from] \in {"collect", "done"} /\ level'[k.from] = level[k.from]
      <4>1. k.from \in Ranks /\ pc[k.from] \in {"collect", "done"} /\ ~ Active(k.from)
        BY <3>1, <3>2 DEF Message
      <4>2. k.from # t
        BY <1>2, <4>1
      <4> QED
        BY <2>8, <2>9, <2>10, <4>1, <4>2
    <3> QED
      BY <2>2, <2>10, <3>1, <3>2, MessageKept
  <2>14. DOMAIN data' = 1 .. n /\ data' = data
    BY <1>2, <2>2 DEF TypeOK
  <2> QED
    BY <1>2, <2>2, <2>7, <2>8, <2>9, <2>10, <2>12, <2>13, <2>14, RankDone
<1> QED
  BY <1>3, <1>4

LEMMA SendUpSorts ==
    ASSUME Sorting, NEW t \in Ranks, SendUp(t), [Next]_vars
    PROVE  Sorting'
<1>1. /\ Collects(t) /\ ~ IsLeft(t)
      /\ net' = IF IsRight(t) THEN net \cup {Send(t, t - right_sib(t), buf[t])} ELSE net
      /\ level' = [level EXCEPT ![t] = level[t] + 1]
      /\ UNCHANGED <<input, data, partition_size, kind, nodes, r, pc, buf>>
  BY DEF SendUp
<1> DEFINE d == Reach(t)
<1>2. /\ IInv /\ TypeOK /\ Mpi /\ ~ Dead /\ RanksSort /\ RankSorts(t) /\ t \in Nat
      /\ level[t] \in Nat /\ level[t] + 1 \in 1 .. levels + 1
      /\ d \in Nat /\ d > 0 /\ right_sib(t) = d /\ left_sib(t) = 2 * d
      /\ IsRight(t) => Active(t) /\ t >= d
      /\ pc[0] # "scatter" /\ Whole \in Nat
  BY <1>1, RankLevel
<1> HIDE DEF d
<1>3. UNCHANGED <<Ranks, Whole, n, levels>>
  BY <1>1 DEF Ranks, Whole, n, levels
<1>4. /\ level' \in [Ranks -> Nat] /\ level'[t] = level[t] + 1
      /\ \A u \in Ranks : u # t => level'[u] = level[u]
  <2>1. level \in [Ranks -> 1 .. input.p + 1]
    BY <1>2 DEF TypeOK
  <2>2. level' \in [Ranks -> Nat]
    BY <1>1, <1>2, <2>1
  <2> QED
    BY <1>1, <2>1, <2>2
<1>5. pc[t] = "collect" /\ pc' = [pc EXCEPT ![t] = "collect"] /\ pc' = pc
  BY <1>1, <1>2 DEF Collects, IInv, Shape
<1>6. ~ Active(t)'
  <2>1. level'[t] - 1 = level[t]
    BY <1>2, <1>4
  <2> QED
    BY <1>1, <2>1 DEF Active, Reach, IsLeft, left_sib
<1>7. RankSorts(t)'
  <2>1. Len(buf[t]) = partition_size[t]
    BY <1>2, <1>5 DEF RankSorts
  <2> QED
    BY <1>1, <1>2, <1>3, <1>4, <1>5, <1>6, <2>1 DEF RankSorts
<1>8. ASSUME NEW k \in net'
      PROVE  Message(k)'
  <2>1. CASE k \in net
    <3>1. Message(k)
      BY <1>2, <2>1 DEF RanksSort
    <3>2. ASSUME k.from # 0
          PROVE  /\ pc'[k.from] \in {"collect", "done"}
                 /\ level'[k.from] = level[k.from] \/ ~ Active(k.from)'
      <4>1. k.from \in Ranks /\ pc[k.from] \in {"collect", "done"}
        BY <3>1, <3>2 DEF Message
      <4>2. CASE k.from = t
        BY <1>5, <1>6, <4>1, <4>2
      <4>3. CASE k.from # t
        BY <1>4, <1>5, <4>1, <4>3
      <4> QED
        BY <4>2, <4>3
    <3> QED
      BY <1>1, <3>1, <3>2, MessageKept
  <2>2. CASE k \notin net
    <3>1. IsRight(t) /\ k = Send(t, t - d, buf[t])
      BY <1>1, <1>2, <2>2
    <3>2. k.from = t /\ k.to = t - d /\ k.part = buf[t]
      BY <3>1 DEF Send
    <3>3. /\ t + d <= input.p /\ Gathered(buf[t], t, d) /\ Len(buf[t]) = partition_size[t]
          /\ t >= d
      BY <1>2, <1>5, <3>1 DEF RankSorts, d
    <3>4. partition_size[t] = d * Whole
      BY <3>3 DEF Gathered
    <3>5. /\ t - d \in Nat /\ t - d < t /\ 2 * t - (t - d) = t + d /\ t - (t - d) = d /\ t # 0
      BY <1>2, <3>3
    <3>6. t - d \in Ranks
      BY <1>2, <3>5, Sizes
    <3>7. Gathered(k.part, k.from, k.from - k.to)'
      BY <1>1, <1>3, <3>2, <3>3, <3>5 DEF Gathered
    <3> QED
      BY <1>1, <1>3, <1>5, <1>6, <3>2, <3>3, <3>4, <3>5, <3>6, <3>7 DEF Message
  <2> QED
    BY <2>1, <2>2
<1>9. DOMAIN data' = 1 .. n /\ data' = data /\ buf' \in [Ranks -> Seq(Int)]
  BY <1>1, <1>2 DEF TypeOK, Sorting
<1> QED
  BY <1>1, <1>2, <1>4, <1>5, <1>7, <1>8, <1>9, RankDone

LEMMA CollectedSorts ==
    ASSUME Sorting, NEW t \in Ranks, Collected(t), [Next]_vars
    PROVE  Sorting'
<1>1. /\ pc[t] = "collect" /\ level[t] > levels
      /\ data' = IF t = 0
                 THEN [k \in 1 .. n |-> IF k <= Len(buf[0]) THEN buf[0][k] ELSE Junk]
                 ELSE data
      /\ pc' = [pc EXCEPT ![t] = "done"]
      /\ UNCHANGED <<input, partition_size, kind, nodes, r, buf, level, net>>
  BY DEF Collected
<1>2. /\ IInv /\ TypeOK /\ 0 \in Ranks /\ t \in Nat /\ n \in Nat
      /\ levels \in Nat /\ Whole \in Nat /\ Merged \in Nat /\ Merged <= n
      /\ Merged = pow2[levels] * Whole /\ pow2[levels] \in Nat \ {0}
  BY Sizes DEF Sorting
<1>3. Mpi /\ ~ Dead /\ RanksSort
  BY <1>1, <1>2 DEF Sorting, IInv
<1>4. RankSorts(t) /\ pc[0] # "scatter"
  BY <1>1, <1>3 DEF RanksSort
<1>5. UNCHANGED <<Ranks, Whole, n, levels>>
  BY <1>1 DEF Ranks, Whole, n, levels
<1>6. pc'[t] = "done" /\ \A u \in Ranks : u # t => pc'[u] = pc[u]
  BY <1>1, <1>2 DEF IInv, Shape
<1>7. RankSorts(t)'
  BY <1>1, <1>4, <1>5, <1>6 DEF RankSorts
<1>8. ASSUME NEW k \in net'
      PROVE  Message(k)'
  <2>1. Message(k)
    BY <1>1, <1>3 DEF RanksSort
  <2>2. k.from = 0 => pc'[k.to] = pc[k.to]
    BY <1>1, <1>6, <2>1 DEF Message
  <2>3. k.from # 0 => pc'[k.from] \in {"collect", "done"}
    BY <1>6, <2>1 DEF Message
  <2> QED
    BY <1>1, <2>1, <2>2, <2>3, MessageKept
<1>9. DOMAIN data' = 1 .. n /\ level' \in [Ranks -> Nat] /\ buf' \in [Ranks -> Seq(Int)]
  <2>1. level \in [Ranks -> 1 .. input.p + 1] /\ DOMAIN data = 1 .. n
    BY <1>2 DEF TypeOK
  <2>2. level' \in [Ranks -> Nat]
    BY <1>1, <2>1
  <2> QED
    BY <1>1, <2>1, <2>2 DEF Sorting
<1>10. ASSUME t = 0
       PROVE  /\ Gathered(SubSeq(data', 1, Merged), 0, pow2[levels])
              /\ \A k \in Merged + 1 .. n : data'[k] = Junk
  <2> DEFINE q == pow2[levels]
             b == buf[0]
             s == SubSeq(data', 1, Merged)
  <2>1. level[0] - 1 = levels /\ Reach(0) = q
    <3>1. level[0] \in 1 .. levels + 1
      BY <1>4, <1>10 DEF RankSorts
    <3>2. level[0] - 1 = levels
      <4>1. level[0] > levels /\ levels \in Nat
        BY <1>1, <1>2, <1>10
      <4> QED
        BY <3>1, <4>1
    <3> QED
      BY <3>2 DEF Reach
  <2>2. Active(0)
    <3>1. q \in Nat /\ q > 0
      BY <1>2
    <3> HIDE DEF q
    <3>2. 0 = q * 0
      BY <3>1
    <3> QED
      BY <2>1, <3>1, <3>2, Multiple DEF Active
  <2>3. Gathered(b, 0, q)
    BY <1>1, <1>4, <1>10, <2>1, <2>2 DEF RankSorts
  <2>4. b \in Seq(Int) /\ Len(b) = Merged
    BY <1>2, <2>3 DEF Gathered
  <2>5. data' = [k \in 1 .. n |-> IF k <= Merged THEN b[k] ELSE Junk]
    BY <1>1, <1>10, <2>4
  <2> HIDE DEF b, q
  <2>6. \A k \in 1 .. Merged : data'[k] = b[k] /\ b[k] \in Int
    <3>1. \A k \in 1 .. Merged : k \in 1 .. n /\ k <= Merged
      BY <1>2
    <3>2. b \in [1 .. Merged -> Int]
      BY <2>4, LenProperties
    <3> QED
      BY <2>5, <3>1, <3>2
  <2>7. s \in Seq(Int) /\ Len(s) = Merged /\ \A k \in 1 .. Merged : s[k] = b[k]
    <3>1. \A i \in 1 .. Merged : data'[i] \in Int
      BY <2>6
    <3>2. /\ s \in Seq(Int) /\ Len(s) = (IF 1 <= Merged THEN Merged - 1 + 1 ELSE 0)
          /\ \A k \in 1 .. Merged - 1 + 1 : s[k] = data'[1 + k - 1]
      BY <1>2, <3>1, SubSeqProperties
    <3> HIDE DEF s
    <3>3. Len(s) = Merged
      BY <1>2, <3>2
    <3>4. ASSUME NEW k \in 1 .. Merged
          PROVE  s[k] = b[k]
      <4>1. k \in 1 .. Merged - 1 + 1 /\ 1 + k - 1 = k
        BY <1>2
      <4> QED
        BY <2>6, <3>2, <4>1
    <3> QED
      BY <3>2, <3>3, <3>4
  <2> HIDE DEF s
  <2>8. s = b
    <3>1. \A k \in 1 .. Len(s) : s[k] = b[k]
      BY <2>7
    <3> QED
      BY <2>4, <2>7, <3>1, SeqEqual
  <2>9. \A k \in Merged + 1 .. n : data'[k] = Junk
    <3>1. \A k \in Merged + 1 .. n : k \in 1 .. n /\ ~ (k <= Merged)
      BY <1>2
    <3> QED
      BY <2>5, <3>1
  <2> QED
    BY <2>3, <2>8, <2>9 DEF s, q
<1>11. pc'[0] = "done" => \/ pc[0] = "done" /\ data' = data
                          \/ /\ Gathered(SubSeq(data', 1, Merged), 0, pow2[levels])
                             /\ \A k \in Merged + 1 .. n : data'[k] = Junk
  <2>1. CASE t = 0
    BY <1>10, <2>1
  <2>2. CASE t # 0
    BY <1>1, <1>2, <1>6, <2>2
  <2> QED
    BY <2>1, <2>2
<1> QED
  BY <1>1, <1>4, <1>7, <1>8, <1>9, <1>11, RankDone

-----------------------------------------------------------------------------
LEMMA InitSorting == Init => Sorting
<1> SUFFICES ASSUME Init
             PROVE  Sorting
  OBVIOUS
<1>1. IInv
  BY InitIInv
<1>2. /\ input.p \in Nat \ {0} /\ n \in Nat \ {0} /\ n = Len(input.data)
      /\ input.data \in Seq(Int) /\ Whole \in Nat /\ levels \in 0 .. input.p
      /\ Merged = pow2[levels] * Whole
      /\ 0 \in Ranks /\ Ranks \subseteq Nat /\ Main \notin Ranks
  BY <1>1, Sizes
<1>3. /\ data = input.data /\ partition_size = [t \in Ranks |-> Whole]
      /\ kind = "sort" /\ nodes = input.p /\ r = 0 /\ net = {}
      /\ \A t \in Ranks : pc[t] = IF Mpi THEN "scatter" ELSE "idle"
      /\ pc[Main] = IF Mpi THEN "done" ELSE "create"
      /\ buf = [t \in Ranks |-> << >>] /\ level = [t \in Ranks |-> 1]
  BY <1>2 DEF Init, Whole, n
<1>4. ps = Whole /\ TaskSize = Whole
  BY <1>2, <1>3 DEF ps, TaskSize
<1>5. TypeOK
  <2>1. DOMAIN data = 1 .. n
    BY <1>2, <1>3
  <2>2. /\ partition_size \in [Ranks -> Nat] /\ nodes \in 0 .. input.p /\ r \in 0 .. input.p
        /\ level \in [Ranks -> 1 .. input.p + 1]
    BY <1>2, <1>3
  <2> QED
    BY <1>1, <1>3, <2>1, <2>2 DEF TypeOK, IInv, Shape, Places
<1>6. buf \in [Ranks -> Seq(Int)]
  BY <1>3
<1>7. ~ Dead
  BY <1>3 DEF Dead
<1>8. ASSUME ~ Mpi
      PROVE  ThreadsSort
  <2>1. data \in [1 .. n -> Int] /\ Same(data, input.data)
    BY <1>2, <1>3, LenProperties DEF Same
  <2>2. Halves
    <3>1. pow2[levels] <= input.p /\ input.p < pow2[levels + 1] /\ levels \in Nat
      BY <1>2, Levels
    <3> QED
      BY <1>2, <1>3, <1>4, <3>1 DEF Halves, Makes
  <2>3. ASSUME NEW t \in Ranks
        PROVE  TaskSorts(t)
    <3>1. ~ InBuffer(t) /\ ~ Finished(t)
      BY <1>3, <1>8 DEF InBuffer, Finished
    <3> QED
      BY <1>3, <3>1 DEF TaskSorts, Same
  <2> QED
    BY <1>3, <1>4, <1>8, <2>1, <2>2, <2>3 DEF ThreadsSort
<1>9. ASSUME Mpi
      PROVE  RanksSort
  <2>1. \A t \in Ranks : RankSorts(t)
    BY <1>2, <1>3, <1>9 DEF RankSorts
  <2> QED
    BY <1>2, <1>3, <1>5, <1>9, <2>1 DEF RanksSort, TypeOK
<1> QED
  BY <1>1, <1>5, <1>6, <1>7, <1>8, <1>9 DEF Sorting

LEMMA NextSorting == Sorting /\ [Next]_vars => Sorting'
<1> SUFFICES ASSUME Sorting, [Next]_vars
             PROVE  Sorting'
  OBVIOUS
<1>1. CASE Create
  BY <1>1, CreateSorts
<1>2. CASE Join
  BY <1>2, JoinSorts
<1>3. CASE NextLevel
  BY <1>3, NextLevelSorts
<1>4. ASSUME NEW t \in Ranks, Thread(t)
      PROVE  Sorting'
  BY <1>4, SortTaskSorts, MergeTaskSorts, CopyBackSorts DEF Thread
<1>5. ASSUME NEW t \in Ranks, Rank(t)
      PROVE  Sorting'
  BY <1>5, ScatterRootSorts, ScatterOtherSorts, SortPartitionSorts,
     RecvMergeSorts, SendUpSorts, CollectedSorts DEF Rank
<1>6. CASE UNCHANGED vars
  <2>1. IInv'
    BY NextIInv DEF Sorting
  <2>2. UNCHANGED <<input, data, partition_size, kind, nodes, r, pc, buf, level, net>>
    BY <1>6 DEF vars
  <2>3. UNCHANGED <<Ranks, Main, n, Mpi, ps, TaskSize, Merged, Whole, levels, Dead, Halves>>
    BY <2>2 DEF Ranks, Main, n, Mpi, ps, TaskSize, Merged, Whole, levels, Dead, Halves
  <2>4. TypeOK' /\ buf' \in [Ranks' -> Seq(Int)] /\ (Dead' => \A t \in Ranks' : pc'[t] = "dead")
    BY <2>2, <2>3 DEF TypeOK, Sorting
  <2>5. ASSUME ThreadsSort
        PROVE  ThreadsSort'
    <3>1. ASSUME NEW t \in Ranks
          PROVE  TaskSorts(t)' = TaskSorts(t)
      BY <2>2, <2>3 DEF TaskSorts, Untouched, InBuffer, Finished
    <3> QED
      BY <2>2, <2>3, <2>5, <3>1 DEF ThreadsSort
  <2>6. ASSUME RanksSort
        PROVE  RanksSort'
    <3>1. \A t \in Ranks : RankSorts(t)'
      BY <2>2, <2>6, RankKept DEF RanksSort
    <3>2. ASSUME NEW m \in net
          PROVE  Message(m)'
      BY <2>2, <2>3, <2>6 DEF RanksSort, Message, Gathered, Active, Reach
    <3>3. \A s, u, d : Gathered(s, u, d)' = Gathered(s, u, d)
      BY <2>2, <2>3 DEF Gathered
    <3> QED
      BY <2>2, <2>3, <2>6, <3>1, <3>2, <3>3 DEF RanksSort
  <2> QED
    BY <2>1, <2>3, <2>4, <2>5, <2>6 DEF Sorting
<1> QED
  BY <1>1, <1>2, <1>3, <1>4, <1>5, <1>6 DEF Next

\* The first numbers of an array that ascends where they do.
LEMMA FirstAscend ==
    ASSUME NEW s, NEW m \in Nat, Ascends(SubSeq(s, 1, m))
    PROVE  \A k \in 2 .. m : s[k - 1] <= s[k]
<1> DEFINE S == {s[k] : k \in 1 .. m}
           f == SubSeq(s, 1, m)
<1>1. /\ Len(f) = (IF 1 <= m THEN m - 1 + 1 ELSE 0)
      /\ \A k \in 1 .. m - 1 + 1 : f[k] = s[1 + k - 1]
  <2>1. \A i \in 1 .. m : s[i] \in S
    OBVIOUS
  <2> HIDE DEF S
  <2> QED
    BY <2>1, SubSeqProperties
<1> HIDE DEF f
<1>2. Len(f) = m
  BY <1>1
<1> SUFFICES ASSUME NEW k \in 2 .. m
             PROVE  s[k - 1] <= s[k]
  OBVIOUS
<1>3. /\ k - 1 \in 1 .. m - 1 + 1 /\ 1 + (k - 1) - 1 = k - 1
      /\ k \in 1 .. m - 1 + 1 /\ 1 + k - 1 = k
  OBVIOUS
<1>4. f[k - 1] = s[k - 1] /\ f[k] = s[k]
  BY <1>1, <1>3
<1>5. f[k - 1] <= f[k]
  BY <1>2 DEF Ascends, f
<1> QED
  BY <1>4, <1>5

LEMMA SortingResult == Sorting => ResultSorted
<1> SUFFICES ASSUME Sorting, pc[IF Mpi THEN 0 ELSE Main] = "done"
             PROVE  /\ \A k \in 2 .. Merged : data[k - 1] <= data[k]
                    /\ SameNumbers(SubSeq(data, 1, Merged), SubSeq(input.data, 1, Merged))
                    /\ IF Mpi
                       THEN \A k \in Merged + 1 .. n : data[k] = Junk
                       ELSE SameNumbers(data, input.data)
  BY DEF ResultSorted
<1>1. IInv
  BY DEF Sorting
<1>2. /\ 0 \in Ranks /\ Merged \in Nat /\ Merged <= n /\ n \in Nat
      /\ input.data \in Seq(Int) /\ Len(input.data) = n /\ Whole \in Nat
      /\ Merged = pow2[levels] * Whole
  BY <1>1, Sizes
<1> DEFINE f == SubSeq(data, 1, Merged)
           g == SubSeq(input.data, 1, Merged)
<1>3. g \in Seq(Int)
  <2> DEFINE m == Merged
  <2>1. m \in Nat /\ 0 + m <= Len(input.data)
    BY <1>2
  <2> HIDE DEF m
  <2>2. SubSeq(input.data, 0 + 1, 0 + m) \in Seq(Int)
    BY <1>2, <2>1, Cut
  <2>3. 0 + 1 = 1 /\ 0 + m = m
    BY <2>1
  <2> QED
    BY <2>2, <2>3 DEF m
<1>4. CASE ~ Mpi
  <2>1. ~ Dead /\ pc[Main] = "done"
    BY <1>4 DEF Dead
  <2>2. ThreadsSort
    BY <1>4, <2>1 DEF Sorting
  <2>3. Sorts(Piece(data, 0, Merged), Piece(input.data, 0, Merged))
    BY <2>1, <2>2 DEF ThreadsSort
  <2>4. Piece(data, 0, Merged) = f /\ Piece(input.data, 0, Merged) = g
    <3> DEFINE m == Merged
    <3>1. m \in Nat
      BY <1>2
    <3> HIDE DEF m
    <3>2. 0 * m + 1 = 1 /\ 0 * m + m = m
      BY <3>1
    <3> QED
      BY <3>2 DEF Piece, m
  <2>5. data \in [1 .. n -> Int] /\ Same(data, input.data)
    BY <2>2 DEF ThreadsSort
  <2>6. data \in Seq(Int) /\ Len(data) = n
    BY <1>1, <2>5, DataSeq
  <2>7. f \in Seq(Int)
    <3> DEFINE m == Merged
    <3>1. m \in Nat /\ 0 + m <= Len(data)
      BY <1>2, <2>6
    <3> HIDE DEF m
    <3>2. SubSeq(data, 0 + 1, 0 + m) \in Seq(Int)
      BY <2>6, <3>1, Cut
    <3>3. 0 + 1 = 1 /\ 0 + m = m
      BY <3>1
    <3> QED
      BY <3>2, <3>3 DEF m
  <2>8. Ascends(f) /\ Same(f, g)
    BY <2>3, <2>4 DEF Sorts
  <2>9. \A k \in 2 .. Merged : data[k - 1] <= data[k]
    BY <1>2, <2>8, FirstAscend
  <2> HIDE DEF f, g
  <2>10. SameNumbers(f, g) /\ SameNumbers(data, input.data)
    BY <1>2, <1>3, <2>5, <2>6, <2>7, <2>8, SameNumbersIfSame
  <2> QED
    BY <1>4, <2>9, <2>10 DEF f, g
<1>5. CASE Mpi
  <2>1. ~ Dead /\ pc[0] = "done"
    BY <1>2, <1>5 DEF Sorting
  <2>2. RanksSort
    BY <1>5, <2>1 DEF Sorting
  <2>3. Gathered(f, 0, pow2[levels]) /\ \A k \in Merged + 1 .. n : data[k] = Junk
    BY <2>1, <2>2 DEF RanksSort
  <2>4. f \in Seq(Int) /\ Sorts(f, g)
    <3>1. 0 * Whole + 1 = 1 /\ 0 * Whole + pow2[levels] * Whole = Merged
      BY <1>2
    <3> QED
      BY <2>3, <3>1 DEF Gathered
  <2>5. Ascends(f) /\ Same(f, g)
    BY <2>4 DEF Sorts
  <2>6. \A k \in 2 .. Merged : data[k - 1] <= data[k]
    BY <1>2, <2>5, FirstAscend
  <2> HIDE DEF f, g
  <2>7. SameNumbers(f, g)
    BY <1>3, <2>4, <2>5, SameNumbersIfSame
  <2> QED
    BY <1>5, <2>3, <2>6, <2>7 DEF f, g
<1> QED
  BY <1>4, <1>5

\* The types, in every state: a rank that has a part has as many numbers as
\* its partition_size says, and so has what is sent (mg_mpi.c's counts).
THEOREM TypeCorrect == Spec => []TypeOK
<1>1. Sorting => TypeOK
  BY DEF Sorting
<1> QED
  BY InitSorting, NextSorting, <1>1, PTL DEF Spec

\* Whatever the numbers, the number of parts and the version: what the
\* programs call sorted at the end is the first parts of the input, a power
\* of two of them, in order, and no number is lost or doubled; the merges
\* and sorts of serial_sort.c and every level of the three programs.
THEOREM SortsInput == Spec => []ResultSorted
<1>1. Sorting => ResultSorted
  BY SortingResult
<1> QED
  BY InitSorting, NextSorting, <1>1, PTL DEF Spec
-----------------------------------------------------------------------------
(***************************************************************************)
(* No deadlock.  Whoever main waits for is at work, and what a rank waits  *)
(* for has been sent, or the rank that is to send it has not come so far.  *)
(***************************************************************************)
Busy(t) == pc[t] \in {"task", "copy", "ended"}

Started ==
    ~ Mpi => \A t \in Ranks : /\ pc[Main] = "create" /\ t < r => Busy(t)
                              /\ pc[Main] = "join" /\ r <= t /\ t < nodes => Busy(t)

\* Rank u sends to rank t on level k.
Feeds(u, t, k) == t % pow2[k] = 0 /\ u = t + pow2[k - 1]

SharesPosted ==
    pc[0] # "scatter" => \A t \in Ranks \ {0} : pc[t] = "scatter" => Sent(0, t)

PartsPosted ==
    \A t, u \in Ranks : \A k \in 1 .. levels :
        Feeds(u, t, k) /\ level[t] <= k /\ k < level[u] => Sent(u, t)

EndsLast == \A t \in Ranks : pc[t] = "done" => level[t] > levels

Posted == Mpi => SharesPosted /\ PartsPosted /\ EndsLast

\* What the program dies of.
Explained == Dead => input.p > n \/ (Mpi /\ input.p # pow2[levels])

\* Where ranks are.
InPlace ==
    Mpi /\ ~ Dead => \A t \in Ranks : pc[t] \in {"scatter", "sort", "collect", "done"}

Going == Sorting /\ Started /\ Posted /\ Explained /\ InPlace

\* An odd multiple of d is not a multiple of 2 * d, the next one is.
LEMMA OddMultiple ==
    ASSUME NEW t \in Nat, NEW d \in Nat, d > 0, t % (2 * d) = 0
    PROVE  (t + d) % (2 * d) # 0 /\ ((t + d) + d) % (2 * d) = 0
<1> DEFINE e == 2 * d
<1>1. e \in Nat /\ e > 0 /\ e = d + d
  OBVIOUS
<1> HIDE DEF e
<1>2. PICK a \in Nat : t = e * a
  <2>1. t % e = 0
    BY DEF e
  <2> QED
    BY <1>1, <2>1, Multiple
<1>3. ASSUME (t + d) % e = 0
      PROVE  FALSE
  <2>1. PICK b \in Nat : t + d = e * b
    BY <1>1, <1>3, Multiple
  <2>2. CASE b <= a
    <3>1. b * e <= a * e
      BY <1>1, <2>2, Mono
    <3>2. b * e = e * b /\ a * e = e * a
      BY <1>1
    <3> DEFINE x == e * a  y == e * b
    <3>3. y <= x /\ t = x /\ t + d = y
      BY <1>2, <2>1, <3>1, <3>2
    <3> HIDE DEF x, y
    <3> QED
      BY <3>3
  <2>3. CASE a < b
    <3>1. a * e + e <= b * e
      BY <1>1, <2>3, EndsBefore
    <3>2. b * e = e * b /\ a * e = e * a
      BY <1>1
    <3> DEFINE x == e * a  y == e * b
    <3>3. x + e <= y /\ t = x /\ t + d = y
      BY <1>2, <2>1, <3>1, <3>2
    <3> HIDE DEF x, y
    <3> QED
      BY <1>1, <3>3
  <2> QED
    BY <2>2, <2>3
<1>4. ((t + d) + d) % e = 0
  <2>1. a + 1 \in Nat /\ e * (a + 1) = e * a + e
    BY <1>1
  <2>2. (t + d) + d = e * (a + 1) /\ (t + d) + d \in Nat
    BY <1>1, <1>2, <2>1
  <2> QED
    BY <1>1, <2>1, <2>2, Multiple
<1> QED
  BY <1>3, <1>4 DEF e

LEMMA PowersMultiply ==
    ASSUME NEW l \in Nat
    PROVE  \A k \in Nat : pow2[l + k] = pow2[l] * pow2[k]
<1> DEFINE S == {k \in Nat : pow2[l + k] = pow2[l] * pow2[k]}
<1>1. ASSUME NEW k \in Nat, \A j \in 0 .. k - 1 : j \in S
      PROVE  k \in S
  <2>1. CASE k = 0
    <3>1. pow2[0] = 1 /\ pow2[l] \in Nat /\ l + 0 = l
      BY Powers
    <3> QED
      BY <2>1, <3>1
  <2>2. CASE k > 0
    <3>1. k - 1 \in S /\ k - 1 \in Nat /\ (k - 1) + 1 = k
      BY <1>1, <2>2
    <3> DEFINE a == pow2[l]  b == pow2[k - 1]
    <3>2. pow2[l + (k - 1)] = a * b /\ a \in Nat /\ b \in Nat
      BY <3>1, Powers
    <3>3. pow2[k] = 2 * b
      BY <3>1, Powers
    <3>4. pow2[l + k] = 2 * pow2[l + (k - 1)]
      <4>1. l + (k - 1) \in Nat /\ (l + (k - 1)) + 1 = l + k
        BY <3>1
      <4> QED
        BY <4>1, Powers
    <3> HIDE DEF a, b
    <3>5. 2 * (a * b) = a * (2 * b)
      BY <3>2
    <3> QED
      BY <3>2, <3>3, <3>4, <3>5 DEF a
  <2> QED
    BY <2>1, <2>2
<1>2. \A k \in Nat : k \in S
  <2> HIDE DEF S
  <2> QED
    BY <1>1, Induction
<1> QED
  BY <1>2

\* A power of two is a multiple of the smaller ones, and larger.
LEMMA LargerPower ==
    ASSUME NEW k \in Nat, NEW l \in Nat, l <= k
    PROVE  pow2[k] % pow2[l] = 0 /\ (l < k => pow2[l] < pow2[k])
<1> DEFINE j == k - l  a == pow2[l]  b == pow2[j]
<1>1. j \in Nat /\ l + j = k
  OBVIOUS
<1>2. a \in Nat /\ a > 0 /\ b \in Nat /\ j < b /\ pow2[k] \in Nat
  <2> HIDE DEF j
  <2> QED
    BY <1>1, Powers
<1>3. pow2[k] = a * b
  <2> HIDE DEF j
  <2>1. pow2[l + j] = pow2[l] * pow2[j]
    BY <1>1, PowersMultiply
  <2> QED
    BY <1>1, <2>1
<1>4. l < k => 2 <= b
  BY <1>2
<1> HIDE DEF a, b, j
<1>5. pow2[k] % a = 0
  BY <1>2, <1>3, Multiple
<1>6. ASSUME l < k
      PROVE  a < a * b
  <2>1. 2 * a <= b * a
    BY <1>2, <1>4, <1>6, Mono
  <2>2. b * a = a * b
    BY <1>2
  <2> DEFINE c == a * b
  <2>3. 2 * a <= c /\ c \in Nat
    BY <1>2, <2>1, <2>2
  <2> HIDE DEF c
  <2>4. a < c
    BY <1>2, <2>3
  <2> QED
    BY <2>4 DEF c
<1> QED
  BY <1>3, <1>5, <1>6 DEF a

\* Who sends to a rank on a level, and is not one that receives there.
LEMMA FeedFacts ==
    ASSUME IInv, NEW t \in Ranks, NEW u \in Ranks, NEW k \in 1 .. levels, Feeds(u, t, k)
    PROVE  /\ t \in Nat /\ u \in Nat /\ t < u /\ u # 0 /\ k \in Nat
           /\ pow2[k - 1] \in Nat /\ u - pow2[k - 1] = t
           /\ u % pow2[k] # 0 /\ (u + pow2[k - 1]) % pow2[k] = 0
<1>1. t \in Nat /\ u \in Nat /\ levels \in Nat
  BY Sizes
<1> DEFINE d == pow2[k - 1]
<1>2. d \in Nat /\ d > 0 /\ pow2[k] = 2 * d
  <2>1. k - 1 \in Nat /\ (k - 1) + 1 = k
    BY <1>1
  <2> QED
    BY <2>1, Powers
<1>3. t % pow2[k] = 0 /\ u = t + d
  BY DEF Feeds
<1> HIDE DEF d
<1>4. u % pow2[k] # 0 /\ (u + d) % pow2[k] = 0
  <2>1. t % (2 * d) = 0
    BY <1>2, <1>3
  <2>2. (t + d) % (2 * d) # 0 /\ ((t + d) + d) % (2 * d) = 0
    BY <1>1, <1>2, <2>1, OddMultiple
  <2> QED
    BY <1>2, <1>3, <2>2
<1>5. t < u /\ u # 0 /\ u - d = t /\ k \in Nat
  BY <1>1, <1>2, <1>3
<1> QED
  BY <1>1, <1>2, <1>4, <1>5 DEF d

-----------------------------------------------------------------------------
LEMMA InitGoing == Init => Going
<1> SUFFICES ASSUME Init
             PROVE  Going
  OBVIOUS
<1>1. Sorting /\ IInv
  BY InitSorting, InitIInv
<1>2. 0 \in Ranks /\ Ranks \subseteq Nat /\ Main \notin Ranks
  BY <1>1, Sizes
<1>3. /\ \A t \in Ranks : pc[t] = (IF Mpi THEN "scatter" ELSE "idle") /\ level[t] = 1
      /\ pc[Main] = (IF Mpi THEN "done" ELSE "create") /\ r = 0
  BY <1>2 DEF Init
<1>4. Started
  BY <1>2, <1>3 DEF Started
<1>5. Posted
  BY <1>2, <1>3 DEF Posted, SharesPosted, PartsPosted, EndsLast
<1>6. Explained /\ InPlace
  BY <1>3 DEF Explained, InPlace, Dead
<1> QED
  BY <1>1, <1>4, <1>5, <1>6 DEF Going

\* What keeps for ever: the input and what is worked out from it.
LEMMA SameInput ==
    ASSUME input' = input
    PROVE  /\ UNCHANGED <<Ranks, Main, n, Mpi, levels, Whole>>
           /\ \A u, t, k : Feeds(u, t, k)' = Feeds(u, t, k)
  BY DEF Ranks, Main, n, Mpi, levels, Whole, Feeds

LEMMA PostedKept ==
    ASSUME Posted, IInv, input' = input, level' = level,
           \A t, u \in Ranks : u # 0 /\ Sent(u, t) => Sent(u, t)',
           SharesPosted', EndsLast'
    PROVE  Posted'
<1>1. /\ UNCHANGED <<Ranks, Mpi, levels>>
      /\ \A u, t, k : Feeds(u, t, k)' = Feeds(u, t, k)
  BY SameInput
<1>2. CASE ~ Mpi
  BY <1>1, <1>2 DEF Posted
<1>3. CASE Mpi
  <2>1. ASSUME NEW t \in Ranks, NEW u \in Ranks, NEW k \in 1 .. levels,
               Feeds(u, t, k), level[t] <= k, k < level[u]
        PROVE  Sent(u, t)'
    <3>1. Sent(u, t)
      BY <1>3, <2>1 DEF Posted, PartsPosted
    <3>2. u # 0
      BY <2>1, FeedFacts
    <3> QED
      BY <3>1, <3>2
  <2>2. PartsPosted'
    BY <1>1, <2>1 DEF PartsPosted
  <2> QED
    BY <2>2 DEF Posted
<1> QED
  BY <1>2, <1>3

\* When the program dies, nobody waits any more.
LEMMA CrashGoing ==
    ASSUME Going, Crash, Sorting', UNCHANGED <<input, level, net>>,
           input.p > n \/ (Mpi /\ input.p # pow2[levels])
    PROVE  Going'
<1>1. IInv /\ 0 \in Ranks
  BY Sizes DEF Going, Sorting
<1>2. /\ UNCHANGED <<Ranks, Main, n, Mpi, levels>>
  BY SameInput
<1>3. \A t \in Ranks \cup {Main} : pc'[t] = "dead"
  BY <1>1 DEF Crash, IInv, Shape
<1>4. Started'
  BY <1>2, <1>3 DEF Started
<1>5. Posted'
  <2>1. SharesPosted' /\ EndsLast'
    BY <1>2, <1>3 DEF SharesPosted, EndsLast
  <2>2. \A t, u \in Ranks : Sent(u, t) => Sent(u, t)'
    BY DEF Sent
  <2> QED
    BY <1>1, <2>1, <2>2, PostedKept DEF Going
<1>6. Explained' /\ InPlace'
  BY <1>2, <1>3 DEF Explained, InPlace, Dead
<1> QED
  BY <1>4, <1>5, <1>6 DEF Going

\* A step of main or a thread that nobody dies of.
LEMMA ThreadsGoing ==
    ASSUME Going, ~ Mpi, Sorting', input' = input, pc'[Main] # "dead", Started'
    PROVE  Going'
<1>1. UNCHANGED <<Main, Mpi>>
  BY SameInput
<1> QED
  BY <1>1 DEF Going, Posted, Explained, InPlace, Dead

\* A step of a rank that nobody dies of.
LEMMA RanksGoing ==
    ASSUME Going, Sorting', input' = input, NEW t \in Ranks, Posted',
           NEW place \in {"sort", "collect", "done"}, pc' = [pc EXCEPT ![t] = place],
           pc[t] \in {"scatter", "sort", "collect"}
    PROVE  Going'
<1>1. IInv /\ Main \notin Ranks
  BY Sizes DEF Going, Sorting
<1>2. Mpi /\ pc'[Main] = pc[Main]
  BY <1>1 DEF IInv, Shape
<1>3. UNCHANGED <<Ranks, Main, Mpi, n, levels>>
  BY SameInput
<1>4. Started' /\ Explained'
  BY <1>2, <1>3 DEF Going, Started, Explained, Dead
<1>5. pc'[t] = place /\ \A u \in Ranks : u # t => pc'[u] = pc[u]
  BY <1>1 DEF IInv, Shape
<1>6. ASSUME ~ Dead, NEW u \in Ranks
      PROVE  pc'[u] \in {"scatter", "sort", "collect", "done"}
  BY <1>2, <1>5, <1>6 DEF Going, InPlace
<1>7. Dead' = Dead
  BY <1>2, <1>3 DEF Dead
<1>8. InPlace'
  BY <1>3, <1>6, <1>7 DEF InPlace
<1> QED
  BY <1>4, <1>8 DEF Going

-----------------------------------------------------------------------------
LEMMA CreateGoing == ASSUME Going, Create, Sorting' PROVE Going'
<1>1. IInv /\ IInv' /\ Ranks \subseteq Nat /\ Main \notin Ranks
  BY Sizes DEF Going, Sorting
<1>2. UNCHANGED <<input, nodes, kind>> /\ pc[Main] = "create"
  BY DEF Create
<1>3. ~ Mpi /\ r \in Nat /\ nodes \in Nat /\ r <= nodes /\ pc \in [Ranks \cup {Main} -> Places]
  BY <1>1, <1>2 DEF IInv, TasksOfMain, Shape
<1>4. UNCHANGED <<Ranks, Main, Mpi>>
  BY <1>2, SameInput
<1>5. \A t \in Ranks : t < r => Busy(t)
  BY <1>2, <1>3 DEF Going, Started
<1>6. CASE r < nodes
  <2>1. pc' = [pc EXCEPT ![r] = "task"] /\ r' = r + 1
    BY <1>6 DEF Create
  <2>2. pc'[Main] = "create"
    <3>1. r # Main
      BY <1>3 DEF Main
    <3> QED
      BY <1>2, <1>3, <2>1, <3>1
  <2>3. ASSUME NEW t \in Ranks, t < r + 1
        PROVE  Busy(t)'
    <3>1. CASE t = r
      BY <1>3, <2>1, <2>3, <3>1 DEF Busy
    <3>2. CASE t # r
      <4>1. t < r
        BY <1>1, <1>3, <2>3, <3>2
      <4>2. pc'[t] = pc[t]
        BY <1>3, <2>1, <3>2
      <4> QED
        BY <1>5, <4>1, <4>2 DEF Busy
    <3> QED
      BY <3>1, <3>2
  <2>4. Started'
    BY <1>4, <2>1, <2>2, <2>3 DEF Started
  <2> QED
    BY <1>2, <1>3, <1>4, <2>2, <2>4, ThreadsGoing
<1>7. CASE ~ (r < nodes)
  <2>1. pc' = [pc EXCEPT ![Main] = "join"] /\ r' = 0
    BY <1>7 DEF Create
  <2>2. pc'[Main] = "join" /\ \A t \in Ranks : pc'[t] = pc[t]
    BY <1>1, <1>3, <2>1
  <2>3. ASSUME NEW t \in Ranks, t < nodes
        PROVE  Busy(t)'
    <3>1. t < r
      BY <1>1, <1>3, <1>7, <2>3
    <3> QED
      BY <1>5, <2>2, <3>1 DEF Busy
  <2>4. Started'
    BY <1>2, <1>4, <2>2, <2>3 DEF Started
  <2> QED
    BY <1>2, <1>3, <1>4, <2>2, <2>4, ThreadsGoing
<1> QED
  BY <1>6, <1>7

LEMMA JoinGoing == ASSUME Going, Join, Sorting' PROVE Going'
<1>1. IInv /\ Ranks \subseteq Nat /\ Main \notin Ranks
  BY Sizes DEF Going, Sorting
<1>2. UNCHANGED <<input, nodes>> /\ pc[Main] = "join" /\ pc' = [pc EXCEPT ![r] = "idle"] /\ r' = r + 1
  BY DEF Join
<1>3. ~ Mpi /\ r \in Nat /\ nodes \in Nat /\ pc \in [Ranks \cup {Main} -> Places] /\ r # Main
  BY <1>1, <1>2 DEF IInv, TasksOfMain, Shape, Main
<1>4. UNCHANGED <<Ranks, Main, Mpi>>
  BY <1>2, SameInput
<1>5. pc'[Main] = "join"
  BY <1>2, <1>3
<1>6. ASSUME NEW t \in Ranks, r + 1 <= t, t < nodes
      PROVE  Busy(t)'
  <2>1. r <= t /\ t # r
    BY <1>1, <1>3, <1>6
  <2>2. Busy(t)
    BY <1>2, <1>3, <1>6, <2>1 DEF Going, Started
  <2>3. pc'[t] = pc[t]
    BY <1>2, <1>3, <2>1
  <2> QED
    BY <2>2, <2>3 DEF Busy
<1>7. Started'
  BY <1>2, <1>4, <1>5, <1>6 DEF Started
<1> QED
  BY <1>2, <1>3, <1>5, <1>4, <1>7, ThreadsGoing

LEMMA NextLevelGoing == ASSUME Going, NextLevel, Sorting' PROVE Going'
<1>1. IInv /\ Ranks \subseteq Nat /\ Main \notin Ranks
  BY Sizes DEF Going, Sorting
<1>2. /\ input' = input /\ pc[Main] = "join" /\ r' = 0
      /\ pc' = [pc EXCEPT ![Main] = IF nodes' > 0 THEN "create" ELSE "done"]
  BY DEF NextLevel
<1>3. ~ Mpi /\ pc \in [Ranks \cup {Main} -> Places]
  BY <1>1, <1>2 DEF IInv, Shape
<1>4. UNCHANGED <<Ranks, Main, Mpi>>
  BY <1>2, SameInput
<1>5. pc'[Main] \in {"create", "done"}
  BY <1>2, <1>3
<1>6. \A t \in Ranks : ~ (t < 0)
  BY <1>1
<1>7. Started'
  BY <1>2, <1>4, <1>5, <1>6 DEF Started
<1> QED
  BY <1>2, <1>3, <1>4, <1>5, <1>7, ThreadsGoing

\* Fewer numbers than parts.
LEMMA NothingToSort ==
    ASSUME IInv, Whole = 0
    PROVE  input.p > n
<1>1. input.p \in Nat \ {0} /\ n \in Nat
  BY Sizes
<1> QED
  BY <1>1 DEF Whole

LEMMA ThreadGoing ==
    ASSUME Going, NEW t \in Ranks, Thread(t), Sorting'
    PROVE  Going'
<1>1. IInv /\ Ranks \subseteq Nat /\ Main \notin Ranks /\ Sorting
  BY Sizes DEF Going, Sorting
<1>2. /\ UNCHANGED <<input, nodes, r, level, net>> /\ pc[t] \in {"task", "copy"}
  BY DEF Thread, sort_thread_main, merge_thread_main, CopyBack
<1>3. ~ Mpi /\ pc \in [Ranks \cup {Main} -> Places]
  BY <1>1, <1>2 DEF IInv, Shape
<1>4. UNCHANGED <<Ranks, Main, Mpi>>
  BY <1>2, SameInput
<1>5. pc[Main] # "dead"
  BY <1>1, <1>2, <1>3 DEF IInv, TasksOfMain
<1>6. ASSUME NEW place \in {"copy", "ended"}, pc' = [pc EXCEPT ![t] = place]
      PROVE  Going'
  <2>1. pc'[Main] = pc[Main] /\ \A u \in Ranks : Busy(u) => Busy(u)'
    BY <1>1, <1>3, <1>6 DEF Busy
  <2>2. Started'
    BY <1>2, <1>3, <1>4, <2>1 DEF Going, Started
  <2> QED
    BY <1>2, <1>3, <1>4, <1>5, <2>1, <2>2, ThreadsGoing
<1>7. ASSUME kind = "sort", Overflow(ps), Crash
      PROVE  Going'
  <2>1. ~ Dead
    BY <1>5 DEF Dead
  <2>2. ps = Whole
    BY <1>1, <1>3, <1>7, <2>1 DEF Sorting, ThreadsSort
  <2>3. input.p > n
    BY <1>1, <1>7, <2>2, NothingToSort DEF Overflow
  <2> QED
    BY <1>2, <1>7, <2>3, CrashGoing
<1>8. CASE sort_thread_main(t)
  BY <1>6, <1>7, <1>8 DEF sort_thread_main
<1>9. CASE merge_thread_main(t) \/ CopyBack(t)
  BY <1>6, <1>9 DEF merge_thread_main, CopyBack
<1> QED
  BY <1>8, <1>9 DEF Thread

-----------------------------------------------------------------------------
\* A message that is received is the one from 0, or from the sibling.
LEMMA StillSent ==
    ASSUME NEW m, net' = net \ {m}, NEW u, NEW t, Sent(u, t), m.from # u \/ m.to # t
    PROVE  Sent(u, t)'
  BY DEF Sent

LEMMA ScatterGoing ==
    ASSUME Going, NEW t \in Ranks, ScatterOther(t) \/ (t = 0 /\ ScatterRoot), Sorting'
    PROVE  Going'
<1>1. IInv /\ Ranks \subseteq Nat /\ 0 \in Ranks /\ Sorting
  BY Sizes DEF Going, Sorting
<1>2. /\ UNCHANGED <<input, level>> /\ pc[t] = "scatter" /\ pc' = [pc EXCEPT ![t] = "sort"]
  BY DEF ScatterOther, ScatterRoot
<1>3. Mpi /\ ~ Dead /\ pc \in [Ranks \cup {Main} -> Places]
  BY <1>1, <1>2 DEF IInv, Shape, Sorting
<1>4. UNCHANGED <<Ranks, Main, Mpi, levels>>
  BY <1>2, SameInput
<1>5. pc'[t] = "sort" /\ \A u \in Ranks : u # t => pc'[u] = pc[u]
  BY <1>2, <1>3
<1>6. EndsLast'
  BY <1>2, <1>3, <1>4, <1>5 DEF Going, Posted, EndsLast
<1>7. CASE t = 0 /\ ScatterRoot
  <2>1. \A u \in Ranks : pc[u] = "scatter"
    BY <1>1, <1>2, <1>3, <1>7 DEF Sorting, RanksSort
  <2>2. \A u \in Ranks : level[u] = 1
    BY <1>1, <1>3, <2>1 DEF Sorting, RanksSort, RankSorts
  <2>3. ASSUME NEW u \in Ranks \ {0}
        PROVE  Sent(0, u)'
    <3> DEFINE part(v) == SubSeq(data, v * ps + 1, (v + 1) * ps)
    <3>1. net' = {Send(0, v, part(v)) : v \in Ranks \ {0}}
      BY <1>7 DEF ScatterRoot
    <3> HIDE DEF part
    <3>2. Send(0, u, part(u)) \in net'
      BY <3>1
    <3>3. Send(0, u, part(u)).from = 0 /\ Send(0, u, part(u)).to = u
      BY DEF Send
    <3> QED
      BY <3>2, <3>3 DEF Sent
  <2>4. SharesPosted'
    BY <1>4, <2>3 DEF SharesPosted
  <2>5. PartsPosted'
    <3>1. ASSUME NEW u \in Ranks, NEW k \in 1 .. levels
          PROVE  ~ (k < level[u])
      BY <2>2
    <3> QED
      BY <1>2, <1>4, <3>1 DEF PartsPosted
  <2>6. Posted'
    BY <1>6, <2>4, <2>5 DEF Posted
  <2> QED
    BY <1>2, <2>6, RanksGoing
<1>8. CASE ScatterOther(t)
  <2>1. PICK m \in net : m.from = 0 /\ m.to = t /\ net' = net \ {m}
    BY <1>8 DEF ScatterOther
  <2>2. t # 0 /\ pc'[0] = pc[0]
    BY <1>1, <1>5, <1>8 DEF ScatterOther
  <2>3. SharesPosted'
    <3>1. ASSUME pc[0] # "scatter", NEW u \in Ranks \ {0}, pc'[u] = "scatter"
          PROVE  Sent(0, u)'
      <4>1. u # t /\ pc[u] = "scatter"
        BY <1>5, <3>1
      <4>2. Sent(0, u)
        BY <1>3, <3>1, <4>1 DEF Going, Posted, SharesPosted
      <4> QED
        BY <2>1, <4>1, <4>2, StillSent
    <3> QED
      BY <1>4, <2>2, <3>1 DEF SharesPosted
  <2>4. ASSUME NEW v \in Ranks, NEW u \in Ranks, u # 0, Sent(u, v)
        PROVE  Sent(u, v)'
    BY <2>1, <2>4, StillSent
  <2>5. Posted'
    BY <1>1, <1>2, <1>6, <2>3, <2>4, PostedKept DEF Going
  <2> QED
    BY <1>2, <2>5, RanksGoing
<1> QED
  BY <1>7, <1>8

LEMMA SortPartGoing ==
    ASSUME Going, NEW t \in Ranks, sort_partition(t), Sorting'
    PROVE  Going'
<1>1. IInv /\ 0 \in Ranks /\ Sorting
  BY Sizes DEF Going, Sorting
<1>2. UNCHANGED <<input, level, net>> /\ pc[t] = "sort"
  BY DEF sort_partition
<1>3. Mpi /\ ~ Dead /\ pc \in [Ranks \cup {Main} -> Places]
  BY <1>1, <1>2 DEF IInv, Shape, Sorting
<1>4. UNCHANGED <<Ranks, Main, Mpi, levels>>
  BY <1>2, SameInput
<1>5. CASE Overflow(partition_size[t])
  <2>1. partition_size[t] = Whole
    BY <1>1, <1>2, <1>3 DEF Sorting, RanksSort, RankSorts
  <2>2. input.p > n
    BY <1>1, <1>5, <2>1, NothingToSort DEF Overflow
  <2> QED
    BY <1>2, <1>5, <2>2, CrashGoing DEF sort_partition
<1>6. CASE ~ Overflow(partition_size[t])
  <2>1. pc' = [pc EXCEPT ![t] = "collect"]
    BY <1>6 DEF sort_partition
  <2>2. pc'[t] = "collect" /\ \A u \in Ranks : u # t => pc'[u] = pc[u]
    BY <1>3, <2>1
  <2>3. \A u, v \in Ranks : Sent(u, v)' = Sent(u, v)
    BY <1>2 DEF Sent
  <2>4. SharesPosted' /\ EndsLast'
    <3>1. pc'[0] # "scatter" => pc[0] # "scatter"
      BY <1>1, <1>2, <2>2
    <3>2. \A u \in Ranks : pc'[u] \in {"scatter", "done"} => pc[u] = pc'[u]
      BY <2>2
    <3>3. SharesPosted'
      BY <1>1, <1>3, <1>4, <2>3, <3>1, <3>2 DEF Going, Posted, SharesPosted
    <3>4. EndsLast'
      BY <1>2, <1>3, <1>4, <3>2 DEF Going, Posted, EndsLast
    <3> QED
      BY <3>3, <3>4
  <2>5. Posted'
    BY <1>1, <1>2, <2>3, <2>4, PostedKept DEF Going
  <2> QED
    BY <1>2, <2>1, <2>5, RanksGoing
<1> QED
  BY <1>5, <1>6

\* A rank goes on to the next level: what it waits for there has been sent, and
\* what it should have sent on this one is sent.
LEMMA LevelGoing ==
    ASSUME Going, NEW t \in Ranks, Collects(t), Sorting', input' = input, pc' = pc,
           level' = [level EXCEPT ![t] = level[t] + 1],
           \A v \in Ranks : Sent(0, v) => Sent(0, v)',
           \A v, u \in Ranks : \A k \in 1 .. levels :
               Feeds(u, v, k) /\ Sent(u, v) /\ (v = t => level[t] < k) => Sent(u, v)',
           \A v \in Ranks : Feeds(t, v, level[t]) => Sent(t, v)'
    PROVE  Going'
<1>1. IInv /\ 0 \in Ranks /\ Sorting /\ levels \in Nat
  BY Sizes DEF Going, Sorting
<1>2. Mpi /\ level[t] \in Nat /\ level \in [Ranks -> 1 .. input.p + 1] /\ pc \in [Ranks \cup {Main} -> Places]
  BY <1>1, RankLevel DEF TypeOK, IInv, Shape
<1>3. UNCHANGED <<Ranks, Main, Mpi, levels>> /\ \A u, v, k : Feeds(u, v, k)' = Feeds(u, v, k)
  BY SameInput
<1>4. level'[t] = level[t] + 1 /\ \A u \in Ranks : u # t => level'[u] = level[u]
  BY <1>2
<1>5. SharesPosted /\ PartsPosted /\ EndsLast
  BY <1>2 DEF Going, Posted
<1>6. SharesPosted'
  BY <1>1, <1>3, <1>5 DEF SharesPosted
<1>7. EndsLast'
  <2>1. pc[t] # "done"
    BY DEF Collects
  <2> QED
    BY <1>3, <1>4, <1>5, <2>1 DEF EndsLast
<1>8. ASSUME NEW v \in Ranks, NEW u \in Ranks, NEW k \in 1 .. levels,
             Feeds(u, v, k), level'[v] <= k, k < level'[u]
      PROVE  Sent(u, v)'
  <2>1. v < u /\ v \in Nat /\ u \in Nat /\ k \in Nat
    BY <1>1, <1>8, FeedFacts
  <2>2. CASE u = t /\ k = level[t]
    BY <1>8, <2>2
  <2>3. CASE u # t \/ k # level[t]
    <3>1. k < level[u]
      <4>1. CASE u = t
        BY <1>2, <1>4, <1>8, <2>1, <2>3, <4>1
      <4>2. CASE u # t
        BY <1>4, <1>8, <4>2
      <4> QED
        BY <4>1, <4>2
    <3>2. level[v] <= k /\ (v = t => level[t] < k)
      <4>1. CASE v = t
        BY <1>2, <1>4, <1>8, <2>1, <4>1
      <4>2. CASE v # t
        BY <1>4, <1>8, <4>2
      <4> QED
        BY <4>1, <4>2
    <3>3. Sent(u, v)
      BY <1>5, <1>8, <3>1, <3>2 DEF PartsPosted
    <3> QED
      BY <1>8, <3>2, <3>3
  <2> QED
    BY <2>2, <2>3
<1>9. PartsPosted'
  BY <1>3, <1>8 DEF PartsPosted
<1>10. Posted'
  BY <1>6, <1>7, <1>9 DEF Posted
<1>11. pc' = [pc EXCEPT ![t] = "collect"] /\ pc[t] = "collect"
  BY <1>2 DEF Collects
<1> QED
  BY <1>10, <1>11, RanksGoing

\* The rank that a left sibling receives from is missing only if the number of
\* ranks is an odd multiple of what is merged on the level.
LEMMA RecvMergeGoing ==
    ASSUME Going, NEW t \in Ranks, RecvMerge(t), Sorting'
    PROVE  Going'
<1>1. Collects(t) /\ IsLeft(t) /\ input' = input
  BY DEF RecvMerge
<1>2. Sorting
  BY DEF Going
<1> DEFINE d == Reach(t)  l == level[t]
<1>3. /\ IInv /\ Mpi /\ RankSorts(t) /\ t \in Nat /\ l \in Nat
      /\ d \in Nat /\ d > 0 /\ right_sib(t) = d /\ left_sib(t) = 2 * d /\ Active(t)
  BY <1>1, <1>2, RankLevel
<1>4. /\ input.p \in Nat /\ levels \in Nat /\ 0 \in Ranks
      /\ \A u \in Nat : u \in Ranks <=> u < input.p
  BY <1>3, Sizes
<1>5. l <= levels /\ pow2[l] = 2 * d /\ t % (2 * d) = 0 /\ pow2[l - 1] = d
  <2>1. pow2[l - 1] = d
    BY DEF Reach
  <2> HIDE DEF d, l
  <2> QED
    BY <1>1, <1>3, <2>1 DEF Collects, IsLeft, left_sib, l
<1> HIDE DEF d
<1>6. CASE t + d \notin Ranks
  <2>1. t + d = input.p
    <3>1. t + d <= input.p
      BY <1>1, <1>3 DEF RankSorts, Collects, d
    <3>2. ~ (t + d < input.p)
      BY <1>3, <1>4, <1>6
    <3> QED
      BY <1>3, <1>4, <3>1, <3>2
  <2>2. input.p % pow2[l] # 0
    BY <1>3, <1>5, <2>1, OddMultiple
  <2>3. pow2[levels] % pow2[l] = 0
    <3> HIDE DEF l
    <3> QED
      BY <1>3, <1>4, <1>5, LargerPower
  <2>4. input.p # pow2[levels]
    BY <2>2, <2>3
  <2>5. Crash /\ UNCHANGED <<level, net>>
    BY <1>3, <1>6 DEF RecvMerge
  <2> QED
    BY <1>1, <1>3, <2>4, <2>5, CrashGoing
<1>7. CASE t + d \in Ranks
  <2>1. PICK m \in net : /\ m.from = t + d /\ m.to = t /\ net' = net \ {m}
                         /\ level' = [level EXCEPT ![t] = level[t] + 1] /\ pc' = pc
    BY <1>3, <1>7 DEF RecvMerge
  <2>2. ASSUME NEW v \in Ranks, Sent(0, v)
        PROVE  Sent(0, v)'
    <3>1. m.from # 0
      BY <1>3, <2>1
    <3> QED
      BY <2>1, <2>2, <3>1, StillSent
  <2>3. ASSUME NEW v \in Ranks, NEW u \in Ranks, NEW k \in 1 .. levels,
               Feeds(u, v, k), Sent(u, v), v = t => l < k
        PROVE  Sent(u, v)'
    <3>1. CASE v # t
      BY <2>1, <2>3, <3>1, StillSent
    <3>2. CASE v = t
      <4>1. l - 1 \in Nat /\ k - 1 \in Nat /\ l - 1 < k - 1
        <5>1. l < k /\ l \in 1 .. levels + 1
          BY <1>3, <2>3, <3>2 DEF RankSorts
        <5> QED
          BY <1>4, <5>1
      <4>2. d < pow2[k - 1]
        <5> HIDE DEF l
        <5> QED
          BY <1>5, <4>1, LargerPower
      <4>3. u = t + pow2[k - 1] /\ pow2[k - 1] \in Nat
        BY <2>3, <3>2, <4>1, Powers DEF Feeds
      <4>4. m.from # u
        BY <1>3, <2>1, <4>2, <4>3
      <4> QED
        BY <2>1, <2>3, <4>4, StillSent
    <3> QED
      BY <3>1, <3>2
  <2>4. ASSUME NEW v \in Ranks, Feeds(t, v, l)
        PROVE  FALSE
    <3>1. l \in 1 .. levels
      <4>1. l \in 1 .. levels + 1
        BY <1>3 DEF RankSorts
      <4> QED
        BY <1>4, <1>5, <4>1
    <3>2. t % pow2[l] # 0
      <4> HIDE DEF l
      <4> QED
        BY <1>3, <2>4, <3>1, FeedFacts
    <3> QED
      BY <1>5, <3>2
  <2> QED
    BY <1>1, <2>1, <2>2, <2>3, <2>4, LevelGoing
<1> QED
  BY <1>6, <1>7

LEMMA SendUpGoing ==
    ASSUME Going, NEW t \in Ranks, SendUp(t), Sorting'
    PROVE  Going'
<1>1. /\ Collects(t) /\ input' = input /\ pc' = pc
      /\ level' = [level EXCEPT ![t] = level[t] + 1] /\ net \subseteq net'
      /\ IsRight(t) => Send(t, t - right_sib(t), buf[t]) \in net'
  BY DEF SendUp
<1>2. Sorting
  BY DEF Going
<1>3. IInv /\ RankSorts(t) /\ levels \in Nat /\ level[t] \in Nat
  BY <1>1, <1>2, RankLevel, Sizes
<1>4. \A u, v : Sent(u, v) => Sent(u, v)'
  BY <1>1 DEF Sent
<1>5. ASSUME NEW v \in Ranks, Feeds(t, v, level[t])
      PROVE  Sent(t, v)'
  <2>1. level[t] \in 1 .. levels
    <3>1. level[t] \in 1 .. levels + 1 /\ level[t] <= levels
      BY <1>1, <1>3 DEF RankSorts, Collects
    <3> QED
      BY <1>3, <3>1
  <2>2. (t + pow2[level[t] - 1]) % pow2[level[t]] = 0 /\ t - pow2[level[t] - 1] = v
    BY <1>3, <1>5, <2>1, FeedFacts
  <2>3. IsRight(t) /\ t - right_sib(t) = v
    BY <2>2 DEF IsRight, right_sib, left_sib
  <2>4. Send(t, v, buf[t]) \in net'
    BY <1>1, <2>3
  <2> QED
    BY <2>4 DEF Sent, Send
<1> QED
  BY <1>1, <1>4, <1>5, LevelGoing

LEMMA CollectedGoing ==
    ASSUME Going, NEW t \in Ranks, Collected(t), Sorting'
    PROVE  Going'
<1>1. IInv /\ 0 \in Ranks
  BY Sizes DEF Going, Sorting
<1>2. /\ UNCHANGED <<input, level, net>> /\ pc[t] = "collect" /\ level[t] > levels
      /\ pc' = [pc EXCEPT ![t] = "done"]
  BY DEF Collected
<1>3. Mpi /\ pc \in [Ranks \cup {Main} -> Places]
  BY <1>1, <1>2 DEF IInv, Shape
<1>4. UNCHANGED <<Ranks, Main, Mpi, levels>>
  BY <1>2, SameInput
<1>5. pc'[t] = "done" /\ \A u \in Ranks : u # t => pc'[u] = pc[u]
  BY <1>2, <1>3
<1>6. \A u, v \in Ranks : Sent(u, v)' = Sent(u, v)
  BY <1>2 DEF Sent
<1>7. SharesPosted'
  <2>1. pc'[0] # "scatter" => pc[0] # "scatter"
    BY <1>1, <1>2, <1>5
  <2>2. \A u \in Ranks : pc'[u] = "scatter" => pc[u] = "scatter"
    BY <1>5
  <2> QED
    BY <1>1, <1>3, <1>4, <1>6, <2>1, <2>2 DEF Going, Posted, SharesPosted
<1>8. EndsLast'
  BY <1>2, <1>3, <1>4, <1>5 DEF Going, Posted, EndsLast
<1>9. Posted'
  BY <1>1, <1>2, <1>6, <1>7, <1>8, PostedKept DEF Going
<1> QED
  BY <1>2, <1>9, RanksGoing

LEMMA NextGoing == Going /\ [Next]_vars => Going'
<1> SUFFICES ASSUME Going, [Next]_vars
             PROVE  Going'
  OBVIOUS
<1>1. Sorting'
  BY NextSorting DEF Going
<1>2. CASE Create \/ Join \/ NextLevel
  BY <1>1, <1>2, CreateGoing, JoinGoing, NextLevelGoing
<1>3. ASSUME NEW t \in Ranks, Thread(t)
      PROVE  Going'
  BY <1>1, <1>3, ThreadGoing
<1>4. ASSUME NEW t \in Ranks, Rank(t)
      PROVE  Going'
  BY <1>1, <1>4, ScatterGoing, SortPartGoing, RecvMergeGoing, SendUpGoing, CollectedGoing DEF Rank
<1>5. CASE UNCHANGED vars
  <2>1. UNCHANGED <<input, nodes, r, pc, level, net>>
    BY <1>5 DEF vars
  <2>2. UNCHANGED <<Ranks, Main, n, Mpi, levels>> /\ \A u, t, k : Feeds(u, t, k)' = Feeds(u, t, k)
    BY <2>1, SameInput
  <2>3. \A u, t : Sent(u, t)' = Sent(u, t)
    BY <2>1 DEF Sent
  <2>4. Started'
    BY <2>1, <2>2 DEF Going, Started, Busy
  <2>5. Posted'
    <3>1. SharesPosted' = SharesPosted
      BY <2>1, <2>2, <2>3 DEF SharesPosted
    <3>2. PartsPosted' = PartsPosted
      BY <2>1, <2>2, <2>3 DEF PartsPosted
    <3>3. EndsLast' = EndsLast
      BY <2>1, <2>2 DEF EndsLast
    <3> QED
      BY <2>2, <3>1, <3>2, <3>3 DEF Going, Posted
  <2>6. Explained' /\ InPlace'
    BY <2>1, <2>2 DEF Going, Explained, InPlace, Dead
  <2> QED
    BY <1>1, <2>4, <2>5, <2>6 DEF Going
<1> QED
  BY <1>2, <1>3, <1>4, <1>5 DEF Next

\* With threads, main is at work or waits for a task that is.
LEMMA ThreadsMove ==
    ASSUME Going, ~ Mpi, ~ Dead
    PROVE  AllEnded \/ \E t \in Ranks \cup {Main} : CanMove(t)
<1>1. IInv /\ TypeOK /\ Started
  BY DEF Going, Sorting
<1>2. /\ input.p \in Nat /\ nodes \in Nat /\ nodes <= input.p /\ r \in Nat
      /\ \A t \in Nat : t \in Ranks <=> t < input.p
  BY <1>1, Sizes DEF TypeOK
<1>3. pc[Main] \in {"create", "join", "done"}
  BY <1>1 DEF IInv, TasksOfMain, Dead
<1>4. CASE pc[Main] = "create"
  BY <1>4 DEF CanMove
<1>5. CASE pc[Main] = "join" /\ (r < nodes => pc[r] = "ended")
  BY <1>5 DEF CanMove
<1>6. CASE pc[Main] = "join" /\ r < nodes /\ pc[r] # "ended"
  <2>1. r \in Ranks
    BY <1>2, <1>6
  <2>2. Busy(r)
    BY <1>1, <1>2, <1>6, <2>1 DEF Started
  <2> QED
    BY <1>6, <2>1, <2>2 DEF Busy, CanMove
<1>7. CASE pc[Main] = "done"
  BY <1>1, <1>7 DEF IInv, TasksOfMain, IsIdle, AllEnded
<1> QED
  BY <1>3, <1>4, <1>5, <1>6, <1>7

\* With ranks, one that is on the least level can go on.
LEMMA RanksMove ==
    ASSUME Going, Mpi, ~ Dead
    PROVE  AllEnded \/ \E t \in Ranks \cup {Main} : CanMove(t)
<1>1. IInv /\ TypeOK /\ SharesPosted /\ PartsPosted /\ EndsLast /\ Sorting
  BY DEF Going, Sorting, Posted
<1>2. /\ 0 \in Ranks /\ Ranks \subseteq Nat /\ levels \in Nat
      /\ \A t \in Ranks : pc[t] \in {"scatter", "sort", "collect", "done"}
  BY <1>1, Sizes DEF Going, InPlace
<1>3. pc[Main] = "done"
  BY <1>1 DEF IInv, Dead
<1>4. CASE \E t \in Ranks : pc[t] = "sort"
  BY <1>4 DEF CanMove
<1>5. CASE \E t \in Ranks : pc[t] = "scatter"
  <2>1. PICK t \in Ranks : pc[t] = "scatter"
    BY <1>5
  <2>2. CASE pc[0] = "scatter"
    BY <1>2, <2>2 DEF CanMove
  <2>3. CASE pc[0] # "scatter"
    <3>1. t # 0 /\ Sent(0, t)
      BY <1>1, <2>1, <2>3 DEF SharesPosted
    <3> QED
      BY <2>1, <3>1 DEF CanMove
  <2> QED
    BY <2>2, <2>3
<1>6. CASE /\ \A t \in Ranks : pc[t] \in {"collect", "done"}
           /\ \E t \in Ranks : pc[t] = "collect"
  <2> DEFINE S == {level[t] : t \in {u \in Ranks : pc[u] = "collect"}}
  <2>1. S # {} /\ S \in SUBSET Nat
    <3>1. \A t \in Ranks : level[t] \in Nat
      BY <1>1 DEF TypeOK
    <3> QED
      BY <1>6, <3>1
  <2>2. PICK l \in S : \A k \in S : l <= k
    <3> HIDE DEF S
    <3> QED
      BY <2>1, Least
  <2>3. PICK t \in Ranks : pc[t] = "collect" /\ level[t] = l
    BY <2>2
  <2>4. \A u \in Ranks : pc[u] = "collect" => l <= level[u]
    BY <2>2
  <2> HIDE DEF S
  <2>5. CASE ~ (Collects(t) /\ IsLeft(t) /\ t + right_sib(t) \in Ranks)
    BY <2>3, <2>5 DEF CanMove
  <2>6. CASE Collects(t) /\ IsLeft(t) /\ t + right_sib(t) \in Ranks
    <3> DEFINE u == t + right_sib(t)
    <3>1. l \in 1 .. levels /\ l \in Nat /\ level[u] \in Nat
      <4>1. level[t] \in Nat /\ level[t] \in 1 .. levels + 1 /\ level[t] <= levels
        BY <1>1, <2>6, RankLevel DEF RankSorts, Collects
      <4>2. level[u] \in Nat
        BY <1>1, <2>6 DEF TypeOK
      <4> QED
        BY <1>2, <2>3, <4>1, <4>2
    <3>2. u \in Ranks /\ Feeds(u, t, l)
      BY <2>3, <2>6 DEF Feeds, IsLeft, left_sib, right_sib
    <3> HIDE DEF u
    <3>3. CASE l < level[u]
      <4>1. Sent(u, t)
        BY <1>1, <2>3, <3>1, <3>2, <3>3 DEF PartsPosted
      <4> QED
        BY <2>3, <4>1 DEF CanMove, u
    <3>4. CASE ~ (l < level[u])
      <4>1. pc[u] = "collect"
        <5>1. pc[u] # "done"
          BY <1>1, <1>2, <3>1, <3>2, <3>4 DEF EndsLast
        <5> QED
          BY <1>6, <3>2, <5>1
      <4>2. level[u] = l
        BY <2>4, <3>1, <3>2, <3>4, <4>1
      <4>3. ~ IsLeft(u)
        BY <1>1, <3>1, <3>2, <4>2, FeedFacts DEF IsLeft, left_sib
      <4> QED
        BY <3>2, <4>1, <4>3 DEF CanMove
    <3> QED
      BY <3>3, <3>4
  <2> QED
    BY <2>5, <2>6
<1>7. CASE \A t \in Ranks : pc[t] = "done"
  BY <1>3, <1>7 DEF AllEnded
<1> QED
  BY <1>2, <1>4, <1>5, <1>6, <1>7

\* Main always waits for a thread that works, and there is always a rank that
\* can go on: the receives of collect_results name exactly the ranks that send,
\* on the same level, for any number of ranks.  And mg_pthreads.c, mg_openmp.c
\* and mg_mpi.c die only with more parts than numbers, or with MPI when p is no
\* power of two.
THEOREM NoDeadlock == Spec => []NobodyStuck
<1>1. Going => NobodyStuck
  BY ThreadsMove, RanksMove DEF NobodyStuck, Going, Explained
<1> QED
  BY InitGoing, NextGoing, <1>1, PTL DEF Spec
=============================================================================
