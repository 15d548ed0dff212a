---------------------------- MODULE MCMergeSort ----------------------------
(***************************************************************************)
(* Instances of MergeSort for TLC.                                         *)
(***************************************************************************)
EXTENDS MergeSort

\* All arrays of up to four numbers, some of them equal, in one or two parts.
Small == [version : {"pthreads", "openmp", "mpi"}, p : 1 .. 2,
          data : UNION {[1 .. k -> 1 .. 3] : k \in 1 .. 4}]

\* Two levels, parts of one and two numbers, parts left over or left out, and
\* more parts than numbers.
Wide == [version : {"pthreads", "openmp", "mpi"}, p : 3 .. 5,
         data : {<<2, 1>>, <<3, 2, 1>>, <<4, 3, 2, 1>>, <<2, 3, 1, 3, 1>>,
                 <<3, 1, 4, 2, 1, 3, 2, 4, 1>>}]

\* Three levels, and numbers of parts that leave one out on the second.
Deep == [version : {"pthreads", "openmp"}, p : {6, 7, 8},
         data : {<<3, 1, 2, 3, 1, 2, 3, 1, 2>>}]
        \cup [version : {"mpi"}, p : {6}, data : {<<3, 1, 2, 3, 1, 2, 3, 1>>}]

MCInputs == Small \cup Wide \cup Deep
=============================================================================
