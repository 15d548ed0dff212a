----------------------------- MODULE WebServer -----------------------------
(***************************************************************************)
(* The life of a connection in server.c and util.c: dispatcher threads     *)
(* accept it, read a request from it and put the request into the request  *)
(* queue; worker threads take the request, read the file and answer, or    *)
(* answer 404; SIGINT closes the queue and ends the process.  Caching is   *)
(* off, as server.c:57-61 always leaves it.                                *)
(*                                                                         *)
(* The request queue is the channel that ProdCon implements.  Descriptors  *)
(* are numbers that the system hands out lowest first and hands out again  *)
(* after a close: tab is the table of the process, and a thread that has a *)
(* number has no more than that.  A client connects once, so its name also *)
(* stands for its request.                                                 *)
(*                                                                         *)
(* pc of a dispatcher:  accept -> read -> produce -> accept, or exited     *)
(* pc of a worker:  consume -> load -> read -> answer -> send -> close ->  *)
(*    done -> consume, or exited; fault: a NULL FILE* is written to        *)
(***************************************************************************)
EXTENDS Integers, Sequences

CONSTANTS
    Dispatchers, Workers, Clients,
    Fds,               \* the descriptor numbers beyond the listening socket's
    Capacity,          \* config.qlen
    NULL, Unused, File   \* no pointer or number; a free and a file's table entry

ASSUME ThreadsDisjoint == Dispatchers \cap Workers = {}
ASSUME FdsAssumption == Fds \subseteq Nat
ASSUME NamesDiffer ==
    /\ NULL \notin Clients \cup Fds
    /\ Unused \notin Clients /\ File \notin Clients /\ Unused # File

VARIABLES
    tab,         \* tab[n]: the client whose connection n is, File or Unused
    fd,          \* fd[c]: the number accept returned for client c, or NULL
    pc,
    conn,        \* conn[d]: the client whose request d reads
    queue, val, job,   \* the channel: val[d] is offered, job[w] is taken
    filefd,      \* filefd[w]: the descriptor of the file w reads
    missing,     \* missing[w]: get_file_data returned -1
    heap,        \* the requests allocated and not freed
    dropped,     \* the connections no thread will close
    sent,        \* <<r, c>>: the answer to r's request went to client c
    shutdown,    \* "no", "consume_all", "exiting" or "down"
    locked       \* the queue's mutex is held by the handler or for ever

chan == <<queue, val, job>>
vars == <<tab, fd, pc, conn, chan, filefd, missing, heap, dropped, sent,
          shutdown, locked>>

Channel == INSTANCE BoundedChannel
              WITH Producers <- Dispatchers, Consumers <- Workers,
                   Item <- Clients, buf <- queue, got <- job

Init ==
    /\ tab = [n \in Fds |-> Unused]
    /\ fd = [c \in Clients |-> NULL]
    /\ pc = [t \in Dispatchers \cup Workers |->
               IF t \in Dispatchers THEN "accept" ELSE "consume"]
    /\ conn = [d \in Dispatchers |-> NULL]
    /\ Channel!Init
    /\ filefd = [w \in Workers |-> NULL]
    /\ missing = [w \in Workers |-> FALSE]
    /\ heap = {} /\ dropped = {} /\ sent = {}
    /\ shutdown = "no" /\ locked = FALSE

-----------------------------------------------------------------------------
\* n is the number the system gives to the next descriptor.
LowestFree(n) == tab[n] = Unused /\ \A m \in Fds : tab[m] = Unused => n <= m

\* A connection comes in.
Accept(d) ==
    /\ pc[d] = "accept"
    /\ \E c \in Clients, n \in Fds :
          /\ fd[c] = NULL /\ LowestFree(n)
          /\ tab' = [tab EXCEPT ![n] = c]
          /\ fd' = [fd EXCEPT ![c] = n]
          /\ conn' = [conn EXCEPT ![d] = c]
    /\ pc' = [pc EXCEPT ![d] = "read"]
    /\ UNCHANGED <<chan, filefd, missing, heap, dropped, sent, shutdown, locked>>

\* accept fails, for want of descriptors or because the client is gone.
AcceptFails(d) ==
    /\ pc[d] = "accept"
    /\ pc' = [pc EXCEPT ![d] = "exited"]
    /\ UNCHANGED <<tab, fd, conn, chan, filefd, missing, heap, dropped, sent,
                   shutdown, locked>>

\* get_request succeeds; a request is built.  What it reads is the request of
\* whatever connection the number now stands for, unless it was read before.
GetRequest(d) ==
    /\ pc[d] = "read"
    /\ LET c == tab[fd[conn[d]]]
       IN  /\ c \in Clients
           /\ Channel!Offer(d, c)
           /\ heap' = heap \cup {c}
    /\ conn' = [conn EXCEPT ![d] = NULL]
    /\ pc' = [pc EXCEPT ![d] = "produce"]
    /\ UNCHANGED <<tab, fd, filefd, missing, dropped, sent, shutdown, locked>>

\* get_request fails: the connection is left as it is.
BadRequest(d) ==
    /\ pc[d] = "read"
    /\ dropped' = dropped \cup {conn[d]}
    /\ conn' = [conn EXCEPT ![d] = NULL]
    /\ pc' = [pc EXCEPT ![d] = "accept"]
    /\ UNCHANGED <<tab, fd, chan, filefd, missing, heap, sent, shutdown, locked>>

Produce(d) ==
    /\ pc[d] = "produce" /\ ~ locked
    /\ Channel!Put(d)
    /\ pc' = [pc EXCEPT ![d] = "accept"]
    /\ UNCHANGED <<tab, fd, conn, filefd, missing, heap, dropped, sent,
                   shutdown, locked>>

Consume(w) ==
    /\ pc[w] = "consume" /\ ~ locked
    /\ Channel!Take(w)
    /\ pc' = [pc EXCEPT ![w] = "load"]
    /\ UNCHANGED <<tab, fd, conn, filefd, missing, heap, dropped, sent,
                   shutdown, locked>>

\* queue_consume returns -1, with the mutex still locked.
WorkerExit(w) ==
    /\ pc[w] = "consume" /\ ~ locked
    /\ shutdown = "exiting" /\ queue = << >>
    /\ locked' = TRUE
    /\ pc' = [pc EXCEPT ![w] = "exited"]
    /\ UNCHANGED <<tab, fd, conn, chan, filefd, missing, heap, dropped, sent,
                   shutdown>>

\* get_file_data opens the file ...
LoadFile(w) ==
    /\ pc[w] = "load"
    /\ \E n \in Fds :
          /\ LowestFree(n)
          /\ tab' = [tab EXCEPT ![n] = File]
          /\ filefd' = [filefd EXCEPT ![w] = n]
    /\ pc' = [pc EXCEPT ![w] = "read"]
    /\ UNCHANGED <<fd, conn, chan, missing, heap, dropped, sent, shutdown, locked>>

\* Slip: the worker goes on with the next request and answers nothing.
FileMissing_NoAnswer(w) ==
    /\ pc[w] = "load"
    /\ missing' = [missing EXCEPT ![w] = TRUE]
    /\ pc' = [pc EXCEPT ![w] = "done"]
    /\ UNCHANGED <<tab, fd, conn, chan, filefd, heap, dropped, sent, shutdown,
                   locked>>

\* Slip: the worker leaves its loop.
FileMissing_Leaves(w) ==
    /\ pc[w] = "load"
    /\ missing' = [missing EXCEPT ![w] = TRUE]
    /\ pc' = [pc EXCEPT ![w] = "exited"]
    /\ UNCHANGED <<tab, fd, conn, chan, filefd, heap, dropped, sent, shutdown,
                   locked>>

\* ... or does not find it, or finds the table full.
FileMissing(w) ==
    /\ pc[w] = "load"
    /\ missing' = [missing EXCEPT ![w] = TRUE]
    /\ pc' = [pc EXCEPT ![w] = "answer"]
    /\ UNCHANGED <<tab, fd, conn, chan, filefd, heap, dropped, sent, shutdown,
                   locked>>

\* fstat fails, on a number that was closed by another thread.
StatFails(w) ==
    /\ pc[w] = "read" /\ tab[filefd[w]] = Unused
    /\ filefd' = [filefd EXCEPT ![w] = NULL]
    /\ missing' = [missing EXCEPT ![w] = TRUE]
    /\ pc' = [pc EXCEPT ![w] = "answer"]
    /\ UNCHANGED <<tab, fd, conn, chan, heap, dropped, sent, shutdown, locked>>

\* The file has been read: fclose.
CloseFile(w) ==
    /\ pc[w] = "read"
    /\ tab' = [tab EXCEPT ![filefd[w]] = Unused]
    /\ filefd' = [filefd EXCEPT ![w] = NULL]
    /\ pc' = [pc EXCEPT ![w] = "answer"]
    /\ UNCHANGED <<fd, conn, chan, missing, heap, dropped, sent, shutdown, locked>>

\* fdopen for writing.  It fails on a number that is closed, or a file's;
\* return_result then returns -1, return_error writes to NULL.
OpenReply(w) ==
    /\ pc[w] = "answer"
    /\ pc' = [pc EXCEPT ![w] =
                 IF tab[fd[job[w]]] \in Clients THEN "send"
                 ELSE IF missing[w] THEN "fault" ELSE "done"]
    /\ UNCHANGED <<tab, fd, conn, chan, filefd, missing, heap, dropped, sent,
                   shutdown, locked>>

\* Header and body are written to whatever the number stands for, and
\* fclose closes it.
Send(w) ==
    /\ pc[w] = "send"
    /\ LET n == fd[job[w]]
       IN  /\ sent' = sent \cup ({<<job[w], tab[n]>>} \cap (Clients \X Clients))
           /\ tab' = [tab EXCEPT ![n] = Unused]
    /\ pc' = [pc EXCEPT ![w] = "close"]
    /\ UNCHANGED <<fd, conn, chan, filefd, missing, heap, dropped, shutdown, locked>>

\* return_result returns early from a failed write, and closes nothing.
SendFails(w) ==
    /\ pc[w] = "send" /\ ~ missing[w]
    /\ dropped' = dropped \cup {job[w]}
    /\ pc' = [pc EXCEPT ![w] = "done"]
    /\ UNCHANGED <<tab, fd, conn, chan, filefd, missing, heap, sent, shutdown,
                   locked>>

\* close(fd) after fclose: the number may be somebody else's by now.
SecondClose(w) ==
    /\ pc[w] = "close"
    /\ tab' = [tab EXCEPT ![fd[job[w]]] = Unused]
    /\ pc' = [pc EXCEPT ![w] = "done"]
    /\ UNCHANGED <<fd, conn, chan, filefd, missing, heap, dropped, sent,
                   shutdown, locked>>

\* The worker frees the request, unless it has answered 404.
Done(w) ==
    /\ pc[w] = "done"
    /\ Channel!Discard(w)
    /\ heap' = IF missing[w] THEN heap ELSE heap \ {job[w]}
    /\ missing' = [missing EXCEPT ![w] = FALSE]
    /\ pc' = [pc EXCEPT ![w] = "consume"]
    /\ UNCHANGED <<tab, fd, conn, filefd, dropped, sent, shutdown, locked>>

\* SIGINT: finish calls queue_consume_all, which takes the mutex.
SigInt ==
    /\ shutdown = "no"
    /\ shutdown' = "consume_all" /\ locked' = TRUE
    /\ UNCHANGED <<tab, fd, pc, conn, chan, filefd, missing, heap, dropped, sent>>

\* queue_consume_all gives the mutex back when the queue is empty.
ConsumeAllReturns ==
    /\ shutdown = "consume_all" /\ queue = << >>
    /\ shutdown' = "exiting" /\ locked' = FALSE
    /\ UNCHANGED <<tab, fd, pc, conn, chan, filefd, missing, heap, dropped, sent>>

Exit ==
    /\ shutdown = "exiting"
    /\ shutdown' = "down"
    /\ UNCHANGED <<tab, fd, pc, conn, chan, filefd, missing, heap, dropped, sent,
                   locked>>

-----------------------------------------------------------------------------
\* The process has neither exited nor crashed.
Up == shutdown # "down" /\ \A w \in Workers : pc[w] # "fault"

Dispatch(d) ==
    Accept(d) \/ AcceptFails(d) \/ GetRequest(d) \/ BadRequest(d) \/ Produce(d)

\* What a worker does with a request it has.
Serve(w) ==
    \/ LoadFile(w) \/ FileMissing(w) \/ StatFails(w) \/ CloseFile(w)
    \/ OpenReply(w) \/ Send(w) \/ SendFails(w) \/ SecondClose(w) \/ Done(w)

Next ==
    /\ Up
    /\ \/ \E d \in Dispatchers : Dispatch(d)
       \/ \E w \in Workers : Consume(w) \/ WorkerExit(w) \/ Serve(w)
       \/ SigInt \/ ConsumeAllReturns \/ Exit

Spec == Init /\ [][Next]_vars

\* A worker at work goes on, and the queue keeps moving, which is what
\* ChannelKeepsMoving of ProdCon says; dispatchers wait for clients, of which
\* nothing is known.
FairSpec ==
    /\ Spec
    /\ \A w \in Workers : WF_vars(Up /\ Serve(w))
    /\ WF_vars(Up /\ \E w \in Workers : Consume(w) \/ WorkerExit(w))

-----------------------------------------------------------------------------
DispatcherPlaces == {"accept", "read", "produce", "exited"}
WorkerPlaces ==
    {"consume", "load", "read", "answer", "send", "close", "done", "fault", "exited"}

\* The variables keep their types; a dispatcher has a connection, and a
\* worker a request and a file, exactly in the places where the code does.
TypeOK ==
    /\ tab \in [Fds -> Clients \cup {Unused, File}]
    /\ fd \in [Clients -> Fds \cup {NULL}]
    /\ pc \in [Dispatchers \cup Workers -> DispatcherPlaces \cup WorkerPlaces]
    /\ \A d \in Dispatchers : pc[d] \in DispatcherPlaces
    /\ \A w \in Workers : pc[w] \in WorkerPlaces
    /\ conn \in [Dispatchers -> Clients \cup {NULL}]
    /\ queue \in Seq(Clients)
    /\ val \in [Dispatchers -> Clients \cup {NULL}]
    /\ job \in [Workers -> Clients \cup {NULL}]
    /\ filefd \in [Workers -> Fds \cup {NULL}]
    /\ missing \in [Workers -> BOOLEAN]
    /\ heap \in SUBSET Clients /\ dropped \in SUBSET Clients
    /\ sent \in SUBSET (Clients \X Clients)
    /\ shutdown \in {"no", "consume_all", "exiting", "down"}
    /\ locked \in BOOLEAN
    /\ \A d \in Dispatchers : /\ conn[d] # NULL <=> pc[d] = "read"
                              /\ val[d] # NULL <=> pc[d] = "produce"
    /\ \A w \in Workers : /\ job[w] = NULL <=> pc[w] \in {"consume", "exited"}
                          /\ filefd[w] # NULL <=> pc[w] = "read"

Queued(c) == \E i \in 1 .. Len(queue) : queue[i] = c

\* Somebody has still to close the connection of c.
Responsible(c) ==
    \/ \E d \in Dispatchers : c \in {conn[d], val[d]}
    \/ Queued(c)
    \/ \E w \in Workers :
          job[w] = c /\ pc[w] \in {"load", "read", "answer", "send"}

\* No descriptor is lost track of, although numbers are closed twice and
\* used again: an open connection has the number its request carries, and
\* has a thread or a queued request that will close it, but for those left
\* by a failed get_request or a failed write; an open file has its reader.
DescriptorsOwned ==
    \A n \in Fds :
       /\ tab[n] \in Clients => /\ fd[tab[n]] = n
                                /\ tab[n] \in dropped \/ Responsible(tab[n])
       /\ tab[n] = File => \E w \in Workers : filefd[w] = n

\* A request that was accepted is dealt with, while the server is up.
Pending(c) == Queued(c) \/ \E w \in Workers : job[w] = c

RequestsHandled ==
    \A c \in Clients : Pending(c) ~> (~ Pending(c) \/ shutdown # "no" \/ ~ Up)

\* What util.h:49-51 says of return_result: the contents of the file are
\* returned to the requesting client.
AnswerReachesRequester == \A s \in sent : s[1] = s[2]
=============================================================================
