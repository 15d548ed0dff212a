--------------------------- MODULE WebServerProofs ---------------------------
(***************************************************************************)
(* Proofs about WebServer for every capacity and any sets of dispatchers,  *)
(* workers, clients and descriptor numbers.  TypeOK is inductive, and so   *)
(* is DescriptorsOwned once TypeOK is known.                               *)
(***************************************************************************)
EXTENDS WebServer, TLAPS

\* Closing a number that is no descriptor's closes nothing.
LEMMA Closing ==
    ASSUME TypeOK, NEW n
    PROVE  /\ [tab EXCEPT ![n] = Unused] \in [Fds -> Clients \cup {Unused, File}]
           /\ \A m \in Fds : [tab EXCEPT ![n] = Unused][m] \in {tab[m], Unused}
  BY Zenon DEF TypeOK

\* The queue with a request added, and without its first one.
LEMMA Appended ==
    ASSUME queue \in Seq(Clients), NEW c \in Clients
    PROVE  /\ Append(queue, c) \in Seq(Clients)
           /\ Len(Append(queue, c)) = Len(queue) + 1
           /\ Append(queue, c)[Len(queue) + 1] = c
           /\ \A i \in 1 .. Len(queue) : Append(queue, c)[i] = queue[i]
  OBVIOUS

LEMMA Removed ==
    ASSUME queue \in Seq(Clients), queue # << >>
    PROVE  /\ Head(queue) \in Clients /\ Head(queue) = queue[1]
           /\ Tail(queue) \in Seq(Clients)
           /\ Len(queue) \in Nat \ {0} /\ Len(Tail(queue)) = Len(queue) - 1
           /\ \A i \in 1 .. Len(queue) - 1 : Tail(queue)[i] = queue[i + 1]
  OBVIOUS

LEMMA InitTypeOK == Init => TypeOK
<1> SUFFICES ASSUME Init
             PROVE  TypeOK
  OBVIOUS
<1>1. pc \in [Dispatchers \cup Workers -> {"accept", "consume"}]
  BY DEF Init
<1>2. /\ \A d \in Dispatchers : pc[d] = "accept" /\ conn[d] = NULL /\ val[d] = NULL
      /\ \A w \in Workers : pc[w] = "consume" /\ job[w] = NULL /\ filefd[w] = NULL
  BY ThreadsDisjoint DEF Init, Channel!Init
<1>3. /\ tab \in [Fds -> Clients \cup {Unused, File}]
      /\ fd \in [Clients -> Fds \cup {NULL}]
      /\ conn \in [Dispatchers -> Clients \cup {NULL}]
      /\ val \in [Dispatchers -> Clients \cup {NULL}]
      /\ job \in [Workers -> Clients \cup {NULL}]
      /\ filefd \in [Workers -> Fds \cup {NULL}]
      /\ missing \in [Workers -> BOOLEAN]
      /\ queue \in Seq(Clients)
  BY DEF Init, Channel!Init
<1> QED
  BY <1>1, <1>2, <1>3 DEF Init, TypeOK, DispatcherPlaces, WorkerPlaces

LEMMA AcceptTypeOK ==
    ASSUME TypeOK, NEW d \in Dispatchers, Accept(d)
    PROVE  TypeOK'
  BY NamesDiffer, ThreadsDisjoint
  DEF TypeOK, Accept, chan, DispatcherPlaces, WorkerPlaces, LowestFree

LEMMA AcceptFailsTypeOK ==
    ASSUME TypeOK, NEW d \in Dispatchers, AcceptFails(d)
    PROVE  TypeOK'
  BY NamesDiffer, ThreadsDisjoint
  DEF TypeOK, AcceptFails, chan, DispatcherPlaces, WorkerPlaces

LEMMA GetRequestTypeOK ==
    ASSUME TypeOK, NEW d \in Dispatchers, GetRequest(d)
    PROVE  TypeOK'
  BY NamesDiffer, ThreadsDisjoint
  DEF TypeOK, GetRequest, chan, DispatcherPlaces, WorkerPlaces, Channel!Offer

LEMMA BadRequestTypeOK ==
    ASSUME TypeOK, NEW d \in Dispatchers, BadRequest(d)
    PROVE  TypeOK'
  BY NamesDiffer, ThreadsDisjoint
  DEF TypeOK, BadRequest, chan, DispatcherPlaces, WorkerPlaces

LEMMA ProduceTypeOK ==
    ASSUME TypeOK, NEW d \in Dispatchers, Produce(d)
    PROVE  TypeOK'
  BY Appended, NamesDiffer, ThreadsDisjoint
  DEF TypeOK, Produce, chan, DispatcherPlaces, WorkerPlaces, Channel!Put

LEMMA ConsumeTypeOK ==
    ASSUME TypeOK, NEW w \in Workers, Consume(w)
    PROVE  TypeOK'
  BY Removed, NamesDiffer, ThreadsDisjoint
  DEF TypeOK, Consume, chan, DispatcherPlaces, WorkerPlaces, Channel!Take

LEMMA WorkerExitTypeOK ==
    ASSUME TypeOK, NEW w \in Workers, WorkerExit(w)
    PROVE  TypeOK'
  BY NamesDiffer, ThreadsDisjoint
  DEF TypeOK, WorkerExit, chan, DispatcherPlaces, WorkerPlaces

LEMMA LoadFileTypeOK ==
    ASSUME TypeOK, NEW w \in Workers, LoadFile(w)
    PROVE  TypeOK'
  BY NamesDiffer, ThreadsDisjoint
  DEF TypeOK, LoadFile, chan, DispatcherPlaces, WorkerPlaces, LowestFree

LEMMA FileMissingTypeOK ==
    ASSUME TypeOK, NEW w \in Workers, FileMissing(w)
    PROVE  TypeOK'
  BY NamesDiffer, ThreadsDisjoint
  DEF TypeOK, FileMissing, chan, DispatcherPlaces, WorkerPlaces

LEMMA StatFailsTypeOK ==
    ASSUME TypeOK, NEW w \in Workers, StatFails(w)
    PROVE  TypeOK'
  BY NamesDiffer, ThreadsDisjoint
  DEF TypeOK, StatFails, chan, DispatcherPlaces, WorkerPlaces

LEMMA CloseFileTypeOK ==
    ASSUME TypeOK, NEW w \in Workers, CloseFile(w)
    PROVE  TypeOK'
<1>1. tab' \in [Fds -> Clients \cup {Unused, File}]
  BY Closing DEF CloseFile
<1> QED
  BY <1>1, NamesDiffer, ThreadsDisjoint
  DEF TypeOK, CloseFile, chan, DispatcherPlaces, WorkerPlaces

LEMMA OpenReplyTypeOK ==
    ASSUME TypeOK, NEW w \in Workers, OpenReply(w)
    PROVE  TypeOK'
  BY NamesDiffer, ThreadsDisjoint
  DEF TypeOK, OpenReply, chan, DispatcherPlaces, WorkerPlaces

LEMMA SendTypeOK ==
    ASSUME TypeOK, NEW w \in Workers, Send(w)
    PROVE  TypeOK'
<1>1. tab' \in [Fds -> Clients \cup {Unused, File}]
  BY Closing DEF Send
<1> QED
  BY <1>1, NamesDiffer, ThreadsDisjoint
  DEF TypeOK, Send, chan, DispatcherPlaces, WorkerPlaces

LEMMA SendFailsTypeOK ==
    ASSUME TypeOK, NEW w \in Workers, SendFails(w)
    PROVE  TypeOK'
  BY NamesDiffer, ThreadsDisjoint
  DEF TypeOK, SendFails, chan, DispatcherPlaces, WorkerPlaces

LEMMA SecondCloseTypeOK ==
    ASSUME TypeOK, NEW w \in Workers, SecondClose(w)
    PROVE  TypeOK'
<1>1. tab' \in [Fds -> Clients \cup {Unused, File}]
  BY Closing DEF SecondClose
<1> QED
  BY <1>1, NamesDiffer, ThreadsDisjoint
  DEF TypeOK, SecondClose, chan, DispatcherPlaces, WorkerPlaces

LEMMA DoneTypeOK ==
    ASSUME TypeOK, NEW w \in Workers, Done(w)
    PROVE  TypeOK'
  BY NamesDiffer, ThreadsDisjoint
  DEF TypeOK, Done, chan, DispatcherPlaces, WorkerPlaces, Channel!Discard

LEMMA NextTypeOK == TypeOK /\ [Next]_vars => TypeOK'
<1> SUFFICES ASSUME TypeOK, [Next]_vars
             PROVE  TypeOK'
  OBVIOUS
<1>1. CASE \E d \in Dispatchers : Accept(d)
  BY <1>1, AcceptTypeOK
<1>2. CASE \E d \in Dispatchers : AcceptFails(d)
  BY <1>2, AcceptFailsTypeOK
<1>3. CASE \E d \in Dispatchers : GetRequest(d)
  BY <1>3, GetRequestTypeOK
<1>4. CASE \E d \in Dispatchers : BadRequest(d)
  BY <1>4, BadRequestTypeOK
<1>5. CASE \E d \in Dispatchers : Produce(d)
  BY <1>5, ProduceTypeOK
<1>6. CASE \E w \in Workers : Consume(w)
  BY <1>6, ConsumeTypeOK
<1>7. CASE \E w \in Workers : WorkerExit(w)
  BY <1>7, WorkerExitTypeOK
<1>8. CASE \E w \in Workers : LoadFile(w)
  BY <1>8, LoadFileTypeOK
<1>9. CASE \E w \in Workers : FileMissing(w)
  BY <1>9, FileMissingTypeOK
<1>10. CASE \E w \in Workers : StatFails(w)
  BY <1>10, StatFailsTypeOK
<1>11. CASE \E w \in Workers : CloseFile(w)
  BY <1>11, CloseFileTypeOK
<1>12. CASE \E w \in Workers : OpenReply(w)
  BY <1>12, OpenReplyTypeOK
<1>13. CASE \E w \in Workers : Send(w)
  BY <1>13, SendTypeOK
<1>14. CASE \E w \in Workers : SendFails(w)
  BY <1>14, SendFailsTypeOK
<1>15. CASE \E w \in Workers : SecondClose(w)
  BY <1>15, SecondCloseTypeOK
<1>16. CASE \E w \in Workers : Done(w)
  BY <1>16, DoneTypeOK
<1>17. CASE SigInt
  BY <1>17 DEF TypeOK, SigInt, chan
<1>18. CASE ConsumeAllReturns
  BY <1>18 DEF TypeOK, ConsumeAllReturns, chan
<1>19. CASE Exit
  BY <1>19 DEF TypeOK, Exit, chan
<1>20. CASE UNCHANGED vars
  BY <1>20 DEF TypeOK, vars, chan
<1> QED
  BY <1>1, <1>2, <1>3, <1>4, <1>5, <1>6, <1>7, <1>8, <1>9,
     <1>10, <1>11, <1>12, <1>13, <1>14, <1>15, <1>16, <1>17, <1>18, <1>19, <1>20
  DEF Next, Dispatch, Serve

\* The variables keep their types, and the threads have what their places
\* say.
THEOREM TypeCorrect == Spec => []TypeOK
  BY InitTypeOK, NextTypeOK, PTL DEF Spec

-----------------------------------------------------------------------------
\* Steps that open nothing keep every descriptor owned if they leave what is
\* open to somebody.
LEMMA NothingOpened ==
    ASSUME TypeOK, DescriptorsOwned,
           fd' = fd, dropped \subseteq dropped',
           \A n \in Fds : tab'[n] \in {tab[n], Unused},
           \A c \in Clients : Responsible(c) /\ tab'[fd[c]] = c
                                 => c \in dropped' \/ Responsible(c)',
           \A n \in Fds, w \in Workers :
              filefd[w] = n /\ tab'[n] = File => filefd'[w] = n
    PROVE  DescriptorsOwned'
<1> SUFFICES ASSUME NEW n \in Fds
             PROVE  /\ tab'[n] \in Clients => /\ fd'[tab'[n]] = n
                                              /\ \/ tab'[n] \in dropped'
                                                 \/ Responsible(tab[n])'
                    /\ tab'[n] = File => \E w \in Workers : filefd'[w] = n
  BY DEF DescriptorsOwned, Responsible, Queued
<1>1. tab'[n] = tab[n] \/ tab'[n] = Unused
  OBVIOUS
<1>2. CASE tab'[n] \in Clients
  BY <1>1, <1>2, NamesDiffer DEF DescriptorsOwned
<1>3. CASE tab'[n] = File
  BY <1>1, <1>3, NamesDiffer DEF DescriptorsOwned
<1> QED
  BY <1>2, <1>3

\* A number that is handed out was nobody's.
LEMMA AcceptOwned ==
    ASSUME TypeOK, TypeOK', DescriptorsOwned, NEW d \in Dispatchers, Accept(d)
    PROVE  DescriptorsOwned'
<1>1. PICK c \in Clients, n \in Fds :
         /\ fd[c] = NULL /\ tab[n] = Unused
         /\ tab' = [tab EXCEPT ![n] = c]
         /\ fd' = [fd EXCEPT ![c] = n]
         /\ conn' = [conn EXCEPT ![d] = c]
  BY DEF Accept, LowestFree
<1>2. pc[d] = "accept" /\ conn[d] = NULL /\ val[d] = NULL
  BY DEF Accept, TypeOK
<1>3. \A b \in Clients : Responsible(b) => Responsible(b)'
  BY <1>1, <1>2, ThreadsDisjoint, NamesDiffer
  DEF Accept, Responsible, Queued, chan, TypeOK
<1>4. Responsible(c)'
  BY <1>1 DEF Responsible, TypeOK
<1>5. \A m \in Fds : tab[m] # c
  BY <1>1, NamesDiffer DEF DescriptorsOwned
<1>6. SUFFICES ASSUME NEW m \in Fds
               PROVE  /\ tab'[m] \in Clients => /\ fd'[tab'[m]] = m
                                                /\ \/ tab'[m] \in dropped'
                                                   \/ Responsible(tab[m])'
                      /\ tab'[m] = File => \E w \in Workers : filefd'[w] = m
  BY DEF DescriptorsOwned, Responsible, Queued
<1>7. CASE m = n
  BY <1>1, <1>4, <1>7, NamesDiffer DEF TypeOK
<1>8. CASE m # n
  <2>1. tab'[m] = tab[m] /\ filefd' = filefd /\ dropped' = dropped
    BY <1>1, <1>8 DEF Accept, TypeOK
  <2>2. ASSUME tab[m] \in Clients
        PROVE  fd'[tab[m]] = m
    BY <1>1, <1>5, <2>2 DEF DescriptorsOwned, TypeOK
  <2> QED
    BY <1>3, <2>1, <2>2 DEF DescriptorsOwned
<1> QED
  BY <1>7, <1>8

LEMMA LoadFileOwned ==
    ASSUME TypeOK, TypeOK', DescriptorsOwned, NEW w \in Workers, LoadFile(w)
    PROVE  DescriptorsOwned'
<1>1. PICK n \in Fds : /\ tab[n] = Unused
                       /\ tab' = [tab EXCEPT ![n] = File]
                       /\ filefd' = [filefd EXCEPT ![w] = n]
  BY DEF LoadFile, LowestFree
<1>2. \A c \in Clients : Responsible(c) => Responsible(c)'
  BY ThreadsDisjoint DEF LoadFile, Responsible, Queued, chan, TypeOK
<1>3. filefd[w] = NULL
  BY DEF LoadFile, TypeOK
<1>4. SUFFICES ASSUME NEW m \in Fds
               PROVE  /\ tab'[m] \in Clients => /\ fd'[tab'[m]] = m
                                                /\ \/ tab'[m] \in dropped'
                                                   \/ Responsible(tab[m])'
                      /\ tab'[m] = File => \E u \in Workers : filefd'[u] = m
  BY DEF DescriptorsOwned, Responsible, Queued
<1>5. CASE m = n
  BY <1>1, <1>5, NamesDiffer DEF TypeOK
<1>6. CASE m # n
  <2>1. tab'[m] = tab[m] /\ fd' = fd /\ dropped' = dropped
    BY <1>1, <1>6 DEF LoadFile, TypeOK
  <2>2. \A u \in Workers : filefd[u] = m => filefd'[u] = m
    BY <1>1, <1>3, NamesDiffer DEF TypeOK
  <2> QED
    BY <1>2, <2>1, <2>2 DEF DescriptorsOwned
<1> QED
  BY <1>5, <1>6

LEMMA AcceptFailsOwned ==
    ASSUME TypeOK, TypeOK', DescriptorsOwned, NEW d \in Dispatchers, AcceptFails(d)
    PROVE  DescriptorsOwned'
<1>1. \A n \in Fds : tab'[n] \in {tab[n], Unused}
  BY DEF AcceptFails
<1>2. \A c \in Clients : Responsible(c) /\ tab'[fd[c]] = c => c \in dropped' \/ Responsible(c)'
  BY ThreadsDisjoint, NamesDiffer DEF AcceptFails, Responsible, Queued, chan, TypeOK
<1>3. \A n \in Fds, u \in Workers : filefd[u] = n /\ tab'[n] = File => filefd'[u] = n
  BY DEF AcceptFails
<1>4. fd' = fd /\ dropped \subseteq dropped'
  BY DEF AcceptFails
<1> QED
  BY <1>1, <1>2, <1>3, <1>4, NothingOpened

LEMMA GetRequestOwned ==
    ASSUME TypeOK, TypeOK', DescriptorsOwned, NEW d \in Dispatchers, GetRequest(d)
    PROVE  DescriptorsOwned'
<1>1. \A n \in Fds : tab'[n] \in {tab[n], Unused}
  BY DEF GetRequest
<1>2. \A c \in Clients : Responsible(c) /\ tab'[fd[c]] = c => c \in dropped' \/ Responsible(c)'
  <2>1. SUFFICES ASSUME NEW c \in Clients, Responsible(c), tab[fd[c]] = c
                 PROVE  Responsible(c)'
    BY DEF GetRequest
  <2>2. PICK b \in Clients : /\ b = tab[fd[conn[d]]]
                             /\ val' = [val EXCEPT ![d] = b]
                             /\ conn' = [conn EXCEPT ![d] = NULL]
                             /\ val[d] = NULL
    BY DEF GetRequest, Channel!Offer
  <2>3. /\ pc' = [pc EXCEPT ![d] = "produce"]
        /\ queue' = queue /\ job' = job
    BY DEF GetRequest, Channel!Offer
  <2>4. CASE c = conn[d]
    BY <2>1, <2>2, <2>4 DEF Responsible, TypeOK
  <2>5. CASE c # conn[d]
    BY <2>1, <2>2, <2>3, <2>5, ThreadsDisjoint, NamesDiffer
    DEF Responsible, Queued, TypeOK
  <2> QED
    BY <2>4, <2>5
<1>3. \A n \in Fds, u \in Workers : filefd[u] = n /\ tab'[n] = File => filefd'[u] = n
  BY DEF GetRequest
<1>4. fd' = fd /\ dropped \subseteq dropped'
  BY DEF GetRequest
<1> QED
  BY <1>1, <1>2, <1>3, <1>4, NothingOpened

LEMMA BadRequestOwned ==
    ASSUME TypeOK, TypeOK', DescriptorsOwned, NEW d \in Dispatchers, BadRequest(d)
    PROVE  DescriptorsOwned'
<1>1. \A n \in Fds : tab'[n] \in {tab[n], Unused}
  BY DEF BadRequest
<1>2. \A c \in Clients : Responsible(c) /\ tab'[fd[c]] = c => c \in dropped' \/ Responsible(c)'
  BY ThreadsDisjoint, NamesDiffer DEF BadRequest, Responsible, Queued, chan, TypeOK
<1>3. \A n \in Fds, u \in Workers : filefd[u] = n /\ tab'[n] = File => filefd'[u] = n
  BY DEF BadRequest
<1>4. fd' = fd /\ dropped \subseteq dropped'
  BY DEF BadRequest
<1> QED
  BY <1>1, <1>2, <1>3, <1>4, NothingOpened

LEMMA ProduceOwned ==
    ASSUME TypeOK, TypeOK', DescriptorsOwned, NEW d \in Dispatchers, Produce(d)
    PROVE  DescriptorsOwned'
<1>1. \A n \in Fds : tab'[n] \in {tab[n], Unused}
  BY DEF Produce
<1>2. \A c \in Clients : Responsible(c) /\ tab'[fd[c]] = c => c \in dropped' \/ Responsible(c)'
  <2>1. /\ pc' = [pc EXCEPT ![d] = "accept"] /\ conn' = conn /\ job' = job
        /\ val' = [val EXCEPT ![d] = NULL]
        /\ queue' = Append(queue, val[d]) /\ val[d] \in Clients
    BY DEF Produce, Channel!Put, TypeOK
  <2>2. /\ Len(queue') = Len(queue) + 1 /\ Len(queue) \in Nat
        /\ queue'[Len(queue) + 1] = val[d]
        /\ \A i \in 1 .. Len(queue) : queue'[i] = queue[i]
    BY <2>1, Appended DEF TypeOK
  <2>3. ASSUME NEW c \in Clients, Queued(c) \/ c = val[d]
        PROVE  \E i \in 1 .. Len(queue') : queue'[i] = c
    <3>1. CASE c = val[d]
      <4>1. Len(queue) + 1 \in 1 .. Len(queue')
        BY <2>2
      <4> QED
        BY <2>2, <3>1, <4>1
    <3>2. CASE Queued(c)
      <4>1. PICK i \in 1 .. Len(queue) : queue[i] = c
        BY <3>2 DEF Queued
      <4>2. i \in 1 .. Len(queue')
        BY <2>2
      <4> QED
        BY <2>2, <4>1, <4>2
    <3> QED
      BY <2>3, <3>1, <3>2
  <2> QED
    BY <2>1, <2>3, ThreadsDisjoint DEF Responsible, Queued, TypeOK
<1>3. \A n \in Fds, u \in Workers : filefd[u] = n /\ tab'[n] = File => filefd'[u] = n
  BY DEF Produce
<1>4. fd' = fd /\ dropped \subseteq dropped'
  BY DEF Produce
<1> QED
  BY <1>1, <1>2, <1>3, <1>4, NothingOpened

LEMMA ConsumeOwned ==
    ASSUME TypeOK, TypeOK', DescriptorsOwned, NEW w \in Workers, Consume(w)
    PROVE  DescriptorsOwned'
<1>1. \A n \in Fds : tab'[n] \in {tab[n], Unused}
  BY DEF Consume
<1>2. \A c \in Clients : Responsible(c) /\ tab'[fd[c]] = c => c \in dropped' \/ Responsible(c)'
  <2>1. /\ pc' = [pc EXCEPT ![w] = "load"] /\ conn' = conn /\ val' = val
        /\ job' = [job EXCEPT ![w] = Head(queue)] /\ job[w] = NULL
        /\ queue' = Tail(queue) /\ queue # << >>
    BY DEF Consume, Channel!Take
  <2>2. ASSUME NEW c \in Clients, Queued(c), c # Head(queue)
        PROVE  Queued(c)'
    <3>1. PICK i \in 1 .. Len(queue) : queue[i] = c
      BY <2>2 DEF Queued
    <3>2. /\ Len(queue) \in Nat /\ Len(queue') = Len(queue) - 1 /\ i # 1
          /\ \A j \in 1 .. Len(queue) - 1 : queue'[j] = queue[j + 1]
      BY <2>1, <2>2, <3>1, Removed DEF TypeOK
    <3>3. i - 1 \in 1 .. Len(queue') /\ (i - 1) + 1 = i
      BY <3>2
    <3> QED
      BY <3>1, <3>2, <3>3 DEF Queued
  <2>3. \A c \in Clients : c = Head(queue) => Responsible(c)'
    BY <2>1 DEF Responsible, TypeOK
  <2> QED
    BY <2>1, <2>2, <2>3, ThreadsDisjoint, NamesDiffer DEF Responsible, TypeOK
<1>3. \A n \in Fds, u \in Workers : filefd[u] = n /\ tab'[n] = File => filefd'[u] = n
  BY DEF Consume
<1>4. fd' = fd /\ dropped \subseteq dropped'
  BY DEF Consume
<1> QED
  BY <1>1, <1>2, <1>3, <1>4, NothingOpened

LEMMA WorkerExitOwned ==
    ASSUME TypeOK, TypeOK', DescriptorsOwned, NEW w \in Workers, WorkerExit(w)
    PROVE  DescriptorsOwned'
<1>1. \A n \in Fds : tab'[n] \in {tab[n], Unused}
  BY DEF WorkerExit
<1>2. \A c \in Clients : Responsible(c) /\ tab'[fd[c]] = c => c \in dropped' \/ Responsible(c)'
  BY ThreadsDisjoint, NamesDiffer DEF WorkerExit, Responsible, Queued, chan, TypeOK
<1>3. \A n \in Fds, u \in Workers : filefd[u] = n /\ tab'[n] = File => filefd'[u] = n
  BY DEF WorkerExit
<1>4. fd' = fd /\ dropped \subseteq dropped'
  BY DEF WorkerExit
<1> QED
  BY <1>1, <1>2, <1>3, <1>4, NothingOpened

LEMMA FileMissingOwned ==
    ASSUME TypeOK, TypeOK', DescriptorsOwned, NEW w \in Workers, FileMissing(w)
    PROVE  DescriptorsOwned'
<1>1. \A n \in Fds : tab'[n] \in {tab[n], Unused}
  BY DEF FileMissing
<1>2. \A c \in Clients : Responsible(c) /\ tab'[fd[c]] = c => c \in dropped' \/ Responsible(c)'
  BY ThreadsDisjoint, NamesDiffer DEF FileMissing, Responsible, Queued, chan, TypeOK
<1>3. \A n \in Fds, u \in Workers : filefd[u] = n /\ tab'[n] = File => filefd'[u] = n
  BY DEF FileMissing
<1>4. fd' = fd /\ dropped \subseteq dropped'
  BY DEF FileMissing
<1> QED
  BY <1>1, <1>2, <1>3, <1>4, NothingOpened

LEMMA StatFailsOwned ==
    ASSUME TypeOK, TypeOK', DescriptorsOwned, NEW w \in Workers, StatFails(w)
    PROVE  DescriptorsOwned'
<1>1. \A n \in Fds : tab'[n] \in {tab[n], Unused}
  BY DEF StatFails
<1>2. \A c \in Clients : Responsible(c) /\ tab'[fd[c]] = c => c \in dropped' \/ Responsible(c)'
  BY ThreadsDisjoint, NamesDiffer DEF StatFails, Responsible, Queued, chan, TypeOK
<1>3. \A n \in Fds, u \in Workers : filefd[u] = n /\ tab'[n] = File => filefd'[u] = n
  BY NamesDiffer DEF StatFails, TypeOK
<1>4. fd' = fd /\ dropped \subseteq dropped'
  BY DEF StatFails
<1> QED
  BY <1>1, <1>2, <1>3, <1>4, NothingOpened

LEMMA CloseFileOwned ==
    ASSUME TypeOK, TypeOK', DescriptorsOwned, NEW w \in Workers, CloseFile(w)
    PROVE  DescriptorsOwned'
<1>1. \A n \in Fds : tab'[n] \in {tab[n], Unused}
  BY Closing DEF CloseFile
<1>2. \A c \in Clients : Responsible(c) /\ tab'[fd[c]] = c => c \in dropped' \/ Responsible(c)'
  BY ThreadsDisjoint, NamesDiffer DEF CloseFile, Responsible, Queued, chan, TypeOK
<1>3. \A n \in Fds, u \in Workers : filefd[u] = n /\ tab'[n] = File => filefd'[u] = n
  BY NamesDiffer DEF CloseFile, TypeOK
<1>4. fd' = fd /\ dropped \subseteq dropped'
  BY DEF CloseFile
<1> QED
  BY <1>1, <1>2, <1>3, <1>4, NothingOpened

LEMMA OpenReplyOwned ==
    ASSUME TypeOK, TypeOK', DescriptorsOwned, NEW w \in Workers, OpenReply(w)
    PROVE  DescriptorsOwned'
<1>1. \A n \in Fds : tab'[n] \in {tab[n], Unused}
  BY DEF OpenReply
<1>2. \A c \in Clients : Responsible(c) /\ tab'[fd[c]] = c => c \in dropped' \/ Responsible(c)'
  BY ThreadsDisjoint, NamesDiffer DEF OpenReply, Responsible, Queued, chan, TypeOK
<1>3. \A n \in Fds, u \in Workers : filefd[u] = n /\ tab'[n] = File => filefd'[u] = n
  BY DEF OpenReply
<1>4. fd' = fd /\ dropped \subseteq dropped'
  BY DEF OpenReply
<1> QED
  BY <1>1, <1>2, <1>3, <1>4, NothingOpened

LEMMA SendOwned ==
    ASSUME TypeOK, TypeOK', DescriptorsOwned, NEW w \in Workers, Send(w)
    PROVE  DescriptorsOwned'
<1>1. \A n \in Fds : tab'[n] \in {tab[n], Unused}
  BY Closing DEF Send
<1>2. \A c \in Clients : Responsible(c) /\ tab'[fd[c]] = c => c \in dropped' \/ Responsible(c)'
  BY ThreadsDisjoint, NamesDiffer DEF Send, Responsible, Queued, chan, TypeOK
<1>3. \A n \in Fds, u \in Workers : filefd[u] = n /\ tab'[n] = File => filefd'[u] = n
  BY DEF Send
<1>4. fd' = fd /\ dropped \subseteq dropped'
  BY DEF Send
<1> QED
  BY <1>1, <1>2, <1>3, <1>4, NothingOpened

LEMMA SendFailsOwned ==
    ASSUME TypeOK, TypeOK', DescriptorsOwned, NEW w \in Workers, SendFails(w)
    PROVE  DescriptorsOwned'
<1>1. \A n \in Fds : tab'[n] \in {tab[n], Unused}
  BY DEF SendFails
<1>2. \A c \in Clients : Responsible(c) /\ tab'[fd[c]] = c => c \in dropped' \/ Responsible(c)'
  BY ThreadsDisjoint, NamesDiffer DEF SendFails, Responsible, Queued, chan, TypeOK
<1>3. \A n \in Fds, u \in Workers : filefd[u] = n /\ tab'[n] = File => filefd'[u] = n
  BY DEF SendFails
<1>4. fd' = fd /\ dropped \subseteq dropped'
  BY DEF SendFails
<1> QED
  BY <1>1, <1>2, <1>3, <1>4, NothingOpened

LEMMA SecondCloseOwned ==
    ASSUME TypeOK, TypeOK', DescriptorsOwned, NEW w \in Workers, SecondClose(w)
    PROVE  DescriptorsOwned'
<1>1. \A n \in Fds : tab'[n] \in {tab[n], Unused}
  BY Closing DEF SecondClose
<1>2. \A c \in Clients : Responsible(c) /\ tab'[fd[c]] = c => c \in dropped' \/ Responsible(c)'
  BY ThreadsDisjoint, NamesDiffer DEF SecondClose, Responsible, Queued, chan, TypeOK
<1>3. \A n \in Fds, u \in Workers : filefd[u] = n /\ tab'[n] = File => filefd'[u] = n
  BY DEF SecondClose
<1>4. fd' = fd /\ dropped \subseteq dropped'
  BY DEF SecondClose
<1> QED
  BY <1>1, <1>2, <1>3, <1>4, NothingOpened

LEMMA DoneOwned ==
    ASSUME TypeOK, TypeOK', DescriptorsOwned, NEW w \in Workers, Done(w)
    PROVE  DescriptorsOwned'
<1>1. \A n \in Fds : tab'[n] \in {tab[n], Unused}
  BY DEF Done
<1>2. \A c \in Clients : Responsible(c) /\ tab'[fd[c]] = c => c \in dropped' \/ Responsible(c)'
  BY ThreadsDisjoint, NamesDiffer DEF Done, Responsible, Queued, chan, TypeOK, Channel!Discard
<1>3. \A n \in Fds, u \in Workers : filefd[u] = n /\ tab'[n] = File => filefd'[u] = n
  BY DEF Done
<1>4. fd' = fd /\ dropped \subseteq dropped'
  BY DEF Done
<1> QED
  BY <1>1, <1>2, <1>3, <1>4, NothingOpened

LEMMA NextOwned == TypeOK /\ TypeOK' /\ DescriptorsOwned /\ [Next]_vars => DescriptorsOwned'
<1> SUFFICES ASSUME TypeOK, TypeOK', DescriptorsOwned, [Next]_vars
             PROVE  DescriptorsOwned'
  OBVIOUS
<1>1. CASE \E d \in Dispatchers : Accept(d)
  BY <1>1, AcceptOwned
<1>2. CASE \E d \in Dispatchers : AcceptFails(d)
  BY <1>2, AcceptFailsOwned
<1>3. CASE \E d \in Dispatchers : GetRequest(d)
  BY <1>3, GetRequestOwned
<1>4. CASE \E d \in Dispatchers : BadRequest(d)
  BY <1>4, BadRequestOwned
<1>5. CASE \E d \in Dispatchers : Produce(d)
  BY <1>5, ProduceOwned
<1>6. CASE \E w \in Workers : Consume(w)
  BY <1>6, ConsumeOwned
<1>7. CASE \E w \in Workers : WorkerExit(w)
  BY <1>7, WorkerExitOwned
<1>8. CASE \E w \in Workers : LoadFile(w)
  BY <1>8, LoadFileOwned
<1>9. CASE \E w \in Workers : FileMissing(w)
  BY <1>9, FileMissingOwned
<1>10. CASE \E w \in Workers : StatFails(w)
  BY <1>10, StatFailsOwned
<1>11. CASE \E w \in Workers : CloseFile(w)
  BY <1>11, CloseFileOwned
<1>12. CASE \E w \in Workers : OpenReply(w)
  BY <1>12, OpenReplyOwned
<1>13. CASE \E w \in Workers : Send(w)
  BY <1>13, SendOwned
<1>14. CASE \E w \in Workers : SendFails(w)
  BY <1>14, SendFailsOwned
<1>15. CASE \E w \in Workers : SecondClose(w)
  BY <1>15, SecondCloseOwned
<1>16. CASE \E w \in Workers : Done(w)
  BY <1>16, DoneOwned
<1>17. CASE SigInt
  BY <1>17 DEF SigInt, DescriptorsOwned, Responsible, Queued, chan
<1>18. CASE ConsumeAllReturns
  BY <1>18 DEF ConsumeAllReturns, DescriptorsOwned, Responsible, Queued, chan
<1>19. CASE Exit
  BY <1>19 DEF Exit, DescriptorsOwned, Responsible, Queued, chan
<1>20. CASE UNCHANGED vars
  BY <1>20 DEF vars, DescriptorsOwned, Responsible, Queued, chan
<1> QED
  BY <1>1, <1>2, <1>3, <1>4, <1>5, <1>6, <1>7, <1>8, <1>9, <1>10, <1>11, <1>12,
     <1>13, <1>14, <1>15, <1>16, <1>17, <1>18, <1>19, <1>20
  DEF Next, Dispatch, Serve

\* No descriptor is lost track of, whatever order the threads accept, close
\* and close again in: every open connection that was not dropped has a
\* thread or a queued request that will close it, and an open file has its
\* reader.
THEOREM NoDescriptorLost == Spec => []DescriptorsOwned
<1>1. Init => DescriptorsOwned
  BY NamesDiffer DEF Init, DescriptorsOwned
<1> QED
  BY <1>1, NextOwned, TypeCorrect, PTL DEF Spec
=============================================================================
