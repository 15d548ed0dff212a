------------------------ MODULE PacketPublicProofs ------------------------
(***************************************************************************)
(* Proofs about PacketPublic for every number of packets and chunks, and   *)
(* however often main is late.                                             *)
(***************************************************************************)
EXTENDS PacketPublic, FiniteSetTheorems, WellFoundedInduction, TLAPS

USE ChunksAssumption, NumbersAssumption DEF Chunk, Which

Running == pc \notin {"done", "killed"}

\* Every packet that has come since the message began has its chunk.
ChunksHold ==
    /\ Running => \A w \in Held : /\ message.data[w] \in Chunk
                                  /\ pool.allocated[message.data[w]]
                                  /\ blocks[message.data[w]] = w
    /\ Running => \A w \in Which : w < pkt_cnt => message.data[w] # Junk

FirstPackets(k) == [l \in 1 .. k |-> l - 1]

\* How far the assembly is.
Assembled ==
    /\ pc \in {"test", "nap", "paused", "disarm", "restore"} =>
           action = "handler" /\ i = 0 /\ MSG = << >>
    /\ pc \in {"copy", "wipe", "release", "done"} => action = "default"
    /\ pc = "copy" => i <= pkt_cnt /\ MSG = FirstPackets(i)
    /\ pc = "wipe" => /\ i < pkt_cnt /\ MSG = FirstPackets(i + 1)
                      /\ message.data[i] \in Chunk /\ blocks[message.data[i]] = i
    /\ pc \in {"release", "done"} => MSG = FirstPackets(pkt_cnt)

\* Main leaves its loop with the whole message, and any tick after that
\* finds it busy.
WholeIfInTime ==
    /\ pkt_cnt > 0 => pkt_total = HowMany
    /\ pc = "test" /\ pkt_cnt > 0 => busy
    /\ pc \in {"disarm", "restore"} => busy
    /\ pc \in {"disarm", "restore", "copy", "wipe", "release", "done"} =>
           pkt_cnt = HowMany \/ late > 0

\* The inductive invariant.
IInv == TypeOK /\ ChunksHold /\ Assembled /\ WholeIfInTime

-----------------------------------------------------------------------------
\* The memory manager.

LEMMA LeastNatural ==
    ASSUME NEW S \in SUBSET Nat, S # {}
    PROVE  Min(S) \in S
<1>1. PICK x \in S : \A y \in S : <<y, x>> \notin OpToRel(<, Nat)
  BY NatLessThanWellFounded, WFMin
<1>2. ASSUME NEW y \in S
      PROVE  x <= y
  <2>1. <<y, x>> \notin {pair \in Nat \X Nat : pair[1] < pair[2]}
    BY <1>1 DEF OpToRel
  <2> QED
    BY <2>1
<1> QED
  BY <1>2 DEF Min

\* What mm_get hands out was free; nothing else changes hands.
LEMMA GetOK ==
    ASSUME NEW mm \in PoolType, mm_get(mm).ret # NoChunk
    PROVE  /\ mm_get(mm).ret \in Chunk /\ ~ mm.allocated[mm_get(mm).ret]
           /\ mm_get(mm).mm \in PoolType
           /\ mm_get(mm).mm.allocated =
                  [mm.allocated EXCEPT ![mm_get(mm).ret] = TRUE]
<1> DEFINE turns == {k \in Chunk : ~ mm.allocated[SlotAt(mm, k)]}
           slot == SlotAt(mm, Min(turns))
<1>1. turns # {}
  BY DEF mm_get
<1>2. Min(turns) \in turns
  BY <1>1, LeastNatural
<1>3. \A k \in Chunk : SlotAt(mm, k) \in Chunk
  BY DEF SlotAt, PoolType
<1>4. slot \in Chunk /\ ~ mm.allocated[slot]
  BY <1>2, <1>3
<1>5. /\ mm_get(mm).ret = slot
      /\ mm_get(mm).mm = [mm EXCEPT !.allocated[slot] = TRUE,
                                    !.last_allocated = slot]
  BY <1>1 DEF mm_get
<1> HIDE DEF slot
<1>6. mm.allocated \in [Chunk -> BOOLEAN] /\ DOMAIN mm = {"allocated", "last_allocated"}
  BY DEF PoolType
<1>7. mm_get(mm).mm = [allocated |-> [mm.allocated EXCEPT ![slot] = TRUE],
                      last_allocated |-> slot]
  BY <1>5, <1>6 DEF PoolType
<1>8. [mm.allocated EXCEPT ![slot] = TRUE] \in [Chunk -> BOOLEAN]
  BY <1>6
<1>9. mm_get(mm).mm \in PoolType
  BY <1>4, <1>7, <1>8 DEF PoolType
<1> QED
  BY <1>4, <1>5, <1>7, <1>9

LEMMA PutOK ==
    ASSUME NEW mm \in PoolType, NEW c \in Chunk
    PROVE  /\ mm_put(mm, c) \in PoolType
           /\ mm_put(mm, c).allocated = [mm.allocated EXCEPT ![c] = FALSE]
  BY DEF mm_put, PoolType

LEMMA Numbered ==
    ASSUME NEW k \in Nat
    PROVE  /\ Len(FirstPackets(k)) = k
           /\ Append(FirstPackets(k), k) = FirstPackets(k + 1)
  BY DEF FirstPackets

-----------------------------------------------------------------------------
LEMMA InitIInv == Init => IInv
<1> SUFFICES ASSUME Init
             PROVE  IInv
  OBVIOUS
<1>1. TypeOK
  <2>1. pool \in PoolType /\ blocks \in [Chunk -> Which \cup {Zero, Junk}]
    BY DEF Init, PoolType, mm_init
  <2>2. message \in [num_packets : 0 .. HowMany, data : [Which -> Chunk \cup {Junk}]]
    BY DEF Init
  <2>3. which \in Which /\ which = pkt_cnt % HowMany
    BY DEF Init
  <2>4. /\ pkt_cnt \in 0 .. HowMany /\ pkt_total \in {1, HowMany}
        /\ timer = "periodic" /\ action = "handler" /\ pc = "test"
        /\ i = 0 /\ busy = TRUE /\ late = 0
    BY DEF Init
  <2>5. message.num_packets = pkt_cnt
    BY DEF Init
  <2>6. i \in 0 .. HowMany /\ late \in 0 .. MaxLate
    BY <2>4
  <2>7. busy \in BOOLEAN
    BY <2>4
  <2>8. /\ timer \in {"periodic", "once", "off"}
        /\ action \in {"handler", "default"}
        /\ pc \in {"test", "nap", "paused", "disarm", "restore", "copy", "wipe",
                   "release", "done", "killed"}
    BY <2>4
  <2> QED
    BY <2>1, <2>2, <2>3, <2>4, <2>5, <2>6, <2>7, <2>8, Zenon DEF TypeOK
<1>2. ChunksHold
  BY DEF Init, ChunksHold, Held
<1>3. Assembled /\ WholeIfInTime
  BY DEF Init, Assembled, WholeIfInTime
<1> QED
  BY <1>1, <1>2, <1>3 DEF IInv

\* A packet that comes has the number that follows the count, and the first
\* of a message starts the count again.
LEMMA CountOK ==
    ASSUME TypeOK, NEW cnt, cnt = IF which = 0 THEN 1 ELSE pkt_cnt + 1
    PROVE  /\ cnt = which + 1 /\ cnt \in 1 .. HowMany
           /\ (which + 1) % HowMany \in Which
           /\ (which + 1) % HowMany = cnt % HowMany
<1>1. which \in Which /\ which = pkt_cnt % HowMany /\ pkt_cnt \in 0 .. HowMany
  BY DEF TypeOK
<1>2. which # 0 => pkt_cnt = which
  <2>1. HowMany % HowMany = 0
    OBVIOUS
  <2>2. pkt_cnt < HowMany => pkt_cnt % HowMany = pkt_cnt
    BY <1>1
  <2> QED
    BY <1>1, <2>1, <2>2
<1>3. cnt = which + 1
  BY <1>1, <1>2
<1> QED
  BY <1>1, <1>3

LEMMA ArrivesIInv == ASSUME IInv, PacketArrives PROVE IInv'
<1> DEFINE g == mm_get(pool)
           cnt == IF which = 0 THEN 1 ELSE pkt_cnt + 1
<1>1. CASE g.ret = NoChunk
  <2>1. /\ pc' = "killed" /\ UNCHANGED <<pvars, mvars, action>>
        /\ late' = IF busy THEN late + 1 ELSE late
        /\ (busy => late < MaxLate) /\ busy' = TRUE
        /\ timer' = IF timer = "once" THEN "off" ELSE timer
    BY <1>1 DEF PacketArrives, Tick
  <2>2. TypeOK'
    BY <2>1 DEF IInv, TypeOK, pvars, mvars, PoolType
  <2> QED
    BY <2>1, <2>2 DEF IInv, ChunksHold, Running, Assembled, WholeIfInTime, pvars
<1>2. CASE g.ret # NoChunk
  <2>0. /\ pool' = g.mm
        /\ blocks' = [blocks EXCEPT ![g.ret] = which]
        /\ message' = [message EXCEPT !.data[which] = g.ret, !.num_packets = cnt]
        /\ pkt_cnt' = cnt /\ pkt_total' = HowMany
        /\ which' = (which + 1) % HowMany
        /\ pc' = (IF pc = "paused" THEN "test" ELSE pc)
        /\ action = "handler"
        /\ UNCHANGED <<i, MSG, action>>
    BY <1>2 DEF PacketArrives, mvars
  <2>1. /\ late' = (IF busy THEN late + 1 ELSE late)
        /\ (busy => late < MaxLate) /\ busy' = TRUE
        /\ timer' = (IF timer = "once" THEN "off" ELSE timer)
        /\ pc \notin {"done", "killed"}
    BY DEF PacketArrives, Tick
  <2>2. /\ g.ret \in Chunk /\ ~ pool.allocated[g.ret] /\ g.mm \in PoolType
        /\ g.mm.allocated = [pool.allocated EXCEPT ![g.ret] = TRUE]
    BY <1>2, GetOK DEF IInv, TypeOK
  <2>3. /\ cnt = which + 1 /\ cnt \in 1 .. HowMany
        /\ which' \in Which /\ which' = cnt % HowMany
    BY <2>0, CountOK DEF IInv
  <2>4. pc \in {"test", "nap", "paused", "disarm", "restore"}
    BY <2>0, <2>1 DEF IInv, TypeOK, Assembled
  <2> HIDE DEF g, cnt
  <2>5. /\ message'.num_packets = cnt
        /\ message'.data = [message.data EXCEPT ![which] = g.ret]
        /\ message' \in [num_packets : 0 .. HowMany,
                         data : [Which -> Chunk \cup {Junk}]]
    <3> DEFINE data == [message.data EXCEPT ![which] = g.ret]
    <3>1. /\ message.data \in [Which -> Chunk \cup {Junk}] /\ which \in Which
          /\ message \in [num_packets : 0 .. HowMany,
                          data : [Which -> Chunk \cup {Junk}]]
      BY DEF IInv, TypeOK
    <3>2. data \in [Which -> Chunk \cup {Junk}]
      BY <2>2, <3>1
    <3>3. message' = [num_packets |-> cnt, data |-> data]
      BY <2>0, <3>1
    <3> HIDE DEF data
    <3>4. message'.num_packets = cnt /\ message'.data = data
      BY <3>3
    <3>5. message' \in [num_packets : 0 .. HowMany,
                        data : [Which -> Chunk \cup {Junk}]]
      BY <3>2, <3>3, <2>3
    <3> QED
      BY <3>4, <3>5 DEF data
  <2>6. TypeOK'
    <3>1. pool' \in PoolType /\ blocks' \in [Chunk -> Which \cup {Zero, Junk}]
      BY <2>0, <2>2 DEF IInv, TypeOK
    <3>2. busy' \in BOOLEAN /\ late' \in 0 .. MaxLate /\ timer' \in {"periodic", "once", "off"}
      BY <2>1 DEF IInv, TypeOK
    <3>3. i' \in 0 .. HowMany /\ action' \in {"handler", "default"}
      BY <2>0 DEF IInv, TypeOK
    <3>4. pkt_cnt' \in 0 .. HowMany /\ pkt_total' \in {1, HowMany} /\ which' = pkt_cnt' % HowMany
      BY <2>0, <2>3
    <3>5. pc' \in {"test", "nap", "paused", "disarm", "restore"}
      BY <2>0, <2>4
    <3> QED
      BY <2>0, <2>3, <2>5, <3>1, <3>2, <3>3, <3>4, <3>5 DEF TypeOK
  <2>7. ChunksHold'
    <3>1. i = 0 /\ pc # "wipe" /\ pc' # "wipe" /\ i' = 0
      BY <2>0, <2>4 DEF IInv, Assembled
    <3>2. which \in Which /\ message.data \in [Which -> Chunk \cup {Junk}]
      BY DEF IInv, TypeOK
    <3>3. ASSUME NEW w \in Which, message'.data[w] # Junk
          PROVE  /\ message'.data[w] \in Chunk /\ pool'.allocated[message'.data[w]]
                 /\ blocks'[message'.data[w]] = w
      <4>1. CASE w = which
        <5>1. message'.data[w] = g.ret
          BY <4>1, <2>5, <3>2
        <5> QED
          BY <5>1, <4>1, <2>0, <2>2 DEF IInv, TypeOK, PoolType
      <4>2. CASE w # which
        <5>1. message'.data[w] = message.data[w]
          BY <4>2, <2>5, <3>2
        <5>2. w \in Held
          BY <5>1, <3>1, <3>3 DEF Held
        <5>3. /\ message.data[w] \in Chunk /\ pool.allocated[message.data[w]]
              /\ blocks[message.data[w]] = w
          BY <5>2, <2>1 DEF IInv, ChunksHold, Running
        <5>4. message.data[w] # g.ret
          BY <5>3, <2>2
        <5> QED
          BY <5>1, <5>3, <5>4, <2>0, <2>2 DEF IInv, TypeOK, PoolType
      <4> QED
        BY <4>1, <4>2
    <3>4. ASSUME NEW w \in Which, w < pkt_cnt'
          PROVE  message'.data[w] # Junk
      <4>1. CASE w = which
        <5>1. message'.data[w] = g.ret /\ g.ret \in Int
          BY <4>1, <2>2, <2>5, <3>2
        <5> QED
          BY <5>1, ContentsDiffer
      <4>2. CASE w # which
        <5>1. w < which
          BY <4>2, <3>4, <2>0, <2>3, <3>2
        <5>2. w < pkt_cnt
          <6>1. which = pkt_cnt % HowMany /\ pkt_cnt \in 0 .. HowMany
            BY DEF IInv, TypeOK
          <6>2. pkt_cnt < HowMany => pkt_cnt % HowMany = pkt_cnt
            BY <6>1
          <6> QED
            BY <5>1, <6>1, <6>2, <3>2
        <5>3. message.data[w] # Junk
          BY <5>2, <2>1 DEF IInv, ChunksHold, Running
        <5> QED
          BY <4>2, <5>3, <2>5, <3>2
      <4> QED
        BY <4>1, <4>2
    <3> QED
      BY <3>3, <3>4 DEF ChunksHold, Held
  <2>8. Assembled'
    BY <2>0, <2>4 DEF IInv, Assembled
  <2>9. WholeIfInTime'
    <3>1. pc' \in {"disarm", "restore"} => late' > 0
      BY <2>0, <2>1 DEF IInv, TypeOK, WholeIfInTime
    <3> QED
      BY <3>1, <2>0, <2>1, <2>4 DEF WholeIfInTime
  <2> QED
    BY <2>6, <2>7, <2>8, <2>9 DEF IInv
<1> QED
  BY <1>1, <1>2

LEMMA TickKillsIInv == ASSUME IInv, TickKills PROVE IInv'
<1>1. /\ pc' = "killed" /\ UNCHANGED <<pvars, mvars, action>>
      /\ late' = (IF busy THEN late + 1 ELSE late)
      /\ (busy => late < MaxLate) /\ busy' = TRUE
      /\ timer' = (IF timer = "once" THEN "off" ELSE timer)
  BY DEF TickKills, Tick
<1>2. TypeOK'
  BY <1>1 DEF IInv, TypeOK, pvars, mvars, PoolType
<1> QED
  BY <1>1, <1>2 DEF IInv, ChunksHold, Running, Assembled, WholeIfInTime, pvars

-----------------------------------------------------------------------------
\* The steps of main that touch no chunk.
LEMMA CalmIInv ==
    ASSUME IInv, UNCHANGED <<pvars, mvars>>,
           pc \notin {"wipe", "done", "killed"}, pc' \notin {"wipe", "done", "killed", "release"},
           pc # "release"
    PROVE  ChunksHold'
<1>1. Held' = Held
  BY DEF Held, pvars, mvars
<1> QED
  BY <1>1 DEF IInv, ChunksHold, Running, pvars, mvars

LEMMA LoopIInv == ASSUME IInv, Loop PROVE IInv'
<1>1. /\ pc = "test" /\ pc' = (IF pkt_cnt < pkt_total THEN "nap" ELSE "disarm")
      /\ UNCHANGED <<pvars, mvars, tvars, action>>
  BY DEF Loop
<1>2. TypeOK'
  BY <1>1 DEF IInv, TypeOK, pvars, mvars, tvars, PoolType
<1>3. ChunksHold'
  BY <1>1, CalmIInv
<1>4. Assembled'
  BY <1>1 DEF IInv, Assembled, pvars, mvars
<1>5. WholeIfInTime'
  BY <1>1 DEF IInv, TypeOK, WholeIfInTime, pvars, tvars
<1> QED
  BY <1>2, <1>3, <1>4, <1>5 DEF IInv

LEMMA PauseIInv == ASSUME IInv, Pause PROVE IInv'
<1>1. /\ pc = "nap" /\ pc' = "paused" /\ busy' = FALSE
      /\ UNCHANGED <<pvars, mvars, timer, late, action>>
  BY DEF Pause
<1>2. TypeOK'
  BY <1>1 DEF IInv, TypeOK, pvars, mvars, PoolType
<1>3. ChunksHold'
  BY <1>1, CalmIInv
<1>4. Assembled' /\ WholeIfInTime'
  BY <1>1 DEF IInv, Assembled, WholeIfInTime, pvars, mvars
<1> QED
  BY <1>2, <1>3, <1>4 DEF IInv

LEMMA DisarmIInv == ASSUME IInv, Disarm PROVE IInv'
<1>1. /\ pc = "disarm" /\ pc' = "restore" /\ timer' = "once"
      /\ UNCHANGED <<pvars, mvars, busy, late, action>>
  BY DEF Disarm
<1>2. TypeOK'
  BY <1>1 DEF IInv, TypeOK, pvars, mvars, PoolType
<1>3. ChunksHold'
  BY <1>1, CalmIInv
<1>4. Assembled' /\ WholeIfInTime'
  BY <1>1 DEF IInv, Assembled, WholeIfInTime, pvars, mvars
<1> QED
  BY <1>2, <1>3, <1>4 DEF IInv

LEMMA RestoreIInv == ASSUME IInv, Restore PROVE IInv'
<1>1. /\ pc = "restore" /\ pc' = "copy" /\ action' = "default"
      /\ UNCHANGED <<pvars, mvars, tvars>>
  BY DEF Restore
<1>2. TypeOK'
  BY <1>1 DEF IInv, TypeOK, pvars, mvars, tvars, PoolType
<1>3. ChunksHold'
  BY <1>1, CalmIInv
<1>4. FirstPackets(0) = << >>
  BY DEF FirstPackets
<1>5. Assembled' /\ WholeIfInTime'
  BY <1>1, <1>4 DEF IInv, TypeOK, Assembled, WholeIfInTime, pvars, mvars, tvars
<1> QED
  BY <1>2, <1>3, <1>5 DEF IInv

\* The packet that is copied has its chunk, and no later packet has it too.
LEMMA CopyIInv == ASSUME IInv, Copy PROVE IInv'
<1> DEFINE c == message.data[i]
<1>1. /\ pc = "copy" /\ i < message.num_packets /\ pc' = "wipe"
      /\ MSG' = Append(MSG, blocks[c]) /\ pool' = mm_put(pool, c)
      /\ UNCHANGED <<blocks, message, pkt_cnt, pkt_total, which, i, tvars, action>>
  BY DEF Copy
<1>2. i \in Which /\ i < pkt_cnt /\ message.data \in [Which -> Chunk \cup {Junk}]
  BY <1>1 DEF IInv, TypeOK
<1>3. i \in Held
  BY <1>1, <1>2 DEF IInv, ChunksHold, Running, Held
<1>4. c \in Chunk /\ blocks[c] = i
  BY <1>1, <1>3 DEF IInv, ChunksHold, Running
<1>5. pool' \in PoolType /\ pool'.allocated = [pool.allocated EXCEPT ![c] = FALSE]
  BY <1>1, <1>4, PutOK DEF IInv, TypeOK
<1>6. TypeOK'
  BY <1>1, <1>5 DEF IInv, TypeOK, tvars
<1>7. ChunksHold'
  <2>1. ASSUME NEW w \in Held'
        PROVE  w \in Held /\ w # i
    BY <1>1, <1>2, <2>1 DEF Held
  <2>2. ASSUME NEW w \in Held'
        PROVE  message.data[w] \in Chunk /\ message.data[w] # c
               /\ pool'.allocated[message.data[w]] /\ blocks[message.data[w]] = w
    <3>1. /\ message.data[w] \in Chunk /\ pool.allocated[message.data[w]]
          /\ blocks[message.data[w]] = w /\ w # i
      BY <1>1, <2>1, <2>2 DEF IInv, ChunksHold, Running
    <3>2. message.data[w] # c
      BY <3>1, <1>4
    <3> QED
      BY <3>1, <3>2, <1>4, <1>5 DEF IInv, TypeOK, PoolType
  <2> QED
    BY <2>2, <1>1 DEF IInv, ChunksHold, Running
<1>8. Assembled'
  <2>1. MSG' = FirstPackets(i + 1)
    BY <1>1, <1>2, <1>4, Numbered DEF IInv, Assembled
  <2> QED
    BY <2>1, <1>1, <1>2, <1>4 DEF IInv, Assembled
<1>9. WholeIfInTime'
  BY <1>1 DEF IInv, WholeIfInTime, tvars
<1> QED
  BY <1>6, <1>7, <1>8, <1>9 DEF IInv

\* The chunk that is cleared is that of the packet that has been copied.
LEMMA WipeIInv == ASSUME IInv, Wipe PROVE IInv'
<1> DEFINE c == message.data[i]
<1>1. /\ pc = "wipe" /\ pc' = "copy" /\ blocks' = [blocks EXCEPT ![c] = Zero]
      /\ i' = i + 1
      /\ UNCHANGED <<pool, message, pkt_cnt, pkt_total, which, MSG, tvars, action>>
  BY DEF Wipe
<1>2. i \in Which /\ i < pkt_cnt /\ blocks \in [Chunk -> Which \cup {Zero, Junk}]
  BY <1>1 DEF IInv, TypeOK, Assembled
<1>3. TypeOK'
  <2>0. blocks' \in [Chunk -> Which \cup {Zero, Junk}]
    BY <1>1, <1>2
  <2>1. i' \in 0 .. HowMany
    BY <1>1, <1>2
  <2>2. pool' \in PoolType
    BY <1>1 DEF IInv, TypeOK, PoolType
  <2> QED
    BY <2>0, <2>1, <2>2, <1>1 DEF IInv, TypeOK, tvars
<1>4. ChunksHold'
  <2>1. Held' = Held
    BY <1>1, <1>2 DEF Held
  <2>2. ASSUME NEW w \in Held
        PROVE  message.data[w] # c
    BY <2>2, <1>1 DEF Held, IInv, ChunksHold, Running, Assembled
  <2> QED
    BY <2>1, <2>2, <1>1, <1>2 DEF IInv, ChunksHold, Running
<1>5. Assembled'
  <2>1. i + 1 <= pkt_cnt
    BY <1>2 DEF IInv, TypeOK
  <2> QED
    BY <2>1, <1>1 DEF IInv, Assembled
<1>6. WholeIfInTime'
  BY <1>1 DEF IInv, WholeIfInTime, tvars
<1> QED
  BY <1>3, <1>4, <1>5, <1>6 DEF IInv

\* The message that is put out is what has been assembled.
LEMMA PutOutIInv == ASSUME IInv, PutOut PROVE IInv'
<1>1. /\ pc = "copy" /\ i = message.num_packets /\ pc' = "release"
      /\ message' = [message EXCEPT !.num_packets = 0]
      /\ UNCHANGED <<pool, blocks, pkt_cnt, pkt_total, which, mvars, tvars, action>>
  BY DEF PutOut
<1>2. message \in [num_packets : 0 .. HowMany, data : [Which -> Chunk \cup {Junk}]]
  BY DEF IInv, TypeOK
<1>3. message' \in [num_packets : 0 .. HowMany, data : [Which -> Chunk \cup {Junk}]]
      /\ message'.data = message.data
  BY <1>1, <1>2
<1>4. pool' \in PoolType
  BY <1>1 DEF IInv, TypeOK
<1>5. TypeOK'
  BY <1>1, <1>3, <1>4 DEF IInv, TypeOK, tvars, mvars
<1>6. ChunksHold'
  <2>1. Held' = Held
    BY <1>1, <1>3 DEF Held, mvars
  <2> QED
    BY <2>1, <1>1, <1>3 DEF IInv, ChunksHold, Running
<1>7. Assembled' /\ WholeIfInTime'
  <2>1. i = pkt_cnt
    BY <1>1 DEF IInv, TypeOK
  <2> QED
    BY <2>1, <1>1 DEF IInv, Assembled, WholeIfInTime, mvars, tvars
<1> QED
  BY <1>5, <1>6, <1>7 DEF IInv

LEMMA ReleaseIInv == ASSUME IInv, Release PROVE IInv'
<1>1. /\ pc = "release" /\ pc' = "done"
      /\ pool' = mm_release /\ blocks' = [s \in Chunk |-> Junk]
      /\ UNCHANGED <<message, pkt_cnt, pkt_total, which, mvars, tvars, action>>
  BY DEF Release
<1>2. pool' \in PoolType /\ blocks' \in [Chunk -> Which \cup {Zero, Junk}]
  <2> DEFINE none == [s \in Chunk |-> FALSE]
  <2>1. mm_init = [allocated |-> none, last_allocated |-> -1]
    BY DEF mm_init
  <2>2. none \in [Chunk -> BOOLEAN] /\ 0 \in Chunk
    OBVIOUS
  <2> HIDE DEF none
  <2>3. mm_release = [allocated |-> none, last_allocated |-> 0]
    BY <2>1 DEF mm_release
  <2>4. pool' \in PoolType
    BY <1>1, <2>2, <2>3 DEF PoolType
  <2> QED
    BY <1>1, <2>4
<1>3. TypeOK'
  BY <1>1, <1>2 DEF IInv, TypeOK, mvars, tvars
<1>4. ChunksHold' /\ Assembled' /\ WholeIfInTime'
  BY <1>1 DEF IInv, ChunksHold, Running, Assembled, WholeIfInTime, mvars, tvars
<1> QED
  BY <1>3, <1>4 DEF IInv

LEMMA NextIInv == IInv /\ [Next]_vars => IInv'
<1> SUFFICES ASSUME IInv, [Next]_vars
             PROVE  IInv'
  OBVIOUS
<1>1. CASE Alarm
  BY <1>1, ArrivesIInv, TickKillsIInv DEF Alarm
<1>2. CASE Main
  BY <1>2, LoopIInv, PauseIInv, DisarmIInv, RestoreIInv, CopyIInv, WipeIInv,
     PutOutIInv, ReleaseIInv DEF Main
<1>3. CASE UNCHANGED vars
  <2>1. UNCHANGED <<pool, blocks, message, pkt_cnt, pkt_total, which, i, MSG,
                    timer, busy, late, action, pc>>
    BY <1>3 DEF vars, pvars, mvars, tvars
  <2>2. TypeOK'
    BY <2>1 DEF IInv, TypeOK, PoolType
  <2>3. Held' = Held
    BY <2>1 DEF Held
  <2>4. ChunksHold' /\ Assembled' /\ WholeIfInTime'
    BY <2>1, <2>3 DEF IInv, ChunksHold, Running, Assembled, WholeIfInTime
  <2> QED
    BY <2>2, <2>4 DEF IInv
<1> QED
  BY <1>1, <1>2, <1>3 DEF Next

LEMMA IInvOutput == IInv => OutputPrefix
<1> SUFFICES ASSUME IInv, pc \in {"release", "done"}
             PROVE  /\ MSG = [k \in 1 .. Len(MSG) |-> k - 1]
                    /\ Len(MSG) = HowMany \/ late > 0
  BY DEF OutputPrefix
<1>1. MSG = FirstPackets(pkt_cnt) /\ pkt_cnt \in Nat
  BY DEF IInv, TypeOK, Assembled
<1>2. Len(MSG) = pkt_cnt
  BY <1>1, Numbered
<1>3. pkt_cnt = HowMany \/ late > 0
  BY DEF IInv, WholeIfInTime
<1> QED
  BY <1>1, <1>2, <1>3 DEF FirstPackets

-----------------------------------------------------------------------------
(***************************************************************************)
(* Chunks that no packet has any more.                                     *)
(***************************************************************************)
Lost == Allocated(pool) \ {message.data[w] : w \in Held}

Collecting == pc \in {"test", "nap", "paused"}

\* The first packets of the first message.
FirstLap ==
    Lost = {} /\ \A w \in Which : w >= pkt_cnt => message.data[w] = Junk

\* A tick that finds main busy pays for the chunks of one message, and it has
\* paid for the rest of a message that is stored over another one.
Paid ==
    /\ pc \in {"test", "nap"} => busy
    /\ Running => Cardinality(Lost) <= HowMany * late
    /\ Collecting /\ pkt_cnt = HowMany =>
           pc = "test" \/ Cardinality(Lost) + HowMany <= HowMany * late
    /\ Collecting /\ pkt_cnt < HowMany =>
           FirstLap \/ Cardinality(Lost) + (HowMany - pkt_cnt) <= HowMany * late

LEMMA LostFinite ==
    /\ IsFiniteSet(Lost) /\ Cardinality(Lost) \in Nat
    /\ \A S \in SUBSET Lost : IsFiniteSet(S) /\ Cardinality(S) <= Cardinality(Lost)
<1>1. IsFiniteSet(Chunk)
  BY FS_Interval
<1>2. Lost \in SUBSET Chunk
  BY DEF Lost, Allocated
<1>3. IsFiniteSet(Lost)
  BY <1>1, <1>2, FS_Subset
<1> QED
  BY <1>3, FS_CardinalityType, FS_Subset

LEMMA FewerLost ==
    ASSUME Lost' \subseteq Lost
    PROVE  Cardinality(Lost') <= Cardinality(Lost) /\ Cardinality(Lost') \in Nat
<1> DEFINE S == Lost'
<1>1. S \in SUBSET Lost
  OBVIOUS
<1> HIDE DEF S
<1>2. IsFiniteSet(S) /\ Cardinality(S) <= Cardinality(Lost)
  BY <1>1, LostFinite
<1>3. Cardinality(S) \in Nat
  BY <1>2, FS_CardinalityType
<1> QED
  BY <1>2, <1>3 DEF S

LEMMA OneMoreLost ==
    ASSUME NEW c, Lost' \subseteq Lost \cup {c}
    PROVE  Cardinality(Lost') <= Cardinality(Lost) + 1 /\ Cardinality(Lost') \in Nat
<1> DEFINE S == Lost'
           T == Lost \cup {c}
<1>1. IsFiniteSet(T) /\ Cardinality(T) <= Cardinality(Lost) + 1 /\ Cardinality(T) \in Nat
  <2>1. /\ IsFiniteSet(T)
        /\ Cardinality(T) = IF c \in Lost THEN Cardinality(Lost)
                                          ELSE Cardinality(Lost) + 1
    BY LostFinite, FS_AddElement
  <2> QED
    BY <2>1, LostFinite
<1>2. S \in SUBSET T
  OBVIOUS
<1> HIDE DEF S, T
<1>3. IsFiniteSet(S) /\ Cardinality(S) <= Cardinality(T)
  BY <1>1, <1>2, FS_Subset
<1>4. Cardinality(S) \in Nat
  BY <1>3, FS_CardinalityType
<1> QED
  BY <1>1, <1>3, <1>4, LostFinite DEF S

\* The handler takes one chunk, and one may become nobody's: that of the
\* packet whose place the new one takes.
LEMMA ArrivesLost ==
    ASSUME IInv, PacketArrives, pc' # "killed"
    PROVE  /\ Lost' \subseteq Lost \cup {message.data[which]}
           /\ message.data[which] = Junk => Lost' \subseteq Lost
           /\ \A w \in Which \ {which} : message'.data[w] = message.data[w]
           /\ pkt_cnt' = (IF which = 0 THEN 1 ELSE pkt_cnt + 1)
           /\ pc' = (IF pc = "paused" THEN "test" ELSE pc)
<1> DEFINE r == mm_get(pool).ret
<1>1. r # NoChunk
  BY DEF PacketArrives
<1>2. /\ r \in Chunk /\ pool'.allocated = [pool.allocated EXCEPT ![r] = TRUE]
      /\ pool.allocated \in [Chunk -> BOOLEAN]
  BY <1>1, GetOK DEF PacketArrives, IInv, TypeOK, PoolType
<1>3. /\ message'.data = [message.data EXCEPT ![which] = r]
      /\ pkt_cnt' = (IF which = 0 THEN 1 ELSE pkt_cnt + 1)
      /\ pc' = (IF pc = "paused" THEN "test" ELSE pc)
      /\ action = "handler" /\ i' = i
  BY <1>1 DEF PacketArrives, mvars, IInv, TypeOK
<1>4. which \in Which /\ message.data \in [Which -> Chunk \cup {Junk}]
  BY DEF IInv, TypeOK
<1> HIDE DEF r
<1>5. message'.data[which] = r /\ \A w \in Which \ {which} : message'.data[w] = message.data[w]
  BY <1>3, <1>4
<1>6. i = 0 /\ pc # "wipe" /\ pc' # "wipe" /\ i' = 0
  BY <1>3 DEF IInv, Assembled, PacketArrives, Tick, TypeOK
<1>7. which \in Held'
  <2>1. Held' = {w \in Which : message'.data[w] # Junk /\ w >= 0}
    BY <1>6 DEF Held
  <2>2. which >= 0
    BY <1>4, NumbersAssumption DEF Which
  <2>3. r # Junk
    <3>1. r \in Int
      BY <1>2, ChunksAssumption DEF Chunk
    <3> QED
      BY <3>1, ContentsDiffer
  <2> QED
    BY <1>4, <1>5, <2>1, <2>2, <2>3
<1>8. \A w \in Held : w # which => w \in Held'
  BY <1>5, <1>6 DEF Held
<1>9. ASSUME NEW c \in Lost', c \notin Lost
      PROVE  c = message.data[which] /\ c # Junk
  <2>1. c \in Chunk /\ pool'.allocated[c] /\ \A w \in Held' : c # message'.data[w]
    BY <1>9 DEF Lost, Allocated
  <2>2. c # r
    BY <1>5, <1>7, <2>1
  <2>3. pool.allocated[c]
    BY <1>2, <2>1, <2>2
  <2>4. PICK w \in Held : c = message.data[w]
    BY <1>9, <2>1, <2>3 DEF Lost, Allocated
  <2>5. w \in Which /\ message.data[w] # Junk
    BY DEF Held
  <2>6. w = which
    BY <1>5, <1>8, <2>1, <2>4, <2>5
  <2> QED
    BY <2>4, <2>5, <2>6
<1> QED
  BY <1>3, <1>5, <1>9

\* One tick more pays for one message more.
LEMMA Credit ==
    ASSUME TypeOK
    PROVE  /\ HowMany * late \in Nat
           /\ HowMany * (late + 1) = HowMany * late + HowMany
  BY DEF TypeOK

LEMMA ArrivesPaid == ASSUME IInv, Paid, PacketArrives PROVE Paid'
<1>1. /\ late' = IF busy THEN late + 1 ELSE late
      /\ busy' = TRUE /\ pc \notin {"done", "killed"} /\ action = "handler"
  BY DEF PacketArrives, Tick
<1>2. pc \in {"test", "nap", "paused", "disarm", "restore"}
  BY <1>1 DEF IInv, TypeOK, Assembled
<1>3. CASE pc' = "killed"
  BY <1>1, <1>3 DEF Paid, Running, Collecting
<1>4. CASE pc' # "killed"
  <2> DEFINE old == Cardinality(Lost)
             new == Cardinality(Lost')
             paid == HowMany * late
             paid2 == HowMany * late'
  <2>1. /\ Lost' \subseteq Lost \cup {message.data[which]}
        /\ message.data[which] = Junk => Lost' \subseteq Lost
        /\ \A w \in Which \ {which} : message'.data[w] = message.data[w]
        /\ pkt_cnt' = (IF which = 0 THEN 1 ELSE pkt_cnt + 1)
        /\ pc' = (IF pc = "paused" THEN "test" ELSE pc)
    BY <1>4, ArrivesLost
  <2>2. /\ new \in Nat /\ old \in Nat /\ new <= old + 1
        /\ FirstLap /\ message.data[which] = Junk => new = 0 /\ Lost' = {}
    <3>1. FirstLap /\ message.data[which] = Junk => Lost' = {}
      BY <2>1 DEF FirstLap
    <3> QED
      BY <2>1, <3>1, OneMoreLost, LostFinite, FS_EmptySet
  <2>3. /\ paid \in Nat /\ paid2 \in Nat
        /\ busy => paid2 = paid + HowMany
        /\ ~ busy => paid2 = paid /\ pc = "paused"
    BY <1>1, <1>2, Credit DEF IInv, TypeOK, Paid, WholeIfInTime
  <2>4. /\ pkt_cnt \in 0 .. HowMany /\ which \in Which
        /\ pkt_cnt < HowMany => which = pkt_cnt /\ pkt_cnt' = pkt_cnt + 1
        /\ pkt_cnt = HowMany => which = 0 /\ pkt_cnt' = 1
    <3>1. pkt_cnt \in 0 .. HowMany /\ which \in Which /\ which = pkt_cnt % HowMany
      BY DEF IInv, TypeOK
    <3>2. HowMany % HowMany = 0 /\ (pkt_cnt < HowMany => pkt_cnt % HowMany = pkt_cnt)
      BY <3>1
    <3> QED
      BY <2>1, <3>1, <3>2
  <2>5. FirstLap /\ pkt_cnt < HowMany => /\ message.data[which] = Junk
                                         /\ new = 0 /\ Lost' = {}
    BY <2>2, <2>4 DEF FirstLap
  <2>6. /\ old <= paid
        /\ Collecting /\ pkt_cnt = HowMany => pc = "test" \/ old + HowMany <= paid
        /\ Collecting /\ pkt_cnt < HowMany =>
              FirstLap \/ old + (HowMany - pkt_cnt) <= paid
    BY <1>1 DEF Paid, Running
  <2> HIDE DEF old, new, paid, paid2
  <2>7. new <= paid2
    <3>1. CASE busy
      BY <2>2, <2>3, <2>6, <3>1
    <3>2. CASE ~ busy
      <4>1. Collecting /\ pc # "test"
        BY <2>3, <3>2 DEF Collecting
      <4> QED
        BY <2>2, <2>3, <2>4, <2>5, <2>6, <3>2, <4>1
    <3> QED
      BY <3>1, <3>2
  <2>8. ASSUME Collecting', pkt_cnt' = HowMany, pc' # "test"
        PROVE  new + HowMany <= paid2
    <3>1. pc = "nap" /\ Collecting
      BY <1>2, <2>1, <2>8 DEF Collecting
    <3>2. paid2 = paid + HowMany
      BY <2>3, <3>1
    <3>3. new <= paid
      BY <2>2, <2>3, <2>4, <2>5, <2>6, <2>8, <3>1
    <3> QED
      BY <2>2, <2>3, <3>2, <3>3
  <2>9. ASSUME Collecting', pkt_cnt' < HowMany
        PROVE  FirstLap' \/ new + (HowMany - pkt_cnt') <= paid2
    <3>0. Collecting
      BY <1>2, <2>1, <2>9 DEF Collecting
    <3>1. CASE pkt_cnt < HowMany /\ FirstLap
      <4>1. \A w \in Which : w >= pkt_cnt' => message'.data[w] = Junk
        BY <2>1, <2>4, <3>1 DEF FirstLap
      <4> QED
        BY <2>5, <3>1, <4>1 DEF FirstLap
    <3>2. CASE pkt_cnt < HowMany /\ ~ FirstLap
      <4>1. old + (HowMany - pkt_cnt) <= paid
        BY <2>6, <3>0, <3>2
      <4>2. paid <= paid2
        BY <2>3
      <4> QED
        BY <2>2, <2>3, <2>4, <3>2, <4>1, <4>2
    <3>3. CASE pkt_cnt = HowMany
      <4>1. CASE pc = "test"
        <5>1. paid2 = paid + HowMany
          BY <2>3, <4>1
        <5> QED
          BY <2>2, <2>3, <2>4, <2>6, <3>3, <5>1
      <4>2. CASE pc # "test"
        <5>1. old + HowMany <= paid /\ paid <= paid2
          BY <2>3, <2>6, <3>0, <3>3, <4>2
        <5> QED
          BY <2>2, <2>3, <2>4, <3>3, <5>1
      <4> QED
        BY <4>1, <4>2
    <3> QED
      BY <2>4, <3>1, <3>2, <3>3
  <2> QED
    BY <1>1, <2>7, <2>8, <2>9 DEF Paid, new, paid2
<1> QED
  BY <1>3, <1>4

\* A step that takes no chunk and loses none.
LEMMA QuietPaid ==
    ASSUME IInv, Paid, Lost' \subseteq Lost, UNCHANGED <<pkt_cnt, late>>,
           Running,
           pc' \in {"test", "nap"} => busy',
           Collecting' => /\ Collecting /\ UNCHANGED message
                          /\ pkt_cnt = HowMany => pc # "test"
    PROVE  Paid'
<1> DEFINE old == Cardinality(Lost)
           new == Cardinality(Lost')
           paid == HowMany * late
<1>1. /\ new \in Nat /\ old \in Nat /\ new <= old /\ paid \in Nat
      /\ pkt_cnt \in 0 .. HowMany
  BY FewerLost, LostFinite, Credit DEF IInv, TypeOK
<1>2. /\ old <= paid
      /\ Collecting /\ pkt_cnt = HowMany => pc = "test" \/ old + HowMany <= paid
      /\ Collecting /\ pkt_cnt < HowMany =>
            FirstLap \/ old + (HowMany - pkt_cnt) <= paid
  BY DEF Paid
<1>3. Collecting' /\ FirstLap => FirstLap'
  BY DEF FirstLap
<1> HIDE DEF old, new, paid
<1>4. /\ new <= paid
      /\ Collecting' /\ pkt_cnt = HowMany => new + HowMany <= paid
      /\ Collecting' /\ pkt_cnt < HowMany =>
            FirstLap' \/ new + (HowMany - pkt_cnt) <= paid
  BY <1>1, <1>2, <1>3
<1> QED
  BY <1>4 DEF Paid, new, paid

LEMMA InitPaid == Init => Paid
<1> SUFFICES ASSUME Init
             PROVE  Paid
  OBVIOUS
<1>1. Lost = {}
  BY DEF Init, Lost, Allocated, mm_init
<1>2. Cardinality(Lost) = 0
  BY <1>1, FS_EmptySet
<1>3. late = 0 /\ busy /\ \A w \in Which : message.data[w] = Junk
  BY DEF Init
<1>4. FirstLap
  BY <1>1, <1>3 DEF FirstLap
<1>5. 0 <= HowMany * 0 /\ pkt_cnt = 0
  BY DEF Init
<1> QED
  BY <1>2, <1>3, <1>4, <1>5 DEF Paid

LEMMA MainPaid == ASSUME IInv, Paid, Main PROVE Paid'
<1>1. CASE Loop \/ Pause \/ Disarm \/ Restore
  <2>1. UNCHANGED <<pvars, mvars, late>> /\ pc \notin {"copy", "wipe", "done", "killed"}
        /\ pc' # "wipe"
    BY <1>1 DEF Loop, Pause, Disarm, Restore, tvars
  <2>2. Lost' = Lost /\ Running
    BY <2>1 DEF Lost, Held, Running, pvars, mvars
  <2>3. pc' \in {"test", "nap"} => busy'
    BY <1>1 DEF Loop, Pause, Disarm, Restore, tvars, Paid
  <2>4. Collecting' => Collecting /\ (pkt_cnt = HowMany => pc # "test")
    <3>1. CASE Loop
      BY <3>1 DEF Loop, Collecting, IInv, TypeOK
    <3>2. CASE Pause
      BY <3>2 DEF Pause, Collecting
    <3>3. CASE Disarm \/ Restore
      BY <3>3 DEF Disarm, Restore, Collecting
    <3> QED
      BY <1>1, <3>1, <3>2, <3>3
  <2> QED
    BY <2>1, <2>2, <2>3, <2>4, QuietPaid DEF pvars
<1>2. CASE Copy
  <2>1. /\ pc = "copy" /\ pc' = "wipe" /\ i < message.num_packets
        /\ pool' = mm_put(pool, message.data[i])
        /\ UNCHANGED <<message, pkt_cnt, late, i>>
    BY <1>2 DEF Copy, tvars
  <2>2. i \in Which /\ i \in Held
    BY <2>1 DEF IInv, TypeOK, ChunksHold, Running, Held
  <2>3. message.data[i] \in Chunk
    BY <2>1, <2>2 DEF IInv, ChunksHold, Running
  <2>4. pool'.allocated = [pool.allocated EXCEPT ![message.data[i]] = FALSE]
    BY <2>1, <2>3, PutOK DEF IInv, TypeOK
  <2>5. pool.allocated \in [Chunk -> BOOLEAN]
    BY DEF IInv, TypeOK, PoolType
  <2>6. \A w \in Held : w # i => w \in Held'
    BY <2>1, <2>2 DEF Held
  <2>7. Lost' \subseteq Lost
    <3> SUFFICES ASSUME NEW c \in Lost', c \notin Lost
                 PROVE  FALSE
      OBVIOUS
    <3>1. c \in Chunk /\ pool'.allocated[c] /\ \A w \in Held' : c # message.data[w]
      BY <2>1 DEF Lost, Allocated
    <3>2. c # message.data[i] /\ pool.allocated[c]
      BY <2>3, <2>4, <2>5, <3>1
    <3>3. PICK w \in Held : c = message.data[w]
      BY <3>1, <3>2 DEF Lost, Allocated
    <3> QED
      BY <2>6, <3>1, <3>2, <3>3
  <2> QED
    BY <2>1, <2>7, QuietPaid DEF Running, Collecting
<1>3. CASE Wipe
  <2>1. /\ pc = "wipe" /\ pc' = "copy" /\ i' = i + 1
        /\ UNCHANGED <<pool, message, pkt_cnt, late>>
    BY <1>3 DEF Wipe, tvars
  <2>2. Held' = Held
    BY <2>1 DEF Held
  <2>3. Lost' = Lost
    BY <2>1, <2>2 DEF Lost
  <2> QED
    BY <2>1, <2>3, QuietPaid DEF Running, Collecting
<1>4. CASE PutOut
  <2>1. /\ pc = "copy" /\ pc' = "release" /\ message'.data = message.data
        /\ UNCHANGED <<pool, i, pkt_cnt, late>>
    BY <1>4 DEF PutOut, tvars, mvars, IInv, TypeOK
  <2>2. Held' = Held
    BY <2>1 DEF Held
  <2>3. Lost' = Lost
    BY <2>1, <2>2 DEF Lost
  <2> QED
    BY <2>1, <2>3, QuietPaid DEF Running, Collecting
<1>5. CASE Release
  BY <1>5 DEF Release, Paid, Running, Collecting
<1> QED
  BY <1>1, <1>2, <1>3, <1>4, <1>5 DEF Main

LEMMA NextPaid == ASSUME IInv, Paid, [Next]_vars PROVE Paid'
<1>1. CASE PacketArrives
  BY <1>1, ArrivesPaid
<1>2. CASE TickKills
  BY <1>2 DEF TickKills, Tick, Paid, Running, Collecting
<1>3. CASE Main
  BY <1>3, MainPaid
<1>4. CASE UNCHANGED vars
  <2>1. UNCHANGED <<pool, message, i, pc, pkt_cnt, late, busy>>
    BY <1>4 DEF vars, pvars, mvars, tvars
  <2>2. Lost' = Lost
    BY <2>1 DEF Lost, Held
  <2> QED
    BY <2>1, <2>2 DEF Paid, Running, Collecting, FirstLap
<1> QED
  BY <1>1, <1>2, <1>3, <1>4 DEF Next, Alarm

LEMMA PaidAccounts == ASSUME IInv, Paid PROVE ChunksAccounted
<1> SUFFICES ASSUME pc \notin {"done", "killed"}
             PROVE  /\ {message.data[w] : w \in Held} \subseteq Allocated(pool)
                    /\ \A w \in Held : blocks[message.data[w]] = w
                    /\ Cardinality(Allocated(pool) \ {message.data[w] : w \in Held})
                          <= HowMany * late
  BY DEF ChunksAccounted
<1>1. \A w \in Held : /\ message.data[w] \in Chunk
                      /\ pool.allocated[message.data[w]]
                      /\ blocks[message.data[w]] = w
  BY DEF IInv, ChunksHold, Running
<1>2. Cardinality(Lost) <= HowMany * late
  BY DEF Paid, Running
<1> QED
  BY <1>1, <1>2 DEF Lost, Allocated

-----------------------------------------------------------------------------
\* For every number of packets and chunks, and ticks at any time:

\* the counters of the handler agree with the structure it fills until the
\* message is put out;
THEOREM TypeCorrect == Spec => []TypeOK
<1>1. Init => IInv
  BY InitIInv
<1>2. IInv /\ [Next]_vars => IInv'
  BY NextIInv
<1>3. IInv => TypeOK
  BY DEF IInv
<1> QED
  BY <1>1, <1>2, <1>3, PTL DEF Spec

\* and what is put out is packets in their order, all of them unless a tick
\* came late (packet_public.c's assembly of what the handler has stored).
THEOREM OutputInOrder == Spec => []OutputPrefix
<1>1. Init => IInv
  BY InitIInv
<1>2. IInv /\ [Next]_vars => IInv'
  BY NextIInv
<1>3. IInv => OutputPrefix
  BY IInvOutput
<1> QED
  BY <1>1, <1>2, <1>3, PTL DEF Spec

\* A packet has its chunk until it is copied; the chunks that are lost to
\* messages that came too early are a message's worth for each tick that
\* found main busy, at most.
THEOREM ChunksAreAccounted == Spec => []ChunksAccounted
<1>1. Init => IInv /\ Paid
  BY InitIInv, InitPaid
<1>2. IInv /\ Paid /\ [Next]_vars => (IInv /\ Paid)'
  BY NextIInv, NextPaid
<1>3. IInv /\ Paid => ChunksAccounted
  BY PaidAccounts
<1> QED
  BY <1>1, <1>2, <1>3, PTL DEF Spec
=============================================================================
