--------------------------- MODULE PacketsProofs ---------------------------
(***************************************************************************)
(* Proofs about Packets for every pool, however often main is late, and    *)
(* for as many packets in a message as there are messages, which is what   *)
(* get_packet says of them.                                                *)
(***************************************************************************)
EXTENDS Packets, WellFoundedInduction, TLAPS

USE ChunksAssumption, NumbersAssumption DEF Chunk, Message, Which

\* The message and the number of the packet that comes next.
Cur == given \div NumPackets
Pos == given % NumPackets

\* The first k packets of message m.
FirstPackets(m, k) == [l \in 1 .. k |-> <<m, l - 1>>]

\* The handler's counters: messages before Cur have come, Cur has Pos.
Counted ==
    /\ Cur \in 0 .. NumMessages /\ Pos \in Which
    /\ \A m \in Message :
          /\ messages[m].how_many_arrived =
                 IF m < Cur THEN NumPackets ELSE IF m = Cur THEN Pos ELSE 0
          /\ \A w \in Which : messages[m].data[w] # Junk
                                 <=> m < Cur \/ (m = Cur /\ w < Pos)
          /\ messages[m].id \in {-1, m}
          /\ messages[m].id = m => messages[m].num_packets = NumMessages
          /\ m = Cur /\ Pos > 0 => messages[m].id = m
          /\ m = Cur /\ Pos = 0 => messages[m].id = -1
          /\ m > Cur => messages[m].id = -1

\* The message that is being assembled has come, and is assembled in order.
Assembled ==
    /\ pc \in {"copy", "wipe"} =>
           i \in Message /\ i < Cur /\ messages[i].id = i
    /\ pc = "copy" => j <= NumPackets /\ MSG = FirstPackets(i, j)
    /\ pc = "wipe" => j < NumPackets /\ MSG = FirstPackets(i, j + 1)

Has(m, w) ==
    messages[m].id # -1 /\ messages[m].data[w] # Junk /\ ~ Passed(m, w)

\* Packets and strays own the chunks that are handed out.
Owned ==
    pc # "done" =>
        /\ \A m \in Message, w \in Which : Has(m, w) =>
              LET c == messages[m].data[w]
              IN  /\ c \in Chunk /\ pool.allocated[c]
                  /\ blocks[c] = <<m, w>> /\ c \notin stray
        /\ \A c \in Chunk : pool.allocated[c] =>
              c \in stray \/ \E m \in Message, w \in Which :
                                Has(m, w) /\ messages[m].data[w] = c
        /\ \A c \in stray : pool.allocated[c]
        /\ pc = "wipe" => /\ messages[i].data[j] \in Chunk
                          /\ ~ pool.allocated[messages[i].data[j]]

PutOnce ==
    /\ out \in Seq(Message \X Seq(Message \X Which))
    /\ \A k \in 1 .. Len(out) :
          /\ out[k][1] < Cur /\ messages[out[k][1]].id = -1
          /\ out[k][2] = FirstPackets(out[k][1], NumPackets)
    /\ \A k, l \in 1 .. Len(out) : out[k][1] = out[l][1] => k = l

Square == NumMessages = NumPackets

\* The inductive invariant.
IInv == Square /\ TypeOK /\ Counted /\ Assembled /\ Owned /\ PutOnce

-----------------------------------------------------------------------------
\* The memory manager.

LEMMA LeastNatural ==
    ASSUME NEW S \in SUBSET Nat, S # {}
    PROVE  Min(S) \in S
<1>1. PICK x \in S : \A y \in S : <<y, x>> \notin OpToRel(<, Nat)
  BY NatLessThanWellFounded, WFMin
<1>2. ASSUME NEW y \in S
      PROVE  x <= y
  <2>1. <<y, x>> \notin {pair \in Nat \X Nat : pair[1] < pair[2]}
    BY <1>1 DEF OpToRel
  <2> QED
    BY <2>1
<1> QED
  BY <1>2 DEF Min

\* What mm_get hands out was free; nothing else changes hands.
LEMMA GetOK ==
    ASSUME NEW mm \in PoolType, mm_get(mm).ret # NoChunk
    PROVE  /\ mm_get(mm).ret \in Chunk /\ ~ mm.allocated[mm_get(mm).ret]
           /\ mm_get(mm).mm \in PoolType
           /\ mm_get(mm).mm.allocated =
                  [mm.allocated EXCEPT ![mm_get(mm).ret] = TRUE]
<1> DEFINE turns == {k \in Chunk : ~ mm.allocated[SlotAt(mm, k)]}
           slot == SlotAt(mm, Min(turns))
<1>1. turns # {}
  BY DEF mm_get
<1>2. Min(turns) \in turns
  BY <1>1, LeastNatural
<1>3. \A k \in Chunk : SlotAt(mm, k) \in Chunk
  BY DEF SlotAt, PoolType
<1>4. slot \in Chunk /\ ~ mm.allocated[slot]
  BY <1>2, <1>3
<1>5. /\ mm_get(mm).ret = slot
      /\ mm_get(mm).mm = [mm EXCEPT !.allocated[slot] = TRUE,
                                    !.last_allocated = slot]
  BY <1>1 DEF mm_get
<1> HIDE DEF slot
<1>6. mm.allocated \in [Chunk -> BOOLEAN] /\ DOMAIN mm = {"allocated", "last_allocated"}
  BY DEF PoolType
<1>7. mm_get(mm).mm = [allocated |-> [mm.allocated EXCEPT ![slot] = TRUE],
                      last_allocated |-> slot]
  BY <1>5, <1>6 DEF PoolType
<1>8. [mm.allocated EXCEPT ![slot] = TRUE] \in [Chunk -> BOOLEAN]
  BY <1>6
<1>9. mm_get(mm).mm \in PoolType
  BY <1>4, <1>7, <1>8 DEF PoolType
<1> QED
  BY <1>4, <1>5, <1>7, <1>9

LEMMA PutOK ==
    ASSUME NEW mm \in PoolType, NEW c \in Chunk
    PROVE  /\ mm_put(mm, c) \in PoolType
           /\ mm_put(mm, c).allocated = [mm.allocated EXCEPT ![c] = FALSE]
  BY DEF mm_put, PoolType

-----------------------------------------------------------------------------
\* Counting in messages of b packets.

LEMMA DivMod ==
    ASSUME NEW g \in Nat, NEW b \in Nat \ {0}
    PROVE  g \div b \in Nat /\ g % b \in 0 .. b - 1 /\ g = b * (g \div b) + (g % b)
<1>1. g \div b \in Nat /\ g % b \in 0 .. b - 1
  OBVIOUS
<1>2. g = b * (g \div b) + (g % b)
  OBVIOUS
<1> QED
  BY <1>1, <1>2

LEMMA DivUnique ==
    ASSUME NEW q \in Nat, NEW k \in Nat, NEW b \in Nat \ {0}, k < b
    PROVE  (b * q + k) \div b = q /\ (b * q + k) % b = k
OBVIOUS

LEMMA OneMore ==
    ASSUME NEW g \in Nat, NEW b \in Nat \ {0}
    PROVE  /\ (g % b) + 1 < b => (g + 1) \div b = g \div b /\ (g + 1) % b = (g % b) + 1
           /\ (g % b) + 1 = b => (g + 1) \div b = g \div b + 1 /\ (g + 1) % b = 0
<1> DEFINE q == g \div b
           k == g % b
<1>1. q \in Nat /\ k \in 0 .. b - 1 /\ g = b * q + k
  BY DivMod
<1> HIDE DEF q, k
<1>2. CASE k + 1 < b
  <2>1. g + 1 = b * q + (k + 1)
    BY <1>1
  <2>2. (b * q + (k + 1)) \div b = q /\ (b * q + (k + 1)) % b = k + 1
    BY <1>1, <1>2, DivUnique
  <2>3. (g + 1) \div b = q /\ (g + 1) % b = k + 1
    BY <2>1, <2>2
  <2>4. k + 1 # b
    BY <1>1, <1>2
  <2> QED
    BY <2>3, <2>4 DEF q, k
<1>3. CASE k + 1 = b
  <2>1. g + 1 = b * (q + 1) + 0
    BY <1>1, <1>3
  <2>2. (b * (q + 1) + 0) \div b = q + 1 /\ (b * (q + 1) + 0) % b = 0
    BY <1>1, DivUnique
  <2>3. (g + 1) \div b = q + 1 /\ (g + 1) % b = 0
    BY <2>1, <2>2
  <2>4. ~ (k + 1 < b)
    BY <1>1, <1>3
  <2> QED
    BY <2>3, <2>4 DEF q, k
<1> QED
  BY <1>1, <1>2, <1>3 DEF q, k

LEMMA Below ==
    ASSUME NEW g \in Nat, NEW b \in Nat \ {0}, NEW m \in Nat, g < m * b
    PROVE  g \div b < m
OBVIOUS

\* A packet that comes is of a message of the array; what comes next.
LEMMA NextPacket ==
    ASSUME TypeOK, Counted, HasPacket, given' = given + 1
    PROVE  /\ Cur \in Message /\ Pos \in Which
           /\ Cur' \in 0 .. NumMessages /\ Pos' \in Which
           /\ Pos + 1 < NumPackets => Cur' = Cur /\ Pos' = Pos + 1
           /\ Pos + 1 = NumPackets => Cur' = Cur + 1 /\ Pos' = 0
<1>1. given \in Nat
  <2>1. NumMessages * NumPackets \in Nat
    OBVIOUS
  <2> QED
    BY <2>1 DEF TypeOK
<1>2. Cur < NumMessages
  BY <1>1, Below DEF HasPacket, Cur
<1>3. /\ Pos + 1 < NumPackets => Cur' = Cur /\ Pos' = Pos + 1
      /\ Pos + 1 = NumPackets => Cur' = Cur + 1 /\ Pos' = 0
  BY <1>1, OneMore DEF Cur, Pos
<1> QED
  BY <1>2, <1>3 DEF Counted

LEMMA OnePacketMore ==
    ASSUME NEW m \in Message, NEW k \in Nat
    PROVE  FirstPackets(m, k + 1) = Append(FirstPackets(m, k), <<m, k>>)
  BY DEF FirstPackets

LEMMA NoPackets == \A m : FirstPackets(m, 0) = << >>
  BY DEF FirstPackets

LEMMA PacketsType ==
    ASSUME NEW m \in Message
    PROVE  FirstPackets(m, NumPackets) \in Seq(Message \X Which)
<1>1. \A l \in 1 .. NumPackets : <<m, l - 1>> \in Message \X Which
  OBVIOUS
<1> QED
  BY <1>1 DEF FirstPackets

-----------------------------------------------------------------------------
LEMMA InitIInv == ASSUME Square, Init PROVE IInv
<1>1. Cur = 0 /\ Pos = 0
  BY DEF Init, Cur, Pos
<1>2. pool \in PoolType /\ \A c \in Chunk : ~ pool.allocated[c]
  BY DEF Init, mm_init, PoolType
<1>3. messages \in [Message ->
         [id : Message \cup {-1}, num_packets : {0, NumMessages},
          how_many_arrived : 0 .. NumPackets,
          data : [Which -> Chunk \cup {Junk}]]]
  BY DEF Init
<1>4. 0 \in 0 .. NumMessages * NumPackets
  <2>1. NumMessages * NumPackets \in Nat
    OBVIOUS
  <2> QED
    BY <2>1
<1>5. TypeOK
  <2>1. blocks \in [Chunk -> Content]
    BY DEF Init, Content
  <2>2. given \in 0 .. NumMessages * NumPackets
    BY <1>4 DEF Init
  <2>3. g_has_more \in BOOLEAN /\ busy \in BOOLEAN /\ stray \in SUBSET Chunk
    BY DEF Init
  <2>4. i \in 0 .. NumMessages /\ j \in 0 .. NumMessages /\ late \in 0 .. MaxLate
    BY DEF Init
  <2>5. timer = "periodic" /\ action = "handler" /\ pc = "test"
    BY DEF Init
  <2> QED
    BY <1>2, <1>3, <2>1, <2>2, <2>3, <2>4, <2>5 DEF TypeOK
<1>6. Counted
  <2>1. \A m \in Message :
            /\ messages[m].how_many_arrived = 0 /\ messages[m].id = -1
            /\ \A w \in Which : messages[m].data[w] = Junk
    BY DEF Init
  <2> QED
    BY <1>1, <2>1 DEF Counted
<1>7. Assembled
  BY DEF Init, Assembled
<1>8. Owned
  BY <1>2 DEF Init, Owned, Has
<1>9. PutOnce
  BY DEF Init, PutOnce
<1> QED
  BY <1>5, <1>6, <1>7, <1>8, <1>9 DEF IInv

\* The message records keep their types.
MessagesType ==
    [Message -> [id : Message \cup {-1}, num_packets : {0, NumMessages},
                 how_many_arrived : 0 .. NumPackets,
                 data : [Which -> Chunk \cup {Junk}]]]

\* A tick changes the timer and the record of main's lateness only.
LEMMA TickType ==
    ASSUME TypeOK, Tick
    PROVE  /\ timer' \in {"periodic", "once", "off"} /\ busy' \in BOOLEAN
           /\ late' \in 0 .. MaxLate
  BY DEF TypeOK, Tick

\* A step that leaves packets, chunks and the assembly as they are.
LEMMA CalmIInv ==
    ASSUME IInv, UNCHANGED <<pool, blocks, messages, given, stray, out>>, TypeOK',
           pc \notin {"copy", "wipe", "done"}, pc' \notin {"copy", "wipe"}
    PROVE  IInv'
<1>1. Cur' = Cur /\ Pos' = Pos
  BY DEF Cur, Pos
<1>2. Counted'
  BY <1>1 DEF IInv, Counted
<1>3. \A m, w : Has(m, w)' <=> Has(m, w)
  BY DEF Has, Passed
<1>4. Owned'
  BY <1>3 DEF IInv, Owned
<1>5. PutOnce' /\ Assembled' /\ Square'
  BY <1>1 DEF IInv, PutOnce, Assembled, Square
<1> QED
  BY <1>2, <1>4, <1>5 DEF IInv

LEMMA ArrivesIInv == ASSUME IInv, PacketArrives PROVE IInv'
<1> DEFINE g == mm_get(pool)
           c == g.ret
<1>0. /\ Tick /\ action = "handler" /\ HasPacket /\ UNCHANGED <<i, j, MSG, out, action>>
      /\ pc \notin {"done", "killed", "copy", "wipe", "scan"}
  BY DEF PacketArrives, mvars, Tick, IInv, TypeOK
<1>1. CASE g.ret = NoChunk
  <2>1. pc' = "killed" /\ UNCHANGED pvars
    BY <1>1 DEF PacketArrives
  <2>2. TypeOK'
    <3>1. pool' \in PoolType
      BY <2>1 DEF IInv, TypeOK, pvars
    <3> QED
      BY <3>1, <2>1, <1>0, TickType DEF IInv, TypeOK, pvars, Content
  <2> QED
    BY <2>1, <2>2, <1>0, CalmIInv DEF pvars
<1>2. CASE g.ret # NoChunk
  <2>0. Cur \in Message /\ Pos \in Which /\ given' = given + 1
    BY <1>0, <1>2, NextPacket DEF IInv, PacketArrives
  <2>2. PICK m0 \in Message, w0 \in Which : m0 = Cur /\ w0 = Pos
    BY <2>0
  <2>a. get_packet.msg_id = m0 /\ get_packet.which = w0 /\ get_packet.how_many = NumMessages
    BY <2>2 DEF get_packet, Cur, Pos
  <2>1. /\ pool' = g.mm
        /\ blocks' = [blocks EXCEPT ![c] = <<m0, w0>>]
        /\ given' = given + 1
        /\ pc' = (IF pc = "paused" THEN "test" ELSE pc)
        /\ UNCHANGED <<g_has_more, stray>>
    BY <1>2, <2>a DEF PacketArrives, Wake
  <2>3. /\ m0 \in Message /\ w0 \in Which
        /\ Cur' \in 0 .. NumMessages /\ Pos' \in Which
        /\ Pos + 1 < NumPackets => Cur' = Cur /\ Pos' = Pos + 1
        /\ Pos + 1 = NumPackets => Cur' = Cur + 1 /\ Pos' = 0
    BY <1>0, <2>1, <2>2, NextPacket DEF IInv
  <2>4. /\ c \in Chunk /\ ~ pool.allocated[c] /\ pool' \in PoolType
        /\ pool'.allocated = [pool.allocated EXCEPT ![c] = TRUE]
    BY <1>2, <2>1, GetOK DEF IInv, TypeOK
  <2>5. messages' = [messages EXCEPT ![m0] =
             [id |-> m0, num_packets |-> NumMessages,
              how_many_arrived |-> messages[m0].how_many_arrived + 1,
              data |-> [messages[m0].data EXCEPT ![w0] = c]]]
    BY <1>2, <2>a DEF PacketArrives
  <2> HIDE DEF g, c
  <2>6. messages \in MessagesType
    BY DEF IInv, TypeOK, MessagesType
  <2>7. /\ messages'[m0].id = m0 /\ messages'[m0].num_packets = NumMessages
        /\ messages'[m0].how_many_arrived = messages[m0].how_many_arrived + 1
        /\ messages'[m0].data = [messages[m0].data EXCEPT ![w0] = c]
        /\ \A m \in Message \ {m0} : messages'[m] = messages[m]
    BY <2>3, <2>5, <2>6 DEF MessagesType
  <2>8. messages[m0].how_many_arrived = Pos
    BY <2>2, <2>3 DEF IInv, Counted
  <2>9. c # Junk
    BY <2>4, ContentsDiffer
  <2>10. messages' \in MessagesType
    <3>1. [messages[m0].data EXCEPT ![w0] = c] \in [Which -> Chunk \cup {Junk}]
      BY <2>3, <2>4, <2>6 DEF MessagesType
    <3>2. messages[m0].how_many_arrived + 1 \in 0 .. NumPackets
      BY <2>2, <2>3, <2>8
    <3>3. [id |-> m0, num_packets |-> NumMessages,
           how_many_arrived |-> messages[m0].how_many_arrived + 1,
           data |-> [messages[m0].data EXCEPT ![w0] = c]]
            \in [id : Message \cup {-1}, num_packets : {0, NumMessages},
                 how_many_arrived : 0 .. NumPackets,
                 data : [Which -> Chunk \cup {Junk}]]
      BY <2>3, <3>1, <3>2
    <3> QED
      BY <2>3, <2>5, <2>6, <3>3 DEF MessagesType
  <2>11. TypeOK'
    <3>1. given' \in 0 .. NumMessages * NumPackets
      <4>1. NumMessages * NumPackets \in Nat
        OBVIOUS
      <4> QED
        BY <4>1, <1>0, <2>1 DEF IInv, TypeOK, HasPacket
    <3>2. blocks' \in [Chunk -> Content]
      BY <2>1, <2>3 DEF IInv, TypeOK, Content
    <3>3. /\ pc' \in {"test", "nap", "paused", "disarm", "restore", "release"}
      BY <1>0, <2>1 DEF IInv, TypeOK
    <3>4. /\ g_has_more' \in BOOLEAN /\ stray' \in SUBSET Chunk
          /\ i' \in 0 .. NumMessages /\ j' \in 0 .. NumMessages
          /\ action' = "handler"
      BY <1>0, <2>1 DEF IInv, TypeOK
    <3> QED
      BY <3>1, <3>2, <3>3, <3>4, <2>4, <2>10, <1>0, TickType
         DEF IInv, TypeOK, MessagesType
  <2>12. Counted'
    <3>1. ASSUME NEW m \in Message
          PROVE  /\ messages'[m].how_many_arrived =
                      (IF m < Cur' THEN NumPackets ELSE IF m = Cur' THEN Pos' ELSE 0)
                 /\ messages'[m].id \in {-1, m}
                 /\ messages'[m].id = m => messages'[m].num_packets = NumMessages
                 /\ m = Cur' /\ Pos' > 0 => messages'[m].id = m
                 /\ m = Cur' /\ Pos' = 0 => messages'[m].id = -1
                 /\ m > Cur' => messages'[m].id = -1
      <4>1. CASE m = m0
        BY <4>1, <2>2, <2>3, <2>7, <2>8
      <4>2. CASE m # m0
        BY <4>2, <2>2, <2>3, <2>7 DEF IInv, Counted
      <4> QED
        BY <4>1, <4>2
    <3>2. ASSUME NEW m \in Message, NEW w \in Which
          PROVE  messages'[m].data[w] # Junk
                    <=> m < Cur' \/ (m = Cur' /\ w < Pos')
      <4>0. messages[m].data[w] # Junk <=> m < Cur \/ (m = Cur /\ w < Pos)
        BY DEF IInv, Counted
      <4>1. CASE m = m0 /\ w = w0
        <5>1. messages'[m].data[w] = c
          BY <4>1, <2>3, <2>6, <2>7 DEF MessagesType
        <5> QED
          BY <5>1, <4>1, <2>2, <2>3, <2>9
      <4>2. CASE m = m0 /\ w # w0
        <5>1. messages'[m].data[w] = messages[m].data[w]
          BY <4>2, <2>3, <2>6, <2>7 DEF MessagesType
        <5> QED
          BY <5>1, <4>0, <4>2, <2>2, <2>3
      <4>3. CASE m # m0
        BY <4>0, <4>3, <2>2, <2>3, <2>7
      <4> QED
        BY <4>1, <4>2, <4>3
    <3> QED
      BY <3>1, <3>2, <2>3 DEF Counted
  <2>13. Assembled'
    BY <1>0, <2>1 DEF Assembled
  <2>14. Owned'
    <3>0. \A m, w : ~ Passed(m, w) /\ ~ Passed(m, w)'
      BY <1>0, <2>1 DEF Passed
    <3>1. ~ Has(m0, w0)
      BY <2>2, <2>3 DEF IInv, Counted, Has
    <3>2. ASSUME NEW m \in Message, NEW w \in Which, m # m0 \/ w # w0
          PROVE  /\ messages'[m].data[w] = messages[m].data[w]
                 /\ Has(m, w)' <=> Has(m, w)
      <4>1. messages'[m].data[w] = messages[m].data[w]
        BY <3>2, <2>3, <2>6, <2>7 DEF MessagesType
      <4>2. CASE m # m0
        BY <4>1, <4>2, <3>0, <2>7 DEF Has
      <4>3. CASE m = m0 /\ Pos > 0
        <5>1. messages[m].id # -1 /\ messages'[m].id # -1
          BY <4>3, <2>2, <2>3, <2>7 DEF IInv, Counted
        <5> QED
          BY <5>1, <4>1, <3>0 DEF Has
      <4>4. CASE m = m0 /\ Pos = 0
        <5>1. messages[m].data[w] = Junk
          BY <4>4, <2>2, <2>3 DEF IInv, Counted
        <5> QED
          BY <5>1, <4>1 DEF Has
      <4> QED
        BY <4>1, <4>2, <4>3, <4>4, <2>2, <2>3
    <3>3. Has(m0, w0)' /\ messages'[m0].data[w0] = c
      <4>1. messages'[m0].data[w0] = c
        BY <2>3, <2>6, <2>7 DEF MessagesType
      <4> QED
        BY <4>1, <3>0, <2>3, <2>7, <2>9 DEF Has
    <3>4. c \notin stray
      BY <2>4, <1>0 DEF IInv, Owned
    <3>5. pool.allocated \in [Chunk -> BOOLEAN] /\ blocks \in [Chunk -> Content]
      BY DEF IInv, TypeOK, PoolType
    <3>6. ASSUME NEW m \in Message, NEW w \in Which, Has(m, w)'
          PROVE  /\ messages'[m].data[w] \in Chunk
                 /\ pool'.allocated[messages'[m].data[w]]
                 /\ blocks'[messages'[m].data[w]] = <<m, w>>
                 /\ messages'[m].data[w] \notin stray
      <4>1. CASE m = m0 /\ w = w0
        BY <4>1, <3>3, <3>4, <3>5, <2>1, <2>4
      <4>2. CASE m # m0 \/ w # w0
        <5>1. Has(m, w) /\ messages'[m].data[w] = messages[m].data[w]
          BY <4>2, <3>2, <3>6
        <5>2. /\ messages[m].data[w] \in Chunk /\ pool.allocated[messages[m].data[w]]
              /\ blocks[messages[m].data[w]] = <<m, w>> /\ messages[m].data[w] \notin stray
          BY <5>1, <1>0 DEF IInv, Owned
        <5>3. messages[m].data[w] # c
          BY <5>2, <2>4
        <5> QED
          BY <5>1, <5>2, <5>3, <3>5, <2>1, <2>4
      <4> QED
        BY <4>1, <4>2
    <3>7. ASSUME NEW d \in Chunk, pool'.allocated[d], d \notin stray
          PROVE  \E m \in Message, w \in Which :
                     Has(m, w)' /\ messages'[m].data[w] = d
      <4>1. CASE d = c
        BY <4>1, <3>3, <2>3
      <4>2. CASE d # c
        <5>1. pool.allocated[d]
          BY <4>2, <3>5, <3>7, <2>4
        <5>2. PICK m \in Message, w \in Which : Has(m, w) /\ messages[m].data[w] = d
          BY <5>1, <3>7, <1>0 DEF IInv, Owned
        <5>3. m # m0 \/ w # w0
          BY <5>2, <3>1
        <5> QED
          BY <5>2, <5>3, <3>2
      <4> QED
        BY <4>1, <4>2
    <3>8. \A d \in stray : pool'.allocated[d]
      BY <3>4, <3>5, <2>4, <1>0 DEF IInv, Owned, TypeOK
    <3>9. pc' # "wipe"
      BY <1>0, <2>1
    <3> QED
      BY <3>6, <3>7, <3>8, <3>9, <2>1 DEF Owned
  <2>15. PutOnce'
    <3>1. ASSUME NEW k \in 1 .. Len(out)
          PROVE  out[k][1] < Cur' /\ messages'[out[k][1]].id = -1
      <4>0. out \in Seq(Message \X Seq(Message \X Which))
        BY DEF IInv, PutOnce
      <4>1. out[k] \in Message \X Seq(Message \X Which)
        BY <4>0
      <4>2. out[k][1] \in Message /\ out[k][1] < Cur /\ messages[out[k][1]].id = -1
        BY <4>1 DEF IInv, PutOnce
      <4>3. out[k][1] # m0 /\ Cur <= Cur'
        BY <4>2, <2>2, <2>3
      <4>4. out[k][1] < Cur'
        BY <4>2, <2>2, <2>3
      <4> QED
        BY <4>2, <4>3, <4>4, <2>7
    <3> QED
      BY <3>1, <1>0 DEF IInv, PutOnce
  <2> QED
    BY <2>11, <2>12, <2>13, <2>14, <2>15 DEF IInv, Square
<1> QED
  BY <1>1, <1>2

\* Without a packet the chunk goes to the strays.
LEMMA NoPacketIInv == ASSUME IInv, NoPacket PROVE IInv'
<1> DEFINE g == mm_get(pool)
           c == g.ret
<1>0. /\ Tick /\ action = "handler" /\ g_has_more' = FALSE
      /\ UNCHANGED <<messages, given, i, j, MSG, out, action>>
      /\ pc \notin {"done", "killed", "copy", "wipe", "scan"}
  BY DEF NoPacket, mvars, Tick, IInv, TypeOK
<1>1. CASE pc' = "killed" /\ UNCHANGED <<pool, blocks, stray>>
  <2>1. TypeOK'
    <3>1. pool' \in PoolType
      BY <1>1 DEF IInv, TypeOK
    <3> QED
      BY <3>1, <1>1, <1>0, TickType DEF IInv, TypeOK, Content
  <2> QED
    BY <2>1, <1>0, <1>1, CalmIInv
<1>2. CASE /\ c # NoChunk /\ pool' = g.mm
           /\ blocks' = [blocks EXCEPT ![c] = Junk]
           /\ stray' = stray \cup {c} /\ Wake
  <2>1. /\ c \in Chunk /\ ~ pool.allocated[c] /\ pool' \in PoolType
        /\ pool'.allocated = [pool.allocated EXCEPT ![c] = TRUE]
    BY <1>2, GetOK DEF IInv, TypeOK
  <2>2. /\ blocks' = [blocks EXCEPT ![c] = Junk] /\ stray' = stray \cup {c}
        /\ pc' = (IF pc = "paused" THEN "test" ELSE pc)
    BY <1>2 DEF Wake
  <2> HIDE DEF g, c
  <2>3. TypeOK'
    <3>1. blocks' \in [Chunk -> Content]
      BY <2>2 DEF IInv, TypeOK, Content
    <3>2. pc' \in {"test", "nap", "paused", "disarm", "restore", "release"}
      BY <1>0, <2>2 DEF IInv, TypeOK
    <3>3. stray' \in SUBSET Chunk
      BY <2>1, <2>2 DEF IInv, TypeOK
    <3>4. action' = "handler"
      BY <1>0
    <3> QED
      BY <3>1, <3>2, <3>3, <3>4, <2>1, <1>0, TickType DEF IInv, TypeOK
  <2>4. Cur' = Cur /\ Pos' = Pos
    BY <1>0 DEF Cur, Pos
  <2>5. pc' \notin {"copy", "wipe", "done"}
    BY <1>0, <2>2
  <2>6. \A m, w : Has(m, w)' <=> Has(m, w)
    BY <1>0, <2>5 DEF Has, Passed
  <2>7. Owned'
    <3>1. pool.allocated \in [Chunk -> BOOLEAN] /\ blocks \in [Chunk -> Content]
      BY DEF IInv, TypeOK, PoolType
    <3>2. ASSUME NEW m \in Message, NEW w \in Which, Has(m, w)
          PROVE  /\ messages[m].data[w] \in Chunk
                 /\ pool'.allocated[messages[m].data[w]]
                 /\ blocks'[messages[m].data[w]] = <<m, w>>
                 /\ messages[m].data[w] \notin stray'
      <4>1. /\ messages[m].data[w] \in Chunk /\ pool.allocated[messages[m].data[w]]
            /\ blocks[messages[m].data[w]] = <<m, w>> /\ messages[m].data[w] \notin stray
        BY <3>2, <1>0 DEF IInv, Owned
      <4>2. messages[m].data[w] # c
        BY <4>1, <2>1
      <4> QED
        BY <4>1, <4>2, <3>1, <2>1, <2>2
    <3>3. ASSUME NEW d \in Chunk, pool'.allocated[d], d \notin stray'
          PROVE  \E m \in Message, w \in Which :
                     Has(m, w) /\ messages[m].data[w] = d
      <4>1. d # c /\ d \notin stray
        BY <3>3, <2>2
      <4>2. pool.allocated[d]
        BY <4>1, <3>1, <3>3, <2>1
      <4> QED
        BY <4>1, <4>2, <1>0 DEF IInv, Owned
    <3>4. \A d \in stray' : pool'.allocated[d]
      BY <3>1, <2>1, <2>2, <1>0 DEF IInv, Owned, TypeOK
    <3> QED
      BY <3>2, <3>3, <3>4, <2>5, <2>6, <1>0 DEF Owned
  <2>8. Counted' /\ PutOnce' /\ Assembled' /\ Square'
    BY <1>0, <2>4, <2>5 DEF IInv, Counted, PutOnce, Assembled, Square
  <2> QED
    BY <2>3, <2>7, <2>8 DEF IInv
<1> QED
  BY <1>1, <1>2 DEF NoPacket

\* Ticks that reach no handler.
LEMMA TickOnlyIInv ==
    ASSUME IInv, TickIgnored \/ TickKills
    PROVE  IInv'
<1>1. Tick /\ UNCHANGED <<pvars, mvars, action>>
  BY DEF TickIgnored, TickKills
<1>2. pool' \in PoolType /\ blocks' \in [Chunk -> Content] /\ Cur' = Cur /\ Pos' = Pos
  BY <1>1 DEF IInv, TypeOK, pvars, Content, Cur, Pos
<1>3. CASE TickKills
  <2>1. pc' = "killed" /\ action = "default" /\ pc \notin {"done", "copy", "wipe", "scan"}
    BY <1>3, <1>1 DEF TickKills, Tick, IInv, TypeOK
  <2>2. TypeOK'
    BY <1>1, <1>2, <2>1, TickType DEF IInv, TypeOK, pvars, mvars
  <2> QED
    BY <1>1, <2>1, <2>2, CalmIInv DEF pvars, mvars
<1>4. CASE TickIgnored
  <2>1. pc' = pc
    BY <1>4 DEF TickIgnored
  <2>2. TypeOK'
    BY <1>1, <1>2, <2>1, TickType DEF IInv, TypeOK, pvars, mvars
  <2>3. \A m, w : Has(m, w)' <=> Has(m, w)
    BY <1>1, <2>1 DEF Has, Passed, pvars, mvars
  <2>4. Owned'
    BY <1>1, <2>1, <2>3 DEF IInv, Owned, pvars, mvars
  <2>5. Counted' /\ Assembled' /\ PutOnce' /\ Square'
    BY <1>1, <1>2, <2>1 DEF IInv, Counted, Assembled, PutOnce, Square, pvars, mvars
  <2> QED
    BY <2>2, <2>4, <2>5 DEF IInv
<1> QED
  BY <1>3, <1>4

\* Steps of main between the messages.
LEMMA LoopIInv ==
    ASSUME IInv, Loop \/ Unmask \/ Pause \/ Disarm \/ Restore
    PROVE  IInv'
<1>1. /\ UNCHANGED <<pvars, j, MSG, out, late>>
      /\ pc \notin {"copy", "wipe", "done"} /\ pc' \notin {"copy", "wipe"}
  BY DEF Loop, Unmask, Pause, Disarm, Restore, mvars, tvars
<1>2. pool' \in PoolType /\ blocks' \in [Chunk -> Content]
  BY <1>1 DEF IInv, TypeOK, pvars, Content
<1>3. /\ i' \in 0 .. NumMessages /\ busy' \in BOOLEAN
      /\ timer' \in {"periodic", "once", "off"}
      /\ action' \in {"handler", "ignore", "default"}
      /\ pc' \in {"scan", "nap", "paused", "disarm", "restore", "release"}
      /\ pc' = "scan" <=> action' = "ignore"
  <2>1. CASE Loop
    BY <2>1 DEF Loop, IInv, TypeOK, tvars
  <2>2. CASE Unmask
    BY <2>2 DEF Unmask, IInv, TypeOK, mvars, tvars
  <2>3. CASE Pause
    BY <2>3 DEF Pause, IInv, TypeOK, mvars
  <2>4. CASE Disarm
    BY <2>4 DEF Disarm, IInv, TypeOK, mvars
  <2>5. CASE Restore
    BY <2>5 DEF Restore, IInv, TypeOK, mvars, tvars
  <2> QED
    BY <2>1, <2>2, <2>3, <2>4, <2>5
<1>4. TypeOK'
  BY <1>1, <1>2, <1>3 DEF IInv, TypeOK, pvars
<1> QED
  BY <1>1, <1>4, CalmIInv DEF pvars

\* A message is complete only when all its packets have come.
LEMMA CompleteHasCome ==
    ASSUME IInv, NEW m \in Message, Complete(m)
    PROVE  m < Cur /\ messages[m].id = m
<1>1. messages[m].id = m
  BY DEF IInv, Counted, Complete
<1>2. messages[m].how_many_arrived = NumPackets
  BY <1>1 DEF IInv, Counted, Complete, Square
<1>3. Cur \in Nat /\ Pos \in Which
  BY DEF IInv, Counted
<1> QED
  BY <1>1, <1>2, <1>3 DEF IInv, Counted

LEMMA ScanIInv == ASSUME IInv, Scan PROVE IInv'
<1>1. /\ pc = "scan" /\ i \in Message /\ UNCHANGED <<pvars, out, tvars, action>>
  BY DEF Scan, IInv, TypeOK
<1>2. pool' \in PoolType /\ blocks' \in [Chunk -> Content] /\ Cur' = Cur /\ Pos' = Pos
  BY <1>1 DEF IInv, TypeOK, pvars, Content, Cur, Pos
<1>3. CASE ~ Complete(i)
  <2>1. i' = i + 1 /\ UNCHANGED <<pc, j, MSG>>
    BY <1>3 DEF Scan
  <2>2. TypeOK'
    BY <1>1, <1>2, <2>1 DEF IInv, TypeOK, pvars, tvars
  <2> QED
    BY <1>1, <2>1, <2>2, CalmIInv DEF pvars
<1>4. CASE Complete(i)
  <2>1. pc' = "copy" /\ j' = 0 /\ MSG' = << >> /\ i' = i
    BY <1>4 DEF Scan
  <2>2. TypeOK'
    BY <1>1, <1>2, <2>1 DEF IInv, TypeOK, pvars, tvars
  <2>3. Assembled'
    <3>1. i < Cur /\ messages[i].id = i
      BY <1>1, <1>4, CompleteHasCome
    <3>2. FirstPackets(i, 0) = << >>
      BY NoPackets
    <3>3. FirstPackets(i', j') = FirstPackets(i, 0)
      BY <2>1
    <3> QED
      BY <1>1, <1>2, <2>1, <3>1, <3>2, <3>3 DEF Assembled, pvars
  <2>4. \A m \in Message, w \in Which : Has(m, w)' <=> Has(m, w)
    BY <1>1, <2>1 DEF Has, Passed, pvars
  <2>5. Owned'
    BY <1>1, <2>1, <2>4 DEF IInv, Owned, pvars
  <2>6. Counted' /\ PutOnce' /\ Square'
    BY <1>1, <1>2 DEF IInv, Counted, PutOnce, Square, pvars
  <2> QED
    BY <2>2, <2>3, <2>5, <2>6 DEF IInv
<1> QED
  BY <1>3, <1>4

\* The packet that is copied has its chunk, which no other packet has.
LEMMA CopyIInv == ASSUME IInv, Copy PROVE IInv'
<1> DEFINE c == messages[i].data[j]
<1>1. /\ pc = "copy" /\ j < messages[i].num_packets /\ pc' = "wipe"
      /\ MSG' = Append(MSG, blocks[c]) /\ pool' = mm_put(pool, c)
      /\ UNCHANGED <<blocks, messages, g_has_more, given, stray, i, j, out, tvars, action>>
  BY DEF Copy
<1>2. /\ i \in Message /\ j \in Which /\ i < Cur /\ messages[i].id = i
      /\ MSG = FirstPackets(i, j)
  BY <1>1 DEF IInv, TypeOK, Assembled, Counted, Square
<1>3. Has(i, j)
  BY <1>1, <1>2 DEF IInv, Counted, Has, Passed
<1>4. c \in Chunk /\ blocks[c] = <<i, j>> /\ c \notin stray
  BY <1>1, <1>2, <1>3 DEF IInv, Owned
<1>5. pool' \in PoolType /\ pool'.allocated = [pool.allocated EXCEPT ![c] = FALSE]
  BY <1>1, <1>4, PutOK DEF IInv, TypeOK
<1>6. blocks' \in [Chunk -> Content] /\ Cur' = Cur /\ Pos' = Pos
  BY <1>1 DEF IInv, TypeOK, Content, Cur, Pos
<1>7. TypeOK'
  BY <1>1, <1>5, <1>6 DEF IInv, TypeOK, tvars
<1>8. Assembled'
  <2>0. FirstPackets(i, j + 1) = Append(FirstPackets(i, j), <<i, j>>)
    <3>1. i \in Message /\ j \in Nat
      BY <1>2
    <3> QED
      BY <3>1, OnePacketMore
  <2>1. MSG' = FirstPackets(i, j + 1)
    BY <2>0, <1>1, <1>2, <1>4
  <2> QED
    BY <2>1, <1>1, <1>2, <1>6 DEF Assembled
<1>9. Owned'
  <2>0. pool.allocated \in [Chunk -> BOOLEAN]
    BY DEF IInv, TypeOK, PoolType
  <2>1. ASSUME NEW m \in Message, NEW w \in Which
        PROVE  Has(m, w)' <=> Has(m, w) /\ ~ (m = i /\ w = j)
    BY <1>1, <1>2 DEF Has, Passed
  <2>2. ASSUME NEW m \in Message, NEW w \in Which, Has(m, w), ~ (m = i /\ w = j)
        PROVE  /\ messages[m].data[w] \in Chunk /\ messages[m].data[w] # c
               /\ pool'.allocated[messages[m].data[w]]
               /\ blocks[messages[m].data[w]] = <<m, w>>
               /\ messages[m].data[w] \notin stray
    <3>1. /\ messages[m].data[w] \in Chunk /\ pool.allocated[messages[m].data[w]]
          /\ blocks[messages[m].data[w]] = <<m, w>> /\ messages[m].data[w] \notin stray
      BY <2>2, <1>1 DEF IInv, Owned
    <3>2. messages[m].data[w] # c
      BY <2>2, <3>1, <1>4
    <3> QED
      BY <3>1, <3>2, <2>0, <1>5
  <2>3. ASSUME NEW d \in Chunk, pool'.allocated[d], d \notin stray
        PROVE  \E m \in Message, w \in Which :
                   Has(m, w) /\ ~ (m = i /\ w = j) /\ messages[m].data[w] = d
    <3>1. d # c /\ pool.allocated[d]
      BY <2>0, <2>3, <1>4, <1>5
    <3>2. PICK m \in Message, w \in Which : Has(m, w) /\ messages[m].data[w] = d
      BY <2>3, <3>1, <1>1 DEF IInv, Owned
    <3> QED
      BY <3>1, <3>2
  <2>4. \A d \in stray : pool'.allocated[d]
    <3>1. \A d \in stray : d \in Chunk /\ pool.allocated[d]
      BY <1>1 DEF IInv, Owned, TypeOK
    <3> QED
      BY <3>1, <2>0, <1>4, <1>5
  <2>5. ~ pool'.allocated[c]
    BY <2>0, <1>4, <1>5
  <2>6. ASSUME NEW m \in Message, NEW w \in Which, Has(m, w)'
        PROVE  /\ messages'[m].data[w] \in Chunk
               /\ pool'.allocated[messages'[m].data[w]]
               /\ blocks'[messages'[m].data[w]] = <<m, w>>
               /\ messages'[m].data[w] \notin stray'
    BY <2>1, <2>2, <2>6, <1>1
  <2>7. ASSUME NEW d \in Chunk, pool'.allocated[d], d \notin stray'
        PROVE  \E m \in Message, w \in Which :
                   Has(m, w)' /\ messages'[m].data[w] = d
    <3>1. PICK m \in Message, w \in Which :
              Has(m, w) /\ ~ (m = i /\ w = j) /\ messages[m].data[w] = d
      BY <2>3, <2>7, <1>1
    <3> QED
      BY <3>1, <2>1, <1>1
  <2>8. \A d \in stray' : pool'.allocated[d]
    BY <2>4, <1>1
  <2>9. messages'[i'].data[j'] \in Chunk /\ ~ pool'.allocated[messages'[i'].data[j']]
    BY <2>5, <1>1, <1>4
  <2> QED
    BY <2>6, <2>7, <2>8, <2>9 DEF Owned
<1>10. Counted' /\ PutOnce' /\ Square'
  BY <1>1, <1>6 DEF IInv, Counted, PutOnce, Square
<1> QED
  BY <1>7, <1>8, <1>9, <1>10 DEF IInv

\* The chunk that is cleared is nobody's.
LEMMA WipeIInv == ASSUME IInv, Wipe PROVE IInv'
<1> DEFINE c == messages[i].data[j]
<1>1. /\ pc = "wipe" /\ pc' = "copy" /\ blocks' = [blocks EXCEPT ![c] = Zero]
      /\ j' = j + 1
      /\ UNCHANGED <<pool, messages, g_has_more, given, stray, i, MSG, out, tvars, action>>
  BY DEF Wipe
<1>2. /\ i \in Message /\ j \in Which /\ i < Cur /\ messages[i].id = i
      /\ MSG = FirstPackets(i, j + 1) /\ c \in Chunk /\ ~ pool.allocated[c]
  BY <1>1 DEF IInv, TypeOK, Assembled, Owned
<1>3. blocks' \in [Chunk -> Content] /\ j' \in 0 .. NumMessages
  <2>1. blocks \in [Chunk -> Content] /\ Zero \in Content
    BY DEF IInv, TypeOK, Content
  <2>2. blocks' \in [Chunk -> Content]
    BY <1>1, <1>2, <2>1
  <2>3. j' \in 0 .. NumMessages
    BY <1>1, <1>2 DEF IInv, Square
  <2> QED
    BY <2>2, <2>3
<1>4. pool' \in PoolType /\ Cur' = Cur /\ Pos' = Pos
  BY <1>1 DEF IInv, TypeOK, Cur, Pos
<1>5. TypeOK'
  BY <1>1, <1>3, <1>4 DEF IInv, TypeOK, tvars
<1>6. Assembled'
  <2>1. FirstPackets(i', j') = FirstPackets(i, j + 1) /\ j + 1 <= NumPackets
    BY <1>1, <1>2
  <2> QED
    BY <2>1, <1>1, <1>2, <1>4 DEF Assembled
<1>7. Owned'
  <2>1. ASSUME NEW m \in Message, NEW w \in Which
        PROVE  Has(m, w)' <=> Has(m, w)
    BY <1>1, <1>2 DEF Has, Passed
  <2>2. ASSUME NEW m \in Message, NEW w \in Which, Has(m, w)
        PROVE  blocks'[messages[m].data[w]] = blocks[messages[m].data[w]]
    <3>1. messages[m].data[w] \in Chunk /\ pool.allocated[messages[m].data[w]]
      BY <2>2, <1>1 DEF IInv, Owned
    <3> QED
      BY <3>1, <1>1, <1>2 DEF IInv, TypeOK
  <2>3. ASSUME NEW m \in Message, NEW w \in Which, Has(m, w)'
        PROVE  /\ messages'[m].data[w] \in Chunk
               /\ pool'.allocated[messages'[m].data[w]]
               /\ blocks'[messages'[m].data[w]] = <<m, w>>
               /\ messages'[m].data[w] \notin stray'
    <3>1. Has(m, w)
      BY <2>1, <2>3
    <3>2. /\ messages[m].data[w] \in Chunk /\ pool.allocated[messages[m].data[w]]
          /\ blocks[messages[m].data[w]] = <<m, w>> /\ messages[m].data[w] \notin stray
      BY <3>1, <1>1 DEF IInv, Owned
    <3>3. blocks'[messages[m].data[w]] = <<m, w>>
      BY <3>1, <3>2, <2>2
    <3> QED
      BY <3>2, <3>3, <1>1
  <2>4. ASSUME NEW d \in Chunk, pool'.allocated[d], d \notin stray'
        PROVE  \E m \in Message, w \in Which :
                   Has(m, w)' /\ messages'[m].data[w] = d
    <3>1. PICK m \in Message, w \in Which : Has(m, w) /\ messages[m].data[w] = d
      BY <2>4, <1>1 DEF IInv, Owned
    <3> QED
      BY <3>1, <2>1, <1>1
  <2>5. \A d \in stray' : pool'.allocated[d]
    BY <1>1 DEF IInv, Owned
  <2> QED
    BY <2>3, <2>4, <2>5, <1>1 DEF Owned
<1>8. Counted' /\ PutOnce' /\ Square'
  BY <1>1, <1>4 DEF IInv, Counted, PutOnce, Square
<1> QED
  BY <1>5, <1>6, <1>7, <1>8 DEF IInv

\* The message that is put out is whole, and was not out before.
LEMMA PutOutIInv == ASSUME IInv, PutOut PROVE IInv'
<1>1. /\ pc = "copy" /\ j = messages[i].num_packets /\ pc' = "scan"
      /\ out' = Append(out, <<messages[i].id, MSG>>)
      /\ messages' = [messages EXCEPT ![i].id = -1]
      /\ i' = i + 1
      /\ UNCHANGED <<pool, blocks, g_has_more, given, stray, j, MSG, tvars, action>>
  BY DEF PutOut
<1>2. /\ i \in Message /\ i < Cur /\ messages[i].id = i /\ j = NumPackets
      /\ MSG = FirstPackets(i, NumPackets)
  BY <1>1 DEF IInv, Assembled, Counted, Square
<1>3. messages \in MessagesType
  BY DEF IInv, TypeOK, MessagesType
<1>4. /\ messages' \in MessagesType /\ messages'[i].id = -1
      /\ messages'[i].num_packets = messages[i].num_packets
      /\ messages'[i].how_many_arrived = messages[i].how_many_arrived
      /\ messages'[i].data = messages[i].data
      /\ \A m \in Message \ {i} : messages'[m] = messages[m]
  BY <1>1, <1>2, <1>3 DEF MessagesType
<1>5. pool' \in PoolType /\ blocks' \in [Chunk -> Content] /\ Cur' = Cur /\ Pos' = Pos
  BY <1>1 DEF IInv, TypeOK, Content, Cur, Pos
<1>6. TypeOK'
  <2>1. i' \in 0 .. NumMessages
    BY <1>1, <1>2
  <2> QED
    BY <2>1, <1>1, <1>4, <1>5 DEF IInv, TypeOK, tvars, MessagesType
<1>7. Counted'
  <2>1. Cur \in Nat /\ Pos \in Which
    BY DEF IInv, Counted
  <2>2. ASSUME NEW m \in Message
        PROVE  /\ messages'[m].how_many_arrived =
                    (IF m < Cur THEN NumPackets ELSE IF m = Cur THEN Pos ELSE 0)
               /\ \A w \in Which : messages'[m].data[w] # Junk
                                      <=> m < Cur \/ (m = Cur /\ w < Pos)
               /\ messages'[m].id \in {-1, m}
               /\ messages'[m].id = m => messages'[m].num_packets = NumMessages
               /\ m = Cur /\ Pos > 0 => messages'[m].id = m
               /\ m = Cur /\ Pos = 0 => messages'[m].id = -1
               /\ m > Cur => messages'[m].id = -1
    <3>1. CASE m = i
      BY <3>1, <1>2, <1>4, <2>1 DEF IInv, Counted
    <3>2. CASE m # i
      BY <3>2, <1>4 DEF IInv, Counted
    <3> QED
      BY <3>1, <3>2
  <2> QED
    BY <2>2, <1>5 DEF IInv, Counted
<1>8. Owned'
  <2>1. ASSUME NEW m \in Message, NEW w \in Which
        PROVE  (Has(m, w)' <=> Has(m, w)) /\ messages'[m].data[w] = messages[m].data[w]
    <3>1. CASE m = i
      BY <3>1, <1>1, <1>2, <1>4 DEF Has, Passed
    <3>2. CASE m # i
      <4>1. ~ Passed(m, w) /\ ~ Passed(m, w)'
        BY <3>2, <1>1 DEF Passed
      <4> QED
        BY <4>1, <3>2, <1>4 DEF Has
    <3> QED
      BY <3>1, <3>2
  <2>2. ASSUME NEW d \in Chunk, pool'.allocated[d], d \notin stray'
        PROVE  \E m \in Message, w \in Which :
                   Has(m, w)' /\ messages'[m].data[w] = d
    <3>1. PICK m \in Message, w \in Which : Has(m, w) /\ messages[m].data[w] = d
      BY <2>2, <1>1 DEF IInv, Owned
    <3> QED
      BY <3>1, <2>1
  <2>3. ASSUME NEW m \in Message, NEW w \in Which, Has(m, w)'
        PROVE  /\ messages'[m].data[w] \in Chunk
               /\ pool'.allocated[messages'[m].data[w]]
               /\ blocks'[messages'[m].data[w]] = <<m, w>>
               /\ messages'[m].data[w] \notin stray'
    <3>1. Has(m, w) /\ messages'[m].data[w] = messages[m].data[w]
      BY <2>1, <2>3
    <3>2. /\ messages[m].data[w] \in Chunk /\ pool.allocated[messages[m].data[w]]
          /\ blocks[messages[m].data[w]] = <<m, w>> /\ messages[m].data[w] \notin stray
      BY <3>1, <1>1 DEF IInv, Owned
    <3> QED
      BY <3>1, <3>2, <1>1
  <2>4. \A d \in stray' : pool'.allocated[d]
    BY <1>1 DEF IInv, Owned
  <2> QED
    BY <2>2, <2>3, <2>4, <1>1 DEF Owned
<1>9. Assembled'
  BY <1>1 DEF Assembled
<1>10. PutOnce'
  <2> DEFINE S == Message \X Seq(Message \X Which)
  <2>1. out \in Seq(S) /\ Len(out) \in Nat
    BY DEF IInv, PutOnce
  <2>2. <<i, MSG>> \in S
    <3>1. i \in Message /\ FirstPackets(i, NumPackets) \in Seq(Message \X Which)
      BY <1>2, PacketsType
    <3> QED
      BY <3>1, <1>2
  <2>3. out' = Append(out, <<i, MSG>>)
    BY <1>1, <1>2
  <2> HIDE DEF S
  <2>4. /\ out' \in Seq(S) /\ Len(out') = Len(out) + 1
        /\ out'[Len(out) + 1] = <<i, MSG>>
        /\ \A k \in 1 .. Len(out) : out'[k] = out[k]
    BY <2>1, <2>2, <2>3
  <2>5. ASSUME NEW k \in 1 .. Len(out)
        PROVE  /\ out[k][1] \in Message /\ out[k][1] < Cur /\ out[k][1] # i
               /\ messages'[out[k][1]].id = -1
               /\ out[k][2] = FirstPackets(out[k][1], NumPackets)
    <3>1. out[k] \in S
      BY <2>1
    <3>2. out[k][1] \in Message
      BY <3>1 DEF S
    <3>3. /\ out[k][1] < Cur /\ messages[out[k][1]].id = -1
          /\ out[k][2] = FirstPackets(out[k][1], NumPackets)
      BY DEF IInv, PutOnce
    <3>4. out[k][1] # i
      BY <3>3, <1>2
    <3> QED
      BY <3>2, <3>3, <3>4, <1>4
  <2>6. ASSUME NEW k \in 1 .. Len(out')
        PROVE  /\ out'[k][1] < Cur' /\ messages'[out'[k][1]].id = -1
               /\ out'[k][2] = FirstPackets(out'[k][1], NumPackets)
    <3>1. CASE k = Len(out) + 1
      BY <3>1, <2>4, <1>2, <1>4, <1>5
    <3>2. CASE k \in 1 .. Len(out)
      BY <3>2, <2>4, <2>5, <1>5
    <3> QED
      BY <3>1, <3>2, <2>1, <2>4
  <2>7. ASSUME NEW k \in 1 .. Len(out'), NEW l \in 1 .. Len(out'),
               out'[k][1] = out'[l][1]
        PROVE  k = l
    <3>1. CASE k \in 1 .. Len(out) /\ l \in 1 .. Len(out)
      BY <3>1, <2>4, <2>7 DEF IInv, PutOnce
    <3>2. CASE k = Len(out) + 1 /\ l \in 1 .. Len(out)
      BY <3>2, <2>4, <2>5, <2>7
    <3>3. CASE l = Len(out) + 1 /\ k \in 1 .. Len(out)
      BY <3>3, <2>4, <2>5, <2>7
    <3> QED
      BY <3>1, <3>2, <3>3, <2>1, <2>4
  <2> QED
    BY <2>4, <2>6, <2>7 DEF S, PutOnce
<1> QED
  BY <1>6, <1>7, <1>8, <1>9, <1>10 DEF IInv, Square

LEMMA ReleaseIInv == ASSUME IInv, Release PROVE IInv'
<1>1. /\ pc = "release" /\ pc' = "done"
      /\ pool' = mm_release /\ blocks' = [s \in Chunk |-> Junk]
      /\ UNCHANGED <<messages, g_has_more, given, stray, mvars, tvars, action>>
  BY DEF Release
<1>2. pool' \in PoolType
  <2> DEFINE none == [s \in Chunk |-> FALSE]
  <2>1. mm_init = [allocated |-> none, last_allocated |-> -1]
    BY DEF mm_init
  <2>2. none \in [Chunk -> BOOLEAN] /\ 0 \in Chunk
    OBVIOUS
  <2> HIDE DEF none
  <2>3. mm_release = [allocated |-> none, last_allocated |-> 0]
    BY <2>1 DEF mm_release
  <2> QED
    BY <1>1, <2>2, <2>3 DEF PoolType
<1>3. blocks' \in [Chunk -> Content] /\ Cur' = Cur /\ Pos' = Pos
  BY <1>1 DEF Content, Cur, Pos
<1>4. TypeOK'
  BY <1>1, <1>2, <1>3 DEF IInv, TypeOK, mvars, tvars
<1>5. Assembled' /\ Owned' /\ Square'
  BY <1>1 DEF IInv, Assembled, Owned, Square
<1>6. Counted'
  BY <1>1, <1>3 DEF IInv, Counted
<1>7. PutOnce'
  BY <1>1, <1>3 DEF IInv, PutOnce, mvars
<1> QED
  BY <1>4, <1>5, <1>6, <1>7 DEF IInv

LEMMA NextIInv == IInv /\ [Next]_vars => IInv'
<1> SUFFICES ASSUME IInv, [Next]_vars
             PROVE  IInv'
  OBVIOUS
<1>1. CASE Alarm
  BY <1>1, ArrivesIInv, NoPacketIInv, TickOnlyIInv DEF Alarm
<1>2. CASE Main
  BY <1>2, LoopIInv, ScanIInv, CopyIInv, WipeIInv, PutOutIInv, ReleaseIInv DEF Main
<1>3. CASE UNCHANGED vars
  <2>1. UNCHANGED <<pool, blocks, messages, g_has_more, given, stray, i, j, MSG,
                    out, timer, busy, late, action, pc>>
    BY <1>3 DEF vars, pvars, mvars, tvars
  <2>2. pool' \in PoolType /\ blocks' \in [Chunk -> Content] /\ Cur' = Cur /\ Pos' = Pos
    BY <2>1 DEF IInv, TypeOK, Content, Cur, Pos
  <2>3. TypeOK'
    BY <2>1, <2>2 DEF IInv, TypeOK
  <2>4. \A m, w : Has(m, w)' <=> Has(m, w)
    BY <2>1 DEF Has, Passed
  <2>5. Owned'
    <3>1. Owned
      BY DEF IInv
    <3> QED
      BY <3>1, <2>1, <2>4 DEF Owned
  <2>6. Counted'
    BY <2>1, <2>2 DEF IInv, Counted
  <2>7. Assembled' /\ Square'
    BY <2>1, <2>2 DEF IInv, Assembled, Square, FirstPackets
  <2>8. PutOnce'
    <3>1. PutOnce
      BY DEF IInv
    <3>2. out' = out /\ messages' = messages /\ Cur' = Cur
      BY <2>1, <2>2
    <3> QED
      BY <3>1, <3>2 DEF PutOnce
  <2> QED
    BY <2>3, <2>5, <2>6, <2>7, <2>8 DEF IInv
<1> QED
  BY <1>1, <1>2, <1>3 DEF Next

-----------------------------------------------------------------------------
(***************************************************************************)
(* What main owes to the messages that are complete.                       *)
(***************************************************************************)
\* The packets that have come since message m was complete.
Since(m) == given - (m + 1) * NumPackets

\* Where main has not paused since the last tick.
Awake == {"test", "scan", "copy", "wipe", "nap"}

USE DEF Awake

\* Main is about to look at message m.
LooksAt(m) ==
    /\ g_has_more
    /\ pc = "test" \/ (pc \in {"scan", "copy", "wipe"} /\ i <= m)

\* A message that is complete is out, or main has been late for each packet
\* since, and once more unless it looks at the message before it pauses.
Late ==
    /\ ~ g_has_more => given = NumMessages * NumPackets
    /\ pc \in Awake => busy
    /\ pc \in {"disarm", "restore", "release", "done"} => ~ g_has_more
    /\ \A m \in Message : m < Cur /\ messages[m].id = -1 => IsOut(m)
    /\ pc # "killed" => \A m \in Message : m < Cur =>
          \/ IsOut(m) \/ late > Since(m)
          \/ late >= Since(m) /\ LooksAt(m)

LEMMA Numbers ==
    ASSUME IInv
    PROVE  /\ given \in Nat /\ late \in Nat /\ Cur \in Nat /\ Pos \in Which
           /\ NumMessages * NumPackets \in Nat /\ given <= NumMessages * NumPackets
           /\ given = NumPackets * Cur + Pos
           /\ \A m \in Message : Since(m) \in Int
<1>1. NumMessages * NumPackets \in Nat
  OBVIOUS
<1>2. given \in Nat /\ given <= NumMessages * NumPackets /\ late \in Nat
  BY <1>1 DEF IInv, TypeOK
<1>3. Cur \in Nat /\ Pos \in Which /\ given = NumPackets * Cur + Pos
  BY <1>2, DivMod DEF Cur, Pos
<1>4. ASSUME NEW m \in Message
      PROVE  Since(m) \in Int
  <2>1. (m + 1) * NumPackets \in Int
    OBVIOUS
  <2> QED
    BY <1>2, <2>1 DEF Since
<1> QED
  BY <1>1, <1>2, <1>3, <1>4

LEMMA TickLate ==
    ASSUME IInv, Tick
    PROVE  /\ late' \in Nat /\ late' >= late /\ busy' /\ pc \notin {"done", "killed"}
           /\ busy => late' = late + 1
  BY Numbers DEF Tick, IInv, TypeOK

LEMMA InitLate == Init => Late
<1> SUFFICES ASSUME Init
             PROVE  Late
  OBVIOUS
<1>1. Cur = 0 /\ Message \subseteq Nat
  BY DEF Init, Cur
<1> QED
  BY <1>1 DEF Init, Late

\* A packet comes: a message that was complete before waits for one packet
\* more, and one that it completes for none.
LEMMA ArrivesLate == ASSUME IInv, Late, PacketArrives PROVE Late'
<1>1. Tick /\ action = "handler" /\ HasPacket /\ UNCHANGED <<i, out>>
  BY DEF PacketArrives, mvars
<1>2. /\ late' \in Nat /\ late' >= late /\ busy' /\ (busy => late' = late + 1)
      /\ pc \notin {"done", "killed", "scan", "copy", "wipe"}
  BY <1>1, TickLate DEF IInv, TypeOK
<1>3. g_has_more
  BY <1>1, Numbers DEF Late, HasPacket
<1>4. CASE pc' = "killed" /\ UNCHANGED pvars
  BY <1>1, <1>2, <1>4 DEF Late, pvars, Cur, IsOut
<1>5. CASE mm_get(pool).ret # NoChunk
  <2>1. Cur \in Message /\ Pos \in Which /\ given' = given + 1
    BY <1>1, <1>5, NextPacket DEF IInv, PacketArrives
  <2>2. PICK m0 \in Message : m0 = Cur /\ get_packet.msg_id = m0
    BY <2>1 DEF get_packet, Cur
  <2>3. /\ messages'[m0].id = m0
        /\ \A m \in Message \ {m0} : messages'[m] = messages[m]
    BY <1>5, <2>2 DEF PacketArrives, IInv, TypeOK
  <2>4. /\ Pos + 1 < NumPackets => Cur' = Cur /\ Pos' = Pos + 1
        /\ Pos + 1 = NumPackets => Cur' = Cur + 1 /\ Pos' = 0
    BY <1>1, <2>1, NextPacket DEF IInv
  <2>5. pc' = (IF pc = "paused" THEN "test" ELSE pc) /\ g_has_more' = g_has_more
    BY <1>5 DEF PacketArrives, Wake
  <2>6. pc \in {"test", "nap", "paused"}
    BY <1>2, <1>3 DEF Late, IInv, TypeOK
  <2>7. ASSUME NEW m \in Message, m < Cur'
        PROVE  IsOut(m)' \/ late' > Since(m)' \/ (late' >= Since(m)' /\ LooksAt(m)')
    <3>1. CASE m < Cur
      <4>1. Since(m) \in Int /\ Since(m)' = Since(m) + 1
        <5>1. (m + 1) * NumPackets \in Int /\ given \in Nat
          BY Numbers
        <5> QED
          BY <2>1, <5>1 DEF Since
      <4>2. CASE IsOut(m)
        BY <1>1, <4>2 DEF IsOut
      <4>3. CASE pc = "paused" /\ late > Since(m)
        <5>1. late' >= Since(m)'
          BY <1>2, <4>1, <4>3, Numbers
        <5>2. LooksAt(m)'
          BY <1>3, <2>5, <4>3 DEF LooksAt
        <5> QED
          BY <5>1, <5>2
      <4>4. CASE pc = "nap" /\ late > Since(m)
        <5>1. late' = late + 1
          BY <1>2, <4>4 DEF Late
        <5> QED
          BY <4>1, <4>4, <5>1, Numbers
      <4>5. CASE pc = "test" /\ late >= Since(m)
        <5>1. late' = late + 1 /\ LooksAt(m)'
          BY <1>2, <1>3, <2>5, <4>5 DEF Late, LooksAt
        <5> QED
          BY <4>1, <4>5, <5>1, Numbers
      <4> QED
        BY <1>2, <2>6, <3>1, <4>1, <4>2, <4>3, <4>4, <4>5, Numbers DEF Late, LooksAt
    <3>2. CASE ~ (m < Cur)
      <4>1. m = Cur /\ Pos + 1 = NumPackets
        BY <2>1, <2>4, <2>7, <3>2, Numbers
      <4>2. Since(m)' = 0
        <5>1. given = NumPackets * m + Pos
          BY <4>1, Numbers
        <5>2. (m + 1) * NumPackets = NumPackets * m + NumPackets
          OBVIOUS
        <5>3. NumPackets * m \in Int
          OBVIOUS
        <5> QED
          BY <2>1, <4>1, <5>1, <5>2, <5>3 DEF Since
      <4>3. CASE pc = "paused"
        BY <1>2, <1>3, <2>5, <4>2, <4>3 DEF LooksAt
      <4>4. CASE pc \in {"test", "nap"}
        <5>1. late' = late + 1
          BY <1>2, <4>4 DEF Late
        <5> QED
          BY <4>2, <5>1, Numbers
      <4> QED
        BY <2>6, <4>3, <4>4
    <3> QED
      BY <3>1, <3>2
  <2>8. ASSUME NEW m \in Message, m < Cur', messages'[m].id = -1
        PROVE  IsOut(m)'
    <3>1. m # m0
      BY <2>3, <2>8
    <3>2. m < Cur
      BY <2>1, <2>2, <2>4, <2>8, <3>1, Numbers
    <3> QED
      BY <1>1, <2>3, <2>8, <3>1, <3>2 DEF Late, IsOut
  <2> QED
    BY <1>2, <1>3, <2>5, <2>6, <2>7, <2>8 DEF Late
<1> QED
  BY <1>4, <1>5 DEF PacketArrives

\* No packet comes: main does not look at the messages again.
LEMMA NoPacketLate == ASSUME IInv, Late, NoPacket PROVE Late'
<1>1. /\ Tick /\ action = "handler" /\ ~ HasPacket /\ g_has_more' = FALSE
      /\ UNCHANGED <<messages, given, i, out>>
      /\ pc' = "killed" \/ Wake
  BY DEF NoPacket, mvars
<1>2. /\ late' \in Nat /\ late' >= late /\ busy' /\ (busy => late' = late + 1)
      /\ pc \notin {"done", "killed", "scan", "copy", "wipe"}
  BY <1>1, TickLate DEF IInv, TypeOK
<1>3. given' = NumMessages * NumPackets
  BY <1>1, Numbers DEF HasPacket
<1>4. UNCHANGED <<Cur, messages>> /\ \A m : IsOut(m)' <=> IsOut(m)
  BY <1>1 DEF Cur, IsOut
<1>5. \A m \in Message : Since(m)' = Since(m) /\ Since(m) \in Int
  BY <1>1, Numbers DEF Since
<1>6. ASSUME NEW m \in Message, m < Cur, pc' # "killed"
      PROVE  IsOut(m)' \/ late' > Since(m)'
  <2>1. CASE pc = "test"
    <3>1. late' = late + 1
      BY <1>2, <2>1 DEF Late
    <3>2. IsOut(m) \/ late >= Since(m)
      BY <1>2, <1>5, <1>6, Numbers DEF Late
    <3> QED
      BY <1>4, <1>5, <3>1, <3>2, Numbers
  <2>2. CASE pc # "test"
    <3>1. IsOut(m) \/ late > Since(m)
      BY <1>2, <1>6, <2>2 DEF Late, LooksAt
    <3> QED
      BY <1>2, <1>4, <1>5, <3>1, Numbers
  <2> QED
    BY <2>1, <2>2
<1> QED
  BY <1>1, <1>2, <1>3, <1>4, <1>6 DEF Late

\* Everything else that leaves the messages and what is out alone.
LEMMA QuietLate ==
    ASSUME IInv, Late, UNCHANGED <<messages, given, out, g_has_more>>,
           late' \in Nat, late' >= late,
           pc' \in Awake => busy',
           pc' \in {"disarm", "restore", "release", "done"} => ~ g_has_more,
           pc' # "killed" => pc # "killed",
           pc' # "killed" => \A m \in Message :
              LooksAt(m) /\ m < Cur /\ ~ IsOut(m) => LooksAt(m)'
    PROVE  Late'
<1>1. UNCHANGED Cur /\ \A m : IsOut(m)' <=> IsOut(m)
  BY DEF Cur, IsOut
<1>2. \A m \in Message : Since(m)' = Since(m) /\ Since(m) \in Int
  BY Numbers DEF Since
<1>3. ASSUME NEW m \in Message, m < Cur, pc' # "killed"
      PROVE  IsOut(m)' \/ late' > Since(m)' \/ (late' >= Since(m)' /\ LooksAt(m)')
  BY <1>1, <1>2, <1>3, Numbers DEF Late
<1> QED
  BY <1>1, <1>3 DEF Late

LEMMA TickOnlyLate == ASSUME IInv, Late, TickIgnored \/ TickKills PROVE Late'
<1>1. Tick /\ UNCHANGED <<pvars, mvars, action>>
  BY DEF TickIgnored, TickKills
<1>2. late' \in Nat /\ late' >= late /\ busy' /\ pc # "killed"
  BY <1>1, TickLate
<1>3. pc' = pc \/ pc' = "killed"
  BY DEF TickIgnored, TickKills
<1>4. UNCHANGED <<messages, given, out, g_has_more, i>>
  BY <1>1 DEF pvars, mvars
<1>5. pc' # "killed" => \A m \in Message : LooksAt(m) => LooksAt(m)'
  BY <1>3, <1>4 DEF LooksAt
<1> QED
  BY <1>2, <1>3, <1>4, <1>5, QuietLate DEF Late

LEMMA LoopLate ==
    ASSUME IInv, Late, Loop \/ Unmask \/ Pause \/ Disarm \/ Restore \/ Release
    PROVE  Late'
<1>1. /\ UNCHANGED <<messages, given, out, g_has_more, late>> /\ late \in Nat
      /\ pc \in Awake /\ pc' \in Awake => busy'
  BY Numbers DEF Late, Loop, Unmask, Pause, Disarm, Restore, Release, pvars, mvars, tvars
<1>2. \A m \in Message : m \in Nat /\ m < NumMessages
  OBVIOUS
<1>3. CASE Loop
  <2>1. /\ pc = "test" /\ (g_has_more => pc' = "scan" /\ i' = 0)
        /\ (~ g_has_more => pc' = "disarm")
    BY <1>3 DEF Loop
  <2>2. \A m \in Message : LooksAt(m) => LooksAt(m)'
    BY <1>1, <1>2, <2>1 DEF LooksAt
  <2>3. pc' \in {"scan", "disarm"} /\ (pc' = "disarm" => ~ g_has_more)
    BY <2>1
  <2> QED
    BY <1>1, <2>1, <2>2, <2>3, QuietLate, SMT
<1>4. CASE Unmask
  <2>1. pc = "scan" /\ i = NumMessages /\ pc' = "nap" /\ busy' = busy
    BY <1>4 DEF Unmask, tvars
  <2>2. ASSUME NEW m \in Message, LooksAt(m)
        PROVE  FALSE
    <3>1. i <= m /\ m < i
      BY <2>1, <2>2 DEF LooksAt
    <3> QED
      BY <2>1, <3>1
  <2>3. pc' \in Awake => busy'
    BY <1>1, <2>1
  <2> QED
    BY <1>1, <2>1, <2>2, <2>3, QuietLate
<1>5. CASE Pause
  <2>1. pc = "nap" /\ pc' = "paused" /\ \A m \in Message : ~ LooksAt(m)
    BY <1>5 DEF Pause, LooksAt
  <2> QED
    BY <1>1, <2>1, QuietLate
<1>6. CASE Disarm \/ Restore \/ Release
  <2>1. /\ pc \in {"disarm", "restore", "release"}
        /\ pc' \in {"restore", "release", "done"}
    BY <1>6 DEF Disarm, Restore, Release
  <2>2. ~ g_has_more /\ \A m \in Message : ~ LooksAt(m)
    BY <2>1 DEF Late, LooksAt
  <2> QED
    BY <1>1, <2>1, <2>2, QuietLate
<1> QED
  BY <1>3, <1>4, <1>5, <1>6

\* The scan passes over a message only if it is out or not complete.
LEMMA ScanLate == ASSUME IInv, Late, Scan PROVE Late'
<1>1. /\ pc = "scan" /\ i \in Message
      /\ UNCHANGED <<messages, given, out, g_has_more, late, busy>> /\ late \in Nat
      /\ busy'
  BY Numbers DEF Scan, Late, IInv, TypeOK, pvars, tvars
<1>2. CASE Complete(i)
  <2>1. pc' = "copy" /\ i' = i
    BY <1>2 DEF Scan
  <2>2. \A m \in Message : LooksAt(m) => LooksAt(m)'
    BY <1>1, <2>1 DEF LooksAt
  <2> QED
    BY <1>1, <2>1, <2>2, QuietLate
<1>3. CASE ~ Complete(i)
  <2>1. pc' = "scan" /\ i' = i + 1
    BY <1>1, <1>3 DEF Scan
  <2>2. i < Cur => IsOut(i)
    <3> SUFFICES ASSUME i < Cur, messages[i].id # -1
                 PROVE  FALSE
      BY <1>1 DEF Late
    <3>1. messages[i].id = i /\ messages[i].num_packets = NumMessages
      BY <1>1 DEF IInv, Counted
    <3>2. messages[i].how_many_arrived = NumPackets
      BY <1>1 DEF IInv, Counted
    <3> QED
      BY <1>3, <3>1, <3>2 DEF Complete, IInv, Square
  <2>3. ASSUME NEW m \in Message, LooksAt(m), m < Cur, ~ IsOut(m)
        PROVE  LooksAt(m)'
    <3>1. i <= m /\ i # m
      BY <1>1, <2>2, <2>3 DEF LooksAt
    <3> QED
      BY <1>1, <2>1, <2>3, <3>1 DEF LooksAt
  <2> QED
    BY <1>1, <2>1, <2>3, QuietLate
<1> QED
  BY <1>2, <1>3

LEMMA AssembleLate == ASSUME IInv, Late, Copy \/ Wipe PROVE Late'
<1>1. /\ pc \in {"copy", "wipe"} /\ pc' \in {"copy", "wipe"}
      /\ UNCHANGED <<messages, given, out, g_has_more, i, late>> /\ late \in Nat /\ busy'
  BY Numbers DEF Copy, Wipe, tvars, Late, Awake
<1>2. \A m \in Message : LooksAt(m) => LooksAt(m)'
  BY <1>1 DEF LooksAt
<1> QED
  BY <1>1, <1>2, QuietLate

LEMMA PutOutLate == ASSUME IInv, Late, PutOut PROVE Late'
<1>1. /\ pc = "copy" /\ pc' = "scan" /\ i' = i + 1
      /\ out' = Append(out, <<messages[i].id, MSG>>)
      /\ messages' = [messages EXCEPT ![i].id = -1]
      /\ UNCHANGED <<given, g_has_more, late>> /\ busy'
  BY DEF PutOut, Late, tvars
<1>2. i \in Message /\ messages[i].id = i
  BY <1>1 DEF IInv, Assembled
<1>3. \A m \in Message \ {i} : messages'[m] = messages[m]
  BY <1>1, <1>2 DEF IInv, TypeOK
<1>4. /\ Len(out') = Len(out) + 1 /\ out'[Len(out) + 1] = <<i, MSG>>
      /\ Len(out) \in Nat /\ \A k \in 1 .. Len(out) : out'[k] = out[k]
  <2>1. out \in Seq(Message \X Seq(Message \X Which))
    BY DEF IInv, PutOnce
  <2>2. out' = Append(out, <<i, MSG>>)
    BY <1>1, <1>2
  <2> QED
    BY <2>1, <2>2
<1>5. /\ \A m \in Message : m = i \/ IsOut(m) => IsOut(m)'
  <2>1. Len(out) + 1 \in 1 .. Len(out') /\ out'[Len(out) + 1][1] = i
    BY <1>4
  <2>2. \E k \in 1 .. Len(out') : out'[k][1] = i
    BY <2>1
  <2>3. ASSUME NEW m \in Message, NEW k \in 1 .. Len(out), out[k][1] = m
        PROVE  \E l \in 1 .. Len(out') : out'[l][1] = m
    BY <1>4, <2>3
  <2> QED
    BY <2>2, <2>3 DEF IsOut
<1>6. Cur' = Cur /\ \A m \in Message : Since(m)' = Since(m)
  BY <1>1 DEF Cur, Since
<1>7. ASSUME NEW m \in Message, m < Cur
      PROVE  IsOut(m)' \/ late' > Since(m)' \/ (late' >= Since(m)' /\ LooksAt(m)')
  <2>1. CASE m = i
    BY <1>5, <2>1
  <2>2. CASE m # i
    <3>1. LooksAt(m) => LooksAt(m)'
      BY <1>1, <1>2, <2>2 DEF LooksAt
    <3>2. IsOut(m) \/ late > Since(m) \/ (late >= Since(m) /\ LooksAt(m))
      BY <1>1, <1>7 DEF Late
    <3> QED
      BY <1>1, <1>5, <1>6, <3>1, <3>2
  <2> QED
    BY <2>1, <2>2
<1>8. ASSUME NEW m \in Message, m < Cur, messages'[m].id = -1
      PROVE  IsOut(m)'
  BY <1>3, <1>5, <1>8 DEF Late
<1> QED
  BY <1>1, <1>6, <1>7, <1>8 DEF Late

LEMMA NextLate == ASSUME IInv, Late, [Next]_vars PROVE Late'
<1>1. CASE Alarm
  BY <1>1, ArrivesLate, NoPacketLate, TickOnlyLate DEF Alarm
<1>2. CASE Main
  BY <1>2, LoopLate, ScanLate, AssembleLate, PutOutLate DEF Main
<1>3. CASE UNCHANGED vars
  <2>1. /\ UNCHANGED <<messages, given, out, g_has_more, late, busy, pc, i>>
        /\ late \in Nat
    BY <1>3, Numbers DEF vars, pvars, mvars, tvars
  <2>2. \A m \in Message : LooksAt(m) => LooksAt(m)'
    BY <2>1 DEF LooksAt
  <2>3. late' \in Nat /\ late' >= late
    BY <2>1
  <2>4. pc' \in Awake => busy'
    BY <2>1 DEF Late
  <2>5. pc' \in {"disarm", "restore", "release", "done"} => ~ g_has_more
    BY <2>1 DEF Late
  <2> QED
    BY <2>1, <2>2, <2>3, <2>4, <2>5, QuietLate
<1> QED
  BY <1>1, <1>2, <1>3 DEF Next

\* All packets have come when main ends.
LEMMA LateLeftOut == ASSUME IInv, Late PROVE LeftOutIfLate
<1> SUFFICES ASSUME pc = "done", NEW m \in Message
             PROVE  IsOut(m) \/ late > NumPackets * (NumMessages - 1 - m)
  BY DEF LeftOutIfLate
<1>1. given = NumMessages * NumPackets /\ ~ g_has_more
  BY DEF Late
<1>2. Cur = NumMessages
  <2>1. NumMessages * NumPackets = NumPackets * NumMessages + 0
    OBVIOUS
  <2>2. (NumPackets * NumMessages + 0) \div NumPackets = NumMessages
    BY DivUnique
  <2> QED
    BY <1>1, <2>1, <2>2 DEF Cur
<1>3. IsOut(m) \/ late > Since(m)
  BY <1>1, <1>2 DEF Late, LooksAt
<1>4. Since(m) = NumPackets * (NumMessages - 1 - m)
  <2>1. NumPackets * (NumMessages - 1 - m)
           = NumMessages * NumPackets - (m + 1) * NumPackets
    OBVIOUS
  <2> QED
    BY <1>1, <2>1 DEF Since
<1> QED
  BY <1>3, <1>4

-----------------------------------------------------------------------------
LEMMA IInvWhole == IInv => OutputWhole
<1> SUFFICES ASSUME IInv
             PROVE  OutputWhole
  OBVIOUS
<1>1. \A k \in 1 .. Len(out) :
         out[k][2] = [w \in 1 .. NumPackets |-> <<out[k][1], w - 1>>]
  BY DEF IInv, PutOnce, FirstPackets
<1> QED
  BY <1>1 DEF IInv, PutOnce, OutputWhole

LEMMA IInvChunks == IInv => ChunksOwned
<1> SUFFICES ASSUME IInv, pc # "done"
             PROVE  /\ Allocated(pool) = {ChunkOf(p) : p \in Held} \cup stray
                    /\ \A p \in Held : blocks[ChunkOf(p)] = p /\ ChunkOf(p) \notin stray
                    /\ \A p, o \in Held : ChunkOf(p) = ChunkOf(o) => p = o
  BY DEF ChunksOwned
<1>1. ASSUME NEW p \in Held
      PROVE  /\ p[1] \in Message /\ p[2] \in Which /\ p = <<p[1], p[2]>>
             /\ Has(p[1], p[2]) /\ ChunkOf(p) = messages[p[1]].data[p[2]]
  BY DEF Held, Has, ChunkOf
<1>2. ASSUME NEW p \in Held
      PROVE  /\ ChunkOf(p) \in Chunk /\ pool.allocated[ChunkOf(p)]
             /\ blocks[ChunkOf(p)] = p /\ ChunkOf(p) \notin stray
  <2>1. PICK m \in Message, w \in Which :
            p = <<m, w>> /\ Has(m, w) /\ ChunkOf(p) = messages[m].data[w]
    BY <1>1
  <2>2. /\ messages[m].data[w] \in Chunk /\ pool.allocated[messages[m].data[w]]
        /\ blocks[messages[m].data[w]] = <<m, w>> /\ messages[m].data[w] \notin stray
    BY <2>1 DEF IInv, Owned
  <2> QED
    BY <2>1, <2>2
<1>3. ASSUME NEW m \in Message, NEW w \in Which, Has(m, w)
      PROVE  <<m, w>> \in Held /\ ChunkOf(<<m, w>>) = messages[m].data[w]
  BY <1>3 DEF Held, Has, ChunkOf
<1>4. ASSUME NEW c \in Chunk, pool.allocated[c]
      PROVE  c \in {ChunkOf(p) : p \in Held} \cup stray
  <2>1. CASE c \in stray
    BY <2>1
  <2>2. CASE c \notin stray
    <3>1. PICK m \in Message, w \in Which : Has(m, w) /\ messages[m].data[w] = c
      BY <2>2, <1>4 DEF IInv, Owned
    <3> QED
      BY <3>1, <1>3
  <2> QED
    BY <2>1, <2>2
<1>5. \A c \in stray : c \in Chunk /\ pool.allocated[c]
  BY DEF IInv, Owned, TypeOK
<1>6. Allocated(pool) = {ChunkOf(p) : p \in Held} \cup stray
  BY <1>2, <1>4, <1>5 DEF Allocated
<1>7. \A p, o \in Held : ChunkOf(p) = ChunkOf(o) => p = o
  BY <1>2
<1> QED
  BY <1>2, <1>6, <1>7

\* With as many packets in a message as there are messages, for every pool
\* and however often main is late:

\* the variables of packet_extra.c keep their types, and the counters of the
\* handler and of main stay in range;
THEOREM TypeCorrect == ASSUME Square PROVE Spec => []TypeOK
<1>1. Init => IInv
  BY InitIInv
<1>2. IInv /\ [Next]_vars => IInv'
  BY NextIInv
<1>3. IInv => TypeOK
  BY DEF IInv
<1> QED
  BY <1>1, <1>2, <1>3, PTL DEF Spec

\* every chunk that packet_extra.c has taken has one owner, whose packet it
\* holds;
THEOREM ChunksStayOwned == ASSUME Square PROVE Spec => []ChunksOwned
<1>1. Init => IInv
  BY InitIInv
<1>2. IInv /\ [Next]_vars => IInv'
  BY NextIInv
<1>3. IInv => ChunksOwned
  BY IInvChunks
<1> QED
  BY <1>1, <1>2, <1>3, PTL DEF Spec

\* and what it puts out is whole messages, each once, although the handler
\* comes between any two steps and chunks are handed out again.
THEOREM MessagesWhole == ASSUME Square PROVE Spec => []OutputWhole
<1>1. Init => IInv
  BY InitIInv
<1>2. IInv /\ [Next]_vars => IInv'
  BY NextIInv
<1>3. IInv => OutputWhole
  BY IInvWhole
<1> QED
  BY <1>1, <1>2, <1>3, PTL DEF Spec

\* If main is always back in pause when the timer ticks, every message is
\* put out; for each message that is left out it has been late once, and
\* once more for each packet that came after the message was complete.
THEOREM NoneLeftOut == ASSUME Square PROVE Spec => []LeftOutIfLate
<1>1. Init => IInv /\ Late
  BY InitIInv, InitLate
<1>2. IInv /\ Late /\ [Next]_vars => (IInv /\ Late)'
  BY NextIInv, NextLate
<1>3. IInv /\ Late => LeftOutIfLate
  BY LateLeftOut
<1> QED
  BY <1>1, <1>2, <1>3, PTL DEF Spec
=============================================================================
