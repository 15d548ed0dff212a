------------------------------ MODULE Packets ------------------------------
(***************************************************************************)
(* "Memory Pool/packet_extra.c": a timer whose SIGALRM handler takes one   *)
(* packet at each tick and stores it in a chunk of the memory manager, and *)
(* a main loop that looks for messages that are complete, puts them out    *)
(* and pauses until the next tick.                                         *)
(*                                                                         *)
(* The handler comes between two steps of main, and is one step itself:    *)
(* the signal is blocked while it runs.  While main scans the messages it  *)
(* ignores the signal.  Packets come in the order of get_packet: the k-th  *)
(* is number k % NumPackets of message k \div NumPackets.  pc is where     *)
(* main is:                                                                *)
(*    test      at the condition of its loop                               *)
(*    scan      in handle_complete_messages, about to look at message i    *)
(*    copy      in assemble_message, before the memcpy of packet j         *)
(*    wipe      in mm_put, the chunk given back and not yet cleared        *)
(*    nap       the signal enabled again, before pause                     *)
(*    paused    in pause                                                   *)
(*    disarm, restore, release     the three calls after the loop          *)
(*    done, killed                                                         *)
(***************************************************************************)
EXTENDS MemoryPool, Sequences

CONSTANTS
    NumMessages, NumPackets,   \* num_messages and num_packets of get_packet
    MaxLate,                   \* bound on ticks that find main busy
    Zero,                      \* what a chunk holds that mm_put has cleared
    Junk                       \* what memory holds that nobody has written

ASSUME NumbersAssumption ==
    NumMessages \in Nat \ {0} /\ NumPackets \in Nat \ {0} /\ MaxLate \in Nat
ASSUME ContentsDiffer ==
    Zero # Junk /\ {Zero, Junk} \cap (Int \cup (Int \X Int)) = {}

Message == 0 .. NumMessages - 1
Which == 0 .. NumPackets - 1

VARIABLES
    pool, blocks,   \* g_MM: the chunks handed out, and what they hold
    messages,       \* g_messages
    g_has_more,
    given,          \* how many packets get_packet has given
    timer,          \* "periodic", "once" or "off"
    action,         \* what SIGALRM does: "handler", "ignore" or "default"
    pc, i, j,
    MSG,            \* the message being assembled
    out,            \* what has been put out: <<id, message>> in order
    stray,          \* the chunks stored beyond the array
    busy,           \* main has not paused since the last tick, or at all
    late            \* how many ticks have come while busy

pvars == <<pool, blocks, messages, g_has_more, given, stray>>
mvars == <<i, j, MSG, out>>
tvars == <<timer, busy, late>>
vars == <<pvars, mvars, tvars, action, pc>>

Init ==
    /\ pool = mm_init /\ blocks = [s \in Chunk |-> Junk]
    /\ messages = [m \in Message |->
                     [id |-> -1, num_packets |-> 0, how_many_arrived |-> 0,
                      data |-> [w \in Which |-> Junk]]]
    /\ g_has_more = TRUE /\ given = 0 /\ stray = {}
    /\ timer = "periodic" /\ action = "handler"
    /\ pc = "test" /\ i = 0 /\ j = 0 /\ MSG = << >> /\ out = << >>
    /\ busy = TRUE /\ late = 0

-----------------------------------------------------------------------------
\* The timer expires.  Main may be late for a tick, but not for ever.
Tick ==
    /\ timer # "off" /\ pc \notin {"done", "killed"}
    /\ busy => late < MaxLate
    /\ late' = IF busy THEN late + 1 ELSE late
    /\ busy' = TRUE
    /\ timer' = IF timer = "once" THEN "off" ELSE timer

\* pause returns when a handler has.
Wake == pc' = IF pc = "paused" THEN "test" ELSE pc

\* Whether get_packet has a packet left, and the next one.  What it says of
\* how many packets the message has is the number of messages.
HasPacket == given < NumMessages * NumPackets

get_packet ==
    [msg_id |-> given \div NumPackets, which |-> given % NumPackets,
     how_many |-> NumMessages]

\* packet_handler with a packet.
PacketArrives ==
    /\ Tick /\ action = "handler" /\ HasPacket
    /\ LET m == get_packet.msg_id
           w == get_packet.which
           r == mm_get(pool)
       IN  IF r.ret = NoChunk
           THEN /\ pc' = "killed"       \* memcpy to -1
                /\ UNCHANGED pvars
           ELSE /\ pool' = r.mm
                /\ blocks' = [blocks EXCEPT ![r.ret] = <<m, w>>]
                /\ messages' = [messages EXCEPT ![m] =
                     [id |-> m, num_packets |-> get_packet.how_many,
                      how_many_arrived |-> messages[m].how_many_arrived + 1,
                      data |-> [messages[m].data EXCEPT ![w] = r.ret]]]
                /\ given' = given + 1
                /\ Wake
                /\ UNCHANGED <<g_has_more, stray>>
    /\ UNCHANGED <<mvars, action>>

\* Slip: the trigger to stop is missing.
NoPacket_GoesOn ==
    /\ Tick /\ action = "handler" /\ ~ HasPacket
    /\ LET r == mm_get(pool)
       IN  \/ /\ r.ret # NoChunk
              /\ pool' = r.mm
              /\ blocks' = [blocks EXCEPT ![r.ret] = Junk]
              /\ stray' = stray \cup {r.ret}
              /\ Wake
           \/ pc' = "killed" /\ UNCHANGED <<pool, blocks, stray>>
    /\ UNCHANGED <<messages, given, mvars, action, g_has_more>>

\* packet_handler when get_packet has none left: everything is done as if
\* there were one, for message -1 and a packet number nobody has set.  The
\* stores beyond the array hit memory nobody uses, or end the program.
NoPacket ==
    /\ Tick /\ action = "handler" /\ ~ HasPacket
    /\ g_has_more' = FALSE
    /\ LET r == mm_get(pool)
       IN  \/ /\ r.ret # NoChunk
              /\ pool' = r.mm
              /\ blocks' = [blocks EXCEPT ![r.ret] = Junk]
              /\ stray' = stray \cup {r.ret}
              /\ Wake
           \/ pc' = "killed" /\ UNCHANGED <<pool, blocks, stray>>
    /\ UNCHANGED <<messages, given, mvars, action>>

TickIgnored ==
    /\ Tick /\ action = "ignore"
    /\ UNCHANGED <<pvars, mvars, action, pc>>

\* The default action of SIGALRM.
TickKills ==
    /\ Tick /\ action = "default"
    /\ pc' = "killed"
    /\ UNCHANGED <<pvars, mvars, action>>

-----------------------------------------------------------------------------
\* The loop of main: handle_complete_messages begins by ignoring the signal.
Loop ==
    /\ pc = "test"
    /\ IF g_has_more
       THEN pc' = "scan" /\ i' = 0 /\ action' = "ignore"
       ELSE pc' = "disarm" /\ UNCHANGED <<i, action>>
    /\ UNCHANGED <<pvars, j, MSG, out, tvars>>

Complete(m) ==
    /\ messages[m].id # -1
    /\ messages[m].how_many_arrived = messages[m].num_packets

\* Slip: the scan ends at the first message that is not complete.
Scan_Breaks ==
    /\ pc = "scan" /\ i < NumMessages
    /\ IF Complete(i)
       THEN pc' = "copy" /\ j' = 0 /\ MSG' = << >> /\ UNCHANGED i
       ELSE i' = NumMessages /\ UNCHANGED <<pc, j, MSG>>
    /\ UNCHANGED <<pvars, out, tvars, action>>

\* The next message of the scan.
Scan ==
    /\ pc = "scan" /\ i < NumMessages
    /\ IF Complete(i)
       THEN pc' = "copy" /\ j' = 0 /\ MSG' = << >> /\ UNCHANGED i
       ELSE i' = i + 1 /\ UNCHANGED <<pc, j, MSG>>
    /\ UNCHANGED <<pvars, out, tvars, action>>

\* Slip: the chunk of the first packet is not given back.
Copy_Leaks ==
    /\ pc = "copy" /\ j < messages[i].num_packets
    /\ LET chunk == messages[i].data[j]
       IN  /\ MSG' = Append(MSG, blocks[chunk])
           /\ pool' = IF j = 0 THEN pool ELSE mm_put(pool, chunk)
    /\ pc' = "wipe"
    /\ UNCHANGED <<blocks, messages, g_has_more, given, stray, i, j, out, tvars, action>>

\* memcpy out of the chunk, and the first half of mm_put.
Copy ==
    /\ pc = "copy" /\ j < messages[i].num_packets
    /\ LET chunk == messages[i].data[j]
       IN  /\ MSG' = Append(MSG, blocks[chunk])
           /\ pool' = mm_put(pool, chunk)
    /\ pc' = "wipe"
    /\ UNCHANGED <<blocks, messages, g_has_more, given, stray, i, j, out, tvars, action>>

\* The second half.
Wipe ==
    /\ pc = "wipe"
    /\ blocks' = [blocks EXCEPT ![messages[i].data[j]] = Zero]
    /\ j' = j + 1
    /\ pc' = "copy"
    /\ UNCHANGED <<pool, messages, g_has_more, given, stray, i, MSG, out, tvars, action>>

\* Slip: the message is not cleared after it has been put out.
PutOut_KeepsId ==
    /\ pc = "copy" /\ j = messages[i].num_packets
    /\ out' = Append(out, <<messages[i].id, MSG>>)
    /\ i' = i + 1
    /\ pc' = "scan"
    /\ UNCHANGED <<pvars, j, MSG, tvars, action>>

\* printf, and the message is cleared.
PutOut ==
    /\ pc = "copy" /\ j = messages[i].num_packets
    /\ out' = Append(out, <<messages[i].id, MSG>>)
    /\ messages' = [messages EXCEPT ![i].id = -1]
    /\ i' = i + 1
    /\ pc' = "scan"
    /\ UNCHANGED <<pool, blocks, g_has_more, given, stray, j, MSG, tvars, action>>

\* The end of the scan enables the signal.
Unmask ==
    /\ pc = "scan" /\ i = NumMessages
    /\ action' = "handler"
    /\ pc' = "nap"
    /\ UNCHANGED <<pvars, mvars, tvars>>

Pause ==
    /\ pc = "nap"
    /\ pc' = "paused" /\ busy' = FALSE
    /\ UNCHANGED <<pvars, mvars, timer, late, action>>

\* setitimer with the interval cleared and it_value as it was: the timer
\* expires once more, a hundred microseconds later.
Disarm ==
    /\ pc = "disarm"
    /\ timer' = "once" /\ busy' = FALSE
    /\ pc' = "restore"
    /\ UNCHANGED <<pvars, mvars, late, action>>

Restore ==
    /\ pc = "restore"
    /\ action' = "default"
    /\ pc' = "release"
    /\ UNCHANGED <<pvars, mvars, tvars>>

\* mm_release, and main returns.
Release ==
    /\ pc = "release"
    /\ pool' = mm_release /\ blocks' = [s \in Chunk |-> Junk]
    /\ pc' = "done"
    /\ UNCHANGED <<messages, g_has_more, given, stray, mvars, tvars, action>>

-----------------------------------------------------------------------------
Alarm == PacketArrives \/ NoPacket \/ TickIgnored \/ TickKills

Main ==
    \/ Loop \/ Scan \/ Copy \/ Wipe \/ PutOut \/ Unmask \/ Pause
    \/ Disarm \/ Restore \/ Release

Next == Alarm \/ Main

Spec == Init /\ [][Next]_vars

\* The timer ticks, and main runs.
FairSpec == Spec /\ WF_vars(Alarm) /\ WF_vars(Main)

-----------------------------------------------------------------------------
\* What a chunk may hold, and what is put out.
Content == (Message \X Which) \cup {Zero, Junk}

\* The variables keep their types, and the scan ignores the signal.
TypeOK ==
    /\ pool \in PoolType
    /\ blocks \in [Chunk -> Content]
    /\ messages \in [Message ->
         [id : Message \cup {-1}, num_packets : {0, NumMessages},
          how_many_arrived : 0 .. NumPackets,
          data : [Which -> Chunk \cup {Junk}]]]
    /\ g_has_more \in BOOLEAN /\ given \in 0 .. NumMessages * NumPackets
    /\ timer \in {"periodic", "once", "off"}
    /\ action \in {"handler", "ignore", "default"}
    /\ pc \in {"test", "scan", "copy", "wipe", "nap", "paused", "disarm",
               "restore", "release", "done", "killed"}
    /\ i \in 0 .. NumMessages /\ j \in 0 .. NumMessages
    /\ stray \in SUBSET Chunk
    /\ busy \in BOOLEAN /\ late \in 0 .. MaxLate
    /\ pc \in {"scan", "copy", "wipe"} <=> action = "ignore"

\* A message that is put out is whole and itself: its packets, in order,
\* each as it arrived although chunks are handed out again and again; and
\* none is put out twice.
OutputWhole ==
    /\ \A k \in 1 .. Len(out) :
          out[k][2] = [w \in 1 .. NumPackets |-> <<out[k][1], w - 1>>]
    /\ \A k, l \in 1 .. Len(out) : out[k][1] = out[l][1] => k = l

\* The packets that are in a chunk: of a message not put out, those that
\* have arrived and that the assembly has not passed.
Passed(m, w) ==
    i = m /\ \/ pc = "copy" /\ w < j
             \/ pc = "wipe" /\ w <= j

Held ==
    {p \in Message \X Which :
        /\ messages[p[1]].id # -1
        /\ messages[p[1]].data[p[2]] # Junk
        /\ ~ Passed(p[1], p[2])}

ChunkOf(p) == messages[p[1]].data[p[2]]

\* Every chunk that is handed out has one owner: a packet that main has
\* still to put out, whose data it holds, or the store beyond the array; no
\* chunk is leaked.
ChunksOwned ==
    pc # "done" =>
        /\ Allocated(pool) = {ChunkOf(p) : p \in Held} \cup stray
        /\ \A p \in Held : blocks[ChunkOf(p)] = p /\ ChunkOf(p) \notin stray
        /\ \A p, o \in Held : ChunkOf(p) = ChunkOf(o) => p = o

IsOut(m) == \E k \in 1 .. Len(out) : out[k][1] = m

\* If main is always back in pause when the timer ticks, every message is
\* put out; for each message that is left out it has been late once, and
\* once more for each packet that came after the message was complete.
LeftOutIfLate ==
    pc = "done" =>
        \A m \in Message :
            IsOut(m) \/ late > NumPackets * (NumMessages - 1 - m)

\* The program takes all packets and leaves its loop; it is never stuck in
\* pause, and dies, if it does, after that only.
Ends == <>(pc = "done" \/ (pc = "killed" /\ ~ g_has_more))
=============================================================================
