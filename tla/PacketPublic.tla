---------------------------- MODULE PacketPublic ----------------------------
(***************************************************************************)
(* "Memory Pool/packet_public.c": one message is taken from the packets    *)
(* that a timer brings, and assembled once the timer has been stopped.     *)
(* The handler comes between two steps of main and is one step itself.     *)
(* get_packet never ends: packet k is number k % HowMany of its message,   *)
(* and a handler that comes after the last packet of the message begins    *)
(* the next one in the same structure.  pc is where main is:               *)
(*    test      at the condition of its loop                               *)
(*    nap       inside the loop, before pause                              *)
(*    paused    in pause                                                   *)
(*    disarm, restore     the two calls that stop the handler              *)
(*    copy      in assemble_message, before the memcpy of packet i         *)
(*    wipe      in mm_put, the chunk given back and not yet cleared        *)
(*    release   before mm_release                                          *)
(*    done, killed                                                         *)
(***************************************************************************)
EXTENDS MemoryPool, Sequences

CONSTANTS
    HowMany,     \* the packets of a message
    MaxLate,     \* bound on ticks that find main busy
    Zero,        \* what a chunk holds that mm_put has cleared
    Junk         \* what memory holds that nobody has written

ASSUME NumbersAssumption == HowMany \in Nat \ {0} /\ MaxLate \in Nat
ASSUME ContentsDiffer == Zero # Junk /\ {Zero, Junk} \cap Int = {}

Which == 0 .. HowMany - 1

VARIABLES
    pool, blocks,      \* MM: the chunks handed out, and what they hold
    message,           \* num_packets, and the chunk of each packet
    pkt_cnt, pkt_total,
    which,             \* of get_packet: the packet that comes next
    timer,             \* "periodic", "once" or "off"
    action,            \* what SIGALRM does: "handler" or "default"
    pc, i, MSG,
    busy,              \* main has not paused since the last tick, or at all
    late               \* how many ticks have come while busy

pvars == <<pool, blocks, message, pkt_cnt, pkt_total, which>>
mvars == <<i, MSG>>
tvars == <<timer, busy, late>>
vars == <<pvars, mvars, tvars, action, pc>>

\* Slip: it_interval is zero, and the timer expires once.
Init_OneShot ==
    /\ pool = mm_init /\ blocks = [s \in Chunk |-> Junk]
    /\ message = [num_packets |-> 0, data |-> [w \in Which |-> Junk]]
    /\ pkt_cnt = 0 /\ pkt_total = 1 /\ which = 0
    /\ timer = "once" /\ action = "handler"
    /\ pc = "test" /\ i = 0 /\ MSG = << >>
    /\ busy = TRUE /\ late = 0

Init ==
    /\ pool = mm_init /\ blocks = [s \in Chunk |-> Junk]
    /\ message = [num_packets |-> 0, data |-> [w \in Which |-> Junk]]
    /\ pkt_cnt = 0 /\ pkt_total = 1 /\ which = 0
    /\ timer = "periodic" /\ action = "handler"
    /\ pc = "test" /\ i = 0 /\ MSG = << >>
    /\ busy = TRUE /\ late = 0

-----------------------------------------------------------------------------
\* The timer expires.  Main may be late for a tick, but not for ever.
Tick ==
    /\ timer # "off" /\ pc \notin {"done", "killed"}
    /\ busy => late < MaxLate
    /\ late' = IF busy THEN late + 1 ELSE late
    /\ busy' = TRUE
    /\ timer' = IF timer = "once" THEN "off" ELSE timer

\* packet_handler: with no chunk left, memcpy to -1 ends the program; pause
\* returns when the handler has.
PacketArrives ==
    /\ Tick /\ action = "handler"
    /\ LET r == mm_get(pool)
           cnt == IF which = 0 THEN 1 ELSE pkt_cnt + 1
       IN  IF r.ret = NoChunk
           THEN pc' = "killed" /\ UNCHANGED pvars
           ELSE /\ pool' = r.mm
                /\ blocks' = [blocks EXCEPT ![r.ret] = which]
                /\ message' = [message EXCEPT !.data[which] = r.ret,
                                              !.num_packets = cnt]
                /\ pkt_cnt' = cnt /\ pkt_total' = HowMany
                /\ which' = (which + 1) % HowMany
                /\ pc' = IF pc = "paused" THEN "test" ELSE pc
    /\ UNCHANGED <<mvars, action>>

\* The default action of SIGALRM.
TickKills ==
    /\ Tick /\ action = "default"
    /\ pc' = "killed"
    /\ UNCHANGED <<pvars, mvars, action>>

-----------------------------------------------------------------------------
\* Slip: the packets are taken to be numbered from one.
Loop_FromOne ==
    /\ pc = "test"
    /\ pc' = IF pkt_cnt + 1 < pkt_total THEN "nap" ELSE "disarm"
    /\ UNCHANGED <<pvars, mvars, tvars, action>>

\* The loop of main: the count is tested, and pause called, in two steps.
Loop ==
    /\ pc = "test"
    /\ pc' = IF pkt_cnt < pkt_total THEN "nap" ELSE "disarm"
    /\ UNCHANGED <<pvars, mvars, tvars, action>>

Pause ==
    /\ pc = "nap"
    /\ pc' = "paused" /\ busy' = FALSE
    /\ UNCHANGED <<pvars, mvars, timer, late, action>>

\* setitimer with the interval cleared and it_value as it was: the timer
\* expires once more.
Disarm ==
    /\ pc = "disarm"
    /\ timer' = "once"
    /\ pc' = "restore"
    /\ UNCHANGED <<pvars, mvars, busy, late, action>>

Restore ==
    /\ pc = "restore"
    /\ action' = "default"
    /\ pc' = "copy"
    /\ UNCHANGED <<pvars, mvars, tvars>>

\* Slip: the chunk that is given back is that of the next packet.
Copy_PutsNext ==
    /\ pc = "copy" /\ i < message.num_packets
    /\ MSG' = Append(MSG, blocks[message.data[i]])
    /\ pool' = mm_put(pool, message.data[(i + 1) % HowMany])
    /\ pc' = "wipe"
    /\ UNCHANGED <<blocks, message, pkt_cnt, pkt_total, which, i, tvars, action>>

\* memcpy out of the chunk, and the first half of mm_put.
Copy ==
    /\ pc = "copy" /\ i < message.num_packets
    /\ MSG' = Append(MSG, blocks[message.data[i]])
    /\ pool' = mm_put(pool, message.data[i])
    /\ pc' = "wipe"
    /\ UNCHANGED <<blocks, message, pkt_cnt, pkt_total, which, i, tvars, action>>

\* The second half.
Wipe ==
    /\ pc = "wipe"
    /\ blocks' = [blocks EXCEPT ![message.data[i]] = Zero]
    /\ i' = i + 1
    /\ pc' = "copy"
    /\ UNCHANGED <<pool, message, pkt_cnt, pkt_total, which, MSG, tvars, action>>

\* The end of assemble_message, and the message is put out.
PutOut ==
    /\ pc = "copy" /\ i = message.num_packets
    /\ message' = [message EXCEPT !.num_packets = 0]
    /\ pc' = "release"
    /\ UNCHANGED <<pool, blocks, pkt_cnt, pkt_total, which, mvars, tvars, action>>

\* mm_release, and main returns.
Release ==
    /\ pc = "release"
    /\ pool' = mm_release /\ blocks' = [s \in Chunk |-> Junk]
    /\ pc' = "done"
    /\ UNCHANGED <<message, pkt_cnt, pkt_total, which, mvars, tvars, action>>

-----------------------------------------------------------------------------
Alarm == PacketArrives \/ TickKills

Main ==
    \/ Loop \/ Pause \/ Disarm \/ Restore
    \/ Copy \/ Wipe \/ PutOut \/ Release

Next == Alarm \/ Main

Spec == Init /\ [][Next]_vars

\* The timer ticks, and main runs.
FairSpec == Spec /\ WF_vars(Alarm) /\ WF_vars(Main)

-----------------------------------------------------------------------------
\* The variables keep their types; num_packets and pkt_cnt agree, with each
\* other and with the packet that comes next, until the message is put out.
TypeOK ==
    /\ pool \in PoolType
    /\ blocks \in [Chunk -> Which \cup {Zero, Junk}]
    /\ message \in [num_packets : 0 .. HowMany,
                    data : [Which -> Chunk \cup {Junk}]]
    /\ pkt_cnt \in 0 .. HowMany /\ pkt_total \in {1, HowMany}
    /\ which \in Which /\ which = pkt_cnt % HowMany
    /\ timer \in {"periodic", "once", "off"}
    /\ action \in {"handler", "default"}
    /\ pc \in {"test", "nap", "paused", "disarm", "restore", "copy", "wipe",
               "release", "done", "killed"}
    /\ i \in 0 .. HowMany
    /\ busy \in BOOLEAN /\ late \in 0 .. MaxLate
    /\ pc \notin {"release", "done", "killed"} => message.num_packets = pkt_cnt

\* What is put out is never mixed up: the first packets of a message, in
\* their order; and it is the whole message, unless a tick came between the
\* last packet and the end of the handler.
OutputPrefix ==
    pc \in {"release", "done"} =>
        /\ MSG = [k \in 1 .. Len(MSG) |-> k - 1]
        /\ Len(MSG) = HowMany \/ late > 0

\* The packets that have a chunk: the assembly gives one back for each
\* packet it has copied.
Held == {w \in Which : /\ message.data[w] # Junk
                       /\ w >= (IF pc = "wipe" THEN i + 1 ELSE i)}

\* A packet's chunk is its own and keeps what arrived; what else is handed
\* out has been overwritten by a message that came too early, and that is a
\* message's worth for each tick that found main busy, at most.
ChunksAccounted ==
    pc \notin {"done", "killed"} =>
        LET held == {message.data[w] : w \in Held}
        IN  /\ held \subseteq Allocated(pool)
            /\ \A w \in Held : blocks[message.data[w]] = w
            /\ Cardinality(Allocated(pool) \ held) <= HowMany * late

\* Although a packet that comes between the test and pause wakes nobody,
\* main leaves its loop, and the program ends.
Ends == <>(pc \in {"done", "killed"})
=============================================================================
