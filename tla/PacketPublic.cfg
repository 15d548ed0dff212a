\* The three packets of get_packet.  Main may be late for three ticks; with
\* eight chunks for the packets that come in the meantime the pool runs out
\* in some behaviours and not in others.
SPECIFICATION FairSpec
CONSTANTS
    HowMany = 3
    Chunks = 8
    MaxLate = 3
    Zero = Zero
    Junk = Junk
INVARIANTS
    OutputPrefix
    ChunksAccounted
PROPERTY
    Ends
CHECK_DEADLOCK FALSE
