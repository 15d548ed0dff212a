\* The four messages of four packets that get_packet gives.  Main may be late
\* six times, so that two messages can be left out; with eleven chunks none
\* is missing then, and chunks are handed out again.
SPECIFICATION FairSpec
CONSTANTS
    NumMessages = 4
    NumPackets = 4
    Chunks = 11
    MaxLate = 6
    Zero = Zero
    Junk = Junk
INVARIANTS
    OutputWhole
    ChunksOwned
    LeftOutIfLate
PROPERTY
    Ends
CHECK_DEADLOCK FALSE
