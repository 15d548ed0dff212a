SPECIFICATION FairSpec
CONSTANTS
    Inputs <- MCInputs
    Junk = Junk
INVARIANTS
    NobodyStuck
    SegmentsDisjoint
    ResultSorted
PROPERTY
    RunsToEnd
CHECK_DEADLOCK FALSE
