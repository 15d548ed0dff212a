\* More threads than entries, so that a thread can find the full queue
\* empty; that is the end of the process, and the only state with no step.
\* Both kinds of cache; two files are enough to fill it, for two threads
\* that miss the same file list it twice.
SPECIFICATION RetrySpec
CONSTANTS
    Capacity = 2
    Workers = {t1, t2, t3}
    Files = {f1, f2}
    Item = {e1, e2, e3, e4, e5}
    NULL = NULL
    Unset = Unset
SYMMETRY Symmetry
INVARIANTS
    EntryOwnedOnce
    FaultsOnlyIfCrowded
PROPERTIES
    ImplementsEvictionList
    FailsAgainOnlyIfOvertaken
CHECK_DEADLOCK FALSE
