\* Two of everything: a number can be closed by two workers, and used again
\* by a file or the other client in between.
SPECIFICATION FairSpec
CONSTANTS
    Dispatchers = {d1, d2}
    Workers = {w1, w2}
    Clients = {c1, c2}
    Fds = {4, 5, 6}
    Capacity = 1
    NULL = NULL
    Unused = Unused
    File = File
INVARIANTS
    DescriptorsOwned
PROPERTY
    RequestsHandled
CHECK_DEADLOCK FALSE
