\* The smallest instance in which a number is closed twice and used again.
SPECIFICATION Spec
CONSTANTS
    Dispatchers = {d1}
    Workers = {w1, w2}
    Clients = {c1, c2, c3}
    Fds = {4, 5, 6}
    Capacity = 2
    NULL = NULL
    Unused = Unused
    File = File
SYMMETRY Symmetry
INVARIANTS
    AnswerReachesRequester
CHECK_DEADLOCK FALSE
