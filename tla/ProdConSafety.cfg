\* Two producers and two consumers on two slots: both kinds of threads can
\* wait, and wrap-around happens.
SPECIFICATION Spec
CONSTANTS
    Capacity = 2
    Producers = {p1, p2}
    Consumers = {c1, c2}
    Closers = {k}
    Item = {x1, x2, x3, x4, x5, x6}
    NULL = NULL
    Unset = Unset
    Nobody = Nobody
    MaxSpurious = 1
SYMMETRY Symmetry
INVARIANTS
    TypeOK
    OwnedOnce
    NoSleepOver
    ExitMeansDrained
PROPERTY
    ImplementsChannel
CHECK_DEADLOCK FALSE
