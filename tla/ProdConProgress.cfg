\* Nobody closes the queue: every thread may sleep, and deadlock is checked.
SPECIFICATION ProgressSpec
CONSTANTS
    Capacity = 2
    Producers = {p1, p2}
    Consumers = {c1, c2}
    Closers = {}
    Item = {x1, x2, x3, x4}
    NULL = NULL
    Unset = Unset
    Nobody = Nobody
    MaxSpurious = 1
PROPERTIES
    ChannelKeepsMoving
    EveryItemTaken
