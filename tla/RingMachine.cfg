\* Three slots wrap in every alignment; three items also allow the same
\* pointer to be enqueued more than once.
SPECIFICATION RingSpec
CONSTANTS
    Capacity = 3
    Item = {a, b, c}
    NULL = NULL
    Unset = Unset
INVARIANTS
    SearchReadsWrittenSlots
PROPERTY
    ImplementsList
