\* Three threads on a list of two keys; every block is used again.
CONSTANTS
    threads_nb = 3
    Threads <- AllThreads
    range = 2
    Keys <- AllKeys
    LIST_VAL_MIN <- Before
    LIST_VAL_MAX <- After
    Nodes = {l, h, x, y}
    p_min_node = h
    p_max_node = l
    NULL = NULL
    MaxOps <- Ops
    Ops0 = 1
    Ops1 = 1
    Ops2 = 1
SPECIFICATION FairSpec
INVARIANTS
    TypeOK
    NoUseAfterFree
    WorkTogether
    StatisticsComplete
    NothingLeft
PROPERTIES
    ImplementsSet
    Loads
