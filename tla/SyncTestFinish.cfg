\* The data of a thread is given back while it finishes.
CONSTANTS
    threads_nb = 2
    Threads <- AllThreads
    range = 2
    Keys <- AllKeys
    LIST_VAL_MIN <- Before
    LIST_VAL_MAX <- After
    Nodes = {l, h, x, y}
    p_min_node = h
    p_max_node = l
    NULL = NULL
    MaxOps <- Ops
    Ops0 = 1
    Ops1 = 1
    Ops2 = 1
SPECIFICATION Spec
INVARIANT DataOutlivesThread
