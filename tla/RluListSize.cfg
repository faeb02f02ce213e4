\* Two threads remove at the same time: the size of the list goes wrong.
CONSTANTS
    NThreads = 2
    InitThreads = 2
    Writers = {0, 1}
    Finishers = {0, 1}
    Objs = {h, l, x, y, z}
    NULL = NULL
    RLU_MAX_WRITE_SETS = 2
    max_write_sets = 1
    Coarse = FALSE
    WriterLocks = {}
    LockOf <- NoLock
    MAX_VERSION = 1000
    MaxStarts <- Sections
    Keys = {1, 2, 3}
    CallKeys = {1, 3}
    LIST_VAL_MIN = 0
    LIST_VAL_MAX = 4
    p_min_node = h
    p_max_node = l
    Node1 = x
    Node2 = y
    Node3 = z
    Initial <- ThreeNodes
    Ops <- Removers
    MaxOps <- Calls
    Updates0 = 1
    Updates1 = 2
    Reads1 = 0
SPECIFICATION ListSpec
INVARIANT ExpectedSize
CHECK_DEADLOCK FALSE
