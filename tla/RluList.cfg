\* The list under one updater that defers and a reader; both finish.
CONSTANTS
    NThreads = 2
    InitThreads = 2
    Writers = {0}
    Finishers = {0, 1}
    Objs = {h, l, x, y, z}
    NULL = NULL
    RLU_MAX_WRITE_SETS = 4
    max_write_sets = 2
    Coarse = FALSE
    WriterLocks = {}
    LockOf <- NoLock
    MAX_VERSION = 1000
    MaxStarts <- Sections
    Keys = {1, 2, 3}
    CallKeys = {1, 3}
    LIST_VAL_MIN = 0
    LIST_VAL_MAX = 4
    p_min_node = h
    p_max_node = l
    Node1 = x
    Node2 = y
    Node3 = z
    Initial <- ThreeNodes
    Ops <- UpdaterAndReader
    MaxOps <- Calls
    Updates0 = 3
    Updates1 = 0
    Reads1 = 1
SPECIFICATION ListFairSpec
INVARIANTS
    ListTypeOK
    NoUseAfterFree
    FreeBuffer
    ExpectedSize
    NothingLeaked
PROPERTIES
    ImplementsDeferredSet
    CallReturns
