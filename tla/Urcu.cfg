\* Three threads, two buckets: every removal synchronises, two of them at once too.
CONSTANTS
    threads = 3
    Buckets = {b1, b2}
    Nodes = {x, y}
    URCU_MAX_FREE_PTRS = 1
    NULL = NULL
    MaxOps <- Ops
    Ops0 = 2
    Ops1 = 1
    Ops2 = 1
SPECIFICATION FairSpec
INVARIANTS
    TypeOK
    NoUseAfterFree
    FreedOnce
PROPERTY SyncReturns
