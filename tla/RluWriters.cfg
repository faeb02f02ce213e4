\* Fine-grained: two writers that lock the same objects and finish.
CONSTANTS
    NThreads = 2
    InitThreads = 2
    Writers = {0, 1}
    Finishers = {0, 1}
    Objs = {a, b}
    NULL = NULL
    RLU_MAX_WRITE_SETS = 2
    max_write_sets = 1
    Coarse = FALSE
    WriterLocks = {}
    LockOf <- NoLock
    MAX_VERSION = 1000
    MaxStarts <- Starts
    Starts0 = 2
    Starts1 = 1
    Starts2 = 0
SPECIFICATION Spec
SYMMETRY Symmetric
INVARIANTS
    GracePeriod
    LockOwnership
    NoLostUpdate
PROPERTIES
    StolenCopyStable
