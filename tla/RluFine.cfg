\* Fine-grained: one writer that defers its write-backs, and a reader that joins.
CONSTANTS
    NThreads = 2
    InitThreads = 1
    Writers = {0}
    Finishers = {}
    Objs = {a, b}
    NULL = NULL
    RLU_MAX_WRITE_SETS = 4
    max_write_sets = 2
    Coarse = FALSE
    WriterLocks = {}
    LockOf <- NoLock
    MAX_VERSION = 1000
    MaxStarts <- Starts
    Starts0 = 4
    Starts1 = 2
    Starts2 = 0
SPECIFICATION Spec
SYMMETRY Symmetric
INVARIANTS
    TypeOK
    SnapshotConsistent
    CurrentSlotFree
PROPERTIES
    ImplementsSnapshot
