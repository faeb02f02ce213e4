\* Coarse-grained: two writers under one writer lock, and a reader.
CONSTANTS
    NThreads = 3
    InitThreads = 3
    Writers = {0, 1}
    Finishers = {}
    Objs = {a, b}
    NULL = NULL
    RLU_MAX_WRITE_SETS = 2
    max_write_sets = 1
    Coarse = TRUE
    WriterLocks = {l1}
    LockOf <- TheLock
    MAX_VERSION = 1000
    MaxStarts <- Starts
    Starts0 = 1
    Starts1 = 1
    Starts2 = 1
SPECIFICATION Spec
SYMMETRY Symmetric
INVARIANTS
    CoarseLockNeverFails
    WriterLocksCover
PROPERTIES
    ImplementsSnapshot
