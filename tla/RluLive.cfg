\* Liveness: two writers that lock the same object, and finish.
CONSTANTS
    NThreads = 2
    InitThreads = 2
    Writers = {0, 1}
    Finishers = {0, 1}
    Objs = {a}
    NULL = NULL
    RLU_MAX_WRITE_SETS = 4
    max_write_sets = 2
    Coarse = FALSE
    WriterLocks = {}
    LockOf <- NoLock
    MAX_VERSION = 1000
    MaxStarts <- Starts
    Starts0 = 2
    Starts1 = 1
    Starts2 = 0
SPECIFICATION FairSpec
INVARIANTS
    FinishedLogUnreferenced
PROPERTIES
    RequestsHonoured
    SyncTerminates
    EventuallyUnlocked
