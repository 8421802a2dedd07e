SPECIFICATION Spec
CONSTANTS
    t1 = t1
    t2 = t2
    Threads <- TwoThreads
    Cap = 2
    Sizes = {1, 2, 5}
    MaxRec = 4
    MaxCrash = 2
    FlushAlone = TRUE
    CrashAnywhere = FALSE
INVARIANTS
    TypeOK
    SavedIsOnDisk
    AckedOnDisk

    
