SPECIFICATION Spec
CONSTANTS
    t1 = t1
    t2 = t2
    Threads <- TwoThreads
    Cap = 2
    Sizes = {1}
    MaxRec = 4
    MaxCrash = 1
    FlushAlone = TRUE
    CrashAnywhere = TRUE
INVARIANT RecordsInOrder
