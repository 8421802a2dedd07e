SPECIFICATION Spec
CONSTANTS
    t1 = t1
    t2 = t2
    f1 = f1
    f2 = f2
    A = A
    B = B
    C = C
    refA = refA
    refA2 = refA2
    refB = refB
    refC = refC
    Txns <- MCTxns
    Blocks <- MCBlocks
    Refs <- MCRefs
    BlockOf <- MCBlockOf
    Bufs <- MCBufs
    None = None
    MaxPins = 2
    TornReads = FALSE
INVARIANTS TypeOK PoolConsistent PinsCounted PinnedKeepsBlock CacheCoherent SleepersNeedWake
