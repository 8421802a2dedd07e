SPECIFICATION FairSpec
CONSTANTS
    T1 = T1
    T2 = T2
    T3 = T3
    A = A
    B = B
    Nil = Nil
    Txns <- TwoTxns
    Blocks <- TwoBlocks
INVARIANTS
    TypeOK
    WordMatchesHolders
    ReservationOwned
PROPERTIES
    WriterOwnsWord
    RefinesRWLock
    CallsReturn
