SPECIFICATION FairSpec
CONSTANTS
    t1 = t1
    t2 = t2
    Txns <- MCTxns
    None = None
    MaxBlocks = 2
    Slots = 2
INVARIANTS TypeOK NoDirtyRead NoPhantoms SlotStaysFree
PROPERTIES CallsReturn
