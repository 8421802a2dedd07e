SPECIFICATION Spec
CONSTANTS
    T1 = T1
    T2 = T2
    T3 = T3
    A = A
    B = B
    Nil = Nil
    Txns <- ThreeTxns
    Blocks <- OneBlock
SYMMETRY TxnSymmetry
INVARIANTS
    UnlockNeverPanics
