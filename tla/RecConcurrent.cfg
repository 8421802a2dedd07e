SPECIFICATION Spec
CONSTANTS
    A = A
    B = B
    Pages <- TwoPages
    MaxTx = 2
    CheckpointAlone = TRUE
    MaxStarts = 2
    MaxUpdates = 2
    MaxCheckpoints = 0
    MaxCrashes = 1
SYMMETRY PageSymmetry
INVARIANTS
    
    UndoReadsOwn
    EndMeansResolved
PROPERTIES
    
    RefinesTxStore
