SPECIFICATION Spec
CONSTANTS
    A = A
    B = B
    Pages <- TwoPages
    MaxTx = 1
    CheckpointAlone = FALSE
    MaxStarts = 1
    MaxUpdates = 1
    MaxCheckpoints = 1
    MaxCrashes = 1
SYMMETRY PageSymmetry
INVARIANTS
    WinnersKept
