SPECIFICATION Spec
CONSTANTS
    A = A
    B = B
    Pages <- OnePage
    MaxTx = 2
    CheckpointAlone = TRUE
    MaxStarts = 2
    MaxUpdates = 2
    MaxCheckpoints = 1
    MaxCrashes = 1
INVARIANTS
    TypeOK
    WAL
    CommittedValues
