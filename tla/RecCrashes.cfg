SPECIFICATION FairSpec
CONSTANTS
    A = A
    B = B
    Pages <- TwoPages
    MaxTx = 1
    CheckpointAlone = TRUE
    MaxStarts = 2
    MaxUpdates = 2
    MaxCheckpoints = 1
    MaxCrashes = 2
INVARIANTS
    RedoRepeatsHistory
    CompensatedOnce
    PrevLSNChain
    EndIsFinal
PROPERTIES
    RecoveryEnds
