SPECIFICATION FairSpec
CONSTANTS
    c1 = c1
    c2 = c2
    c3 = c3
    checkpoint = checkpoint
    cleaner = cleaner
    Clients <- ThreeClients
    Loops <- MCLoops
    None = None
    MaxTx = 1
INVARIANTS TypeOK RecoveryAlone QuietWhenClosed CloseReports
PROPERTIES CallsReturn FailureStopsAll
