SPECIFICATION Spec
CONSTANTS
    c1 = c1
    c2 = c2
    c3 = c3
    checkpoint = checkpoint
    cleaner = cleaner
    Clients <- TwoClients
    Loops <- MCLoops
    None = None
    MaxTx = 2
INVARIANTS StartedOnce
