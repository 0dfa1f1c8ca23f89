SPECIFICATION Spec
CONSTANTS
    a = a
    b = b
    c = c
    Peer <- Three
    Writers <- Ends
    Met <- Chain
    Env = {"connectDuringSync"}
    MaxEdits = 1
    MaxSyncs = 1
    MaxDrops = 1
INVARIANT RowsMeanTheTruth
SYMMETRY Mirror
CHECK_DEADLOCK FALSE
