SPECIFICATION Spec
CONSTANTS
    a = a
    b = b
    c = c
    Peer <- Three
    Writers <- Ends
    Met <- Chain
    Env = {}
    MaxEdits = 2
    MaxSyncs = 2
    MaxDrops = 1
INVARIANTS RowsMeanTheTruth DownloadsMeanTheTruth NewerIsNewer ServedIsAsked
SYMMETRY Mirror
CHECK_DEADLOCK FALSE
