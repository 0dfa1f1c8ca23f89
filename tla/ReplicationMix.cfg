SPECIFICATION MCSpec
CONSTANTS
    a = a
    b = b
    Peer <- Two
    Writers <- OnlyA
    NChunks = 1
    MaxEdits = 2
    MaxSyncs = 2
    MaxBacklog = 2
    Env = {"busyWrite"}
    Hole = Hole
INVARIANTS TypeOK VectorsAreMinted QuietSameContent QuietIsComplete
PROPERTY FairIsFetched
CHECK_DEADLOCK FALSE
