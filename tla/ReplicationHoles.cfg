SPECIFICATION Spec
CONSTANTS
    Peer = {a, b}
    Writers = {a}
    NChunks = 2
    MaxEdits = 1
    MaxSyncs = 2
    MaxBacklog = 2
    Env = {"disconnect"}
    Hole = Hole
INVARIANT InstalledIsComplete
CHECK_DEADLOCK FALSE
