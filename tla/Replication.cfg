SPECIFICATION MCSpec
CONSTANTS
    a = a
    b = b
    Peer <- Two
    Writers <- Two
    NChunks = 1
    MaxEdits = 2
    MaxSyncs = 2
    MaxBacklog = 2
    Env = {"busyWrite", "disconnect"}
    Hole = Hole
INVARIANTS OwnerDominates VectorsCountEdits
PROPERTIES EditIsFresh NoEditLost ImplementsCausal
SYMMETRY Swap
