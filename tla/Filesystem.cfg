SPECIFICATION MCSpec
CONSTANTS
    Path <- Paths
    NSlots = 2
    Asked <- Nested
    MaxInode = 2
    Env = {"tree", "subscriptions", "peers", "crash"}
    Made <- Chain
    MaxWalks = 2
    MaxDrops = 1
    TreeEnv = {"remove"}
INVARIANTS MountTypes SlotsConserved ChangesAreCounted NothingIsHidden
INVARIANTS RowsAreLinked WalkIsComplete
PROPERTY SubscribedHasVersion
CHECK_DEADLOCK FALSE
