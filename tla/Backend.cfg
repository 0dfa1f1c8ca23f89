CONSTANTS
    Side = {s1, s2}
    Other <- Opposite
    Byte = {0, 1, 2}
    MaxRounds = 3
    Base = 3
    BUFSIZE = 5
    Tag = 1
    Sizes = {1, 3, 5}
    Room = 3
    MaxSent = 3
    Interface = {i1, i2}
    First = i1
    NoSocket = NoSocket
    User = {u1, u2}
    Job = {u1, u2}
    Killer = Killer
    NoJob = NoJob
    Main = Main
    MountAt = {m1, m2}
    MaxMounted = 2
    Config <- Startup
    Asks <- Agendas
    Capacity = 1
    ByHand = {m1}
    Env = {"interrupt", "unreadable", "slowClient", "badPeer", "busyMount"}
    s1 = s1
    s2 = s2
    i1 = i1
    i2 = i2
    m1 = m1
    m2 = m2
    u1 = u1
    u2 = u2
SPECIFICATION MCSpec
INVARIANTS OneLeader DeliveredInOrder JobsInOrder LoopsAreKnown
PROPERTIES ListensOnNewest Answered ShutdownEnds
CHECK_DEADLOCK FALSE
