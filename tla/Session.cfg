SPECIFICATION FairSpec
CONSTANTS
    Conn = {c1, c2}
    Worker = {w1, w2}
    Peer = {p, q}
    UI = UI
    Fragile = {c1, c2}
    Env = {"handshakeFails", "messages", "spuriousWakeup", "userInterface"}
    MaxClients = 4
    MaxMsgs = 3
INVARIANTS TypeOK WorkersAreExclusive MapIsExact OnlyItsClient
PROPERTY SessionEnds
CHECK_DEADLOCK FALSE
