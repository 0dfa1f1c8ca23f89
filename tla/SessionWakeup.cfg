SPECIFICATION FairSpec
CONSTANTS
    Conn = {c1, c2, c3, c4}
    Worker = {w1, w2, w3, w4}
    Peer = {p, q}
    UI = UI
    Fragile = {c2}
    Env = {}
    MaxClients = 4
    MaxMsgs = 0
PROPERTY WaiterRegisters
CHECK_DEADLOCK FALSE
