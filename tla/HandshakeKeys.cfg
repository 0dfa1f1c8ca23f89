CONSTANTS
    Side = {s1, s2}
    Other <- Opposite
    Byte = {0, 1}
    MaxRounds = 3
    s1 = s1
    s2 = s2
SPECIFICATION ShakeSpec
INVARIANT KeysAgree
CHECK_DEADLOCK FALSE
