SPECIFICATION Spec
CONSTANTS
    Prio = {0, 1}
    Size = 2
    Consumers = {c1, c2}
    Item = {a}
    None = None
INVARIANT FullInsertSurvives
CHECK_DEADLOCK FALSE
