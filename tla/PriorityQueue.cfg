SPECIFICATION ListSpec
CONSTANTS
    Prio = {0, 1}
    Size = 2
    Consumers = {c1, c2}
    Item = {a, b}
    None = None
INVARIANTS TypeOK NodesConserved LevelsExact NoLostWakeup ListsAreSequences
PROPERTIES ImplementsChannel UrgentServed
CHECK_DEADLOCK FALSE
