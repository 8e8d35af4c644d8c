SPECIFICATION Spec
CONSTANTS
    c1 = c1
    t1 = t1
    t2 = t2
    Collections = {c1}
    Tasks = {t1, t2}
    TTL = 1
    Latency = 1
    MaxVersion = 2
    Columns <- OneColumn
    Kinds <- AllKinds
    MaxRequests = 1
CONSTRAINT Unanswered
VIEW Seen
SYMMETRY Symmetry
INVARIANTS StableExact OldFieldsKept
CHECK_DEADLOCK FALSE
