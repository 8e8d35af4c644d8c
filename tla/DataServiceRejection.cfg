SPECIFICATION Spec
CONSTANTS
    t1 = t1
    t2 = t2
    a = a
    b = b
    Tasks = {t1, t2}
    Ids = {a, b}
    Values = {"x", "y"}
    Bulks <- TwoItems
    Kinds <- Reads
    Stores = {"keyed", "appending"}
    MaxRequests = 2
    MaxFailures = 1
INVARIANTS FailureAnswered
CHECK_DEADLOCK FALSE
