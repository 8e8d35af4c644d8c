SPECIFICATION Spec
CONSTANTS
    t1 = t1
    t2 = t2
    a = a
    b = b
    Tasks = {t1, t2}
    Ids = {a, b}
    Values = {"x", "y"}
    Bulks <- TwoItems
    Kinds <- All
    Stores = {"keyed", "appending"}
    MaxRequests = 3
    MaxFailures = 1
INVARIANTS TypeOK ResultsTell InsertedKept DeleteReturnsItems
CHECK_DEADLOCK FALSE
