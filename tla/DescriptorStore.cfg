SPECIFICATION Spec
CONSTANTS
    t1 = t1
    t2 = t2
    c1 = c1
    Tasks = {t1, t2}
    Collections = {c1}
    Columns <- TwoColumns
    Stores <- All
    Kinds <- Calls
    MaxRequests = 5
    MaxFailures = 2
SYMMETRY Symmetry
CONSTRAINT ShortOverlaps
INVARIANTS TypeOK KeyListedOnce DropHeals
PROPERTIES OwnColumnOnly ImplementsCatalogue
CHECK_DEADLOCK FALSE
