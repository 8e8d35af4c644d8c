SPECIFICATION Spec
CONSTANTS
    t1 = t1
    t2 = t2
    c1 = c1
    Tasks = {t1}
    Collections = {c1}
    Requests <- Adding
    Providers <- OnlyFirestore
    MaxFailures = 0
    MaxRequests = 2
INVARIANTS AddedColumnsDescribed
CHECK_DEADLOCK FALSE
