SPECIFICATION Spec
CONSTANTS
    t1 = t1
    t2 = t2
    c1 = c1
    Tasks = {t1, t2}
    Collections = {c1}
    Requests <- Retyping
    Providers <- AllProviders
    MaxFailures = 1
    MaxRequests = 3
INVARIANTS TypeOK UpdateExact AddedBeforeRemoved SharedColumnsKept
CHECK_DEADLOCK FALSE
