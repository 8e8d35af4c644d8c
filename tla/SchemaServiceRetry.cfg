SPECIFICATION RetrySpec
CONSTANTS
    t1 = t1
    t2 = t2
    c1 = c1
    Tasks = {t1}
    Collections = {c1}
    Requests <- Both
    Providers <- Changing
    MaxFailures = 2
    MaxRequests = 8
PROPERTIES RetriesConverge
CHECK_DEADLOCK FALSE
