SPECIFICATION FairSpec
CONSTANTS
    c1 = c1
    c2 = c2
    t1 = t1
    t2 = t2
    Collections = {c1, c2}
    Tasks = {t1, t2}
    TTL = 2
    Latency = 1
    MaxVersion = 2
CONSTRAINT OneChangesTwice
INVARIANTS TypeOK BoundedStaleness
PROPERTIES RefreshExact KeepsPromise EventuallyCoherent
