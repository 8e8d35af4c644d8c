SPECIFICATION MCSpec
CONSTANTS
    Tasks = {1, 2}
    Ids = {"x", "y", "z"}
    Services <- AllServices
    Deletions <- AnyDeletions
    AtOnce = 2
    Page = 2
    BatchMax = 2
    MaxCalls = 3
    MaxFaults = 2
INVARIANTS DoneAsTold FamilyPreserved
PROPERTIES OthersRowsKept KindNeverInvented
CHECK_DEADLOCK FALSE
