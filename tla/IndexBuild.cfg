SPECIFICATION FairSpec
CONSTANTS
    Tasks = {1, 2}
    Indexes <- MCIndexes
    Types <- MCTypes
    MaxCalls = 3
    MaxFaults = 1
    MaxChanges = 1
CONSTRAINT FewEvents
PROPERTIES ListExact CreateAnswered
CHECK_DEADLOCK FALSE
