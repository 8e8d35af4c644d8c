SPECIFICATION FairSpec
CONSTANTS
    r1 = r1
    r2 = r2
    c1 = c1
    c2 = c2
    Requests = {r1, r2}
    Connections = {c1, c2}
    Routes <- MCRoutes
    Stores <- Databases
    Hooks <- MCHooks
CONSTRAINT FewCases
INVARIANTS TypeOK HonestAnswers ConnectionsKept ReloadTakesHold FailuresTold
PROPERTIES EveryRequestEnds
CHECK_DEADLOCK FALSE
