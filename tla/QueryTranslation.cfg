CONSTANTS
    Rows <- MCRows
    Columns <- MCColumns
    Types <- MCTypes
    Requests <- MCRequests
    Dialects <- MCDialects
SPECIFICATION Spec
CHECK_DEADLOCK FALSE
INVARIANTS
    FilterExact
    PageExact
    AggregateExact
    AcceptedRuns
    StoredWhole
