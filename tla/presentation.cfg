CONSTANTS
    c1 = c1
    c2 = c2
    root = root
    Connections = {c1, c2}
    AnyConnection = any
    Parents = {root}
    Requests <- MCRequests
    Allocations <- MCAllocations
    Attempts = 2
    Ping = ping
    NoTask = none
    Manager = manager
    Operations = {"ImportSchemas"}
    MaxOperations = 1
    MaxEvents = 2
SPECIFICATION Spec
INVARIANTS PresentationTypeOK TaskInOnePlace QuietWhileBlocked RivalsApart DeletedAtRest
PROPERTIES RequestsAnswered ClosingEnds
CHECK_DEADLOCK FALSE
