CONSTANTS
    c1 = c1
    c2 = c2
    root = root
    Connections = {c1, c2}
    AnyConnection = any
    Parents = {root}
    Requests <- MCRequests
    Allocations <- MCAllocations
    Attempts = 2
    Ping = ping
    NoTask = none
    Manager = manager
    Operations = {"DropSchemasFails", "PullFails", "ApplySchemaChangesFails"}
    MaxOperations = 1
    MaxEvents = 0
SPECIFICATION Spec
PROPERTIES RequestsAnswered
CHECK_DEADLOCK FALSE
