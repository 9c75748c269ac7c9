CONSTANTS
    r1 = r1
    r2 = r2
    r3 = r3
    r4 = r4
    e1 = e1
    e2 = e2
    token = token
    Requests = {r1, r2}
    Executors = {e1, e2}
    Priorities = {0}
    Tokens = {token}
    NoToken = none
    NoRequest = none
    Delays = {FALSE, TRUE}
    MaxQueueSize = 1
    MaxCallers = 2
    AutoShutdown = TRUE
    Mishaps = {}
SPECIFICATION Spec
INVARIANTS OneWaitsPerToken NoLostWakeup
PROPERTIES EveryRequestAnswered ShutdownEnds
