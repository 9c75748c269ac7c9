CONSTANTS
    r1 = r1
    r2 = r2
    r3 = r3
    r4 = r4
    e1 = e1
    e2 = e2
    token = token
    Requests = {r1, r2, r3, r4}
    Executors = {e1}
    Priorities = {0, 1}
    Tokens = {}
    NoToken = none
    NoRequest = none
    Delays = {FALSE, TRUE}
    MaxQueueSize = 2
    MaxCallers = 2
    AutoShutdown = FALSE
    Mishaps = {"OpenFails"}
SPECIFICATION SafetySpec
SYMMETRY Symmetry
INVARIANTS QueueTypeOK AnsweredOnce QueueBounded HeldInOnePlace
PROPERTIES HighestFirst
CHECK_DEADLOCK FALSE
