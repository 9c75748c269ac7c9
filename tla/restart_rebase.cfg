CONSTANTS
    element = element
    schema = schema
    zero = zero
    one = one
    two = two
    Keys = {element}
    SchemaKeys = {}
    Values = {zero, one, two}
    InitialState <- AllZero
    MaxSession = 2
    MaxTxns = 2
    MaxTimeline = 2
    MaxNesting = 0
    Mishaps = {"RestartRebase"}
SPECIFICATION PullSpec
INVARIANTS DiskRecorded
