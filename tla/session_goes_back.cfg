CONSTANTS
    element = element
    schema = schema
    zero = zero
    one = one
    Keys = {element, schema}
    SchemaKeys = {schema}
    Values = {zero, one}
    InitialState <- AllZero
    MaxSession = 3
    MaxTxns = 3
    MaxTimeline = 2
    MaxNesting = 1
    Mishaps = {"SessionGoesBack"}
SPECIFICATION Spec
INVARIANTS DiskRecorded
