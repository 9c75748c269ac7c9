CONSTANTS
    element = element
    schema = schema
    zero = zero
    one = one
    two = two
    Keys = {element}
    SchemaKeys = {}
    Values = {zero, one, two}
    InitialState <- AllZero
    MaxSession = 2
    MaxTxns = 2
    MaxTimeline = 2
    MaxNesting = 0
    Mishaps = {}
SPECIFICATION FairPullSpec
INVARIANTS PullTypeOK DiskRecorded PullWorkRecorded TxnsChain RedoStackSound PackagedTxnsKept
    PulledCleanly RebasedInOrder NextIdIsFreeAfterPull
PROPERTIES RebaseLeavesNoneReversed OnlyRebasedTxnLeaves RebaseLoopEnds
