CONSTANTS
    element = element
    schema = schema
    zero = zero
    one = one
    Keys = {element, schema}
    SchemaKeys = {schema}
    Values = {zero, one}
    InitialState <- AllZero
    MaxSession = 2
    MaxTxns = 3
    MaxTimeline = 2
    MaxNesting = 1
    Mishaps = {}
SPECIFICATION Spec
INVARIANTS TypeOK DiskRecorded WorkRecorded TxnsChain RedoStackSound NextIdIsFree PackagedTxnsKept
PROPERTIES UndoStaysInSession UndoIsExact
