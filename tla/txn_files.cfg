CONSTANTS
    element = element
    zero = zero
    one = one
    Keys = {element}
    Values = {zero, one}
    Changesets <- UpOrDown
    Torn = torn
    MaxSession = 2
    MaxTxns = 2
    Mishaps = {}
SPECIFICATION Spec
INVARIANTS FilesTypeOK LocalTxnsKeepFiles UndoRedoFindFiles
CHECK_DEADLOCK FALSE
