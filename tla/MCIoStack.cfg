CONSTANTS
    Msgs <- MCMsgs
    Size <- MCSize
    Kind <- MCKind
    NoMsg = NoMsg
    PtrSize = 2
    BufferSize = 15
SPECIFICATION Spec
INVARIANTS
    WellFormed
PROPERTIES
    IsLifo
