CONSTANTS
    MaxSignals = 2
    InputSlots = 2
    MaxCalls = 2
SPECIFICATION FairSpec
CHECK_DEADLOCK FALSE
INVARIANTS
    OneReplyPerAction
    OutOfStepForever
    GuestRunsUnderLock
    OwnResult
    CancelHandshake
    ReinitialisedBeforeDispatch
PROPERTIES
    OperationsEnd
    ThreadEnds
