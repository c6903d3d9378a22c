CONSTANTS
    MaxSignals = 1
    InputSlots = 2
    MaxCalls = 2
SPECIFICATION Spec
CHECK_DEADLOCK FALSE
INVARIANT
    ReplyAnswersRequest
