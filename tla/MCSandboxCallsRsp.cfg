CONSTANTS
    MaxCalls = 4
    MaxExits = 2
    InputCap = 2
    OutputCap = 2
    StackFrames = 2
    MaxSnapshots = 2
SPECIFICATION Spec
INVARIANT RspResetAfterCall
CHECK_DEADLOCK FALSE
