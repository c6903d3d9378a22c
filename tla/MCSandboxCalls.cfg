CONSTANTS
    MaxCalls = 4
    MaxExits = 2
    InputCap = 2
    OutputCap = 2
    StackFrames = 2
    MaxSnapshots = 2
SPECIFICATION Spec
INVARIANTS StacksMatch AnswerOfThisCall OutputDrained CleanBetweenCalls
CHECK_DEADLOCK FALSE
