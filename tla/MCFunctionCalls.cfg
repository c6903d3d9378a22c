CONSTANTS
    s1 = s1
    s2 = s2
    writer = writer
    nullary = nullary
    binary = binary
    Sandboxes = {s1, s2}
    NumNames = 3
    HostPrint = 2
    Unregistered = {3}
    Closures = {writer, nullary, binary}
    Signature <- MCSignature
    Writer <- MCWriter
    BufferSize = 5
    Languages <- MCLanguages
    HostCalls <- MCHostCalls
    GuestCalls <- MCGuestCalls
    GuestNames = {"Echo"}
    GuestSignatures <- MCGuestSignatures
    Guests = {s1, s2}
    HostLevels = {"Off", "Error", "Warn", "Info", "Debug", "Trace"}
    LogRecords <- MCLogRecords
    LogMessages <- MCLogMessages
    GuestErrorCodes = {"NoError", "GuestError"}
    ErrorNumbers = {1, 9}
    MaxRegistrations <- MCMaxRegistrations
SPECIFICATION MCSpec
INVARIANTS GuestSeesWhatHostRuns ValidatedCallsAccepted OneRunPerClosure ResultsArriveAsSent LogsArriveAsSent
PROPERTIES LockErrorMeansOthers GuestRunsDeclaredCalls
CHECK_DEADLOCK FALSE
