CONSTANTS
    Program <- MCProgram
    Flags <- MCFlags
    Drivers = {"kvm", "mshv", "whp"}
    MaxCalls = 2
SPECIFICATION Spec
INVARIANTS GuardMeansOverflow OnlyWritableRegionsChange
PROPERTY ImplementsGuestMachine
CHECK_DEADLOCK FALSE
