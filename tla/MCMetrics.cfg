CONSTANTS
    t1 = t1
    t2 = t2
    r1 = r1
    r2 = r2
    default = default
    sandbox = sandbox
    hypervisor = hypervisor
    application = application
    Threads = {t1, t2}
    Registries = {r1, r2}
    DefaultRegistry = default
    Groups = {sandbox, hypervisor, application}
    Definitions <- MCDefinitions
    Calls <- MCCalls
    MaxUses = 2
SPECIFICATION FairSpec
INVARIANTS OneRegistry NothingLost
PROPERTY OperationsEnd
CHECK_DEADLOCK FALSE
