CONSTANTS
    Configs <- MCConfigsBigKernelStack
    Files <- MCOneFile
    UserConfigs <- MCBigKernelStack
SPECIFICATION GSpec
CHECK_DEADLOCK FALSE
INVARIANTS
    PageTablesSuffice
