CONSTANTS
    Configs <- MCConfigs
    Files <- MCFiles
    UserConfigs <- MCUserConfigs
SPECIFICATION GSpec
CHECK_DEADLOCK FALSE
INVARIANTS
    RegionsAgree
    NothingOverwritten
    PointersAgree
    PagesMapped
    LoadedAsLinked
    VmStartsInPlace
