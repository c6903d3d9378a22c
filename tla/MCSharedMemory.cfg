CONSTANTS
    Threads = {t1, t2}
    NoThread = NoThread
    Guest = Guest
    Bytes = {0, 1}
    ZeroByte = 0
    PageSize = 2
    UsizeEnd = 16
    Raw = 4
    Requests = {0, 2, 3, 4, 14}
    Offsets = {0, 1, 15}
    Lengths = {2, 15}
    MaxSnapshots = 2
SPECIFICATION Spec
SYMMETRY Symmetry
INVARIANTS
    SnapshotIsOneInstant
    GuardsCatchWrappedBounds
    MappedWhileUsed
CHECK_DEADLOCK FALSE
