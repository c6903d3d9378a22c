CONSTANTS
    s1 = s1
    s2 = s2
    s3 = s3
    p1 = p1
    p2 = p2
    Sandboxes = {s1, s2, s3}
    Processes = {p1, p2}
    MaxFaults = 2
SPECIFICATION FairSpec
INVARIANTS EveryProcessAccounted GuestMemoryIsItsOwn NothingLeftWithoutFaults
PROPERTY WaitersServed
CHECK_DEADLOCK FALSE
