SPECIFICATION Spec
CONSTANTS
    f1 = f1  f2 = f2  f3 = f3
    r1 = r1  r2 = r2
    b1 = b1  b2 = b2  b3 = b3  b4 = b4
    Requests = {p1}
    Paths <- MCPaths
    Files <- MCFiles
    Releases <- MCReleases
    Content <- MCContent
    LockPath = LockPath
    Absent = Absent
    UserBytes = UserBytes
    Unreadable = Unreadable
    NoRelease = NoRelease
    MaxApplies = 3
    MaxEdits = 1
    MaxCrashes = 1
    MaxFaults = 1
    MaxLosses = 2
    EditsInFlight = FALSE
INVARIANTS TypeOK RecordedVerifies
PROPERTIES AtomicDelivery
CHECK_DEADLOCK FALSE
