SPECIFICATION Spec
CONSTANTS
    p1 = p1
    p2 = p2
    b1 = b1
    b2 = b2
    o1 = o1
    o2 = o2
    o3 = o3
    h1 = h1
    h2 = h2
    None = None
    Procs = {p1}
    Buckets = {b1}
    Objects = {o1, o2}
    BucketOf <- OneBucket
    DirOf <- OwnDirs
    Dirs = {1, 2}
    Hashes = {h1, h2}
    MaxFaults = 0
    MaxCrashes = 1
    MaxElapses = 1
    MaxRefs = 3
    Contend = FALSE
    LostReplies = FALSE
INVARIANTS  SweepComplete
CHECK_DEADLOCK TRUE
