SPECIFICATION DedupeFairSpec
CONSTANTS
    p1 = p1
    b1 = b1
    o1 = o1
    o2 = o2
    h1 = h1
    h2 = h2
    s1 = s1
    None = None
    Procs = {p1}
    Buckets = {b1}
    Objects = {o1, o2}
    BucketOf <- OneBucket
    DirOf <- OwnDirs
    Dirs = {1, 2}
    Hashes = {h1}
    MaxFaults = 1
    MaxCrashes = 0
    MaxElapses = 0
    MaxRefs = 2
    Contend = FALSE
    LostReplies = FALSE
    Scanners = {s1}
    MaxFixes = 2
    Ops = {"put", "delete"}
    MaxOverlaps = 2
INVARIANTS DedupeTypeOK QuietRunExact 
PROPERTIES QuietRunKeeps DedupeEnds
CHECK_DEADLOCK TRUE
