SPECIFICATION Spec
CONSTANTS
    o1 = o1
    o2 = o2
    c1 = c1
    c2 = c2
    p1 = p1
    p2 = p2
    None = None
    Procs = {p1, p2}
    Nodes <- Nodes3
    Local = 1
    InitMembers <- Members2
    Total = 3
    Data = 2
    Objects = {o1, o2}
    Contents = {c1, c2}
    Puts <- PutsApart
    MaxRequests = 4
    MaxTroubles = 2
    MaxLosses = 1
    MaxOutages = 1
    MaxFaults = 1
    MaxRestarts = 1
    Contend = FALSE
INVARIANTS
    TypeOK
    LostOnlyByLoss
    CopiesAgree
PROPERTIES
    SafeRemoval
SYMMETRY Symmetry
CHECK_DEADLOCK FALSE
