SPECIFICATION Spec
CONSTANTS
    a = a
    b = b
    h1 = h1
    h2 = h2
    Http = Http
    Replicas = {1, 2, 3}
    Servers = {1, 3}
    Handlers = {h1, h2}
    Addrs = {a, b}
    Advertised <- OneMoves
    Wishes <- TwoWishes
    InitNodes <- Nodes13
    MaxRequests = 2
    MaxGossip = 2
    MaxFaults = 1
INVARIANTS
    ReconcileTypeOK
    QuietReconcile
    RefusedWhole
PROPERTIES
    RemovalsPlanned
SYMMETRY Symmetry
CHECK_DEADLOCK FALSE
