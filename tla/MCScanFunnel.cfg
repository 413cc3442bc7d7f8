CONSTANTS
    x = x
    u = u
    k = k
    x1 = x1
    x2 = x2
    u1 = u1
    k1 = k1
    fun = fun
    a = a
    b = b
    c = c
    d = d
    s1 = s1
    s2 = s2
    p1 = p1
    p2 = p2
    Path = {x, u, k}
    Name = {fun}
    Text = {x1, x2, u1, k1}
    Defs <- MCDefs
    Refs <- MCRefs
    Absent = Absent
    Depth = 3
    Near <- MCNear
    Process = {s1, s2}
    Order <- MCOrder
    FirstHead <- MCFirstHead
    FirstTree <- MCFirstTree
    Versions <- MCVersions
    HasParent = FALSE
    Unused <- MCUnused
    Legacy <- MCLegacy
    FirstOpen = {}
    Requests <- MCRequests
    Policies = {p1, p2}
    FirstPolicy = p2
    LegacyEnabled = {p2}
    NoFile = NoFile
    NoReport = NoReport
    MaxJobs = 3
    MaxEvents = 1
SPECIFICATION Spec
SYMMETRY Symmetry
INVARIANTS
    ReplayIsTrue
    ReplayReproduces
    LogMatchesReport
    ClustersArePartition

    
CHECK_DEADLOCK FALSE
