CONSTANTS
    x = x
    u = u
    t = t
    w = w
    x1 = x1
    x2 = x2
    u1 = u1
    u2 = u2
    u3 = u3
    t1 = t1
    f = f
    g = g
    s1 = s1
    s2 = s2
    Path = {x, u, t, w}
    Name = {f, g}
    Text = {x1, x2, u1, u2, u3, t1}
    Defs <- MCDefs
    Refs <- MCRefs
    Absent = Absent
    Depth = 3
    Scan = {s1, s2}
    Untracked = {w}
    Versions <- MCVersions
    FirstTree <- MCFirstTree
    EditsDuringBuild = FALSE
    TextsReturn = FALSE
    MaxBuilds = 3
    MaxEdits = 2
    MaxFaults = 1
    MaxKills = 1
    NoIndex = NoIndex
    Nobody = Nobody
SPECIFICATION Spec
SYMMETRY Symmetry
INVARIANTS
    GraphIsOfItsTexts
    
PROPERTIES
    ManifestIsExact
CHECK_DEADLOCK FALSE
