SPECIFICATION Spec
CONSTANTS
    p1 = p1
    p2 = p2
    o1 = o1
    o2 = o2
    o3 = o3
    v1 = v1
    v2 = v2
    None = None
    Torn = Torn
    Procs = {p1, p2}
    Keys = {"a", "b"}
    Objects = {o1, o2, o3}
    Values = {v1, v2}
    MaxSize = 1
    DefaultTTL = 1
    TTLs = {0}
    MaxClock = 3
    MaxPurges = 1
INVARIANTS CacheInv FaithfulUnlessPooled SizeBound
PROPERTIES JanitorSpares Refinement
SYMMETRY Symmetry
