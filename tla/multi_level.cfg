SPECIFICATION Spec
CONSTANTS
    p1 = p1
    p2 = p2
    p3 = p3
    k1 = k1
    k2 = k2
    v1 = v1
    v2 = v2
    None = None
    Unknown = Unknown
    Procs = {p1, p2, p3}
    Keys = {k1, k2}
    Values = {v1, v2}
INVARIANTS MultiLevelInv
SYMMETRY Symmetry
