SPECIFICATION FairSpec
CONSTANTS
    c1 = c1
    c2 = c2
    k1 = k1
    n1 = n1
    Clients = {c1, c2}
    Keys = {k1}
    Nodes = {n1}
    Home <- OneKey
    Windows = {2, 3}
    Shortest = 2
    Grace = 2
    MaxLag = 1
    MaxLead = 1
    Limits = {0, 1, 2}
    MaxRetries = 1
    MaxClock = 6
    MaxCalls = 2
INVARIANTS StorageInv ShortestWindowBound NeverOvercounts OneTickPerCall
PROPERTIES Refinement CallsReturn
