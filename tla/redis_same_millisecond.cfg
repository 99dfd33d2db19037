SPECIFICATION Spec
CONSTANTS
    c1 = c1
    c2 = c2
    k1 = k1
    n1 = n1
    Clients = {c1, c2}
    Keys = {k1}
    Nodes = {n1}
    Home <- OneKey
    Windows = {2, 3}
    Shortest = 2
    Grace = 2
    MaxLag = 0
    MaxLead = 0
    Limits = {0, 1, 2}
    MaxRetries = 0
    MaxClock = 6
    MaxCalls = 3
PROPERTIES EveryCallCounts
