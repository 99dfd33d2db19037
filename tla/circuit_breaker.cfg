SPECIFICATION FairSpec
CONSTANTS
    p1 = p1
    p2 = p2
    p3 = p3
    Procs = {p1, p2, p3}
    MaxRequests = 2
    Tolerated = 1
    Timeout = 1
    Interval = 1
    MaxForced = 1
INVARIANTS CircuitInv NeverStuck
PROPERTIES OpenLasts OnlyByHand Recovers
