SPECIFICATION FairSpec
CONSTANTS
    p1 = p1
    p2 = p2
    Procs = {p1, p2}
    Keys = {k1}
    Windows = {"minute", "fortnight"}
    DefaultLimits <- OneWindow
    Limits = {1}
    FailureThreshold = 1
    ResetTimeout = 0
    MaxLate = 1
INVARIANTS ServiceInv 
PROPERTIES ChecksObey EnforcementResumes
