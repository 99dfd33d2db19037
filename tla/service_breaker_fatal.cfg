SPECIFICATION Spec
CONSTANTS
    p1 = p1
    p2 = p2
    None = None
    Procs = {p1}
    FailureThreshold = 2
    ResetTimeout = 1
INVARIANTS NoFatal
