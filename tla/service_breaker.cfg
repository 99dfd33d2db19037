SPECIFICATION FairSpec
CONSTANTS
    p1 = p1
    p2 = p2
    None = None
    Procs = {p1, p2}
    FailureThreshold = 2
    ResetTimeout = 1
INVARIANTS BreakerInv LockAccounting SafeUntilReset LocksFit
PROPERTIES ClosesAfterQuiet Atomicity BreakerRecovers RequestsReturn
