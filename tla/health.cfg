SPECIFICATION Spec
CONSTANTS
    p1 = p1
    p2 = p2
    p3 = p3
    n1 = n1
    n2 = n2
    own = own
    default = default
    Threads = {p1, p2, p3}
    Names = {n1, n2}
    Checkers = {own, default}
    Inquiries <- Inquirers
    Registrations <- OneReplaced
    Default = {default}
    NoChecker = NoChecker
    NoThread = NoThread
    MaxPanics = 1
INVARIANTS HealthInv WorstOfAll
PROPERTIES AsksTheRegistered CallsReturn
CHECK_DEADLOCK FALSE
