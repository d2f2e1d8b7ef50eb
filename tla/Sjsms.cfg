SPECIFICATION Spec
CONSTANTS
    p1 = p1
    p2 = p2
    Ports = {p1, p2}
    FirstWait = 2
    NextWait = 10
    CalmTime = 1
    TimeLimit = 5
    MaxCalls = 2
    MaxFaults = 2
INVARIANTS TypeOK NoNeedlessFailure WaitBounded
CHECK_DEADLOCK FALSE
