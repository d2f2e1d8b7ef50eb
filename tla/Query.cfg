SPECIFICATION Spec
CONSTANTS
    q1 = q1
    q2 = q2
    dnsbl_weight = 1
    blocker_weight = 1
    Queries = {q1, q2}
    MaxEarly = 1
    Configs <- MCConfigs
    grey_threshold = 1
    Timeouts = 1
    Shortcut = TRUE
    UpdateAlways = FALSE
    Dryrun = FALSE
    MaxQueues = 2
    MaxGiveUps = 1
    MaxJobs = 2
CHECK_DEADLOCK FALSE
INVARIANTS TypeOK NothingUsedAfterFree ResultsGoHome NothingLeaks DecisionIndependentOfOrder
PROPERTY WaitEnds
