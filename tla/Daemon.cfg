SPECIFICATION FairSpec
CONSTANTS
    w1 = w1
    w2 = w2
    Workers = {w1, w2}
    Statuses = {"trust"}
    Delays = {2}
    Sizes = {2}
    Bases = {100, 200}
    ConfFiles <- MCConfFiles
    ERRORTOLERANCE = 1
    MaxFlight = 2
    StatInterval = 0
    RefillInterval = 1
    MaxStarts = 3
    MaxEvents = 3
INVARIANTS TypeOK StateFileWhole ConfigInEffect StatsConsistent
PROPERTY ListsComeBack
CHECK_DEADLOCK FALSE
