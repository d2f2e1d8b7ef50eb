SPECIFICATION FairSpec
CONSTANTS
    s1 = s1
    s2 = s2
    Servers = {s1, s2}
    MaxOpen = 2
    MaxStarts = 5
    MaxFaults = 2
INVARIANTS TypeOK 
PROPERTIES  StartupEnds PeerIsDealtWith
CHECK_DEADLOCK FALSE
