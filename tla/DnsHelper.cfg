SPECIFICATION FairSpec
CONSTANTS
    a1 = a1
    a2 = a2
    x = x
    n1 = n1
    n2 = n2
    NULL = NULL
    Askers = {a1, a2}
    Names = {n1, n2}
    Check <- MCCheck
    HeloName <- MCHeloName
    Address <- MCAddress
    PtrName <- MCPtrName
    Hash <- MCHash
INVARIANTS TypeOK OneOwner RightAnswers QueuesComeBack
PROPERTY LookupsEnd
