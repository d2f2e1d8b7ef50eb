SPECIFICATION Spec
CONSTANTS
    u1 = u1
    u2 = u2
    o1 = o1
    r1 = r1
    Delayed = {u1, o1}
    Instant = {r1}
    Updates = {u1}
    Delay = 1
    MaxTime = 3
    NoTime = NoTime
    NoMsg = NoMsg
INVARIANTS TypeOK DelayedUpdatesAreSent
PROPERTIES ImplementsChannel AllReceived FreezeHolds
