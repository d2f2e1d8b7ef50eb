SPECIFICATION FairSpec
CONSTANTS
    d1 = d1
    d2 = d2
    b1 = b1
    b2 = b2
    Digests = {d1, d2}
    Bits = {b1, b2}
    NUM_HASH = 2
    BitsOf <- MCBitsOf
    num_bufs = 3
    rotate_interval = 1
    Statefile = TRUE
    MaxTime = 5
    MaxCrashes = 2
INVARIANTS TypeOK NoFalseNegative NoOverstay
PROPERTY CatchesUp
