SPECIFICATION Spec
CONSTANTS
    t1 = t1
    t2 = t2
    t3 = t3
    t4 = t4
    j1 = j1
    j2 = j2
    j3 = j3
    Threads = {t1, t2, t3}
    Jobs = {j1, j2}
    Limits = {1}
    KEEP = 1
    NoJob = NoJob
INVARIANT MaxThreadsKept
