\* One batch of two run one at a time, waiting for itself; a DELETE thread, one crash, one failed save.
SPECIFICATION FairSpec
CONSTANTS
    Batch = {b1}
    Task = {t1, t2}
    Children <- OneBatch
    MaxConcurrency <- Serial
    Handler = {h1}
    NoBatch = NoBatch
    MaxCrashes = 1
    MaxFaults = 1
    b1 = b1
    t1 = t1
    t2 = t2
    h1 = h1
INVARIANTS PermitsKept Attended
PROPERTIES Drains Answered
CHECK_DEADLOCK FALSE
