\* One task, two threads serving DELETE of it, a poll, one crash; both platforms.
SPECIFICATION FairSpec
CONSTANTS
    Record = {t1}
    Deleter = {d1, d2}
    Poller = {p1}
    Reaper = reaper
    NoRecord = NoRecord
    NoFile = NoFile
    Empty = Empty
    Torn = Torn
    MaxTries = 2
    MaxCrashes = 1
    t1 = t1
    t2 = t2
    d1 = d1
    d2 = d2
    p1 = p1
    reaper = reaper
    Actor <- MCActor
INVARIANTS Attended ResultKept
PROPERTIES NoRevival Answered Lifecycle
CHECK_DEADLOCK FALSE
