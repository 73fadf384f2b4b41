\* The personal memory of one user, as every shipped backend returns it.
SPECIFICATION ConsolidationSpec
CONSTANTS
    Block = {b1, b2, b3}
    Label = {lx, ly}
    Contributor = {ann, bob}
    Writer = {nightly, caller}
    Consolidator = nightly
    NoBlock = NoBlock
    MaxTime = 2
    MaxCrashes = 0
    AutoThreshold = 70
    ReviewThreshold = 50
    MinSources = 2
    RequireVerification = FALSE
    Memories <- OwnMemories
    SelfScores = {0, 100, 300}
    MaxRuns = 1
    b1 = b1
    b2 = b2
    b3 = b3
    lx = lx
    ly = ly
    ann = ann
    bob = bob
    nightly = nightly
    caller = caller
INVARIANTS HighConfidencePromoted
CHECK_DEADLOCK FALSE
