\* One label, a consolidation and one other writer, three blocks, one death of a writer.
SPECIFICATION ConsolidationSpec
CONSTANTS
    Block = {b1, b2, b3}
    Label = {lx}
    Contributor = {ann, bob}
    Writer = {nightly, caller}
    Consolidator = nightly
    NoBlock = NoBlock
    MaxTime = 2
    MaxCrashes = 1
    AutoThreshold = 70
    ReviewThreshold = 50
    MinSources = 2
    RequireVerification = FALSE
    Memories <- TeamMemories
    SelfScores = {0, 100, 300}
    MaxRuns = 1
    b1 = b1
    b2 = b2
    b3 = b3
    lx = lx
    ly = ly
    ann = ann
    bob = bob
    nightly = nightly
    caller = caller
SYMMETRY Symmetric
INVARIANTS ChainWhole NothingForgotten HistoryHasNoGap PolicyStays PromotionsEarned
CHECK_DEADLOCK FALSE
