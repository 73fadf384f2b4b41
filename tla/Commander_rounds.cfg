\* Four rounds, two steps of at most two calls, three configurations.
SPECIFICATION Spec
CONSTANTS
    t1 = t1
    t2 = t2
    c1 = c1
    c2 = c2
    search = search
    Tool = {search, FinalAnswer}
    FinalAnswer = FinalAnswer
    Stranger = Stranger
    Text = {t1, t2}
    Blank = Blank
    Odd = Odd
    Null = Null
    Malformed = Malformed
    Failure = Failure
    GaveUp = GaveUp
    Abstention = Abstention
    NaN = NaN
    NoHit = NoHit
    Chunk <- MCChunk
    MaxSteps = 2
    MaxCalls = 2
    History <- MCHistory
    AcceptAt = 75
    AbstainAt = 35
    PassAt = 50
    MaxRounds = 4
    MinGain = 500
    Configs <- MCConfigs
    Retrievals <- MCRetrievals
    Answers <- MCAnswers
    Mentions <- MCMentions
INVARIANTS CallsAnswered OnlyGroundedReleased CitationsTrue Progress
CHECK_DEADLOCK FALSE
