\* One schedule, one request thread, a user that may leave, one crash; both platforms.
SPECIFICATION FairSpec
CONSTANTS
    Record = {s1}
    Handler = {h1}
    Ticker = ticker
    Cron = {always, odd}
    Matches <- MCMatches
    Edit <- Edits
    Unset = Unset
    Leaver = {s1}
    MaxTime = 3
    MaxTries = 2
    MaxCrashes = 1
    NoRecord = NoRecord
    NoFile = NoFile
    Empty = Empty
    Torn = Torn
    Actor <- MCActor
    s1 = s1
    h1 = h1
    ticker = ticker
    always = always
    odd = odd
INVARIANTS OncePerOccurrence NextMatchesCron QuietDeleteHolds
PROPERTIES NothingSkipped DueIsServed QuietPauseHolds
CHECK_DEADLOCK FALSE
