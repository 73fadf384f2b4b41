\* Two threads, three requests of any kind, crashes and lost answers.
SPECIFICATION ConnectionsSpec
CONSTANTS
    Thread = {a, b}
    User = {u, v}
    Provider = {p, q}
    StatesFile = StatesFile
    NoRecord = NoRecord
    NoFile = NoFile
    Empty = Empty
    Torn = Torn
    MaxRequests = 3
INVARIANTS FlowsServedOnce ConnectionsKept
CHECK_DEADLOCK FALSE
SYMMETRY Swaps
VIEW View
