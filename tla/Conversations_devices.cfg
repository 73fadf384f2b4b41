\* Two devices and an agent at work, both platforms, the user saving the file, a crash.
SPECIFICATION Spec
CONSTANTS
    Record = {chat, doc}
    Chat = chat
    Doc = doc
    Actor = {r1, r2, r3}
    NoRecord = NoRecord
    NoFile = NoFile
    Empty = Empty
    Torn = Torn
    Title = {"minutes"}
    Workloads <- MCWorkloads
    MaxHistory = 2
    Passage = {x, y}
    x = x
    y = y
    MaxText = 2
    Docs <- MCDocs
    Proposals <- MCProposals
    MaxOps = 1
    MaxEdits = 1
    MaxCrashes = 1
INVARIANTS NothingLost DeletedStays AgentSawThePast NeverHalfWritten BadgeMeansApplied
SYMMETRY Requests
CHECK_DEADLOCK FALSE
