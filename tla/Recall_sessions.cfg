\* Two scripts, four operations of any kind, three records in all, two backends.
SPECIFICATION Spec
CONSTANTS
    Thread = {a, b}
    User = {u, v}
    Backend = {"json", "mem0"}
    Policies <- MCPolicies
    None = None
    Limit = 2
    MaxOps = 4
    MaxRecords = 3
INVARIANTS EphemeralOnly LoomFollowsPolicy FairlyFused
CHECK_DEADLOCK FALSE
SYMMETRY Swaps
VIEW View
