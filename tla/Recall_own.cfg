\* Two users open their memory pages.
SPECIFICATION Spec
CONSTANTS
    Thread = {a, b}
    User = {u, v}
    Backend = {"json", "mem0"}
    Policies <- MCPolicies
    None = None
    Limit = 2
    MaxOps = 2
    MaxRecords = 1
INVARIANT OwnMemory
CHECK_DEADLOCK FALSE
