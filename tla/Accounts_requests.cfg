\* Two threads, three requests of any kind, crashes.
SPECIFICATION Spec
CONSTANTS
    Thread = {a, b}
    admin = admin
    ann = ann
    bob = bob
    annAt = annAt
    Name <- MCName
    BootName = admin
    Email = {annAt}
    NoEmail = NoEmail
    LocalPart <- MCLocalPart
    Suffixed <- MCSuffixed
    MaxRequests = 3
INVARIANTS KeyOpensItsOwner AsLastTold OneAccountPerName
CHECK_DEADLOCK FALSE

SYMMETRY Threads
VIEW View
