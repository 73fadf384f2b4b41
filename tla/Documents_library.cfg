\* Two requests at a time, three in all, two starts of the server.
SPECIFICATION Spec
CONSTANTS
    Client = {a, b}
    Root = {r, s}
    File = {p}
    Text = {x, y}
    None = None
    MaxRequests = 3
    MaxBoots = 2
    MaxChunks = 1
INVARIANTS LibraryKept OneDocumentPerFileUnrepaired VectorOfItsText
SYMMETRY Swaps
VIEW View
CHECK_DEADLOCK FALSE
