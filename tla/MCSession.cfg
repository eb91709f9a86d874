SPECIFICATION Spec
CONSTANTS
    base = base
    s = s
    h1 = h1
    h2 = h2
    Images <- MCImages
    Chain <- MCChain
    Rank <- MCRank
    Handles <- MCHandles
    MaxFds = 4
    None = None
    Allowed = {"query", "fault", "init"}
SYMMETRY MCSymmetry
INVARIANTS
    TypeOK
    FdSafe
    NoLeak
PROPERTIES
    ReadRight
