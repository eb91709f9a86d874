SPECIFICATION Spec
CONSTANTS
    Handles = {h1}
    L1Size = 2
    L2Size = 5
    L1Cluster = 3
    RefBlock0 = 2
    RefEntries = 8
    DiskClusters = 10
    Sectors = 2
    Value = {Z, A}
    Zero = Z
    Base <- MCBase
    Starts <- MCMoreStarts
    MaxLen = 2
    CleanChunk = 2
    Swapped <- MCSwapped
    Allowed = {"reopen"}
INVARIANTS
    MetaDisjoint
