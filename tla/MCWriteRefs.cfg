SPECIFICATION FairSpec
CONSTANTS
    Handles = {h1}
    L1Size = 2
    L2Size = 5
    L1Cluster = 3
    RefBlock0 = 2
    RefEntries = 5
    DiskClusters = 9
    Sectors = 2
    Value = {Z, A}
    Zero = Z
    Base <- MCBase
    Starts <- MCStarts
    MaxLen = 2
    CleanChunk = 2
    Swapped <- MCSwapped
    Allowed = {"fault"}
INVARIANTS
    MetaDisjoint
PROPERTIES
    VirtualDiskSpec
    CallsReturn
