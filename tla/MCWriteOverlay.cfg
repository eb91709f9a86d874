SPECIFICATION Spec
CONSTANTS
    B = B
    Handles = {h1}
    L1Size = 1
    L2Size = 8
    L1Cluster = 3
    RefBlock0 = 2
    RefEntries = 16
    DiskClusters = 8
    Sectors = 1
    Value = {Z, A, B}
    Zero = Z
    Base <- MCBase
    Starts <- MCStarts
    MaxLen = 2
    CleanChunk = 2
    Swapped <- MCSwapped
    Allowed = {}
PROPERTIES
    VirtualDiskSpec
