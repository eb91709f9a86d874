SPECIFICATION ReadSpec
CONSTANTS
    NFiles <- MCNFiles
    ClusterSectors <- MCClusterSectors
    SizeSectors <- MCSizeSectors
    Truncatable <- MCTruncatable
INVARIANTS
    ReadExact
