SPECIFICATION FairReadSpec
CONSTANTS
    NFiles <- MCNFiles
    ClusterSectors <- MCClusterSectors
    SizeSectors <- MCSizeSectors
    Truncatable <- MCTruncatable
INVARIANTS
    TypeOK
    AreasExact
    AreasDisjoint
    ReadTypeOK
    ReadExact
    PiecesInRange
PROPERTIES
    NothingUncovered
    QueryReturns
    ReadReturns
