SPECIFICATION FairSpec
CONSTANTS
    Top = Top
    Mid = Mid
    Base = Base
    NoFile = NoFile
    Star = Star
    Blank = Blank
    A = A
    B = B
    NoCluster = NoCluster
    Clusters = {c0, c1}
    Files <- MCFiles
    Names <- MCNames
    Worlds <- MCWorlds
    MaxFds = 5
    Allowed = {"fault"}
INVARIANTS
    TypeOK
    FoundExactly
    ReportExact
    CopyIsDisk
PROPERTIES
    QueryEnds
\* A call that has returned is followed by nothing once all is read.
CHECK_DEADLOCK FALSE
