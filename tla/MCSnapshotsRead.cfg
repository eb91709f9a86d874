SPECIFICATION FairSpec
CONSTANTS
    Top = Top
    Mid = Mid
    Base = Base
    NoFile = NoFile
    Star = Star
    Blank = Blank
    A = A
    B = B
    NoCluster = NoCluster
    Clusters = {c0, c1}
    Files <- MCFiles
    Names <- MCNames
    Worlds <- MCPlainWorlds
    MaxFds = 5
    Allowed = {}
PROPERTIES
    ReportedReads
\* A call that has returned is followed by nothing once all is read.
CHECK_DEADLOCK FALSE
