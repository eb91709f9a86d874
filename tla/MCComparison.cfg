SPECIFICATION FairSpec
CONSTANTS
    Sector <- MCSector
    MaxNum = 2
    Value = {Z, A}
    Zero = Z
    Text = Text
    Rounds = 2
    Allowed = {"late", "crash", "fault", "bad"}
INVARIANTS
    TypeOK
    SameIsTrue
    NotSameIsTrue
    DeviceStays
PROPERTIES
    RunEnds
\* The client has ended and the server waits for the next one; that nobody
\* waits before that is RunEnds.
CHECK_DEADLOCK FALSE
