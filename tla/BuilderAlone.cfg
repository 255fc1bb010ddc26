SPECIFICATION FairSpec
CONSTANTS
    Builders = {b1}
    Paths = {p1}
    FileNames <- CollidingNames
    Contents = {x}
    Signers <- EveryLevel
    Overlap = FALSE
    MaxFiles = 2
    MaxSigners = 2
    Nobody = Nobody
INVARIANTS
    TypeOK
    SealedIsPrefix
    OkIsPublished
PROPERTIES
    CallsReturn
\* Every call may have come to rest and no caller has to call again.
CHECK_DEADLOCK FALSE
