SPECIFICATION SystemSpec
CONSTANTS
    s = s
    m = m
    Nobody = Nobody
    OtherBytes = OtherBytes
    ReadsAs <- OwnTexts
    Overlap = FALSE
    Paths = {p1}
    Builders = {b1}
    FileNames <- PlainNames
    Contents = {x}
    Signers <- OneSigner
    MaxFiles = 2
    MaxSigners = 1
INVARIANTS
    SignedContainersVerify
ACTION_CONSTRAINT
    BuildersRestWhileReading
\* Every call and the one reading may have come to rest.
CHECK_DEADLOCK FALSE
