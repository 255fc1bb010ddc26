SPECIFICATION SystemSpec
CONSTANTS
    s = s
    m = m
    Nobody = Nobody
    OtherBytes = OtherBytes
    ReadsAs <- OwnTexts
    Overlap = FALSE
    Paths = {p1}
    Builders = {b1, b2}
    FileNames <- PlainName
    Contents = {x}
    Signers <- FullSigner
    MaxFiles = 1
    MaxSigners = 1
INVARIANTS
    ValidIsSigned
    SealedIsSettled
    SerialNeverTears
ACTION_CONSTRAINT
    BuildersRestWhileReading
\* Every call and the one reading may have come to rest.
CHECK_DEADLOCK FALSE
