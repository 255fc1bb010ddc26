SPECIFICATION SystemSpec
CONSTANTS
    s = s
    m = m
    Nobody = Nobody
    OtherBytes = OtherBytes
    ReadsAs <- OwnTexts
    Overlap = FALSE
    Paths = {p1}
    Builders = {b1}
    FileNames <- OddNames
    Contents = {s, m}
    Signers <- MixedSigners
    MaxFiles = 2
    MaxSigners = 2
INVARIANTS
    ValidIsSigned
    CompleteIsAccepted
CONSTRAINT
    OneFileOrOneSigner
ACTION_CONSTRAINT
    BuildersRestWhileReading
    OpenedAtOnce
\* Every call and the one reading may have come to rest.
CHECK_DEADLOCK FALSE
