SPECIFICATION ReaderSpec
CONSTANTS
    x = x
    y = y
    s = s
    m = m
    FileNames <- MCFileNames
    Contents = {x, y, s, m}
    ReadsAs <- MCReadsAs
    OtherBytes = OtherBytes
    Archives <- MCArchives
INVARIANTS
    ReaderTypeOK
    VerdictIsJustified
    InvalidHasReason
    EveryPathIsAccountedFor
PROPERTIES
    ReadEnds
\* One reading ends with its result or its error.
CHECK_DEADLOCK FALSE
