SPECIFICATION Spec
CONSTANTS
    Builders = {b1, b2}
    Paths = {p1}
    FileNames <- PlainName
    Contents = {x}
    Signers <- OneSigner
    Overlap = TRUE
    MaxFiles = 1
    MaxSigners = 1
    Nobody = Nobody
INVARIANTS
    IInv
PROPERTIES
    NeverSwapped
    ImplementsStore
\* Every call may have come to rest and no caller has to call again.
CHECK_DEADLOCK FALSE
