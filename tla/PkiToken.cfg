SPECIFICATION BodiesSpec
CONSTANTS
    Base = 16
    SequenceTag = 3
    IntegerTag = 2
    OctetStringTag = 4
    NullTag = 5
    ObjectIdTag = 6
    BooleanTag = 14
    EnumeratedTag = 10
    Explicit0Tag = 11
    Sha256Oid <- MCSha256Oid
    Sha1Oid <- MCSha1Oid
    OcspBasicOid <- MCOcspBasicOid
    True = 15
    Alphabet <- MCAlphabet
    MaxInput = 0
    MaxLength = 0
    BodyBytes <- MCBodyBytes
    MaxEdits = 2
    MaxDigest = 0
INVARIANTS
    TokenIsSequence
\* The bound on edits is reached.
CHECK_DEADLOCK FALSE
