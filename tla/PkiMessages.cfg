SPECIFICATION BodiesSpec
CONSTANTS
    Base = 16
    SequenceTag = 3
    IntegerTag = 2
    OctetStringTag = 4
    NullTag = 5
    ObjectIdTag = 6
    BooleanTag = 14
    EnumeratedTag = 10
    Explicit0Tag = 11
    Sha256Oid <- MCSha256Oid
    Sha1Oid <- MCSha1Oid
    OcspBasicOid <- MCOcspBasicOid
    True = 15
    Alphabet <- MCAlphabet
    MaxInput = 6
    MaxLength = 66000
    BodyBytes <- MCBodyBytes
    MaxEdits = 2
    MaxDigest = 300
INVARIANTS
    AnswersFollowGrammar
    CutIsRefused
    RequestsReadBack
    LengthReadsBack
    LengthIsDer
    ReadsWhatIsThere
\* The bounds on edits, digests, inputs and lengths are reached.
CHECK_DEADLOCK FALSE
