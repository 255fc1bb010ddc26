SPECIFICATION SigningSpec
CONSTANTS
    h1 = h1
    h2 = h2
    Holders <- MCHolders
    VerifiableKinds = {"Rsa", "P256"}
    SigningKeys <- MCKeys
    Signers <- MCSigners
    ObjectIds <- MCObjectIds
    Altered = Altered
    PayloadNames <- MCPayloadNames
    FileNames <- MCFileNames
    Contents = {x, y}
    MaxFiles = 2
    MaxPayload = 3
    MaxEdits = 1
INVARIANTS
    TextFollowsDocument
    ReaderFillsStructs
    VerifyAgrees
    StampCoversValue
    EnvelopeRefusals
    EnvelopeVerifies
\* A document that was changed as often as the bound allows is left alone.
CHECK_DEADLOCK FALSE
