-------------------------------- MODULE Pki --------------------------------
(***************************************************************************)
(* What pki/tsa.rs and pki/ocsp.rs send to a server and take from the body *)
(* of its answer.  Names of tags and object identifiers are constants,     *)
(* because their values in the code do not fit a byte of a smaller Base;   *)
(* the digests in a request are bytes that the caller supplies.            *)
(***************************************************************************)
EXTENDS Der

CONSTANTS
    SequenceTag, IntegerTag, OctetStringTag, NullTag, ObjectIdTag, BooleanTag,
    EnumeratedTag, Explicit0Tag,
    Sha256Oid, Sha1Oid, OcspBasicOid,
    True   \* the byte of a BOOLEAN that is true

Tags ==
    {SequenceTag, IntegerTag, OctetStringTag, NullTag, ObjectIdTag, BooleanTag,
     EnumeratedTag, Explicit0Tag}

ASSUME PkiAssumption ==
    /\ Tags \subseteq Byte /\ True \in Byte
    /\ {Sha256Oid, Sha1Oid, OcspBasicOid} \subseteq Bytes

InSequence(value) == EncodeTlv(SequenceTag, value)

\* AlgorithmIdentifier: the algorithm, with NULL for its parameters.
AlgorithmIdentifier(oid) ==
    InSequence(EncodeTlv(ObjectIdTag, oid) \o EncodeTlv(NullTag, <<>>))
-----------------------------------------------------------------------------
(***************************************************************************)
(* RFC 3161, time-stamps.                                                  *)
(***************************************************************************)
BuildTimestampRequest(imprint) ==
    InSequence(EncodeTlv(IntegerTag, <<1>>)
        \o InSequence(AlgorithmIdentifier(Sha256Oid)
               \o EncodeTlv(OctetStringTag, imprint))
        \o EncodeTlv(BooleanTag, <<True>>))

\* Mutant: every status is taken for a grant.
ExtractTimestampTokenOfAny(response) ==
    LET outer == ReadTlvWithRemainder(response, SequenceTag)
        info == ReadTlvWithRemainder(outer[1], SequenceTag)
        size == TotalTlvLength(info[2])
    IN  IF outer = NoResult \/ info = NoResult THEN NoResult
        ELSE IF size = NoResult THEN NoResult
        ELSE <<SubSeq(info[2], 1, size[1])>>

(***************************************************************************)
(* The token is the TLV after PKIStatusInfo, whatever its tag, provided    *)
(* that the status is granted (0) or grantedWithMods (1).  Bytes after the *)
(* response, after the status and after the token are ignored.             *)
(***************************************************************************)
ExtractTimestampToken(response) ==
    LET outer == ReadTlvWithRemainder(response, SequenceTag)
        info == ReadTlvWithRemainder(outer[1], SequenceTag)
        status == ReadTlvWithRemainder(info[1], IntegerTag)
        number == DecodeUnsignedInt(status[1])
        size == TotalTlvLength(info[2])
    IN  IF /\ outer # NoResult /\ info # NoResult /\ status # NoResult
           /\ number # NoResult /\ number[1] \in {0, 1}
           /\ size # NoResult
        THEN <<SubSeq(info[2], 1, size[1])>>
        ELSE NoResult
-----------------------------------------------------------------------------
(***************************************************************************)
(* RFC 6960, OCSP.                                                         *)
(***************************************************************************)
\* Mutant: the hashes change places.
CertIdSwapped(nameHash, keyHash, serial) ==
    InSequence(AlgorithmIdentifier(Sha1Oid)
        \o EncodeTlv(OctetStringTag, keyHash)
        \o EncodeTlv(OctetStringTag, nameHash)
        \o EncodeTlv(IntegerTag, serial))

CertId(nameHash, keyHash, serial) ==
    InSequence(AlgorithmIdentifier(Sha1Oid)
        \o EncodeTlv(OctetStringTag, nameHash)
        \o EncodeTlv(OctetStringTag, keyHash)
        \o EncodeTlv(IntegerTag, serial))

\* OCSPRequest, TBSRequest, the list of requests, the one request, its CertID.
BuildOcspRequest(nameHash, keyHash, serial) ==
    InSequence(InSequence(InSequence(InSequence(
        CertId(nameHash, keyHash, serial)))))

(***************************************************************************)
(* The contents of the OCTET STRING in responseBytes, provided that the    *)
(* status is successful (0) and the type is id-pkix-ocsp-basic.            *)
(***************************************************************************)
ExtractBasicOcspResponse(response) ==
    LET outer == ReadTlvWithRemainder(response, SequenceTag)
        status == ReadTlvWithRemainder(outer[1], EnumeratedTag)
        number == DecodeUnsignedInt(status[1])
        explicit == ReadTlv(status[2], Explicit0Tag)
        bytes == ReadTlv(explicit[1], SequenceTag)
        type == ReadTlvWithRemainder(bytes[1], ObjectIdTag)
        basic == ReadTlv(type[2], OctetStringTag)
    IN  IF /\ outer # NoResult /\ status # NoResult
           /\ number # NoResult /\ number[1] = 0
           /\ explicit # NoResult /\ bytes # NoResult
           /\ type # NoResult /\ type[1] = OcspBasicOid
           /\ basic # NoResult
        THEN basic
        ELSE NoResult
=============================================================================
