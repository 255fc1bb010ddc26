----------------------------- MODULE PkiBodies -----------------------------
(***************************************************************************)
(* The requests that Pki builds, for digests of any length up to a bound,  *)
(* and the bodies of answers that it reads: proper grants and refusals,    *)
(* and what is near them, with bytes cut off, altered or added.  Beside    *)
(* them are the lengths and inputs of DerReading, which no server sends.   *)
(***************************************************************************)
EXTENDS Pki, DerReading

CONSTANTS
    BodyBytes,   \* the bytes that appear in a body in place of others
    MaxEdits,    \* bound: alterations of a body
    MaxDigest    \* bound: bytes of a digest

ASSUME BodiesAssumption ==
    BodyBytes \subseteq Byte /\ MaxEdits \in Nat /\ MaxDigest \in Nat

VARIABLES
    server,   \* whose answer body is: "tsa", "ocsp", or "none"
    status,   \* the status that the server has answered with
    body,     \* the body as it has arrived
    edits,    \* how often it was changed on its way
    digest    \* a digest that a request is about

answerVars == <<server, status, body, edits, digest>>
bodyVars == <<readingVars, answerVars>>

-----------------------------------------------------------------------------
(***************************************************************************)
(* Proper answers.  What is granted is a SEQUENCE around an OCTET STRING.  *)
(***************************************************************************)
Granted == InSequence(EncodeTlv(OctetStringTag, <<1>>))

TimeStampResp(s) ==
    InSequence(InSequence(EncodeTlv(IntegerTag, <<s>>))
        \o (IF s \in {0, 1} THEN Granted ELSE <<>>))

OcspResp(s) ==
    InSequence(EncodeTlv(EnumeratedTag, <<s>>)
        \o (IF s = 0
            THEN EncodeTlv(Explicit0Tag, InSequence(
                     EncodeTlv(ObjectIdTag, OcspBasicOid)
                       \o EncodeTlv(OctetStringTag, Granted)))
            ELSE <<>>))

BodiesInit ==
    /\ ReadingInit
    /\ server \in {"none", "tsa", "ocsp"}
    /\ status \in IF server = "none" THEN {0} ELSE 0..2
    /\ body = IF server = "none" THEN <<>>
              ELSE IF server = "tsa" THEN TimeStampResp(status)
              ELSE OcspResp(status)
    /\ edits = 0
    /\ digest = <<>>

Edited ==
    /\ server # "none"
    /\ edits < MaxEdits /\ digest = <<>>
    /\ edits' = edits + 1
    /\ UNCHANGED <<readingVars, server, status, digest>>

CutOff == body # <<>> /\ body' = SubSeq(body, 1, Len(body) - 1) /\ Edited

Alter ==
    /\ \E k \in 1..Len(body), byte \in BodyBytes :
          body' = [body EXCEPT ![k] = byte]
    /\ Edited

Extend == (\E byte \in BodyBytes : body' = Append(body, byte)) /\ Edited

LongerDigest ==
    /\ server # "none"
    /\ edits = 0 /\ Len(digest) < MaxDigest
    /\ digest' = Append(digest, Len(digest) % Base)
    /\ UNCHANGED <<readingVars, server, status, body, edits>>

Grow == server = "none" /\ ReadingNext /\ UNCHANGED answerVars

BodiesNext == Grow \/ CutOff \/ Alter \/ Extend \/ LongerDigest

BodiesSpec == BodiesInit /\ [][BodiesNext]_bodyVars

Extracted(bytes) ==
    IF server = "tsa" THEN ExtractTimestampToken(bytes)
                      ELSE ExtractBasicOcspResponse(bytes)
-----------------------------------------------------------------------------
(***************************************************************************)
(* The reference grammar of the two answers.                               *)
(***************************************************************************)
\* An INTEGER n, with any leading zeros that fit nine bytes.
IsNumeral(bytes, n) ==
    /\ Len(bytes) \in 1..9
    /\ bytes[Len(bytes)] = n
    /\ \A k \in 1..(Len(bytes) - 1) : bytes[k] = 0

\* The values that fill all of the bytes.
Alone(bytes, tag) == {r[1] : r \in {q \in Readings(bytes, tag) : q[2] = <<>>}}

TsaGrants(bytes) ==
    UNION {UNION {
        IF \E state \in Readings(info[1], IntegerTag) :
              IsNumeral(state[1], 0) \/ IsNumeral(state[1], 1)
        THEN {SubSeq(info[2], 1, frame[2]) : frame \in Frames(info[2])}
        ELSE {}
      : info \in Readings(outer[1], SequenceTag)}
    : outer \in Readings(bytes, SequenceTag)}

OcspGrants(bytes) ==
    UNION {UNION {UNION {UNION {UNION {
        IF IsNumeral(state[1], 0) /\ type[1] = OcspBasicOid
        THEN Alone(type[2], OctetStringTag) ELSE {}
      : type \in Readings(inner, ObjectIdTag)}
    : inner \in Alone(explicit, SequenceTag)}
    : explicit \in Alone(state[2], Explicit0Tag)}
    : state \in Readings(outer[1], EnumeratedTag)}
    : outer \in Readings(bytes, SequenceTag)}
-----------------------------------------------------------------------------
(***************************************************************************)
(* AnswersFollowGrammar: what is taken from a body, and whether it is, is  *)
(* what the grammar of RFC 3161 or RFC 6960 finds there: no refusal passes *)
(* for a grant, and nothing is taken from a body that is out of shape.  As *)
(* the code does, the grammar lets a token have any tag (TokenIsSequence   *)
(* says it has not) and passes over bytes after what is taken.             *)
(***************************************************************************)
AnswersFollowGrammar ==
    server # "none" =>
        LET grants ==
                IF server = "tsa" THEN TsaGrants(body) ELSE OcspGrants(body)
        IN  grants = {Extracted(body)[k] : k \in 1..Len(Extracted(body))}

(***************************************************************************)
(* CutIsRefused: an answer that was lost in part is refused: when one that *)
(* fills its body is accepted, none of its beginnings is.                  *)
(***************************************************************************)
CutIsRefused ==
    (server # "none" /\ Extracted(body) # NoResult
       /\ TotalTlvLength(body) = <<Len(body)>>)
    => \A n \in 0..(Len(body) - 1) : Extracted(SubSeq(body, 1, n)) = NoResult

(***************************************************************************)
(* TokenIsSequence: the documentation of fetch_timestamp_token says that   *)
(* the bytes it returns start with the tag of a SEQUENCE.                  *)
(***************************************************************************)
TokenIsSequence ==
    (server = "tsa" /\ Extracted(body) # NoResult)
    => Extracted(body)[1][1] = SequenceTag

(***************************************************************************)
(* RequestsReadBack: the digest put into a request is found again by the   *)
(* readers of der.rs at its place, for digests and envelopes of any length,*)
(* and no byte is left over at any level.                                  *)
(***************************************************************************)
RequestsReadBack ==
  server # "none" =>
    LET tsa == ReadTlv(BuildTimestampRequest(digest), SequenceTag)
        version == ReadTlvWithRemainder(tsa[1], IntegerTag)
        imprint == ReadTlvWithRemainder(version[2], SequenceTag)
        hash == ReadTlvWithRemainder(imprint[1], SequenceTag)
        ocsp == ReadTlv(BuildOcspRequest(digest, <<2>>, digest), SequenceTag)
        tbs == ReadTlv(ocsp[1], SequenceTag)
        list == ReadTlv(tbs[1], SequenceTag)
        request == ReadTlv(list[1], SequenceTag)
        id == ReadTlv(request[1], SequenceTag)
        name == ReadTlvWithRemainder(id[1], SequenceTag)
        key == ReadTlvWithRemainder(name[2], OctetStringTag)
    IN  /\ version[1] = <<1>>
        /\ ReadTlv(hash[2], OctetStringTag) = <<digest>>
        /\ ReadTlv(imprint[2], BooleanTag) = <<<<True>>>>
        /\ ReadTlvWithRemainder(hash[1], ObjectIdTag)[1] = Sha256Oid
        /\ ReadTlvWithRemainder(name[1], ObjectIdTag)[1] = Sha1Oid
        /\ key[1] = digest
        /\ ReadTlvWithRemainder(key[2], OctetStringTag)
             = <<<<2>>, EncodeTlv(IntegerTag, digest)>>
=============================================================================
