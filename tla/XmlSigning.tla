----------------------------- MODULE XmlSigning -----------------------------
(***************************************************************************)
(* The life of one signature document: what is to be signed is put         *)
(* together, signed, upgraded, changed on its way or not, and verified.    *)
(*                                                                         *)
(* Beside the text goes the document of Xades that the container modules   *)
(* have in its place, made by the operators of Xades in the same steps, so *)
(* that the properties show the two to agree.                              *)
(***************************************************************************)
EXTENDS XmlSignature

CONSTANTS
    SigningKeys,   \* the private keys
    Signers,       \* the inputs of add_signer
    ObjectIds,     \* the Ids that a caller gives to sign_enveloping
    Altered,       \* a text that is no digest and no signature value
    PayloadNames,  \* the names of elements of a payload
    MaxFiles,      \* bound: data files
    MaxPayload,    \* bound: elements of a payload
    MaxEdits       \* bound: changes on the way

\* What an altered attribute or Id becomes: nothing that a caller gives.
OtherAttr == <<"altered", 0>>

ASSUME SigningAssumption ==
    /\ SigningKeys \subseteq Keys /\ Signers \subseteq SignerInputs
    /\ NoId \notin ObjectIds /\ OtherAttr \notin ObjectIds /\ NoAttr \notin FileNames
    /\ MaxFiles \in Nat /\ MaxPayload \in Nat /\ MaxEdits \in Nat

VARIABLES
    form,      \* "xades" or "enveloping"
    key,       \* the private key that signs
    signer,    \* the rest of what was given to add_signer
    files,     \* the data files, as they were signed and ...
    data,      \* ... as the reader finds them
    objectId,  \* the Id given to sign_enveloping
    payload,   \* the content of the object that is enveloped
    result,    \* of signing: Done(text), or Refused with the error
    signed,    \* the text as it was signed last
    xml,       \* the text as it arrives
    doc,       \* the document of Xades
    level,     \* "none", "BES", "T", "LT", "enveloping" or "refused"
    edits      \* changes made on the way

job == <<form, key, signer, files, objectId, payload>>
signingVars == <<job, data, result, signed, xml, doc, level, edits>>

Index == 1
NoDoc == [index |-> 0, refs |-> <<>>, formats |-> 0, cert |-> "match",
          time |-> "within", intact |-> TRUE, unsigned |-> <<>>]

SigningInit ==
    /\ form \in {"xades", "enveloping"}
    /\ key \in SigningKeys
    /\ signer \in Signers
    /\ objectId \in IF form = "xades" THEN {NoId} ELSE ObjectIds
    /\ files = <<>> /\ data = <<>> /\ payload = <<>>
    /\ result = Done(<<>>) /\ signed = <<>> /\ xml = <<>>
    /\ doc = NoDoc
    /\ level = "none" /\ edits = 0
-----------------------------------------------------------------------------
AddFile(file) ==
    /\ form = "xades" /\ level = "none" /\ Len(files) < MaxFiles
    /\ files' = Append(files, file)
    /\ data' = files'
    /\ UNCHANGED <<form, key, signer, objectId, payload, result, signed, xml, doc,
                   level, edits>>

\* A payload gets a further element, or one around all that it has.
Fill(name) ==
    /\ form = "enveloping" /\ level = "none"
    /\ Cardinality(Elements(payload)) < MaxPayload
    /\ payload' \in {payload \o Leaf(name, <<"field", Len(payload)>>),
                     Element(name, NoId, NoAttr, {}, payload)}
    /\ UNCHANGED <<form, key, signer, files, objectId, data, result, signed, xml, doc,
                   level, edits>>

Make(outcome, document, reached) ==
    /\ result' = outcome
    /\ xml' = IF outcome.ok THEN outcome.xml ELSE xml
    /\ signed' = xml'
    /\ doc' = IF outcome.ok THEN document ELSE doc
    /\ level' = IF outcome.ok THEN reached ELSE "refused"
    /\ UNCHANGED <<job, data, edits>>

Sign ==
    /\ form = "xades" /\ level = "none"
    /\ Make(Done(BuildXadesXml(files, key, Index)),
            BuildXadesBasicSignature(files, signer, Index), "BES")

Stamp ==
    /\ level = "BES" /\ edits = 0 /\ signer.tsa
    /\ Make(PasteTimeStamp(xml, Index),
            UpgradeBesToT(doc, TimeStamp(Index)), "T")

AddValues ==
    /\ level = "T" /\ edits = 0 /\ signer.ocsp
    /\ LET issuer == IssuerCertificate(signer, Index)
       IN  Make(PasteValues(xml, issuer, Index),
                UpgradeTToLT(doc, issuer, OcspResponse(Index)), "LT")

Envelop ==
    /\ form = "enveloping" /\ level = "none"
    /\ Make(SignEnveloping(payload, objectId, key), NoDoc, "enveloping")
-----------------------------------------------------------------------------
(***************************************************************************)
(* What may become of a document: an element is lost, a piece of text, an  *)
(* attribute or an Id is altered; a data file is lost or altered.          *)
(***************************************************************************)
AlteredTokens(token) ==
    IF token.kind = "text" THEN {[token EXCEPT !.data = Altered]}
    ELSE IF token.kind = "open"
    THEN {[token EXCEPT !.id = OtherAttr], [token EXCEPT !.attr = OtherAttr]}
    ELSE {}

IsSigned == level \in {"BES", "T", "LT", "enveloping"}

Edited ==
    /\ IsSigned /\ edits < MaxEdits
    /\ edits' = edits + 1
    /\ UNCHANGED <<job, result, signed, doc, level>>

Alter ==
    /\ \E k \in 1..Len(xml) : \E token \in AlteredTokens(xml[k]) :
          xml' = [xml EXCEPT ![k] = token]
    /\ Edited
    /\ UNCHANGED data

LoseElement ==
    /\ \E k \in Elements(xml) :
          xml' = SubSeq(xml, 1, k - 1) \o SubSeq(xml, EndTag(xml, k) + 1, Len(xml))
    /\ Edited
    /\ UNCHANGED data

ChangeData ==
    /\ \E k \in 1..Len(data) :
          \/ data' = Seqs!RemoveAt(data, k)
          \/ \E c \in Contents : data' = [data EXCEPT ![k].content = c]
    /\ Edited
    /\ UNCHANGED xml

SigningNext ==
    \/ \E file \in Files : AddFile(file)
    \/ \E name \in PayloadNames : Fill(name)
    \/ Sign \/ Stamp \/ AddValues \/ Envelop
    \/ Alter \/ LoseElement \/ ChangeData

SigningSpec == SigningInit /\ [][SigningNext]_signingVars
-----------------------------------------------------------------------------
(***************************************************************************)
(* Properties.                                                             *)
(***************************************************************************)
\* The subtree of an element of a given local name, in the text as signed.
Signed(local) ==
    LET k == First({j \in Elements(signed) : signed[j].name[2] = local})
    IN  SubSeq(signed, k, EndTag(signed, k))

Contains(text, part) ==
    \E k \in 0..(Len(text) - Len(part)) :
        SubSeq(text, k + 1, k + Len(part)) = part

\* SignedInfo, the value and one more element are as they were signed; of the
\* element that holds the value, which nobody signs, only its text counts.
Survive(local) ==
    /\ Contains(xml, Signed("SignedInfo"))
    /\ Contains(xml, <<Signed("SignatureValue")[2]>>)
    /\ Contains(xml, Signed(local))

(***************************************************************************)
(* TextFollowsDocument: the text of a XAdES document says what the abstract*)
(* document of the container modules holds: its references, its number of  *)
(* DataObjectFormat elements, and under UnsignedSignatureProperties the    *)
(* same children in the same order; it parses, and no Id occurs twice      *)
(* (xades.rs, the pasting by rfind at the upgrades).                       *)
(***************************************************************************)
Positions(text, local) == {k \in Elements(text) : text[k].name[2] = local}

\* The k-th of some positions.
Nth(positions, k) ==
    CHOOSE p \in positions : Cardinality({q \in positions : q <= p}) = k

UnsignedTexts(text) ==
    LET tree == Parse(text)
        at == Positions(text, "UnsignedSignatureProperties")
        inside == Children(tree, First(at))
    IN  IF at = {} THEN <<>>
        ELSE [k \in 1..Cardinality(inside) |-> TextOf(tree, Nth(inside, k))]

IdsAreUnique(text) ==
    \A j, k \in Elements(text) :
        text[j].id = text[k].id => j = k \/ text[j].id = NoId

TextFollowsDocument ==
    (form = "xades" /\ IsSigned /\ edits = 0) =>
        LET refs == Positions(xml, "Reference")
        IN  /\ IsWellFormed(Parse(xml)) /\ IdsAreUnique(xml)
            /\ Cardinality(refs) = Len(doc.refs) + 1
            /\ \A k \in 1..Len(doc.refs) :
                  /\ xml[Nth(refs, k)].attr = doc.refs[k].uri
                  /\ xml[Nth(refs, k) + 1].data = doc.refs[k].digest
            /\ Cardinality(Positions(xml, "DataObjectFormat")) = doc.formats
            /\ UnsignedTexts(xml) = doc.unsigned

(***************************************************************************)
(* ReaderFillsStructs: the structs that parse_signature deserialises fit   *)
(* the text at every level exactly when the container modules say that the *)
(* document parses: what an upgrade pastes never makes a document that the *)
(* reader could read into one that it cannot.                              *)
(***************************************************************************)
ReaderFillsStructs ==
    (form = "xades" /\ IsSigned /\ edits = 0) =>
        (FillsTheStructs(Parse(xml)) <=> ParsesAsSignature(doc))

(***************************************************************************)
(* VerifyAgrees: verify_signature accepts the text exactly when the        *)
(* predicate VerifySignature of the container modules accepts the abstract *)
(* document, whosever key it is given, whatever was changed on the way    *)
(* and at every level: the document is intact when SignedInfo, the value   *)
(* and SignedProperties are, and nothing else in it matters.               *)
(***************************************************************************)
VerifyAgrees ==
    (form = "xades" /\ IsSigned) =>
        \A k \in SigningKeys :
            VerifyXml(xml, VerifyingKey(k), data) = "Ok"
              <=> VerifySignature(
                    [doc EXCEPT
                       !.intact = Survive("SignedProperties"),
                       !.cert = IF k = key /\ k.kind \in VerifiableKinds
                                THEN "match" ELSE "mismatch"],
                    data)

(***************************************************************************)
(* StampCoversValue: the bytes handed to the TSA are the canonical form of *)
(* ds:SignatureValue as a verifier finds it in the final document, though  *)
(* they are made from a string of their own (xades.rs,                     *)
(* build_canonical_signature_value).                                       *)
(***************************************************************************)
StampCoversValue ==
    (form = "xades" /\ IsSigned /\ edits = 0) =>
        LET k == First({j \in Elements(xml) : xml[j].name[2] = "SignatureValue"})
        IN  Canonical(Parse(xml), k) =
                CanonicalSignatureValue(SignatureValueId(Index), xml[k + 1].data)

(***************************************************************************)
(* EnvelopeRefusals: sign_enveloping refuses a key that is not RSA, an Id  *)
(* that has to be escaped, a prefix that the payload does not declare and  *)
(* a payload with a ds:Object of its own, and nothing else: extract_object *)
(* cuts the latter at the wrong end tag, and what it cuts out does not     *)
(* parse, so that no wrong digest is ever signed (envelope.rs).            *)
(***************************************************************************)
EnvelopeRefusals ==
    level \in {"enveloping", "refused"} =>
        (level = "refused"
           <=> \/ key.kind # "Rsa"
               \/ NeedsEscape(objectId)
               \/ \E k \in Elements(payload) :
                     \/ payload[k].name = Ds("Object")
                     \/ payload[k].name[1] \notin {"", "ds"})

(***************************************************************************)
(* EnvelopeVerifies: what sign_enveloping returns verifies with the key    *)
(* that signed it, with no resolver and with no other key, as long as      *)
(* SignedInfo, the value and the object are as they were signed, whatever  *)
(* the payload contains, and not when one of them is altered: the digest   *)
(* is made from a string cut out of a draft, and verified in the document. *)
(***************************************************************************)
EnvelopeVerifies ==
    (form = "enveloping" /\ IsSigned) =>
        \A k \in SigningKeys :
            VerifyXml(xml, VerifyingKey(k), <<>>) = "Ok"
              <=> /\ Survive("Object")
                  /\ k = key
=============================================================================
