---------------------------- MODULE XmlSignature ----------------------------
(***************************************************************************)
(* The signature code of xmldsig/: XAdES documents as xades.rs writes and  *)
(* upgrades them, enveloping signatures as envelope.rs writes them, and    *)
(* verify_signature, all on the text of a document.                        *)
(*                                                                         *)
(* A digest is the text that it was made from (SHA-256 is taken to be      *)
(* injective), and the content of a file stands for its own digest, as in  *)
(* Xades.  A signature value is the pair of the key and what was signed.   *)
(* base64 is left out: an altered value is none that a key has made.       *)
(***************************************************************************)
EXTENDS Xades, XmlText

CONSTANTS
    Holders,         \* whose keys there are
    VerifiableKinds  \* the kinds of keys that xml_sec verifies values of

KeyKinds == {"Rsa", "P256", "K256"}

ASSUME KeyAssumption ==
    "Rsa" \in VerifiableKinds /\ VerifiableKinds \subseteq KeyKinds

Keys == [kind : KeyKinds, holder : Holders]

Seqs == INSTANCE SequencesExt

Refused(error) == [ok |-> FALSE, error |-> error]
Done(text) == [ok |-> TRUE, xml |-> text]
-----------------------------------------------------------------------------
(***************************************************************************)
(* SigningKeyType.                                                         *)
(***************************************************************************)
RsaSha256 == <<"rsa-sha256", 0>>
EcdsaSha256 == <<"ecdsa-sha256", 0>>

SignatureMethodUri(key) ==
    IF key.kind = "Rsa" THEN RsaSha256 ELSE EcdsaSha256

Sha256(text) == <<"SHA-256", text>>

SignWith(key, bytes) == <<"value of", <<key, bytes>>>>

\* verifying_key: the kind and the holder are those of the private key.
VerifyingKey(key) == key

\* xml_sec's verification of a value over bytes, by the kind of the key given.
KeyAccepts(key, method, bytes, value) ==
    /\ method = SignatureMethodUri(key)
    /\ key.kind \in VerifiableKinds
    /\ value = SignWith(key, bytes)
-----------------------------------------------------------------------------
Ds(local) == <<"ds", local>>
Xa(local) == <<"xades", local>>
AllPrefixes == {"asic", "ds", "xades"}

C14nUri == <<"xml-c14n-20010315", 0>>

Reference(id, uri, digest) ==
    Element(Ds("Reference"), id, uri, {}, <<Text(digest)>>)

SignedInfo(ns, method, references) ==
    Element(Ds("SignedInfo"), NoId, NoAttr, ns,
        Element(Ds("CanonicalizationMethod"), NoId, C14nUri, {}, <<>>)
          \o Element(Ds("SignatureMethod"), NoId, method, {}, <<>>)
          \o Seqs!FlattenSeq(references))
-----------------------------------------------------------------------------
(***************************************************************************)
(* build_xades_basic_signature.  A file is referred to by its name, the    *)
(* SignedProperties by their Id; each digest and the signature are made of *)
(* a part that is serialised and canonicalised alone.                      *)
(***************************************************************************)
SignatureId(i) == <<"S", i>>
SignedPropertiesId(i) == <<"SP", i>>
SignatureValueId(i) == <<"S-SIG", i>>
RefId(i, k) == <<"S-RefId", <<i, k>>>>

\* Signing time, certificate digest, place and roles are one piece of text.
SignedProperties(fs, i, ns) ==
    Element(Xa("SignedProperties"), SignedPropertiesId(i), NoAttr, ns,
        Leaf(Xa("SignedSignatureProperties"), <<"signing certificate", i>>)
          \o Element(Xa("SignedDataObjectProperties"), NoId, NoAttr, {},
                Seqs!FlattenSeq(
                    [k \in 1..Len(fs) |->
                        Element(Xa("DataObjectFormat"), NoId,
                                <<"#", RefId(i, k)>>, {}, <<>>)])))

\* Mutant: the SignedProperties are digested without the prefixes around them.
SignedPropertiesDigestBare(fs, i) ==
    Sha256(CanonicalizeXml(SignedProperties(fs, i, {"xades"}))[1])

SignedPropertiesDigest(fs, i) ==
    Sha256(CanonicalizeXml(SignedProperties(fs, i, AllPrefixes))[1])

XadesSignedInfo(fs, key, i) ==
    SignedInfo(AllPrefixes, SignatureMethodUri(key),
        [k \in 1..Len(fs) |->
            Reference(RefId(i, k), fs[k].name, fs[k].content)]
          \o <<Reference(<<"S-SignedPropertiesRef", i>>,
                         <<"#", SignedPropertiesId(i)>>,
                         SignedPropertiesDigest(fs, i))>>)

SignatureValue(id, value) ==
    Element(Ds("SignatureValue"), id, NoAttr, {}, <<Text(value)>>)

BuildXadesXml(fs, key, i) ==
    LET info == XadesSignedInfo(fs, key, i)
        value == SignWith(key, CanonicalizeXml(info)[1])
        properties ==
            Element(Xa("QualifyingProperties"), NoId, <<"#", SignatureId(i)>>,
                    {}, SignedProperties(fs, i, AllPrefixes))
    IN  Element(<<"asic", "XAdESSignatures">>, NoId, NoAttr, AllPrefixes,
            Element(Ds("Signature"), SignatureId(i), NoAttr, {},
                info \o SignatureValue(SignatureValueId(i), value)
                  \o Leaf(Ds("KeyInfo"), <<"certificate", i>>)
                  \o Element(Ds("Object"), NoId, NoAttr, {}, properties)))

\* Mutant: the bytes to be time-stamped declare the prefix of the element only.
CanonicalSignatureValueBare(id, value) ==
    CanonicalizeXml(Element(Ds("SignatureValue"), id, NoAttr, {"ds"},
                            <<Text(value)>>))[1]

\* build_canonical_signature_value: what a TSA is asked to stamp.
CanonicalSignatureValue(id, value) ==
    CanonicalizeXml(Element(Ds("SignatureValue"), id, NoAttr, AllPrefixes,
                            <<Text(value)>>))[1]
-----------------------------------------------------------------------------
(***************************************************************************)
(* The upgrades paste a block before the last end tag of a name.           *)
(***************************************************************************)
PastedInto(text, name, block) ==
    LET ends == Occurrences(text, 1, Close(name))
    IN  IF ends = {} THEN Refused("XmlStructureError")
        ELSE Done(Pasted(text, Last(ends), block))

PasteTimeStamp(text, i) ==
    PastedInto(text, Xa("QualifyingProperties"),
        Element(Xa("UnsignedProperties"), NoId, NoAttr, {},
            Element(Xa("UnsignedSignatureProperties"), NoId, NoAttr, {},
                Element(Xa("SignatureTimeStamp"), <<"S-T0", i>>, NoAttr, {},
                        <<Text(TimeStamp(i))>>))))

\* Mutant: the values are pasted beside the properties that they belong to.
PasteValuesBeside(text, issuer, i) ==
    PastedInto(text, Xa("UnsignedProperties"),
        Element(Xa("CertificateValues"), <<"S-CA-CERT", i>>, NoAttr, {},
                <<Text(issuer)>>)
          \o Element(Xa("RevocationValues"), <<"N", i>>, NoAttr, {},
                     <<Text(OcspResponse(i))>>))

PasteValues(text, issuer, i) ==
    PastedInto(text, Xa("UnsignedSignatureProperties"),
        Element(Xa("CertificateValues"), <<"S-CA-CERT", i>>, NoAttr, {},
                <<Text(issuer)>>)
          \o Element(Xa("RevocationValues"), <<"N", i>>, NoAttr, {},
                     <<Text(OcspResponse(i))>>))
-----------------------------------------------------------------------------
(***************************************************************************)
(* sign_enveloping.  The Id is the caller's; one that an attribute cannot  *)
(* hold as it is gets escaped when it is written, and is found no more.    *)
(***************************************************************************)
NeedsEscape(id) == id[1] = "&"

Written(id) == IF NeedsEscape(id) THEN <<"escaped", id>> ELSE id

\* Mutant: the object leaves the declaration of ds to the signature.
ObjectInContext(payload, id) ==
    Element(Ds("Object"), Written(id), NoAttr, {}, payload)

Object(payload, id) ==
    Element(Ds("Object"), Written(id), NoAttr, {"ds"}, payload)

\* Mutant: the signature declares a prefix that its object does not.
EnvelopingXmlDeclaringMore(payload, id, info, value) ==
    Element(Ds("Signature"), NoId, NoAttr, {"ds", "xades"},
        info \o SignatureValue(NoId, value)
          \o Leaf(Ds("KeyInfo"), <<"RSAKeyValue", 0>>)
          \o Object(payload, id))

EnvelopingXml(payload, id, info, value) ==
    Element(Ds("Signature"), NoId, NoAttr, {"ds"},
        info \o SignatureValue(NoId, value)
          \o Leaf(Ds("KeyInfo"), <<"RSAKeyValue", 0>>)
          \o Object(payload, id))

EnvelopingInfo(key, id, digest) ==
    SignedInfo({"ds"}, SignatureMethodUri(key),
        <<Reference(NoId, <<"#", Written(id)>>, digest)>>)

\* extract_object: from the start tag with this Id to the next end tag.
ExtractObject(text, id) ==
    LET starts == {k \in Elements(text) :
                      text[k].name = Ds("Object") /\ text[k].id = id}
    IN  IF starts = {} THEN <<>>
        ELSE SubSeq(text, First(starts),
                    First(Occurrences(text, First(starts), Close(Ds("Object")))))

SignEnveloping(payload, id, key) ==
    LET placeholder ==
            EnvelopingXml(payload, id, EnvelopingInfo(key, id, <<>>), <<>>)
        object == ExtractObject(placeholder, id)
        canonical == CanonicalizeXml(object)
        info == EnvelopingInfo(key, id, Sha256(canonical[1]))
        value == SignWith(key, CanonicalizeXml(info)[1])
    IN  IF key.kind # "Rsa" THEN Refused("UnsupportedError")
        ELSE IF object = <<>> THEN Refused("GeneralError")
        ELSE IF canonical = <<>> THEN Refused("CanonicalizationError")
        ELSE Done(EnvelopingXml(payload, id, info, value))
-----------------------------------------------------------------------------
(***************************************************************************)
(* verify_signature.  Its result is "Ok" or the kind of its error.         *)
(***************************************************************************)
Signatures(tree) == {k \in Nodes(tree) : tree.text[k].name[2] = "Signature"}
Signature(tree) == First(Signatures(tree))
Part(tree, local) == First(ChildrenNamed(tree, Signature(tree), local))

\* The elements that the verification cannot do without.
LacksPart(tree) ==
    \/ Signatures(tree) = {}
    \/ \E local \in {"SignedInfo", "SignatureValue"} :
          ChildrenNamed(tree, Signature(tree), local) = {}

\* xml_sec's parse_signed_info: two methods and at least one Reference.
ParsesAsSignedInfo(tree) ==
    LET info == Part(tree, "SignedInfo")
        Has(local) == ChildrenNamed(tree, info, local) # {}
    IN  /\ Has("CanonicalizationMethod") /\ Has("SignatureMethod")
        /\ Has("Reference")
        /\ \A k \in ChildrenNamed(tree, info, "Reference") : HasText(tree, k)
        /\ \A k \in ChildrenNamed(tree, info, "SignatureMethod") :
              tree.text[k].attr \in {RsaSha256, EcdsaSha256}

References(tree) ==
    ChildrenNamed(tree, Part(tree, "SignedInfo"), "Reference")

\* The file_resolver of validate_signature: Err, or the first of that name.
FileNamed(fs, uri) ==
    LET named == {k \in 1..Len(fs) : fs[k].name = uri}
    IN  IF named = {} THEN <<>> ELSE <<fs[First(named)].content>>

\* One turn of the loop over the references.
ReferenceResult(tree, k, fs) ==
    LET uri == tree.text[k].attr
        targets == WithId(tree, uri[2])
        data == IF IsFragment(uri)
                THEN IF Cardinality(targets) # 1 THEN <<>>
                     ELSE <<Sha256(Canonical(tree, First(targets)))>>
                ELSE FileNamed(fs, uri)
    IN  IF uri = NoAttr THEN "MissingElement"
        ELSE IF data = <<>> THEN "ReferenceNotFound"
        ELSE IF data[1] # TextOf(tree, k) THEN "DigestMismatch" ELSE "Ok"

\* The method, the value and the key, once every reference holds.
ValueResult(tree, key) ==
    LET info == Part(tree, "SignedInfo")
        c14n == First(ChildrenNamed(tree, info, "CanonicalizationMethod"))
        method == First(ChildrenNamed(tree, info, "SignatureMethod"))
        value == Part(tree, "SignatureValue")
    IN  IF tree.text[c14n].attr # C14nUri THEN "UnsupportedError"
        ELSE IF ~ HasText(tree, value) THEN "MissingElement"
        ELSE IF KeyAccepts(key, tree.text[method].attr, Canonical(tree, info),
                           TextOf(tree, value))
        THEN "Ok" ELSE "CryptoVerificationError"

VerifyXml(text, key, fs) ==
    LET tree == Parse(text)
        bad == {k \in References(tree) : ReferenceResult(tree, k, fs) # "Ok"}
    IN  IF ~ IsWellFormed(tree) THEN "XmlStructureError"
        ELSE IF LacksPart(tree) THEN "MissingElement"
        ELSE IF ~ ParsesAsSignedInfo(tree) THEN "XmlStructureError"
        ELSE IF bad # {} THEN ReferenceResult(tree, First(bad), fs)
        ELSE ValueResult(tree, key)
-----------------------------------------------------------------------------
(***************************************************************************)
(* parse_signature: quick_xml fills the structs of reader.rs from the local*)
(* names.  A field that is neither an Option nor a Vec has to be there, and*)
(* nothing but the Vec may be there twice; other children are ignored.     *)
(***************************************************************************)
\* Mutant: unsigned_properties is no Option.
RequiredFieldsUnsigned ==
    [XAdESSignatures |-> {"Signature"},
     Signature |-> {"SignedInfo", "SignatureValue", "KeyInfo", "Object"},
     SignedInfo |-> {"CanonicalizationMethod", "SignatureMethod"},
     Object |-> {"QualifyingProperties"},
     QualifyingProperties |-> {"SignedProperties", "UnsignedProperties"},
     SignedProperties |->
         {"SignedSignatureProperties", "SignedDataObjectProperties"},
     SignedDataObjectProperties |-> {"DataObjectFormat"},
     UnsignedProperties |-> {"UnsignedSignatureProperties"},
     UnsignedSignatureProperties |-> {}]

RequiredFields ==
    [XAdESSignatures |-> {"Signature"},
     Signature |-> {"SignedInfo", "SignatureValue", "KeyInfo", "Object"},
     SignedInfo |-> {"CanonicalizationMethod", "SignatureMethod"},
     Object |-> {"QualifyingProperties"},
     QualifyingProperties |-> {"SignedProperties"},
     SignedProperties |->
         {"SignedSignatureProperties", "SignedDataObjectProperties"},
     SignedDataObjectProperties |-> {"DataObjectFormat"},
     UnsignedProperties |-> {"UnsignedSignatureProperties"},
     UnsignedSignatureProperties |-> {}]

OptionalFields ==
    {"UnsignedProperties", "SignatureTimeStamp", "CertificateValues",
     "RevocationValues"}

FillsTheStructs(tree) ==
    \A k \in Nodes(tree) :
        tree.text[k].name[2] \in DOMAIN RequiredFields =>
            LET Count(field) == Cardinality(ChildrenNamed(tree, k, field))
            IN  /\ \A field \in RequiredFields[tree.text[k].name[2]] :
                      Count(field) = 1
                /\ \A field \in OptionalFields : Count(field) <= 1
                /\ tree.text[k].name[2] = "SignedInfo" => Count("Reference") > 0
=============================================================================
