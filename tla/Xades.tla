------------------------------- MODULE Xades -------------------------------
(***************************************************************************)
(* The vocabulary that the container builder and the container reader      *)
(* share: data files, signers, XAdES signature documents and the entries   *)
(* of an ASiC-E archive, with the pure functions of xmldsig/xades.rs,      *)
(* xmldsig/mod.rs and digidoc/reader.rs that make and judge a signature.   *)
(*                                                                         *)
(* A digest is the content it digests (SHA-256 is taken to be injective)   *)
(* and a signature value is identified by the index of its signer.  A      *)
(* media type, a production place and a claimed role are carried along by  *)
(* the code and never looked at, so a document does not hold them.         *)
(***************************************************************************)
EXTENDS Naturals, Sequences

CONSTANTS
    FileNames,   \* the names of data files (one that ends in "/" is a directory)
    Contents     \* the contents a data file may have

(***************************************************************************)
(* An archive name is a pair of a stem and a number, so that the names the *)
(* builder makes with format!("META-INF/signatures{}.xml", i) stay apart   *)
(* for every i.  A caller may use any name, those of the builder included. *)
(***************************************************************************)
MimetypeName == <<"mimetype", 0>>
ManifestName == <<"META-INF/manifest.xml", 0>>
RootName == <<"/", 0>>
SignatureName(i) == <<"META-INF/signatures", i>>

Names ==
    FileNames \cup {MimetypeName, ManifestName, RootName}
      \cup ({"META-INF/signatures"} \X Nat)

\* name.starts_with("META-INF/signatures")
IsSignatureName(name) == name[1] = "META-INF/signatures"

\* uri.starts_with('#'): a reference into the signature document itself.
IsFragment(uri) == uri[1] = "#"

Files == [name : FileNames, content : Contents]

(***************************************************************************)
(* What one add_signer supplies: whether a TSA and an OCSP responder are   *)
(* configured, whether the issuer's certificate is, how the certificate    *)
(* relates to the key ("match": it holds the signer's public key;          *)
(* "unsupported": a key algorithm or curve the reader refuses), and where  *)
(* the signing time lies in the certificate's validity.                    *)
(***************************************************************************)
CertKinds == {"match", "mismatch", "unsupported"}
Times == {"early", "within", "late"}

SignerInputs ==
    [tsa : BOOLEAN, ocsp : BOOLEAN, issuer : BOOLEAN,
     cert : CertKinds, time : Times]

\* The kinds of children of UnsignedSignatureProperties, with a signer each.
UnsignedProperties ==
    {"SignatureTimeStamp", "issuer certificate", "signer certificate",
     "OCSPValues"} \X Nat

(***************************************************************************)
(* A signature document.  "formats" is its number of DataObjectFormat      *)
(* elements, "intact" says that neither SignedInfo nor SignedProperties    *)
(* were altered after signing, "unsigned" holds the children of            *)
(* UnsignedSignatureProperties in order, each with the signer it is about. *)
(***************************************************************************)
Documents ==
    [index : Nat, refs : Seq([uri : Names, digest : Contents]),
     formats : Nat, cert : CertKinds, time : Times, intact : BOOLEAN,
     unsigned : Seq(UnsignedProperties)]

\* One Reference and one DataObjectFormat per data file, nothing unsigned yet.
BuildXadesBasicSignature(fs, signer, i) ==
    [index |-> i,
     refs |-> [k \in 1..Len(fs) |->
                  [uri |-> fs[k].name, digest |-> fs[k].content]],
     formats |-> Len(fs),
     cert |-> signer.cert,
     time |-> signer.time,
     intact |-> TRUE,
     unsigned |-> <<>>]

UpgradeBesToT(bes, token) == [bes EXCEPT !.unsigned = <<token>>]

\* upgrade_xades_t_to_lt needs an UnsignedSignatureProperties to add to.
CanUpgradeToLT(doc) == doc.unsigned # <<>>

UpgradeTToLT(t, issuer, response) ==
    [t EXCEPT !.unsigned = @ \o <<issuer, response>>]

(***************************************************************************)
(* The children of UnsignedSignatureProperties: a time-stamp over the      *)
(* signature value of signer i, the certificate given for its issuer (its  *)
(* own when none is configured) and an OCSP response about its certificate.*)
(***************************************************************************)
TimeStamp(i) == <<"SignatureTimeStamp", i>>
IssuerCertificate(signer, i) ==
    IF signer.issuer THEN <<"issuer certificate", i>>
                     ELSE <<"signer certificate", i>>
OcspResponse(i) == <<"OCSPValues", i>>

\* Mutant: the struct has no place for UnsignedProperties.
ParsesWithoutUnsigned(doc) == doc.formats = 1 /\ doc.unsigned = <<>>

(***************************************************************************)
(* parse_signature deserialises into a struct with exactly one             *)
(* DataObjectFormat: a document with none, or with several, is an error.   *)
(***************************************************************************)
ParsesAsSignature(doc) == doc.formats = 1

\* The file_resolver of validate_signature: the first file of that name.
Resolves(fs, ref) ==
    \E k \in 1..Len(fs) :
        /\ fs[k].name = ref.uri
        /\ \A j \in 1..(k - 1) : fs[j].name # ref.uri
        /\ fs[k].content = ref.digest

(***************************************************************************)
(* verify_signature: every Reference resolves to bytes of its digest, then *)
(* SignatureValue verifies over SignedInfo with the certificate's key.  A  *)
(* data file's URI that starts with '#' is looked up in the document, where*)
(* there is no element with that Id.                                       *)
(***************************************************************************)
VerifySignature(doc, fs) ==
    /\ \A k \in 1..Len(doc.refs) :
          /\ ~ IsFragment(doc.refs[k].uri)
          /\ Resolves(fs, doc.refs[k])
    /\ doc.intact
    /\ doc.cert = "match"

(***************************************************************************)
(* Archive entries.  The field beside "name" tells what the bytes are:     *)
(* a mimetype, a data file, a manifest, a signature document, or the       *)
(* beginning of one of these, cut off by a failed write.  What the bytes   *)
(* of a data file are to a reader is not fixed here: they and the name are *)
(* the caller's, who may pass a signature document or a manifest.          *)
(***************************************************************************)
AsicE == "application/vnd.etsi.asic-e+zip"

MimetypeEntry == [name |-> MimetypeName, mimetype |-> AsicE]
DataEntry(file) == [name |-> file.name, content |-> file.content]
SignatureEntry(i, doc) == [name |-> SignatureName(i), doc |-> doc]
CutEntry(name) == [name |-> name, cut |-> TRUE]

\* create_manifest: the container itself, then every data file.
ManifestPaths(fs) ==
    [k \in 1..(1 + Len(fs)) |-> IF k = 1 THEN RootName ELSE fs[k - 1].name]

ManifestEntry(fs) == [name |-> ManifestName, paths |-> ManifestPaths(fs)]

Entries ==
    [name : Names, mimetype : {AsicE}] \cup [name : Names, content : Contents]
      \cup [name : Names, paths : Seq(Names)]
      \cup [name : Names, doc : Documents] \cup [name : Names, cut : {TRUE}]

NamesOf(entries) == {entries[k].name : k \in 1..Len(entries)}
=============================================================================
