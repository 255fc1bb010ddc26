# A TLA+ verification of digidoc-rs

`digidoc` (Rust, `src/src/`) writes and reads BDOC 2.1 / ASiC-E containers: zip
archives that hold data files, a manifest that lists them and one XAdES
signature document per signer. This directory models the crate's container
code, its XML signatures and its DER, TSA and OCSP code in TLA+, checks the models
with TLC on small instances and proves theorems with TLAPS: about the write path, the
read path and both together for every number of builders, files and signers; about DER
and the messages of TSA and OCSP clients for inputs of every length; about the
stripping of prefixes for every document; and about the texts of XML signatures for any
number of files, any payload and any number of changes on the way.

Line numbers below are those of the repository's sources.

## 1. Inventory

| Component | Source | State | Operations |
| --- | --- | --- | --- |
| Container builder | `digidoc/builder.rs` | `files`, `signers`; in a call: the `ZipWriter` on the output file, the loop position, the signature being made | `add_signer`, `add_file`, `add_file_content`, `create_container`, `build_xades_signature`, `create_manifest` |
| Container reader | `digidoc/reader.rs` | in a call: the archive's directory, files, signatures, errors, warnings | `parse_document`, `validate_signature`, `parse_signature`, `strip_tag_prefixes` |
| XAdES construction | `xmldsig/xades.rs` | none | `build_xades_basic_signature`, `upgrade_xades_bes_to_t`, `upgrade_xades_t_to_lt`, `build_canonical_signature_value` |
| XML signatures | `xmldsig/mod.rs` | none | `verify_signature`, `Signer`/`SigningKeyType`, digests |
| Enveloping signatures | `xmldsig/envelope.rs` | none | `sign_enveloping` |
| TSA client | `pki/tsa.rs` | one HTTP request | `fetch_timestamp_token`, request and response DER |
| OCSP client | `pki/ocsp.rs` | one HTTP request | `fetch_ocsp_response`, request and response DER |
| DER primitives | `pki/der.rs` | none | `encode_length`, `encode_tlv`, `read_tlv`, `read_length`, `decode_unsigned_int` |
| Errors, crate root, test keys | `error.rs`, `lib.rs`, `pki/mod.rs`, `test_keys.rs` | none | none |

**How they interact.** `create_container` calls the XAdES functions for each
signer and, between two zip entries, *awaits* the TSA and then the OCSP
responder. The reader calls `verify_signature` for each signature entry and
hands it the files it has read. Builder and reader meet on the file system only:
the builder writes in place, without a temporary file and a rename, so a
reader, or another builder, can meet any intermediate state of a path.

**What is hard.**

* *Partial failure.* Every `?` of `create_container` drops the `ZipWriter`, whose
  `Drop` writes the central directory: a failed call leaves a *readable*
  archive behind, and an error in the middle of an entry leaves part of it.
* *Awaits and cancellation.* Up to two requests per signer; each may be
  answered late, refused, never answered, or dropped with the future.
* *Crashes.* A process that dies leaves a file with no central directory.
* *Interleaving.* Two calls on one path truncate each other's file and then go
  on writing, each at its own offset.
* *Boundaries.* Five forms of a DER length, each with its own range, written by
  one function and read by another; bodies cut off in transit.
* *Boundary inputs.* File names come from the caller: `mimetype`,
  `META-INF/manifest.xml`, `META-INF/signatures1.xml` and `#x` all reach code
  that gives them a meaning of its own.
* *Two data types for one document.* The builder serialises XAdES with one set
  of structs and the reader deserialises it with another.
* *Text and tree.* Signatures are made over strings that are serialised, cut out or
  put together by hand, and verified over the parsed document; upgrades paste
  text before an end tag that they search for; the reader strips prefixes byte by byte.
  Each must meet the canonical form that the other side computes.

**What makes each component correct.**

* Builder: `Ok` means the whole container is on disk; anything readable on disk
  is a prefix of it; a container is not readable before its call is over; every
  call returns.
* Reader: the verdict agrees with a definition of an acceptable archive that
  does not mention the loop; every invalid verdict has a reason; every path of
  the manifest is accounted for; reading ends.
* Both: a valid verdict means the work of one call, with signatures of its signers or
  documents that the caller had among its files; a properly signed container is accepted.
* XAdES: each upgrade adds what its level asks for, about the right signer, where the
  reader looks for it, and leaves what was signed as it was.
* XML signatures: what is signed verifies, with the key that signed it and no other,
  until a signed part is altered; parts that are not signed do not matter.
* Prefix stripping: names lose their prefix, nothing else changes.
* DER: what is encoded reads back, in the shortest form; what is read is what
  X.690 sees in the input, and nothing past its end.
* TSA/OCSP: a token or response is extracted exactly from the bodies that the
  grammars of RFC 3161 and RFC 6960 call a grant.

## 2. Modules

| Module | Role |
| --- | --- |
| `Xades` | The shared vocabulary: files, signers, signature documents, archive entries, and the pure functions that build, upgrade, parse and verify a document. No variables. |
| `Layout` | What a container holds at each position, for any files and signers, and what it means to follow that layout; the reference for the write path's properties. |
| `ContainerStore` | The abstract specification of the output paths, as their users see them: a call empties its path, and leaves the whole container, a remnant, or nothing readable. |
| `DigiDocBuilder` | The write path as a state machine with any number of builders, the servers and the disk; its properties, and the inductive invariant `IInv`. |
| `DigiDocBuilderProofs` | Theorems about `DigiDocBuilder`, checked by TLAPS, and that it implements `ContainerStore`. |
| `DigiDocReader` | The read path as a state machine over one archive; the reference definition `Acceptable`; its properties. |
| `DigiDocSystem` | Composes the two: builders and a reader on the same paths. |
| `DigiDocReaderProofs` | Theorems about `DigiDocReader`. |
| `DigiDocSystemProofs` | The theorems that say whose signatures a valid container has and that whole ones are valid, from those about the builder. |
| `XmlText` | XML as a sequence of tokens, its tree, and the canonical form of an element. No variables. |
| `XmlSignature` | `xmldsig/` on such texts: building, upgrading, enveloping and verifying, and the structs of the reader. No variables. |
| `XmlSigning` | The life of one signature document: built, upgraded, altered or not, verified; next to it the abstract document of `Xades`. |
| `XmlTextProofs` | A theory of nested texts: what lies in what, parts of a text, lists, canonical forms, copies; what changes leave of a text, and where a verifier looks in it. |
| `XmlSigningProofs` | Theorems about `XmlSigning` that rest on it. |
| `TagPrefixes` | `strip_tag_prefixes`, one action per branch of its loop. |
| `TagPrefixesProofs` | The theorem that it strips exactly the names. |
| `Der` | `pki/der.rs` as operators over sequences of bytes. No variables. |
| `DerReference` | X.690 on lengths and TLVs, as relations between bytes and values; powers of `Base` are a tuple, which the provers can read. |
| `DerReading` | Grows lengths and inputs one by one, and compares `Der` with `DerReference`. |
| `Pki` | The requests and the response parsers of `pki/tsa.rs` and `pki/ocsp.rs`, on top of `Der`. |
| `PkiBodies` | Bodies of answers, altered on their way, and requests; the reference grammars; the properties. It extends `DerReading`, so that one run enumerates both. |
| `PkiProofs` | Theorems about `Der`: lengths and TLVs read back, lengths are shortest, readers are exact; and about `PkiBodies`: answers are taken by the grammars, cut ones are refused, requests read back. |
| `SequenceInduction` | Induction as a statement about sets, and the recursive functions that sequences are folded with. |
| `MCDigiDocBuilder`, `MCDigiDocReader`, `MCDigiDocSystem`, `MCXmlSigning`, `MCTagPrefixes`, `MCPkiBodies` | Values of the constants for TLC. |

Definitions named in a comment as `Mutant:` are variants of the definition that
follows them, with a plausible bug in it. Substituting one for that definition
makes TLC report a violated property; the table `mutants` of `PROJECT.json`
says which. They are no part of any specification.

### Xades

A digest is modelled by the content it digests and a signature value by the index
of its signer, so hashing and signing are perfect. A document keeps what the
code looks at: its references, its number of `DataObjectFormat` elements, the
signer's certificate and signing time as the reader will judge them, whether
the signed parts are intact, and the children of `UnsignedSignatureProperties`
in order. Media types, places and roles are left out: nothing in the crate branches on
them. `time` is "within" when the signing time is neither before `not_before` nor after
`not_after`; being equal to one of them is not a case of its own. Namespaces and
canonicalisation are in `XmlSignature`, and `XmlSigning` shows
that what is left here stands for the text. An archive name is a pair of a
stem and a number because `format!("META-INF/signatures{}.xml", i)` must give
different names for every `i`, which the proofs use.

### DigiDocBuilder

| Variable | Code |
| --- | --- |
| `files[b]`, `signers[b]` | the fields of `DigiDocBuilder` (builder.rs:109-118) |
| `pc[b]`, `path[b]`, `at[b]` | position in `create_container`, its `output_path`, turns made in the loop it is in |
| `zip[b]` | entries written through the `ZipWriter` (builder.rs:177) |
| `draft[b]` | the local `bes`, `t`, `lt` of `build_xades_signature` |
| `request[b]` | the HTTP request being awaited and its answer |
| `disk[p]` | the file at `p`: absent, open (created, no directory), sealed (readable), torn (bytes of two archives) |

| Action | Code |
| --- | --- |
| `AddFileContent`, `AddFile`, `AddFileFails`, `AddSigner` | builder.rs:126-163 |
| `Create`, `CreateFails` | directories and `File::create`, builder.rs:166-177 |
| `WriteMimetype`, `WriteDataFile`, `WriteManifest` | builder.rs:179-197 |
| `Sign`, `ReceiveToken`, `ReceiveResponse` | `build_xades_signature`, builder.rs:211-273, cut at its two awaits |
| `WriteSignature`, `Finish` | builder.rs:199-208 |
| `RejectDuplicate`, `WriteFails`, `SignFails`, `Refused`, `Timeout`, `Cancel`, `FinishFails` | the `?` of those lines, the HTTP client's 10 s timeout, the drop of the future |
| `Unwind` | the `Drop` of the `ZipWriter` |
| `Crash` | the process dies; its builder is new afterwards |
| `Answer` | the TSA or the OCSP responder answers |

*Granularity.* One action per archive entry, since another process can truncate,
open or overwrite the path between any two writes. Building a document is
one action: it reads the builder's own fields, which `&self` keeps unchanged.
One builder runs one call at a time: `DigiDocSignerInput` holds a
`Box<dyn Signer>` with no `Send` or `Sync` bound (builder.rs:29-37), so a builder's
futures stay on one thread. Two of its futures polled in turns interleave at
awaits only, which two builders of equal contents also do here.

*Servers.* A server answers with the token or response about what was asked,
with something else (an error status, a body without a token: the client
makes an error of both), or not at all. **Assumption:** a token that parses
is about the posted signature value. The crate does not compare the imprint, the
nonce or the certificate in an answer with the request (tsa.rs:84-181,
ocsp.rs:169-263), so nothing here can be concluded about a dishonest server.

*Disk.* `disk[p]` also records which builder's call created the file and what
that builder held; these are history, read only by properties, by `IsMaker`
(does this file descriptor still own the file's bytes?) and by the reader's
`source`. A write through a descriptor whose file another call has truncated
makes the file `torn`. `Overlap` says whether callers may do that at all.

### ContainerStore

`calls[b]` says where builder `b` is and `disk[p]` what a reader of `p` finds. Its
steps are `Fill`, `Start`, `Refuse`, `Spoil` (two calls wrote to one file),
`Succeed`, `Fail` and `Crash`. It knows no entries, loops, requests, servers or
timers. The mapping (`Outcome` in `DigiDocBuilder`) takes every `pc` between
`Create` and the end of the call to one value.

### DigiDocReader

`phase` is the position in `parse_document` (reader.rs:71-191) and `cursor` the
turn of the loop over the manifest or over the entries. There is one action per
entry that is read; each may instead fail (`ReadFails`), because the file may be
rewritten or the disk may fail after the directory was loaded; a read that
succeeds has passed the CRC of the directory. `Acceptable` states over the
archive alone when a container is acceptable, and mentions neither loops, nor
order, nor early errors.

An archive has unique names: `zip`'s directory is a map by name
(`CentralDirectories`). Entries may be directories, bytes that are not UTF-8, or
entries `zip` cannot open.

*What a data file's bytes are.* `create_container` writes the caller's bytes under the
caller's name (builder.rs:185-192), and the reader goes by names: whatever it finds at
`META-INF/signatures...` it parses as a signature (reader.rs:131-138), and whatever is
at `META-INF/manifest.xml` as the manifest. The constant `ReadsAs` says which contents are
more than text to these parsers: a signature document, a manifest, or no UTF-8. `AsText`
applies it wherever the code calls `read_to_string`, and `Bytes` does not, where
it calls `read_to_end`.

### DigiDocSystem

One reader opens any path at any moment, copies the file's directory and reads.
A `torn` file is not opened: what it opens as depends on byte offsets, which are
not modelled. `SerialNeverTears` shows that callers who do not run two calls on
one path at a time never make one.

`ValidIsSigned` says what a valid verdict is worth, and that is less than "signed by the
call's signers": a signature that the caller had among its data files, under a
signature's name, counts like any other, even when it signs no file of the container, and
with such files a container can be valid that no signer of the call has signed. So the
property says of *every* signature whose it is: `OwnSignatures` counts those of the
data files, the rest are the full signatures of the first signers, and there is no other.

### XmlText, XmlSignature and XmlSigning

A text is a sequence of start tags, end tags and character data. A start tag keeps its
qualified name, its Id, one more attribute (a URI, an algorithm, a target) and the
prefixes it declares; that is what a digest, a reference or a search for a tag can
tell apart. `Parse` makes the tree, `Canonical` the inclusive canonical form of one
element: its subtree with every namespace in scope declared at its top. These two stand for
`roxmltree` and `xml_sec`, and are modelled from how `verify_signature` and
`build_xades_basic_signature` use them.

| Definition | Code |
| --- | --- |
| `SignedProperties`, `XadesSignedInfo`, `BuildXadesXml` | `build_xades_basic_signature`, xades.rs:269-434: each signed part is canonicalised as a document of its own |
| `CanonicalSignatureValue` | `build_canonical_signature_value`, xades.rs:504-513 |
| `PasteTimeStamp`, `PasteValues` | the upgrades, pasting before the last end tag of a name, xades.rs:436-502 |
| `SignEnveloping`, `ExtractObject` | `sign_enveloping` and its draft, envelope.rs:68-194 |
| `VerifyXml` | `verify_signature`, xmldsig/mod.rs:205-368, its checks in their order, with the kind of the error as the result |
| `FillsTheStructs` | what `quick_xml` makes of a text for the structs of reader.rs:419-568 |

Actions of `XmlSigning`: `AddFile` and `Fill` (the caller's payload), `Sign`, `Stamp`,
`AddValues`, `Envelop`, and what may happen to a document before it is verified: `Alter`
(a text, an attribute or an Id), `LoseElement`, `ChangeData`. `doc` is the document
that the container modules have for the same steps.

A digest is the text it was made from, a signature value the pair of key and text. The
content of `KeyInfo` is one piece of text, and so are signing time, certificate
digest, place and roles. Elements of a payload have no Ids, and attributes of a
text are not inherited (`xml:` attributes do not occur in the documents of the crate).
`VerifiableKinds`, the kinds of keys whose values `xml_sec` verifies, is a parameter because
the repository does not show whether K-256 is among them; the run leaves it out, so
that both cases occur.

### TagPrefixes

A document is a sequence of tags, with or without a prefix and with one attribute value,
and of texts; its bytes are consumed one action per branch: `OpenTag`, `CloseTag`,
`StripPrefix`, `CopyByte` (reader.rs:275-309). One symbol stands for the bytes of any
of the three prefixes, and one for a character of two bytes.

### Der and Pki

Every function of `der.rs` is one operator with the same name. `Err` is the empty
tuple and `Ok(x, y)` the tuple of the values; `&[u8]` is a sequence. `TlvSizes` is
what `read_tlv_with_remainder` and `total_tlv_length` have in common. `usize` has 64
bits (a sum of a 32-bit length and a header cannot overflow).

*The size of a byte.* `Base`, the number of values of a byte, is a constant: 256 in
the code, 16 in the runs. Every bound of the code is a power of it (`0x80` is half of it,
`0xff` is `Base - 1`, a shift by 8 a product with it), so that `Base = 16` keeps
all five forms of a length and their order and moves their borders to
8, 16, 256, 4096 and 65536, where TLC reaches them. The proofs hold for both values.
Tags and object identifiers are constants because theirs do not fit 4 bits; the
runs give different tags different values, as the code does.

*Not in Pki.* The certificate fields that an OCSP request is about come from `x509-parser`
and are taken as bytes; HTTP status, timeouts and retries are in `DigiDocBuilder`.

## 3. Runs

| Run | Module, cfg | Checks | Bounds |
| --- | --- | --- | --- |
| builder_alone | `MCDigiDocBuilder`, `BuilderAlone` | `TypeOK`, `SealedIsPrefix`, `OkIsPublished`, `CallsReturn` | 1 builder, 2 files named plainly or like the builder's own entries, 2 signers, every kind: BES, T, LT with and without issuer, OCSP without TSA |
| builder_overlap | `BuilderOverlap` | `IInv`, `NeverSwapped`, `ImplementsStore` | 2 builders on 1 path, overlapping |
| reader_archives | `MCDigiDocReader`, `ReaderArchives` | `ReaderTypeOK`, `VerdictIsJustified`, `InvalidHasReason`, `EveryPathIsAccountedFor`, `ReadEnds` | every archive of 5 mimetypes × 4 data entries × 8 manifests × 15 × 15 signature entries; of the manifests and signatures, 1 and 2 are data files, one of them no signature |
| reader_collects | `ReaderCollects` | `CollectsNonFatal` — violated | the same archives |
| system_round_trip | `MCDigiDocSystem`, `SystemRoundTrip` | `ValidIsSigned`, `CompleteIsAccepted` | 1 builder; data files that are a manifest, or a signature over nothing but itself, under a plain name, a fragment, a signature's name or the manifest's; 1 file and up to 2 signers of 4 kinds (BES, LT, mismatched, expired), or up to 2 files, none named like a fragment, and 1 signer |
| system_rewrite | `SystemRewrite` | `ValidIsSigned`, `SealedIsSettled`, `SerialNeverTears` | 2 builders that take turns on 1 path, with crashes, and a reader |
| system_multi_file | `SystemMultiFile` | `SignedContainersVerify` — violated | 1 builder, 2 files, 1 signer |
| pki_messages | `MCPkiBodies`, `PkiMessages` | `AnswersFollowGrammar`, `CutIsRefused`, `RequestsReadBack`, `LengthReadsBack`, `LengthIsDer`, `ReadsWhatIsThere` | 3 statuses of 2 servers and any 2 changes of bytes; digests of 0 to 300 bytes: each of the nested envelopes crosses 8, 16 and 256 at a different one; every length up to 66000, above the largest that four bytes of 16 values hold; every input of up to 6 bytes from 7: values, and length bytes of every kind (short, indefinite, 1, 4 and too many digits) |
| pki_token | `PkiToken` | `TokenIsSequence` — violated | the same bodies |
| xml_signing | `MCXmlSigning`, `XmlSigning` | `TextFollowsDocument`, `ReaderFillsStructs`, `VerifyAgrees`, `StampCoversValue`, `EnvelopeRefusals`, `EnvelopeVerifies` | 2 RSA keys, a P-256 and a K-256 key; 2 files of 3 names, one a fragment that the document itself defines; every payload of up to 3 elements side by side or nested, `ds:Object` and `ds:Signature` among them; any 1 change |
| tag_prefixes | `MCTagPrefixes`, `TagPrefixes` | `StripsNamesOnly`, `ScanEnds` | 2 tags or texts, each of every string of up to 2 symbols and two of 3 with a prefix on either side of a ">" |
| tag_comment | `TagComment` | `TextAndValuesUntouched` — violated | the same documents |

**Why these bounds are enough to be of use.** `MaxFiles` and `MaxSigners` bound
what callers add, nothing else; the loops they bound look at one element per turn
and compare names of earlier entries, so that two signers and two names show
every way in which a turn can depend on an earlier one. The number of calls is
not bounded: builders run again after success, failure, cancellation and crash
until no new state is found. One path suffices, because no action touches two. The proofs have none of these bounds.

The XML run has two files for an order of references and a repeated name, and three payload
elements because a nested `ds:Object` with something after it inside is the shortest
payload that the search for an end tag cuts short. One change is enough for each
part to be altered alone, which is what the equivalences are about. In a tag, one
attribute value of three symbols shows a prefix before, after and without a ">"; the
rest of a tag after a ">" in a value is text to the scan until the next "<".

The Der enumerations of pki_messages hold everything below their bound: six bytes hold a tag, a
length of four digits, the longest header, or a short header and four bytes of value;
two changes of a body reach a wrong status together with a wrong length, or
two lengths of nested envelopes that agree with each other and not with the rest.

In system_round_trip, whose constraint `OneFileOrOneSigner` names the bound, two files
are enough for a signature and a manifest of the caller's in one container, in either
order, and for a signature beside an ordinary file, and one file for what becomes of any
file when several signers follow. Under a name that is neither a signature's nor the
manifest's the bytes of both contents are ordinary bytes. The other system runs have
contents that are text only.

**Deadlock.** Checking for it is off in every run: a system whose calls have all
returned, and whose callers have no more to add or have stopped, is at rest, and
the Der, Pki and XML runs end where their enumeration does.
What must not stop is stated by `CallsReturn` and `ReadEnds`.

**Fairness.** `CallsReturn` assumes, for each builder, weak fairness of what its
call does of itself: entries written, documents made, answers received, errors
returned, the `ZipWriter` dropped, and the 10 s timer of the HTTP client
(tsa.rs:55-58, ocsp.rs:53-56). The executor polls a woken future and the
timer wakes it, so this is what running the future means. Nothing else is
fair: servers need not answer, nothing needs to fail, and no caller needs to act.
`ReadEnds` and `ScanEnds` assume weak fairness of a synchronous function's next step.

**Action constraints of the system runs.** `BuildersRestWhileReading` stops the
builders once the reader has opened a path. Builder and reader share only
`disk`, which the reader copies in `OpenPath` and never reads again, and
`ReadFails` is possible at any time whatever builders do. Steps of builders after
`OpenPath` therefore commute with steps of the reader. `ValidIsSigned`,
`CompleteIsAccepted` and `SignedContainersVerify` mention the reader's variables
alone, and `SealedIsSettled` and `SerialNeverTears` the builders' alone, which reach
all their states without the reader: no state that a property tells apart is lost. The
system_round_trip adds `OpenedAtOnce`: a reader opens a path when the call has just
returned. A file becomes an archive in the last step of a call alone (`Finish` or `Unwind`)
and stays as it is until the next `Create`, so that later openings show the same file. The
theorem `ValidContainersAreSigned` has neither constraint.

## 4. Findings

1. `SignedContainersVerify` is violated: the builder writes a
   `DataObjectFormat` per data file (xades.rs:344-354); the reader
   deserialises exactly one (reader.rs:496-499). A container of two files, or
   of none, that is properly signed is reported invalid with "Failed to parse
   signature". The round-trip tests of `digidoc/mod.rs` use one file.
2. `CollectsNonFatal` is violated: `read_to_string(...)?` (reader.rs:83 and 136)
   makes a hard error of a mimetype or signature entry that is not UTF-8, where
   reader.rs:69-70 says that such issues are collected in the result.
3. `TokenIsSequence` is violated: `extract_timestamp_token` measures the TLV after
   the status with `total_tlv_length`, which does not look at its tag
   (tsa.rs:179-181); tsa.rs:43-44 says "The returned bytes start with the
   `0x30` (SEQUENCE) tag of the `ContentInfo`".

4. `TextAndValuesUntouched` is violated: `strip_tag_prefixes` pushes each byte of the
   UTF-8 text as a character (reader.rs:302 and 306), so that a character of two
   bytes becomes two characters, and removes a prefix inside an attribute
   value as well (reader.rs:291-300); reader.rs:259-261 promises to leave
   "text content and attribute values untouched". The result is only deserialised for
   base64, a time and algorithm names, which `StripsNamesOnly` shows to come through.

Lengths in a longer form than needed, `0x81 0x00` for instance, are read
(der.rs:97-110) although der.rs:7 disclaims BER; `ReadsWhatIsThere` takes the code's
side, since nothing in the crate depends on it: tokens are embedded as they came.

## 5. Proofs

**The write path**, in `DigiDocBuilderProofs`, for every value of the constants, from
`BuilderAssumption` alone (`Signers` are signer inputs, `Overlap` is a Boolean, the
bounds are naturals, and `Nobody` is not a builder):

| Theorem | Statement |
| --- | --- |
| `Invariant` | `Spec => []IInv` |
| `TypeCorrect` | `Spec => []TypeOK` |
| `OkPublishes` | `Spec => []OkIsPublished` |
| `SealedArePrefixes` | `Spec => []SealedIsPrefix` |
| `SealedAreSettled` | `Spec => []SealedIsSettled` |
| `SerialCallsNeverTear` | `Spec => []SerialNeverTears` |
| `ContainersNeverSwap` | `Spec => NeverSwapped` |
| `Refinement` | `Spec => ImplementsStore` |

**The argument.** None of the properties is inductive: that a sealed file is a
prefix says nothing about what a `ZipWriter` about to seal holds. `IInv` adds, for
each builder,

* `ZipPosition`: the length of `zip` is what `pc` and `at` say (this is where an
  entry too many or too few would show);
* `ZipContents`: each written entry is the one the layout has at that position,
  and names are unique;
* `DraftLevel`: the document in hand is that of signer `at`, at the level that
  `pc` says it has reached;
* `RequestMatches`: the request and any answer are about signer `at`;
* `MakerInv`: the file of a running call that still owns it is open, or torn by
  another, never sealed; after `Ok` it is sealed with exactly `zip`;

and, for callers that do not overlap, `SerialInv`: a running call owns its file.
That a sealed file is a prefix then follows at `Finish` and `Unwind` from
`ZipContents`; that it stays one, from `Touched` and `Sealed`.

Lemmas come first: layout positions (`LayoutAt` of the mimetype, a data file, the
manifest, a signature), what appending an entry or a cut entry does to
`FollowsLayout` and to unique names, types of documents and entries, and what
`Touched` and `Sealed` do to the disk. Each action has one step per conjunct it
can disturb; actions that leave a builder's call alone share a lemma.

**The refinement.** `Outcome` is the mapping. Initial states agree; a step within a
call leaves `Outcome` alone, so that it stutters, or is `Spoil` when it writes
through a descriptor whose file is no longer its own; `Create` is `Start`;
`Finish` is `Succeed`, for which `ZipPosition` and `ZipContents` of `IInv`
show that the file is the whole container; `Unwind` is `Fail`, which leaves a
prefix for the same reason. Steps of servers and fillings stutter or are `Fill`.

**The read path**, in `DigiDocReaderProofs`, for every value of the constants, from
`ReaderAssumption` (`Archives` are directories with unique names, the bytes of an
entry that is no data file are not those of one, and `ReadsAs` takes contents for
signature documents, manifests or no text):

| Theorem | Statement |
| --- | --- |
| `ReaderTypeCorrect` | `ReaderSpec => []ReaderTypeOK` |
| `VerdictCorrect` | `ReaderSpec => []VerdictIsJustified` |
| `ReasonsCorrect` | `ReaderSpec => []InvalidHasReason` |
| `PathsAccountedFor` | `ReaderSpec => []EveryPathIsAccountedFor` |

The verdict is computed by two loops and `Acceptable` mentions none, so the inductive
invariant says what each loop has read: `FilesRead`, that the first `n` paths are
among the files, in order and with the contents of their entries, or among
the warnings; `SignaturesRead`, that there is no error so far exactly when the
mimetype is right and each of the first `n` entries passes, and that then each
signature is valid. At the end of the loops the two give `Acceptable`, by a lemma
that `VerifySignature` over the files found and `Covers` over the archive agree; it
needs the unique names of a directory, since a resolver that takes the first file of a
name could otherwise take another one than the manifest meant.

**Builders and readers**, in `DigiDocSystemProofs`, from `BuilderAssumption` and
`SystemAssumption` (the manifest's path "/" of the container is no file name, and
`ReadsAs` is as above):

| Theorem | Statement |
| --- | --- |
| `ValidContainersAreSigned` | `SystemSpec => []ValidIsSigned` |
| `CompleteContainersAreAccepted` | `SystemSpec => []CompleteIsAccepted` |

A path may be rewritten while the reader reads, so nothing about `disk` helps the reader
after it has opened a file. `ReaderInv` carries over what `SealedIsPrefix` and unique
names said of the file at that moment: the archive is a beginning of one call's
container (`SourceIsPrefix`), and, as long as there is no error, the signatures found are
those of the entries up to the cursor (`SignaturesFound`). Of these entries `FilesAmong`
are data files and `SignersAmong` documents of signers. `OwnFound` says that each of the
former with a signature's name is a signature, and found where the ones before it are
counted; `FullFound` that behind them come the full signatures of the signers in their
order. `OneMore` and `OneEntryMore` say how these counts grow with an entry, and
`SkipKeepsFound`, `OwnIsFound` and `FullIsFound` what each kind of entry adds. Steps of
builders leave all of it alone; each of the reader's steps has a lemma.

Which files are found depends on whose manifest is read. Without a data file of that name
it is the call's own, which stands behind all data files, so that all of them are there and
found up to the cursor (`ReadableManifest`, `FilesFound`). With one (`OwnManifest`) the
caller's manifest may list anything and nothing is said of the files; but then the names would
not be unique if the container had grown to its own manifest, so that it has no
document of a signer (`OwnManifestEnds`). These are the two ends of `ValidIsSigned`.

For the second theorem `AcceptInv` adds that nothing is wrong so far with a container
that was whole when it was opened: no hard error, no validation error, no invalid
signature. `WholeContainer` names its entries by position, `FullIsAccepted` shows that
a full signature over one file parses and verifies, and `EntriesOfWhole` that the loop
over the entries meets only entries it skips and signatures it accepts (such a container has
no data file of the manifest's name, for it holds its own manifest); that the verdict
needs at least one signature is met by `SignaturesFound` at the last entry.

**DER**, in `PkiProofs`, from `BaseAssumption` (a byte has 16 or 256 values):

| Theorem | Statement |
| --- | --- |
| `LengthsReadBack` | `ReadingSpec => []LengthReadsBack`: `read_length` undoes `encode_length` for every length below `Base`^4 |
| `TlvReadsBack` | `ReadTlvWithRemainder(EncodeTlv(tag, value) \o rest, tag) = <<value, rest>>` |
| `LengthsAreShortest` | `ReadingSpec => []LengthIsDer`: `encode_length` is the shortest form of X.690 |
| `ReadersAreExact` | `ReadingSpec => []ReadsWhatIsThere`: in an input of any length, a TLV is read exactly where X.690 sees one, and there is only one |

`BigEndian` is a recursive function over a sequence of any length: by induction there
is a function that accumulates the digits, and only one, so that `BigEndian` of a
longer sequence follows from that of a shorter one (`BigEndianOfAppend`). `EncodedLength` says that an encoding is the length itself or a count
and digits that stand for it, by dividing by `Base` up to three times;
`LongFormReads` that a count and digits are read as their number whatever follows.
A TLV is then three parts of a sequence, cut out again (`MiddlePart`, `LastPart`).
For the reference, `NumberReadsBack` shows that `Digits` and `BigEndian` undo each
other for up to four digits, `FormIsRead` and `ReadIsForm` that `ReadLength` accepts a
beginning of some bytes exactly when it is a form of a number, and `FramesAreSizes` that
what `TlvSizes` returns is the only frame.

**The messages of the clients**, in `PkiProofs`, from `BaseAssumption`, `PkiAssumption`
(tags and the bytes of object identifiers are bytes) and `BodiesAssumption`:

| Theorem | Statement |
| --- | --- |
| `AnswersAreByGrammar` | `BodiesSpec => []AnswersFollowGrammar` |
| `CutsAreRefused` | `BodiesSpec => []CutIsRefused` |
| `RequestsAreReadBack` | `RequestsFit` implies `BodiesSpec => []RequestsReadBack` |
| `BodiesAreReadExactly` | `BodiesSpec => []PartsReadAsSeen`: in any part of any body that arrives, however altered, the one TLV that X.690 sees there is read, or nothing where it sees none |

The invariant of all four is only that bodies and digests are bytes. An answer is
a status or a shape within envelopes; each reader in the code's chain finds what the
reference's quantifiers see, because by `ReadingsAreRead` there is at most
one way to see a TLV (`TokensAreGrants`, `BasicsAreGrants`), and leading zeros of a
status stand for nothing (`NumeralsAreDecoded`). `CutLength` shows that
a length which can be read from a beginning of some bytes is the one read from all of
them, so it promises the same end, and a beginning does not reach it (`CutTlv`): no
beginning of a TLV is a TLV. `RequestsFit` says that four bytes can count the longest
envelope, with 100 bytes to spare for the fixed fields; with bytes of 256 values it holds
for digests of nearly 2^31 bytes. Under it `UpTo` bounds the size of every part of a request
(`SizeOfTlv`, `SizeOfJoined`), so that `TlvReadsBack` applies to each envelope from the
outermost in; `Regrouped` moves the brackets to where the reader cuts.

**Prefix stripping**, in `TagPrefixesProofs`, from `TagPrefixesAssumption` (the strings
of a document are sequences of symbols):

| Theorem | Statement |
| --- | --- |
| `StripsExactlyNames` | `ScanSpec => []StripsNamesOnly`, for documents of any number of tags and texts |

The scan is written as a function of the bytes: `InsideAt` says without a loop whether a
position is inside a tag, `Stripped` what is returned. `ScanInv` says that the loop has
returned `Stripped` of what it consumed and that a whole document of pieces can be continued
from it. `ScanOfConcat` cuts the function at the borders of pieces, which all end outside of
a tag; `PieceIsHarmless` says when a piece comes through with its name unprefixed and
nothing else changed, and `ExactlyTheHarmless` that one piece that does not shows in the whole
result: a character of two bytes is expected in it and never returned, and otherwise
the result is shorter than what is expected.

**XML signatures**, in `XmlSigningProofs` on the theory of `XmlTextProofs`, from
`SigningAssumption` (keys and signers are of their sets; "no Id" is no Id that a caller
gives and "no attribute" no file name: the model writes one value for an attribute that is
not there, as Rust's `Option` does; what an altered Id becomes is none that a caller gives:
a second element with the Id of the object is refused although all that was signed is
still there, and `EnvelopeVerifies` does not speak of it):

| Theorem | Statement |
| --- | --- |
| `TextsFollow` | `SigningSpec => []TextFollowsDocument` |
| `StructsAreFilled` | `SigningSpec => []ReaderFillsStructs` |
| `StampsCover` | `SigningSpec => []StampCoversValue` |
| `SignaturesVerify` | `FilesAreNoElements` and `TextsAreNoValues` imply `SigningSpec => []VerifyAgrees`, after any number of changes |
| `RefusalsAreKnown` | `SigningSpec => []EnvelopeRefusals` |
| `EnvelopesVerify` | `TextsAreNoValues` implies `SigningSpec => []EnvelopeVerifies`, after any number of changes |

*The hypotheses of `SignaturesVerify` and `EnvelopesVerify`* are those of perfect cryptography. A digest is
modelled by the text it is made from and a signature value by key and text, so a
constant could be chosen that is one of these by its form. `FilesAreNoElements` says
that no file content is the digest of an element; without it a document that lost its
`SignedProperties` could be mended by a data file. `TextsAreNoValues` says that neither
a content nor an altered text is a signature value: to make one takes the key. The values of
`MCXmlSigning` satisfy both.

*Nested texts.* `EndTag` counts tags from a start tag to the end of the text, so what `Parse`
makes of one element depends on all that follows it. A text is `Nested` when its tags pair
up inside it and, wherever it stands in a larger text, its elements end where they do
when it is alone. Character data is nested, joined nested texts are (`NestedJoin`), and
so is an element around one (`NestedElement`); `Made` adds which names and declarations a
text may have. `ScanSuffix`, `ScanCut` and `ScanInserted` say what a count of depths becomes
when something is put before, cut off behind or inserted into a text.

*What lies in what.* `Around` are the elements that begin before a token and end
behind it; in a nested text the elements directly inside one are those with one more around
them (`Inside`), which is what `Parse` makes its children (`ChildrenAreInside`). `StandsAt`
says that a part stands somewhere in a text; what ends, lies and is counted in the part
alone is so in the text, shifted. Lists of elements, one per file, are counted by
`Tally` and `Count`, their Ids by `Ids`, and the fields of the reader's structs by `Fills`,
each by induction over the joined parts. `CanonicalStanding` says that the canonical
form of a part is the same in the document and on its own when the root declares what
the part declares: this is what the code relies on when it signs parts by themselves.

*The text of a document.* `SignedInv` says that a XAdES document is, as it was signed last,
`XadesText` of its files, key and level: the upgrades search a string for an end tag and
paste, and the lemmas on pasting show that this makes the text of the next level.
`TextFollowsDocument`, `ReaderFillsStructs` and `StampCoversValue` are not inductive
(nothing in them says where the next upgrade will paste) and follow from it by counting what
is in that text.

*Any change.* `VerifyAgrees` is an equivalence about a document of which any tokens were
altered and any elements lost, so it needs what *remains* true. In one direction
(accepted, so intact): `EditedInv` says that every text in the document is the value that was
made for it, or no value at all. A document that is accepted has therefore the old value in
its `SignatureValue`, which binds the key and the canonical `SignedInfo`;
a canonical form gives its text away (`CanonicalGives`), so the old `SignedInfo` is there token
for token, and with it its references. In the other direction (intact, so accepted):
`OrderlyInv` says that what is left nests in one root, that there is at most one
signature, one `SignedInfo`, one value and one bearer of the Id of the signed properties,
that they lie where they lay, and that the value stands only in a `SignatureValue`. `Follows`
relates a text to what it was made from by taking out elements (`WithoutFollows`) and
altering tokens (`AlteringFollows`), and `OrderlyFollows` carries all of this over. What survives
of the signed parts is then found by the verifier at the one place it looks.

*The same for enveloping signatures.* A payload may have elements with the names of the
signature's own, `ds:Signature` among them, so names alone say nothing about it. `EnclosedInv` goes by
marks: a payload has no Ids, no method of a canonical form, no declarations and no signature
values (`QuietBut`, kept by every `Fill`), so whatever has one of these lies where `sign_enveloping`
put it, directly in the root, and `EnclosedFollows` carries that through any change. The
value that is accepted is the old one, which leads to the old `SignedInfo` and its one
reference, and this to the object, whose canonical form gives it away because nothing in
it declares a prefix but its own start tag (`EnclosedCopy`): `EnclosedAccepted`. Conversely
(`EnclosedVerifies`) the verifier goes to the first children of the root of each
name, and these are the parts that survived.

*The refusals.* `EnvelopedInv` says that a payload is nested and has no Ids, however it was
filled, and keeps the outcome of `sign_enveloping`. `ObjectIsExtracted` finds what
`extract_object` cuts out of the draft: from the object's start tag to the first end tag of
that name. Without an object in the payload that is the object (`WholeObject`), which parses
exactly when its prefixes are declared; with one it ends too early, at least one element of
it has no end tag, and it does not parse (`CutObject`): no digest of a wrong text is ever
signed. So the digest of the document that is returned, of a string cut out of a draft, is that of the object
in the document, as `EnvelopesVerify` needs.

**Only model-checked.** `CallsReturn`, `ReadEnds` and `ScanEnds`: liveness is out of the
prover's reach.

## 6. Not modelled

* Hash collisions, forged signatures, dishonest servers: assumed away as above. The imprint,
  nonce and policy of a token are not compared with the request by the code either.
* What container callers may conclude from a failed call: a container with the first of
  two signatures is readable and valid (`SealedIsPrefix`), and the code promises nothing
  about the number of signers. Nor does it about a container that was at the path before:
  `Create` empties it, and no property forbids that.
* Data files whose name ends in "/": `zip` would list them as directories. Names of
  data files are such that it does not.
* Contents that are a signature and a manifest at once, under two names, and a
  beginning of a signature or a manifest, cut off by a failed write, that is one as well: a
  cut entry is neither. Bytes mixed from two containers: a read of an entry either yields what
  the directory's CRC vouches for or fails, so that a rewritten file is noticed.
* Kinds of keys in the container modules: a certificate that matches is one whose key
  the reader can verify, otherwise it is "unsupported". `XmlSigning` has the kinds apart.
* Two elements of one document with the same Id: `XmlSigning` has no change that makes them.
* `torn` archives as a reader sees them (byte offsets).
* Characters: base64, escaping (beyond the Id of an enveloping signature, which is searched
  for), white space, declarations and comments of XML, and a `>` or prefix in a second
  attribute of a tag.
* Transforms: the documents of the crate name none, and `verify_signature` leaves those of
  others to `xml_sec`.
* A payload with Ids of its own or with an empty `<ds:Object/>` written as one tag.
* A production place, roles and media types: carried along, never branched on.
* `extract_common_name`, `x509_time_to_chrono`, `load_rsa_private_key`: they copy fields
  of a certificate or read a file of keys. RSA, ECDSA and SHA-256 are libraries'.
* `decode_unsigned_int` for more than seven significant bytes is modelled, but no run
  gets there: its number would exceed TLC's integers. Nor does a length above 32 bits
  reach the cast of der.rs:28; `LengthReadsBack` states the bound.
* `lib.rs`, `pki/mod.rs`, `test_keys.rs`: no behaviour. `error.rs` is an enumeration.

## 7. Plan

Done: the container's write path, read path and both together, with their proofs and
the refinement of `ContainerStore`; DER, the messages of the TSA and OCSP clients and prefix
stripping with theirs; XML and enveloping signatures, with proofs of the texts, the structs,
the time stamp, the refusals and the verification. What would add most
to it are payloads with Ids, where `ExtractObject` and the resolver of references look for the same Id
by different rules, and changes that copy an Id to a second element.
