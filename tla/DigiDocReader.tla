---------------------------- MODULE DigiDocReader ----------------------------
(***************************************************************************)
(* The read path of digidoc/reader.rs: one parse_document over an archive, *)
(* a step for every entry it reads.                                        *)
(*                                                                         *)
(* ZipArchive::new loads the central directory once, so what the reader    *)
(* knows of the archive is what it held then.  The entries themselves are  *)
(* read later: each such read yields the bytes that the directory's CRC    *)
(* vouches for, or fails because of the disk or because the file has been  *)
(* truncated or rewritten since.                                           *)
(***************************************************************************)
EXTENDS Xades

CONSTANTS
    Archives,    \* the archives a reader may be given
    ReadsAs,     \* ReadsAs[c]: what the content c of a data file is read as
    OtherBytes   \* the contents of an entry that is not a data file

VARIABLES
    archive,     \* the entries of the archive, in the order of its directory
    phase,       \* where parse_document stands
    cursor,      \* turns made in its loop over the manifest or the entries
    found,       \* files
    signatures,  \* signatures: the document and is_valid of each
    errors,      \* validation_errors, by kind
    warnings,    \* validation_warnings: the listed paths that were not read
    verdict      \* is_valid of the result

readerVars ==
    <<archive, phase, cursor, found, signatures, errors, warnings, verdict>>
-----------------------------------------------------------------------------
(***************************************************************************)
(* Archives.  Beside the entries the builder writes, an archive may hold a *)
(* directory, an entry whose bytes are not UTF-8 and an entry that the zip *)
(* library cannot open (encrypted, or of an unknown compression).          *)
(***************************************************************************)
DirectoryEntry(name) == [name |-> name, directory |-> TRUE]
BinaryEntry(name) == [name |-> name, binary |-> TRUE]
LockedEntry(name) == [name |-> name, locked |-> TRUE]

ArchiveEntries ==
    [name : Names, mimetype : STRING] \cup [name : Names, content : Contents]
      \cup [name : Names, paths : Seq(Names)]
      \cup [name : Names, doc : Documents] \cup [name : Names, cut : {TRUE}]
      \cup [name : Names, directory : {TRUE}]
      \cup [name : Names, binary : {TRUE}] \cup [name : Names, locked : {TRUE}]

\* What ZipArchive::new loads: the directory is a map by name.
CentralDirectories ==
    {entries \in Seq(ArchiveEntries) :
        \A j, k \in 1..Len(entries) :
            entries[j].name = entries[k].name => j = k}

(***************************************************************************)
(* What a data file's bytes are to the parsers, beside plain text: a       *)
(* signature document, a manifest, or no UTF-8.  A caller may give such a  *)
(* file the name under which the reader looks for one.                     *)
(***************************************************************************)
TextForms ==
    [doc : Documents] \cup [paths : Seq(Names)] \cup [binary : {TRUE}]

TextsAreTyped ==
    DOMAIN ReadsAs \subseteq Contents
      /\ \A c \in DOMAIN ReadsAs : ReadsAs[c] \in TextForms

ASSUME ReaderAssumption ==
    /\ OtherBytes \notin Contents
    /\ TextsAreTyped
    /\ Archives \subseteq CentralDirectories

Is(entry, form) == form \in DOMAIN entry

\* What read_to_string and the parsers make of the bytes of an entry.
AsText(entry) ==
    IF Is(entry, "content") /\ entry.content \in DOMAIN ReadsAs
    THEN ReadsAs[entry.content] ELSE entry

Holds(entries, name) == name \in NamesOf(entries)

\* The one entry of that name.
ByName(entries, name) ==
    entries[CHOOSE k \in 1..Len(entries) : entries[k].name = name]

\* zip.by_name(name) is Ok
Opens(entries, name) ==
    Holds(entries, name) /\ ~ Is(ByName(entries, name), "locked")

Bytes(entry) == IF Is(entry, "content") THEN entry.content ELSE OtherBytes

\* !entry.is_file() || !zip_file_name.starts_with("META-INF/signatures")
IsSkipped(entry) ==
    Is(entry, "directory") \/ ~ IsSignatureName(entry.name)
-----------------------------------------------------------------------------
ErrorKinds ==
    {"missing mimetype", "unsupported mimetype", "unparsed signature",
     "invalid signature", "failed validation", "not yet valid", "expired"}

ReadPhases == {"mimetype", "manifest", "files", "signatures"}
Ended == {"done", "error", "broken"}

ReaderInit ==
    /\ archive = <<>>
    /\ phase = "closed"
    /\ cursor = 0
    /\ found = <<>>
    /\ signatures = <<>>
    /\ errors = {}
    /\ warnings = {}
    /\ verdict = FALSE

ReaderTypeOK ==
    /\ phase \in {"closed"} \cup ReadPhases \cup Ended
    /\ cursor \in Nat
    /\ found \in Seq([name : Names, content : Contents \cup {OtherBytes}])
    /\ signatures \in Seq([doc : Documents, valid : BOOLEAN])
    /\ errors \subseteq ErrorKinds
    /\ warnings \subseteq Names
    /\ verdict \in BOOLEAN
-----------------------------------------------------------------------------
\* A hard Err that the archive itself is the cause of.
Fatal == phase' = "error" /\ UNCHANGED <<archive, cursor, found, signatures,
                                         errors, warnings, verdict>>

Open(entries) ==
    /\ phase = "closed"
    /\ archive' = entries
    /\ phase' = "mimetype"
    /\ UNCHANGED <<cursor, found, signatures, errors, warnings, verdict>>

\* File::open fails, or ZipArchive::new finds no central directory.
OpenFails ==
    /\ phase = "closed"
    /\ phase' = "broken"
    /\ UNCHANGED <<archive, cursor, found, signatures, errors, warnings,
                   verdict>>

\* A read of an entry fails: a hard Err, whatever was being read.
ReadFails ==
    /\ phase \in ReadPhases
    /\ phase' = "broken"
    /\ UNCHANGED <<archive, cursor, found, signatures, errors, warnings,
                   verdict>>

MimetypeErrors ==
    IF ~ Opens(archive, MimetypeName) THEN {"missing mimetype"}
    ELSE LET entry == ByName(archive, MimetypeName)
         IN  IF Is(entry, "mimetype") /\ entry.mimetype = AsicE THEN {}
             ELSE {"unsupported mimetype"}

CheckMimetype ==
    /\ phase = "mimetype"
    /\ IF Opens(archive, MimetypeName)
             /\ Is(AsText(ByName(archive, MimetypeName)), "binary")
       THEN Fatal
       ELSE /\ errors' = errors \cup MimetypeErrors
            /\ phase' = "manifest"
            /\ UNCHANGED <<archive, cursor, found, signatures, warnings,
                           verdict>>

ManifestIsReadable ==
    /\ Opens(archive, ManifestName)
    /\ Is(AsText(ByName(archive, ManifestName)), "paths")

Listed == AsText(ByName(archive, ManifestName)).paths

ReadManifest ==
    /\ phase = "manifest"
    /\ IF ManifestIsReadable
       THEN /\ phase' = "files"
            /\ UNCHANGED <<archive, cursor, found, signatures, errors,
                           warnings, verdict>>
       ELSE Fatal

\* A listed file that cannot be opened is a warning, the root always one.
ReadFile ==
    /\ phase = "files" /\ cursor < Len(Listed)
    /\ LET name == Listed[cursor + 1]
       IN  IF Opens(archive, name)
           THEN /\ found' = Append(found,
                      [name |-> name, content |-> Bytes(ByName(archive, name))])
                /\ UNCHANGED warnings
           ELSE /\ warnings' = warnings \cup {name}
                /\ UNCHANGED found
    /\ cursor' = cursor + 1
    /\ UNCHANGED <<archive, phase, signatures, errors, verdict>>

\* Mutant: the loop over the entries starts below the first of them.
EndFilesBelow ==
    /\ phase = "files" /\ cursor >= Len(Listed)
    /\ phase' = "signatures"
    /\ cursor' = 0 - 1
    /\ UNCHANGED <<archive, found, signatures, errors, warnings, verdict>>

\* Mutant: the loop over the manifest ends before its last path.
EndFilesEarly ==
    /\ phase = "files" /\ cursor + 1 >= Len(Listed)
    /\ phase' = "signatures"
    /\ cursor' = 0
    /\ UNCHANGED <<archive, found, signatures, errors, warnings, verdict>>

EndFiles ==
    /\ phase = "files" /\ cursor >= Len(Listed)
    /\ phase' = "signatures"
    /\ cursor' = 0
    /\ UNCHANGED <<archive, found, signatures, errors, warnings, verdict>>

(***************************************************************************)
(* validate_signature is an Err for a key it does not support; otherwise   *)
(* it says whether verify_signature succeeds over the files found so far.  *)
(***************************************************************************)
IsUnsupported(doc) == doc.cert = "unsupported"

\* Mutant: a key that is not supported leaves no error behind.
SignatureErrorsOfKnownKeys(doc, fs) ==
    (IF IsUnsupported(doc) \/ VerifySignature(doc, fs) THEN {}
     ELSE {"invalid signature"})
    \cup (IF doc.time = "early" THEN {"not yet valid"} ELSE {})
    \cup (IF doc.time = "late" THEN {"expired"} ELSE {})

SignatureErrors(doc, fs) ==
    (IF IsUnsupported(doc) THEN {"failed validation"}
     ELSE IF VerifySignature(doc, fs) THEN {} ELSE {"invalid signature"})
    \cup (IF doc.time = "early" THEN {"not yet valid"} ELSE {})
    \cup (IF doc.time = "late" THEN {"expired"} ELSE {})

IsBinary(entry) == Is(AsText(entry), "binary")

IsSignature(entry) ==
    Is(AsText(entry), "doc") /\ ParsesAsSignature(AsText(entry).doc)

\* Mutant: an entry that is no signature is looked at again.
SkipEntryInPlace(entry) ==
    /\ IsSkipped(entry) /\ ~ Is(entry, "locked")
    /\ UNCHANGED readerVars

(***************************************************************************)
(* One turn of the signature loop.  by_index opens every entry before its  *)
(* name is looked at.                                                      *)
(***************************************************************************)
SkipEntry(entry) ==
    /\ IsSkipped(entry) /\ ~ Is(entry, "locked")
    /\ cursor' = cursor + 1
    /\ UNCHANGED <<archive, phase, found, signatures, errors, warnings,
                   verdict>>

\* Mutant: an entry that does not parse is skipped.
RejectEntryQuietly(entry) ==
    /\ ~ IsSkipped(entry) /\ ~ Is(entry, "locked") /\ ~ IsBinary(entry)
    /\ ~ IsSignature(entry)
    /\ cursor' = cursor + 1
    /\ UNCHANGED <<archive, phase, found, signatures, errors, warnings, verdict>>

RejectEntry(entry) ==
    /\ ~ IsSkipped(entry) /\ ~ Is(entry, "locked") /\ ~ IsBinary(entry)
    /\ ~ IsSignature(entry)
    /\ errors' = errors \cup {"unparsed signature"}
    /\ cursor' = cursor + 1
    /\ UNCHANGED <<archive, phase, found, signatures, warnings, verdict>>

JudgeSignature(entry) ==
    /\ ~ IsSkipped(entry) /\ IsSignature(entry)
    /\ LET doc == AsText(entry).doc
       IN  /\ errors' = errors \cup SignatureErrors(doc, found)
           /\ signatures' = Append(signatures,
                 [doc |-> doc,
                  valid |-> ~ IsUnsupported(doc) /\ VerifySignature(doc, found)])
    /\ cursor' = cursor + 1
    /\ UNCHANGED <<archive, phase, found, warnings, verdict>>

FailOnEntry(entry) ==
    /\ Is(entry, "locked") \/ (~ IsSkipped(entry) /\ IsBinary(entry))
    /\ Fatal

ReadEntry ==
    /\ phase = "signatures" /\ cursor < Len(archive)
    /\ LET entry == archive[cursor + 1]
       IN  \/ SkipEntry(entry) \/ RejectEntry(entry)
           \/ JudgeSignature(entry) \/ FailOnEntry(entry)

\* Mutant: the verdict is that of the last signature.
ConcludeByLast ==
    /\ phase = "signatures" /\ cursor >= Len(archive)
    /\ phase' = "done"
    /\ verdict' = (signatures # <<>> /\ signatures[Len(signatures)].valid)
    /\ UNCHANGED <<archive, cursor, found, signatures, errors, warnings>>

Conclude ==
    /\ phase = "signatures" /\ cursor >= Len(archive)
    /\ phase' = "done"
    /\ verdict' = /\ errors = {}
                  /\ signatures # <<>>
                  /\ \A k \in 1..Len(signatures) : signatures[k].valid
    /\ UNCHANGED <<archive, cursor, found, signatures, errors, warnings>>

Advance ==
    \/ CheckMimetype \/ ReadManifest \/ ReadFile \/ EndFiles
    \/ ReadEntry \/ Conclude

Read == Advance \/ ReadFails

OpenSome == phase = "closed" /\ \E entries \in Archives : Open(entries)

ReaderNext == OpenSome \/ OpenFails \/ Read

\* A synchronous function runs to its end; no read has to fail.
ReaderSpec ==
    ReaderInit /\ [][ReaderNext]_readerVars /\ WF_readerVars(Advance)
-----------------------------------------------------------------------------
(***************************************************************************)
(* The reference definition of an acceptable archive, stated over the      *)
(* archive alone.                                                          *)
(***************************************************************************)
SignatureIndexes(entries) ==
    {k \in 1..Len(entries) : ~ IsSkipped(entries[k])}

\* Every Reference of the document is a listed data file of its digest.
Covers(entries, paths, doc) ==
    \A k \in 1..Len(doc.refs) :
        LET uri == doc.refs[k].uri
        IN  /\ ~ IsFragment(uri)
            /\ \E j \in 1..Len(paths) : paths[j] = uri
            /\ \E e \in 1..Len(entries) :
                  /\ entries[e].name = uri
                  /\ Is(entries[e], "content")
                  /\ entries[e].content = doc.refs[k].digest

Acceptable(entries) ==
    /\ \E k \in 1..Len(entries) : entries[k] = MimetypeEntry
    /\ SignatureIndexes(entries) # {}
    /\ \A k \in 1..Len(entries) : ~ Is(entries[k], "locked")
    /\ \E m \in 1..Len(entries) :
          /\ entries[m].name = ManifestName
          /\ Is(AsText(entries[m]), "paths")
          /\ \A k \in SignatureIndexes(entries) :
                /\ Is(AsText(entries[k]), "doc")
                /\ LET doc == AsText(entries[k]).doc
                   IN  /\ doc.formats = 1
                       /\ Covers(entries, AsText(entries[m]).paths, doc)
                       /\ doc.intact
                       /\ doc.cert = "match"
                       /\ doc.time = "within"
-----------------------------------------------------------------------------
(***************************************************************************)
(* Properties.                                                             *)
(***************************************************************************)
(***************************************************************************)
(* VerdictIsJustified: parse_document reports a container valid exactly    *)
(* when the archive it opened is acceptable: no signature entry is left    *)
(* out, and an error found before the last signature is not forgotten.     *)
(***************************************************************************)
VerdictIsJustified == phase = "done" => (verdict <=> Acceptable(archive))

(***************************************************************************)
(* InvalidHasReason: a container reported invalid comes with a validation  *)
(* error, unless it has no signature at all; a signature with is_valid     *)
(* false never goes without an error (reader.rs, the signature loop).      *)
(***************************************************************************)
InvalidHasReason ==
    phase = "done" =>
        (verdict <=> (errors = {} /\ SignatureIndexes(archive) # {}))

(***************************************************************************)
(* EveryPathIsAccountedFor: a manifest path ends up among the files or     *)
(* among the warnings, never in both and never in neither, and files come  *)
(* in the order of the manifest.                                           *)
(***************************************************************************)
EveryPathIsAccountedFor ==
    phase \in {"signatures", "done"} =>
        /\ {Listed[k] : k \in 1..Len(Listed)} = NamesOf(found) \cup warnings
        /\ NamesOf(found) \cap warnings = {}
        /\ \E at \in [1..Len(found) -> 1..Len(Listed)] :
              \A j \in 1..Len(found) :
                  /\ Listed[at[j]] = found[j].name
                  /\ \A k \in 1..(j - 1) : at[k] < at[j]

(***************************************************************************)
(* ReadEnds: parse_document returns, with a result or a hard error.        *)
(***************************************************************************)
ReadEnds == phase \in ReadPhases ~> phase \in Ended

(***************************************************************************)
(* CollectsNonFatal: the documentation of parse_document reserves the hard *)
(* error for an archive, an entry or a manifest that cannot be read, and   *)
(* collects an incorrect mimetype or an invalid signature in the result.   *)
(***************************************************************************)
CollectsNonFatal ==
    phase = "error" =>
        \/ ~ ManifestIsReadable
        \/ \E k \in 1..Len(archive) : Is(archive[k], "locked")
=============================================================================
