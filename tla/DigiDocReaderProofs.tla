------------------------ MODULE DigiDocReaderProofs ------------------------
(***************************************************************************)
(* Proofs about DigiDocReader, for every archive whose directory holds no  *)
(* name twice.  IInv says what the loops of parse_document have read so    *)
(* far; it is shown to be inductive, one action at a time, and the safety  *)
(* properties of DigiDocReader follow from it.                             *)
(***************************************************************************)
EXTENDS DigiDocReader, TLAPS

FoundFiles == [name : Names, content : Contents \cup {OtherBytes}]

(***************************************************************************)
(* The first n paths of a manifest have been read into fs and ws.          *)
(***************************************************************************)
FilesRead(entries, paths, fs, ws, n) ==
    /\ {paths[k] : k \in 1..n} = NamesOf(fs) \cup ws
    /\ \A name \in ws : ~ Opens(entries, name)
    /\ \A j \in 1..Len(fs) :
          /\ Opens(entries, fs[j].name)
          /\ fs[j].content = Bytes(ByName(entries, fs[j].name))
          /\ \E k \in 1..j :
                /\ fs[k].name = fs[j].name
                /\ \A i \in 1..(k - 1) : fs[i].name # fs[k].name
    /\ \E at \in [1..Len(fs) -> 1..n] :
          \A j \in 1..Len(fs) :
              /\ paths[at[j]] = fs[j].name
              /\ \A k \in 1..(j - 1) : at[k] < at[j]

MimetypeIsRight(entries) ==
    \E k \in 1..Len(entries) : entries[k] = MimetypeEntry

Passes(entry, fs) ==
    \/ IsSkipped(entry)
    \/ IsSignature(entry) /\ SignatureErrors(AsText(entry).doc, fs) = {}

(***************************************************************************)
(* The first n entries of an archive have been read into sigs and errs.    *)
(***************************************************************************)
SignaturesRead(entries, fs, sigs, errs, n) ==
    /\ \A k \in 1..n : ~ Is(entries[k], "locked")
    /\ errs = {} <=> /\ MimetypeIsRight(entries)
                     /\ \A k \in 1..n : Passes(entries[k], fs)
    /\ errs = {} =>
          /\ \A k \in 1..Len(sigs) : sigs[k].valid
          /\ sigs # <<>> <=> \E k \in 1..n : ~ IsSkipped(entries[k])

NothingRead ==
    cursor = 0 /\ found = <<>> /\ signatures = <<>> /\ warnings = {}

IInv ==
    /\ ReaderTypeOK
    /\ archive \in CentralDirectories
    /\ phase \in {"closed", "mimetype"} => NothingRead /\ errors = {}
    /\ phase = "manifest" =>
          NothingRead /\ (errors = {} <=> MimetypeIsRight(archive))
    /\ phase \in {"files", "signatures", "done"} => ManifestIsReadable
    /\ phase = "files" =>
          /\ signatures = <<>>
          /\ errors = {} <=> MimetypeIsRight(archive)
          /\ cursor <= Len(Listed)
          /\ FilesRead(archive, Listed, found, warnings, cursor)
    /\ phase \in {"signatures", "done"} =>
          FilesRead(archive, Listed, found, warnings, Len(Listed))
    /\ phase = "signatures" =>
          /\ cursor <= Len(archive)
          /\ SignaturesRead(archive, found, signatures, errors, cursor)
    /\ phase = "done" =>
          /\ SignaturesRead(archive, found, signatures, errors, Len(archive))
          /\ verdict <=> errors = {} /\ signatures # <<>>
-----------------------------------------------------------------------------
(***************************************************************************)
(* Archives.                                                               *)
(***************************************************************************)
(***************************************************************************)
(* An entry has a name, and the field that tells its form is of its type.  *)
(***************************************************************************)
LEMMA EntryForms ==
    ASSUME NEW entry \in ArchiveEntries
    PROVE  /\ entry.name \in Names
           /\ Is(entry, "mimetype") => entry \in [name : Names, mimetype : STRING]
           /\ Is(entry, "content") => entry \in [name : Names, content : Contents]
           /\ Is(entry, "paths") => entry \in [name : Names, paths : Seq(Names)]
           /\ Is(entry, "doc") => entry \in [name : Names, doc : Documents]
BY DEF ArchiveEntries, Is

(***************************************************************************)
(* An entry that holds something can be opened, and is no directory.       *)
(***************************************************************************)
LEMMA FormsExclude ==
    ASSUME NEW entry \in ArchiveEntries,
           Is(entry, "mimetype") \/ Is(entry, "content") \/ Is(entry, "doc")
    PROVE  ~ Is(entry, "locked") /\ ~ Is(entry, "binary") /\ ~ Is(entry, "paths")
BY DEF ArchiveEntries, Is

(***************************************************************************)
(* So it is for what a parser makes of an entry, which may be a data file. *)
(***************************************************************************)
LEMMA TextsOfEntries ==
    ASSUME NEW entry \in ArchiveEntries
    PROVE  /\ Is(AsText(entry), "doc") =>
                 AsText(entry).doc \in Documents /\ ~ Is(entry, "locked")
           /\ Is(AsText(entry), "paths") => AsText(entry).paths \in Seq(Names)
<1>1. CASE Is(entry, "content") /\ entry.content \in DOMAIN ReadsAs
  <2>1. AsText(entry) = ReadsAs[entry.content] /\ AsText(entry) \in TextForms
    BY <1>1, ReaderAssumption DEF AsText, TextsAreTyped
  <2>2. ~ Is(entry, "locked")
    BY <1>1, FormsExclude
  <2> HIDE DEF AsText
  <2> QED
    BY <2>1, <2>2 DEF TextForms, Is
<1>2. CASE ~ (Is(entry, "content") /\ entry.content \in DOMAIN ReadsAs)
  <2>1. AsText(entry) = entry
    BY <1>2 DEF AsText
  <2> QED
    BY <2>1, EntryForms, FormsExclude
<1> QED
  BY <1>1, <1>2

(***************************************************************************)
(* by_name finds the one entry of a name.                                  *)
(***************************************************************************)
LEMMA ByNameFinds ==
    ASSUME NEW entries \in CentralDirectories, NEW name, Holds(entries, name)
    PROVE  \E k \in 1..Len(entries) :
              /\ entries[k].name = name
              /\ ByName(entries, name) = entries[k]
BY DEF CentralDirectories, Holds, NamesOf, ByName

LEMMA ByNameIsEntry ==
    ASSUME NEW entries \in CentralDirectories, NEW k \in 1..Len(entries)
    PROVE  /\ Holds(entries, entries[k].name)
           /\ ByName(entries, entries[k].name) = entries[k]
           /\ entries[k] \in ArchiveEntries
BY DEF CentralDirectories, Holds, NamesOf, ByName

(***************************************************************************)
(* The check of the mimetype leaves no error just for the right entry.     *)
(***************************************************************************)
LEMMA MimetypeChecked ==
    ASSUME IInv
    PROVE  MimetypeErrors = {} <=> MimetypeIsRight(archive)
<1> DEFINE entry == ByName(archive, MimetypeName)
<1>1. archive \in CentralDirectories
  BY DEF IInv
<1>2. ASSUME NEW k \in 1..Len(archive), archive[k] = MimetypeEntry
      PROVE  MimetypeErrors = {}
  <2>1. Holds(archive, MimetypeName) /\ entry = MimetypeEntry
    BY <1>1, <1>2, ByNameIsEntry DEF MimetypeEntry
  <2>2. Is(entry, "mimetype") /\ entry.mimetype = AsicE /\ ~ Is(entry, "locked")
    BY <2>1 DEF Is, MimetypeEntry
  <2> QED
    BY <2>1, <2>2 DEF MimetypeErrors, Opens
<1>3. ASSUME MimetypeErrors = {}
      PROVE  MimetypeIsRight(archive)
  <2>1. /\ Holds(archive, MimetypeName)
        /\ Is(entry, "mimetype") /\ entry.mimetype = AsicE
    BY <1>3 DEF MimetypeErrors, Opens
  <2>2. PICK k \in 1..Len(archive) :
            archive[k].name = MimetypeName /\ entry = archive[k]
    BY <1>1, <2>1, ByNameFinds
  <2>3. entry \in ArchiveEntries /\ entry.name = MimetypeName
    BY <1>1, <2>2, ByNameIsEntry
  <2>4. entry \in [name : Names, mimetype : STRING]
    BY <2>1, <2>3, EntryForms
  <2>5. entry = MimetypeEntry
    BY <2>1, <2>3, <2>4 DEF MimetypeEntry
  <2> QED
    BY <2>2, <2>5 DEF MimetypeIsRight
<1> QED
  BY <1>2, <1>3 DEF MimetypeIsRight

(***************************************************************************)
(* A manifest that can be read lists names.                                *)
(***************************************************************************)
LEMMA ListedAreNames ==
    ASSUME IInv, ManifestIsReadable
    PROVE  Listed \in Seq(Names) /\ Len(Listed) \in Nat
<1> DEFINE entry == ByName(archive, ManifestName)
<1>1. Holds(archive, ManifestName) /\ Is(AsText(entry), "paths")
  BY DEF ManifestIsReadable, Opens
<1>2. entry \in ArchiveEntries
  BY <1>1, ByNameFinds, ByNameIsEntry DEF IInv
<1>3. AsText(entry).paths \in Seq(Names)
  BY <1>1, <1>2, TextsOfEntries
<1> QED
  BY <1>3 DEF Listed

(***************************************************************************)
(* What a read of an entry yields is the content of a data file or the     *)
(* bytes of something else.                                                *)
(***************************************************************************)
LEMMA BytesAreContent ==
    ASSUME NEW entry \in ArchiveEntries
    PROVE  Bytes(entry) \in Contents \cup {OtherBytes}
BY EntryForms DEF Bytes
-----------------------------------------------------------------------------
(***************************************************************************)
(* The loop over the manifest.                                             *)
(***************************************************************************)
LEMMA NothingReadIsRead ==
    ASSUME NEW entries, NEW paths
    PROVE  FilesRead(entries, paths, <<>>, {}, 0)
<1> DEFINE at == [j \in {} |-> 0]
<1>1. at \in [1..Len(<<>>) -> 1..0]
  OBVIOUS
<1>2. {paths[k] : k \in 1..0} = NamesOf(<<>>) \cup {}
  BY DEF NamesOf
<1>3. \A j \in 1..Len(<<>>) : FALSE
  OBVIOUS
<1> HIDE DEF at
<1> QED
  BY <1>1, <1>2, <1>3 DEF FilesRead

(***************************************************************************)
(* A path that can be opened goes to the files.                            *)
(***************************************************************************)
LEMMA OpenedIsRead ==
    ASSUME NEW entries \in CentralDirectories, NEW paths, NEW n \in Nat,
           NEW fs \in Seq(FoundFiles), NEW ws,
           FilesRead(entries, paths, fs, ws, n),
           NEW file \in FoundFiles, file.name = paths[n + 1],
           Opens(entries, file.name),
           file.content = Bytes(ByName(entries, file.name))
    PROVE  FilesRead(entries, paths, Append(fs, file), ws, n + 1)
<1> DEFINE more == Append(fs, file)
<1>1. /\ Len(fs) \in Nat /\ Len(more) = Len(fs) + 1
      /\ \A j \in 1..Len(fs) : more[j] = fs[j]
      /\ more[Len(fs) + 1] = file
  OBVIOUS
<1> HIDE DEF more
<1>2. {paths[k] : k \in 1..(n + 1)} = {paths[k] : k \in 1..n} \cup {file.name}
  <2>1. 1..(n + 1) = (1..n) \cup {n + 1}
    OBVIOUS
  <2> QED
    BY <2>1
<1>3. NamesOf(more) = NamesOf(fs) \cup {file.name}
  <2>1. 1..Len(more) = (1..Len(fs)) \cup {Len(fs) + 1}
    BY <1>1
  <2> QED
    BY <1>1, <2>1 DEF NamesOf
<1>4. ASSUME NEW j \in 1..Len(more)
      PROVE  /\ Opens(entries, more[j].name)
             /\ more[j].content = Bytes(ByName(entries, more[j].name))
             /\ \E k \in 1..j :
                   /\ more[k].name = more[j].name
                   /\ \A i \in 1..(k - 1) : more[i].name # more[k].name
  <2>1. CASE j \in 1..Len(fs)
    <3>1. PICK k \in 1..j :
              /\ fs[k].name = fs[j].name
              /\ \A i \in 1..(k - 1) : fs[i].name # fs[k].name
      BY <2>1 DEF FilesRead
    <3>2. k \in 1..Len(fs) /\ \A i \in 1..(k - 1) : i \in 1..Len(fs)
      BY <1>1, <2>1
    <3>3. /\ more[k].name = more[j].name
          /\ \A i \in 1..(k - 1) : more[i].name # more[k].name
      BY <1>1, <2>1, <3>1, <3>2
    <3> QED
      BY <1>1, <2>1, <3>3 DEF FilesRead
  <2>2. CASE j = Len(fs) + 1
    <3>1. CASE \E l \in 1..Len(fs) : fs[l].name = file.name
      <4>1. PICK l \in 1..Len(fs) : fs[l].name = file.name
        BY <3>1
      <4>2. PICK k \in 1..l :
                /\ fs[k].name = fs[l].name
                /\ \A i \in 1..(k - 1) : fs[i].name # fs[k].name
        BY <4>1 DEF FilesRead
      <4>3. /\ k \in 1..Len(fs) /\ k \in 1..j
            /\ \A i \in 1..(k - 1) : i \in 1..Len(fs)
        BY <1>1, <2>2
      <4> QED
        BY <1>1, <2>2, <4>1, <4>2, <4>3
    <3>2. CASE \A l \in 1..Len(fs) : fs[l].name # file.name
      BY <1>1, <2>2, <3>2
    <3> QED
      BY <3>1, <3>2
  <2> QED
    BY <1>1, <2>1, <2>2
<1>5. PICK at \in [1..Len(fs) -> 1..n] :
          \A j \in 1..Len(fs) :
              /\ paths[at[j]] = fs[j].name
              /\ \A k \in 1..(j - 1) : at[k] < at[j]
  BY DEF FilesRead
<1> DEFINE longer == [j \in 1..Len(more) |->
                        IF j <= Len(fs) THEN at[j] ELSE n + 1]
<1>6. /\ longer \in [1..Len(more) -> 1..(n + 1)]
      /\ \A j \in 1..Len(fs) : longer[j] = at[j] /\ at[j] \in 1..n
      /\ longer[Len(fs) + 1] = n + 1
  BY <1>1, <1>5
<1> HIDE DEF longer
<1>7. ASSUME NEW j \in 1..Len(more)
      PROVE  /\ paths[longer[j]] = more[j].name
             /\ \A k \in 1..(j - 1) : longer[k] < longer[j]
  <2>1. CASE j \in 1..Len(fs)
    <3>1. \A k \in 1..(j - 1) : k \in 1..Len(fs)
      BY <1>1, <2>1
    <3> QED
      BY <1>1, <1>5, <1>6, <2>1, <3>1
  <2>2. CASE j = Len(fs) + 1
    <3>1. \A k \in 1..(j - 1) : k \in 1..Len(fs)
      BY <1>1, <2>2
    <3> QED
      BY <1>1, <1>6, <2>2, <3>1
  <2> QED
    BY <1>1, <2>1, <2>2
<1>8. {paths[k] : k \in 1..(n + 1)} = NamesOf(more) \cup ws
  BY <1>2, <1>3 DEF FilesRead
<1>9. \A name \in ws : ~ Opens(entries, name)
  BY DEF FilesRead
<1> QED
  BY <1>4, <1>6, <1>7, <1>8, <1>9 DEF FilesRead, more

(***************************************************************************)
(* A path that cannot be opened goes to the warnings.                      *)
(***************************************************************************)
LEMMA UnopenedIsWarned ==
    ASSUME NEW entries, NEW paths, NEW n \in Nat,
           NEW fs \in Seq(FoundFiles), NEW ws,
           FilesRead(entries, paths, fs, ws, n),
           ~ Opens(entries, paths[n + 1])
    PROVE  FilesRead(entries, paths, fs, ws \cup {paths[n + 1]}, n + 1)
<1>1. {paths[k] : k \in 1..(n + 1)} = {paths[k] : k \in 1..n} \cup {paths[n + 1]}
  <2>1. 1..(n + 1) = (1..n) \cup {n + 1}
    OBVIOUS
  <2> QED
    BY <2>1
<1>2. PICK at \in [1..Len(fs) -> 1..n] :
          \A j \in 1..Len(fs) :
              /\ paths[at[j]] = fs[j].name
              /\ \A k \in 1..(j - 1) : at[k] < at[j]
  BY DEF FilesRead
<1>3. at \in [1..Len(fs) -> 1..(n + 1)]
  BY <1>2
<1> QED
  BY <1>1, <1>2, <1>3 DEF FilesRead

(***************************************************************************)
(* Once the whole manifest is read, the file_resolver finds the data of    *)
(* every reference of a document just when the archive covers it.          *)
(***************************************************************************)
LEMMA ResolvedIsCovered ==
    ASSUME NEW entries \in CentralDirectories, NEW paths,
           Len(paths) \in Nat,
           NEW fs \in Seq(FoundFiles), NEW ws,
           FilesRead(entries, paths, fs, ws, Len(paths)),
           NEW ref \in [uri : Names, digest : Contents]
    PROVE  Resolves(fs, ref) <=>
             /\ \E j \in 1..Len(paths) : paths[j] = ref.uri
             /\ \E e \in 1..Len(entries) :
                   /\ entries[e].name = ref.uri
                   /\ Is(entries[e], "content")
                   /\ entries[e].content = ref.digest
<1>1. ref.digest \in Contents /\ ref.digest # OtherBytes
  BY ReaderAssumption
<1>2. ASSUME Resolves(fs, ref)
      PROVE  /\ \E j \in 1..Len(paths) : paths[j] = ref.uri
             /\ \E e \in 1..Len(entries) :
                   /\ entries[e].name = ref.uri
                   /\ Is(entries[e], "content")
                   /\ entries[e].content = ref.digest
  <2>1. PICK k \in 1..Len(fs) :
            fs[k].name = ref.uri /\ fs[k].content = ref.digest
    BY <1>2 DEF Resolves
  <2>2. ref.uri \in {paths[j] : j \in 1..Len(paths)}
    BY <2>1 DEF FilesRead, NamesOf
  <2>3. Holds(entries, ref.uri) /\ Bytes(ByName(entries, ref.uri)) = ref.digest
    BY <2>1 DEF FilesRead, Opens
  <2>4. PICK e \in 1..Len(entries) :
            entries[e].name = ref.uri /\ ByName(entries, ref.uri) = entries[e]
    BY <2>3, ByNameFinds
  <2>5. Is(entries[e], "content") /\ entries[e].content = ref.digest
    BY <1>1, <2>3, <2>4 DEF Bytes
  <2> QED
    BY <2>2, <2>4, <2>5
<1>3. ASSUME NEW j \in 1..Len(paths), paths[j] = ref.uri,
             NEW e \in 1..Len(entries), entries[e].name = ref.uri,
             Is(entries[e], "content"), entries[e].content = ref.digest
      PROVE  Resolves(fs, ref)
  <2>1. /\ Holds(entries, ref.uri) /\ ByName(entries, ref.uri) = entries[e]
        /\ entries[e] \in ArchiveEntries
    BY <1>3, ByNameIsEntry
  <2>2. Opens(entries, ref.uri)
    BY <1>3, <2>1, FormsExclude DEF Opens
  <2>3. ref.uri \in NamesOf(fs)
    BY <1>3, <2>2 DEF FilesRead
  <2>4. PICK l \in 1..Len(fs) : fs[l].name = ref.uri
    BY <2>3 DEF NamesOf
  <2>5. PICK k \in 1..l :
            /\ fs[k].name = fs[l].name
            /\ \A i \in 1..(k - 1) : fs[i].name # fs[k].name
    BY <2>4 DEF FilesRead
  <2>6. k \in 1..Len(fs)
    OBVIOUS
  <2>7. fs[k].content = ref.digest
    BY <1>3, <2>1, <2>4, <2>5, <2>6 DEF FilesRead, Bytes
  <2> QED
    BY <2>4, <2>5, <2>6, <2>7 DEF Resolves
<1> QED
  BY <1>2, <1>3

LEMMA VerifiedIsCovered ==
    ASSUME NEW entries \in CentralDirectories, NEW paths,
           Len(paths) \in Nat,
           NEW fs \in Seq(FoundFiles), NEW ws,
           FilesRead(entries, paths, fs, ws, Len(paths)),
           NEW doc \in Documents
    PROVE  VerifySignature(doc, fs) <=>
             Covers(entries, paths, doc) /\ doc.intact /\ doc.cert = "match"
<1>1. \A k \in 1..Len(doc.refs) :
        doc.refs[k] \in [uri : Names, digest : Contents]
  <2> DEFINE References == [uri : Names, digest : Contents]
             refs == doc.refs
  <2>1. refs \in Seq(References)
    BY DEF Documents
  <2>2. \A k \in 1..Len(refs) : refs[k] \in References
    <3> HIDE DEF References, refs
    <3> QED
      BY <2>1
  <2> QED
    BY <2>2
<1>2. ASSUME NEW k \in 1..Len(doc.refs)
      PROVE  Resolves(fs, doc.refs[k]) <=>
               /\ \E j \in 1..Len(paths) : paths[j] = doc.refs[k].uri
               /\ \E e \in 1..Len(entries) :
                     /\ entries[e].name = doc.refs[k].uri
                     /\ Is(entries[e], "content")
                     /\ entries[e].content = doc.refs[k].digest
  BY <1>1, ResolvedIsCovered
<1>3. (\A k \in 1..Len(doc.refs) :
           ~ IsFragment(doc.refs[k].uri) /\ Resolves(fs, doc.refs[k]))
        <=> Covers(entries, paths, doc)
  BY <1>2 DEF Covers
<1> QED
  BY <1>3 DEF VerifySignature
-----------------------------------------------------------------------------
(***************************************************************************)
(* IInv holds initially, and every action keeps it.                        *)
(***************************************************************************)
LEMMA InitInv == ReaderInit => IInv
<1> SUFFICES ASSUME ReaderInit
             PROVE  IInv
  OBVIOUS
<1>1. archive \in CentralDirectories
  BY DEF ReaderInit, CentralDirectories
<1>2. /\ found \in Seq([name : Names, content : Contents \cup {OtherBytes}])
      /\ signatures \in Seq([doc : Documents, valid : BOOLEAN])
  BY DEF ReaderInit
<1>3. ReaderTypeOK
  BY <1>2 DEF ReaderInit, ReaderTypeOK
<1>4. phase = "closed" /\ NothingRead /\ errors = {}
  BY DEF ReaderInit, NothingRead
<1> QED
  BY <1>1, <1>3, <1>4 DEF IInv

(***************************************************************************)
(* A call that fails keeps IInv, which asks nothing of it any more.        *)
(***************************************************************************)
LEMMA FailureKeeps ==
    ASSUME IInv, phase' \in {"error", "broken"},
           UNCHANGED <<archive, cursor, found, signatures, errors, warnings,
                       verdict>>
    PROVE  IInv'
<1>1. ReaderTypeOK'
  BY DEF IInv, ReaderTypeOK, Ended
<1>2. (archive \in CentralDirectories)'
  BY DEF IInv
<1> QED
  BY <1>1, <1>2 DEF IInv

(***************************************************************************)
(* Nothing is read when an archive is opened.                              *)
(***************************************************************************)
LEMMA OpenKeeps ==
    ASSUME IInv, NEW entries \in CentralDirectories, Open(entries)
    PROVE  IInv'
<1>1. ReaderTypeOK'
  BY DEF IInv, ReaderTypeOK, Open, ReadPhases
<1>2. phase' = "mimetype" /\ NothingRead' /\ errors' = {}
  BY DEF IInv, Open, NothingRead
<1>3. archive' \in CentralDirectories
  BY DEF Open
<1> QED
  BY <1>1, <1>2, <1>3 DEF IInv

LEMMA CheckMimetypeKeeps ==
    ASSUME IInv, CheckMimetype
    PROVE  IInv'
<1>1. CASE Fatal
  BY <1>1, FailureKeeps DEF Fatal
<1>2. CASE /\ errors' = errors \cup MimetypeErrors
           /\ phase' = "manifest"
           /\ UNCHANGED <<archive, cursor, found, signatures, warnings, verdict>>
  <2>1. MimetypeErrors \subseteq ErrorKinds
    BY DEF MimetypeErrors, ErrorKinds
  <2>2. ReaderTypeOK'
    BY <1>2, <2>1 DEF IInv, ReaderTypeOK, ReadPhases
  <2>3. NothingRead' /\ errors = {}
    BY <1>2 DEF IInv, NothingRead, CheckMimetype
  <2>4. errors' = {} <=> MimetypeIsRight(archive')
    BY <1>2, <2>3, MimetypeChecked
  <2>5. archive' \in CentralDirectories
    BY <1>2 DEF IInv
  <2> QED
    BY <1>2, <2>2, <2>3, <2>4, <2>5 DEF IInv
<1> QED
  BY <1>1, <1>2 DEF CheckMimetype

(***************************************************************************)
(* What is known of an archive does not change while it is read.           *)
(***************************************************************************)
LEMMA SameArchive ==
    ASSUME archive' = archive
    PROVE  Listed' = Listed /\ (ManifestIsReadable' <=> ManifestIsReadable)
BY DEF Listed, ManifestIsReadable

LEMMA ReadManifestKeeps ==
    ASSUME IInv, ReadManifest
    PROVE  IInv'
<1>1. CASE Fatal
  BY <1>1, FailureKeeps DEF Fatal
<1>2. CASE /\ ManifestIsReadable
           /\ phase' = "files"
           /\ UNCHANGED <<archive, cursor, found, signatures, errors, warnings,
                          verdict>>
  <2>1. NothingRead /\ (errors = {} <=> MimetypeIsRight(archive))
    BY DEF IInv, ReadManifest
  <2>2. ReaderTypeOK'
    BY <1>2 DEF IInv, ReaderTypeOK, ReadPhases
  <2>3. /\ ManifestIsReadable' /\ Listed' = Listed
        /\ cursor' = 0 /\ Len(Listed) \in Nat
    BY <1>2, <2>1, SameArchive, ListedAreNames DEF NothingRead
  <2>4. FilesRead(archive', Listed', found', warnings', cursor')
    BY <1>2, <2>1, <2>3, NothingReadIsRead DEF NothingRead
  <2>5. archive' \in CentralDirectories /\ signatures' = <<>>
        /\ (errors' = {} <=> MimetypeIsRight(archive'))
    BY <1>2, <2>1 DEF IInv, NothingRead
  <2> QED
    BY <1>2, <2>2, <2>3, <2>4, <2>5 DEF IInv
<1> QED
  BY <1>1, <1>2 DEF ReadManifest

LEMMA ReadFileKeeps ==
    ASSUME IInv, ReadFile
    PROVE  IInv'
<1> DEFINE name == Listed[cursor + 1]
           file == [name |-> name, content |-> Bytes(ByName(archive, name))]
<1>1. /\ phase = "files" /\ phase' = "files" /\ cursor' = cursor + 1
      /\ cursor < Len(Listed)
      /\ archive' = archive /\ signatures' = signatures /\ errors' = errors
      /\ verdict' = verdict
  BY DEF ReadFile
<1>2. /\ ManifestIsReadable /\ signatures = <<>> /\ cursor \in Nat
      /\ errors = {} <=> MimetypeIsRight(archive)
      /\ FilesRead(archive, Listed, found, warnings, cursor)
      /\ archive \in CentralDirectories /\ found \in Seq(FoundFiles)
  BY <1>1 DEF IInv, ReaderTypeOK, FoundFiles
<1>3. Listed \in Seq(Names) /\ Len(Listed) \in Nat
  BY <1>2, ListedAreNames
<1>4. name \in Names
  BY <1>1, <1>2, <1>3
<1>5. /\ FilesRead(archive', Listed', found', warnings', cursor')
      /\ found' \in Seq(FoundFiles) /\ warnings' \subseteq Names
  <2>1. warnings \subseteq Names
    BY DEF IInv, ReaderTypeOK
  <2>2. CASE Opens(archive, name)
    <3>1. found' = Append(found, file) /\ warnings' = warnings
      BY <2>2 DEF ReadFile
    <3>2. ByName(archive, name) \in ArchiveEntries
      BY <1>2, <2>2, ByNameFinds, ByNameIsEntry DEF Opens
    <3>3. file \in FoundFiles
      BY <1>4, <3>2, BytesAreContent DEF FoundFiles
    <3>4. /\ file.name = Listed[cursor + 1] /\ Opens(archive, file.name)
          /\ file.content = Bytes(ByName(archive, file.name))
      BY <2>2
    <3> HIDE DEF file
    <3>5. FilesRead(archive, Listed, Append(found, file), warnings, cursor + 1)
      BY <1>2, <3>3, <3>4, OpenedIsRead
    <3>6. Append(found, file) \in Seq(FoundFiles)
      BY <1>2, <3>3
    <3> QED
      BY <1>1, <2>1, <3>1, <3>5, <3>6, SameArchive
  <2>3. CASE ~ Opens(archive, name)
    <3>1. found' = found /\ warnings' = warnings \cup {name}
      BY <2>3 DEF ReadFile
    <3>2. FilesRead(archive, Listed, found, warnings \cup {name}, cursor + 1)
      BY <1>2, <2>3, UnopenedIsWarned
    <3> QED
      BY <1>1, <1>2, <1>4, <2>1, <3>1, <3>2, SameArchive
  <2> QED
    BY <2>2, <2>3
<1>6. ReaderTypeOK'
  BY <1>1, <1>2, <1>5 DEF IInv, ReaderTypeOK, FoundFiles, ReadPhases
<1>7. cursor' <= Len(Listed')
  BY <1>1, <1>2, <1>3, SameArchive
<1> QED
  BY <1>1, <1>2, <1>5, <1>6, <1>7, SameArchive DEF IInv

LEMMA EndFilesKeeps ==
    ASSUME IInv, EndFiles
    PROVE  IInv'
<1>1. /\ phase = "files" /\ phase' = "signatures" /\ cursor' = 0
      /\ cursor >= Len(Listed)
      /\ UNCHANGED <<archive, found, signatures, errors, warnings, verdict>>
  BY DEF EndFiles
<1>2. /\ ManifestIsReadable /\ signatures = <<>>
      /\ cursor \in Nat /\ cursor <= Len(Listed)
      /\ errors = {} <=> MimetypeIsRight(archive)
      /\ FilesRead(archive, Listed, found, warnings, cursor)
      /\ archive \in CentralDirectories
  BY <1>1 DEF IInv, ReaderTypeOK
<1>3. cursor = Len(Listed)
  BY <1>1, <1>2, ListedAreNames
<1>4. ReaderTypeOK'
  BY <1>1 DEF IInv, ReaderTypeOK, ReadPhases
<1>5. SignaturesRead(archive, found, <<>>, errors, 0)
  BY <1>2 DEF SignaturesRead
<1>6. cursor' <= Len(archive')
  BY <1>1, <1>2 DEF CentralDirectories
<1> QED
  BY <1>1, <1>2, <1>3, <1>4, <1>5, <1>6, SameArchive DEF IInv

(***************************************************************************)
(* The loop over the entries: one that is no signature, or a signature     *)
(* that leaves an error or none.                                           *)
(***************************************************************************)
LEMMA EntryIsRead ==
    ASSUME NEW entries, NEW fs, NEW sigs, NEW errs, NEW n \in Nat,
           SignaturesRead(entries, fs, sigs, errs, n),
           ~ Is(entries[n + 1], "locked"),
           NEW more, NEW longer,
           longer = {} <=> errs = {} /\ Passes(entries[n + 1], fs),
           longer = {} =>
             /\ \A k \in 1..Len(more) : more[k].valid
             /\ more # <<>> <=> sigs # <<>> \/ ~ IsSkipped(entries[n + 1])
    PROVE  SignaturesRead(entries, fs, more, longer, n + 1)
<1>1. 1..(n + 1) = (1..n) \cup {n + 1}
  OBVIOUS
<1>2. \A k \in 1..(n + 1) : ~ Is(entries[k], "locked")
  BY <1>1 DEF SignaturesRead
<1>3. longer = {} <=> /\ MimetypeIsRight(entries)
                      /\ \A k \in 1..(n + 1) : Passes(entries[k], fs)
  BY <1>1 DEF SignaturesRead
<1>4. longer = {} =>
        (more # <<>> <=> \E k \in 1..(n + 1) : ~ IsSkipped(entries[k]))
  BY <1>1 DEF SignaturesRead
<1> QED
  BY <1>2, <1>3, <1>4 DEF SignaturesRead

LEMMA ReadEntryKeeps ==
    ASSUME IInv, ReadEntry
    PROVE  IInv'
<1> DEFINE entry == archive[cursor + 1]
<1>1. phase = "signatures" /\ cursor < Len(archive)
  BY DEF ReadEntry
<1>2. /\ ManifestIsReadable /\ cursor \in Nat
      /\ FilesRead(archive, Listed, found, warnings, Len(Listed))
      /\ SignaturesRead(archive, found, signatures, errors, cursor)
      /\ archive \in CentralDirectories /\ Len(archive) \in Nat
      /\ signatures \in Seq([doc : Documents, valid : BOOLEAN])
      /\ errors \subseteq ErrorKinds
  BY <1>1 DEF IInv, ReaderTypeOK, CentralDirectories
<1>3. entry \in ArchiveEntries
  BY <1>1, <1>2, ByNameIsEntry
<1>4. ASSUME UNCHANGED <<archive, phase, found, warnings, verdict>>,
             cursor' = cursor + 1,
             signatures' \in Seq([doc : Documents, valid : BOOLEAN]),
             errors' \subseteq ErrorKinds,
             ~ Is(entry, "locked"),
             errors' = {} <=> errors = {} /\ Passes(entry, found),
             errors' = {} =>
               /\ \A k \in 1..Len(signatures') : signatures'[k].valid
               /\ signatures' # <<>>
                     <=> signatures # <<>> \/ ~ IsSkipped(entry)
      PROVE  IInv'
  <2>1. ReaderTypeOK'
    BY <1>2, <1>4 DEF IInv, ReaderTypeOK
  <2>2. SignaturesRead(archive, found, signatures', errors', cursor + 1)
    BY <1>2, <1>4, EntryIsRead
  <2>3. SignaturesRead(archive', found', signatures', errors', cursor')
    BY <1>4, <2>2
  <2>4. cursor' <= Len(archive')
    BY <1>1, <1>2, <1>4
  <2> QED
    BY <1>1, <1>2, <1>4, <2>1, <2>3, <2>4, SameArchive DEF IInv
<1>5. CASE SkipEntry(entry)
  <2>1. Passes(entry, found) /\ IsSkipped(entry) /\ ~ Is(entry, "locked")
    BY <1>5 DEF SkipEntry, Passes
  <2>2. errors = {} => \A k \in 1..Len(signatures) : signatures[k].valid
    BY <1>2 DEF SignaturesRead
  <2> QED
    BY <1>2, <1>4, <1>5, <2>1, <2>2 DEF SkipEntry
<1>6. CASE RejectEntry(entry)
  <2>1. ~ Passes(entry, found) /\ ~ Is(entry, "locked")
    BY <1>6 DEF RejectEntry, Passes
  <2>2. errors' # {} /\ errors' \subseteq ErrorKinds
    BY <1>2, <1>6 DEF RejectEntry, ErrorKinds
  <2> QED
    BY <1>2, <1>4, <1>6, <2>1, <2>2 DEF RejectEntry
<1>7. CASE JudgeSignature(entry)
  <2> DEFINE doc == AsText(entry).doc
             valid == ~ IsUnsupported(doc) /\ VerifySignature(doc, found)
             judged == [doc |-> doc, valid |-> valid]
  <2>1. /\ ~ IsSkipped(entry) /\ IsSignature(entry)
        /\ errors' = errors \cup SignatureErrors(doc, found)
        /\ signatures' = Append(signatures, judged)
    BY <1>7 DEF JudgeSignature
  <2>2. Is(AsText(entry), "doc")
    BY <2>1 DEF IsSignature
  <2>3. doc \in Documents /\ ~ Is(entry, "locked")
    BY <1>3, <2>2, TextsOfEntries
  <2>4. SignatureErrors(doc, found) \subseteq ErrorKinds
    BY DEF SignatureErrors, ErrorKinds
  <2>5. Passes(entry, found) <=> SignatureErrors(doc, found) = {}
    BY <2>1 DEF Passes
  <2>6. SignatureErrors(doc, found) = {} => valid
    BY DEF SignatureErrors
  <2>7. judged \in [doc : Documents, valid : BOOLEAN] /\ judged.valid = valid
    <3>1. valid \in BOOLEAN
      BY DEF VerifySignature, IsUnsupported
    <3> HIDE DEF valid
    <3> QED
      BY <2>3, <3>1
  <2> HIDE DEF judged, valid, doc
  <2>8. /\ signatures' \in Seq([doc : Documents, valid : BOOLEAN])
        /\ signatures' # <<>>
        /\ Len(signatures') = Len(signatures) + 1
        /\ \A k \in 1..Len(signatures) : signatures'[k] = signatures[k]
        /\ signatures'[Len(signatures) + 1] = judged
    <3> DEFINE S == [doc : Documents, valid : BOOLEAN]
    <3> HIDE DEF S
    <3>1. signatures \in Seq(S) /\ judged \in S
      BY <1>2, <2>7 DEF S
    <3>2. /\ signatures' \in Seq(S) /\ signatures' # <<>>
          /\ Len(signatures') = Len(signatures) + 1
          /\ \A k \in 1..Len(signatures) : signatures'[k] = signatures[k]
          /\ signatures'[Len(signatures) + 1] = judged
      BY <2>1, <3>1
    <3> QED
      BY <3>2 DEF S
  <2>9. errors' = {} => \A k \in 1..Len(signatures') : signatures'[k].valid
    <3> SUFFICES ASSUME errors' = {}, NEW k \in 1..Len(signatures')
                 PROVE  signatures'[k].valid
      OBVIOUS
    <3>1. errors = {} /\ SignatureErrors(doc, found) = {}
      BY <2>1
    <3>2. Len(signatures) \in Nat
      BY <1>2
    <3>3. CASE k \in 1..Len(signatures)
      <4>1. signatures[k].valid
        BY <1>2, <3>1, <3>3 DEF SignaturesRead
      <4> QED
        BY <2>8, <3>3, <4>1
    <3>4. CASE k = Len(signatures) + 1
      BY <2>6, <2>7, <2>8, <3>1, <3>4
    <3> QED
      BY <2>8, <3>2, <3>3, <3>4
  <2>10. /\ UNCHANGED <<archive, phase, found, warnings, verdict>>
         /\ cursor' = cursor + 1
    BY <1>7 DEF JudgeSignature
  <2>11. errors' \subseteq ErrorKinds
         /\ (errors' = {} <=> errors = {} /\ Passes(entry, found))
    BY <1>2, <2>1, <2>4, <2>5
  <2> QED
    BY <1>4, <2>1, <2>3, <2>8, <2>9, <2>10, <2>11
<1>8. CASE FailOnEntry(entry)
  BY <1>8, FailureKeeps DEF FailOnEntry, Fatal
<1> QED
  BY <1>5, <1>6, <1>7, <1>8 DEF ReadEntry

LEMMA ConcludeKeeps ==
    ASSUME IInv, Conclude
    PROVE  IInv'
<1>1. /\ phase = "signatures" /\ phase' = "done" /\ cursor >= Len(archive)
      /\ UNCHANGED <<archive, cursor, found, signatures, errors, warnings>>
  BY DEF Conclude
<1>2. /\ ManifestIsReadable /\ cursor \in Nat /\ cursor <= Len(archive)
      /\ FilesRead(archive, Listed, found, warnings, Len(Listed))
      /\ SignaturesRead(archive, found, signatures, errors, cursor)
      /\ archive \in CentralDirectories /\ Len(archive) \in Nat
  BY <1>1 DEF IInv, ReaderTypeOK, CentralDirectories
<1>3. verdict' <=> errors = {} /\ signatures # <<>>
  BY <1>2 DEF Conclude, SignaturesRead
<1>4. verdict' \in BOOLEAN
  BY DEF Conclude
<1>5. ReaderTypeOK'
  BY <1>1, <1>4 DEF IInv, ReaderTypeOK, Ended
<1>6. cursor = Len(archive)
  BY <1>1, <1>2
<1> QED
  BY <1>1, <1>2, <1>3, <1>5, <1>6, SameArchive DEF IInv

(***************************************************************************)
(* Every step keeps IInv.                                                  *)
(***************************************************************************)
LEMMA ReadKeeps ==
    ASSUME IInv, Read
    PROVE  IInv'
<1>1. CASE ReadFails
  BY <1>1, FailureKeeps DEF ReadFails
<1>2. CASE Advance
  BY <1>2, CheckMimetypeKeeps, ReadManifestKeeps, ReadFileKeeps, EndFilesKeeps,
     ReadEntryKeeps, ConcludeKeeps DEF Advance
<1> QED
  BY <1>1, <1>2 DEF Read

LEMMA NextKeeps == IInv /\ [ReaderNext]_readerVars => IInv'
<1> SUFFICES ASSUME IInv, [ReaderNext]_readerVars
             PROVE  IInv'
  OBVIOUS
<1>1. CASE OpenSome
  <2>1. PICK entries \in Archives : Open(entries)
    BY <1>1 DEF OpenSome
  <2>2. entries \in CentralDirectories
    BY ReaderAssumption
  <2> QED
    BY <2>1, <2>2, OpenKeeps
<1>2. CASE OpenFails
  BY <1>2, FailureKeeps DEF OpenFails
<1>3. CASE Read
  BY <1>3, ReadKeeps
<1>4. CASE UNCHANGED readerVars
  <2>1. NothingRead' <=> NothingRead
    BY <1>4 DEF readerVars, NothingRead
  <2>2. ReaderTypeOK'
    BY <1>4 DEF readerVars, IInv, ReaderTypeOK
  <2> QED
    BY <1>4, <2>1, <2>2, SameArchive DEF readerVars, IInv
<1> QED
  BY <1>1, <1>2, <1>3, <1>4 DEF ReaderNext

LEMMA AlwaysIInv == ReaderSpec => []IInv
  BY InitInv, NextKeeps, PTL DEF ReaderSpec
-----------------------------------------------------------------------------
(***************************************************************************)
(* What follows from IInv.                                                 *)
(***************************************************************************)
LEMMA DoneIsAcceptable ==
    ASSUME IInv
    PROVE  VerdictIsJustified
<1> SUFFICES ASSUME phase = "done"
             PROVE  verdict <=> Acceptable(archive)
  BY DEF VerdictIsJustified
<1>1. /\ ManifestIsReadable /\ archive \in CentralDirectories
      /\ FilesRead(archive, Listed, found, warnings, Len(Listed))
      /\ SignaturesRead(archive, found, signatures, errors, Len(archive))
      /\ verdict <=> errors = {} /\ signatures # <<>>
      /\ found \in Seq(FoundFiles)
  BY DEF IInv, ReaderTypeOK, FoundFiles
<1>2. Len(Listed) \in Nat
  BY <1>1, ListedAreNames
<1>3. PICK m \in 1..Len(archive) :
          /\ archive[m].name = ManifestName
          /\ Is(AsText(archive[m]), "paths")
          /\ AsText(archive[m]).paths = Listed
  <2>1. /\ Holds(archive, ManifestName)
        /\ Is(AsText(ByName(archive, ManifestName)), "paths")
    BY <1>1 DEF ManifestIsReadable, Opens
  <2> QED
    BY <1>1, <2>1, ByNameFinds DEF Listed
<1>4. \A k \in 1..Len(archive) :
         (archive[k].name = ManifestName /\ Is(AsText(archive[k]), "paths")) =>
           AsText(archive[k]).paths = Listed
  BY <1>1, ByNameIsEntry DEF Listed
<1>5. ASSUME NEW k \in 1..Len(archive), Is(AsText(archive[k]), "doc")
      PROVE  SignatureErrors(AsText(archive[k]).doc, found) = {}
               <=> /\ Covers(archive, Listed, AsText(archive[k]).doc)
                   /\ AsText(archive[k]).doc.intact
                   /\ AsText(archive[k]).doc.cert = "match"
                   /\ AsText(archive[k]).doc.time = "within"
  <2> DEFINE doc == AsText(archive[k]).doc
  <2>1. archive[k] \in ArchiveEntries
    BY <1>1, ByNameIsEntry
  <2>2. doc \in Documents
    BY <1>5, <2>1, TextsOfEntries
  <2>3. doc.time \in Times
    BY <2>2 DEF Documents
  <2> HIDE DEF doc
  <2>4. VerifySignature(doc, found)
          <=> Covers(archive, Listed, doc) /\ doc.intact /\ doc.cert = "match"
    BY <1>1, <1>2, <2>2, VerifiedIsCovered
  <2>5. SignatureErrors(doc, found) = {}
          <=> /\ VerifySignature(doc, found) /\ doc.cert # "unsupported"
              /\ doc.time = "within"
    BY <2>3 DEF SignatureErrors, IsUnsupported, Times
  <2> QED
    BY <2>4, <2>5 DEF doc
<1>6. ASSUME NEW k \in 1..Len(archive)
      PROVE  Passes(archive[k], found)
               <=> \/ k \notin SignatureIndexes(archive)
                   \/ /\ Is(AsText(archive[k]), "doc")
                      /\ AsText(archive[k]).doc.formats = 1
                      /\ Covers(archive, Listed, AsText(archive[k]).doc)
                      /\ AsText(archive[k]).doc.intact
                      /\ AsText(archive[k]).doc.cert = "match"
                      /\ AsText(archive[k]).doc.time = "within"
  BY <1>5 DEF Passes, IsSignature, ParsesAsSignature, SignatureIndexes
<1>7. errors = {}
        <=> /\ MimetypeIsRight(archive)
            /\ \A k \in SignatureIndexes(archive) :
                  /\ Is(AsText(archive[k]), "doc")
                  /\ AsText(archive[k]).doc.formats = 1
                  /\ Covers(archive, Listed, AsText(archive[k]).doc)
                  /\ AsText(archive[k]).doc.intact
                  /\ AsText(archive[k]).doc.cert = "match"
                  /\ AsText(archive[k]).doc.time = "within"
  BY <1>1, <1>6 DEF SignaturesRead, SignatureIndexes
<1>8. errors = {} => (signatures # <<>> <=> SignatureIndexes(archive) # {})
  BY <1>1 DEF SignaturesRead, SignatureIndexes
<1>9. \A k \in 1..Len(archive) : ~ Is(archive[k], "locked")
  BY <1>1 DEF SignaturesRead
<1> QED
  BY <1>1, <1>3, <1>4, <1>7, <1>8, <1>9 DEF Acceptable, MimetypeIsRight

LEMMA DoneHasReason ==
    ASSUME IInv
    PROVE  InvalidHasReason
<1> SUFFICES ASSUME phase = "done"
             PROVE  verdict <=> (errors = {} /\ SignatureIndexes(archive) # {})
  BY DEF InvalidHasReason
<1>1. /\ SignaturesRead(archive, found, signatures, errors, Len(archive))
      /\ verdict <=> errors = {} /\ signatures # <<>>
  BY DEF IInv
<1> QED
  BY <1>1 DEF SignaturesRead, SignatureIndexes

LEMMA ReadIsAccounted ==
    ASSUME IInv
    PROVE  EveryPathIsAccountedFor
<1> SUFFICES ASSUME phase \in {"signatures", "done"}
             PROVE  EveryPathIsAccountedFor
  BY DEF EveryPathIsAccountedFor
<1>1. FilesRead(archive, Listed, found, warnings, Len(Listed))
  BY DEF IInv
<1>2. NamesOf(found) \cap warnings = {}
  BY <1>1 DEF FilesRead, NamesOf
<1> QED
  BY <1>1, <1>2 DEF FilesRead, EveryPathIsAccountedFor
-----------------------------------------------------------------------------
(***************************************************************************)
(* ReaderTypeOK: the state of a reading has the declared types.            *)
(***************************************************************************)
THEOREM ReaderTypeCorrect == ReaderSpec => []ReaderTypeOK
<1>1. IInv => ReaderTypeOK
  BY DEF IInv
<1> QED
  BY <1>1, AlwaysIInv, PTL

(***************************************************************************)
(* VerdictIsJustified: a container is reported valid exactly when the      *)
(* archive that was opened is acceptable, whatever its entries are and in  *)
(* whatever order they come.                                               *)
(***************************************************************************)
THEOREM VerdictCorrect == ReaderSpec => []VerdictIsJustified
<1>1. IInv => VerdictIsJustified
  BY DoneIsAcceptable
<1> QED
  BY <1>1, AlwaysIInv, PTL

(***************************************************************************)
(* InvalidHasReason: a container reported invalid comes with an error or   *)
(* has no signature.                                                       *)
(***************************************************************************)
THEOREM ReasonsCorrect == ReaderSpec => []InvalidHasReason
<1>1. IInv => InvalidHasReason
  BY DoneHasReason
<1> QED
  BY <1>1, AlwaysIInv, PTL

(***************************************************************************)
(* EveryPathIsAccountedFor: a listed path ends up among the files or among *)
(* the warnings, and the files keep the order of the manifest.             *)
(***************************************************************************)
THEOREM PathsAccountedFor == ReaderSpec => []EveryPathIsAccountedFor
<1>1. IInv => EveryPathIsAccountedFor
  BY ReadIsAccounted
<1> QED
  BY <1>1, AlwaysIInv, PTL
=============================================================================
