------------------------ MODULE DigiDocSystemProofs ------------------------
(***************************************************************************)
(* Proofs about DigiDocSystem, for any builders, files, signers and        *)
(* overlaps of calls.  What DigiDocBuilderProofs knows of a readable file  *)
(* is carried through the reader: ReaderInv says what each of its loops    *)
(* has found of the container that the path held when it was opened.       *)
(***************************************************************************)
EXTENDS DigiDocSystem, DigiDocBuilderProofs, FiniteSetTheorems

\* The archive being read is a beginning of one call's container.
SourceIsPrefix ==
    /\ source \in DiskFiles
    /\ archive = source.entries
    /\ FollowsLayoutToCut(source.entries, source.files, source.signers)
    /\ NamesAreUnique(source.entries)

\* The first path of the manifest is the container, then come the data files.
FilesFound(n) ==
    /\ found \in Seq(Files)
    /\ Len(found) = IF n = 0 THEN 0 ELSE n - 1
    /\ \A j \in 1..Len(found) : found[j] = source.files[j]

Judged == [doc : Documents, valid : BOOLEAN]

\* A data file that stands where the manifest of the call would.
OwnManifest ==
    \E j \in 1..Len(source.files) : source.files[j].name = ManifestName

\* How many data files, and documents of signers, the first n entries hold.
FilesAmong(n) ==
    IF n = 0 THEN 0
    ELSE IF n <= 1 + Len(source.files) THEN n - 1 ELSE Len(source.files)

SignersAmong(n) ==
    IF n <= 2 + Len(source.files) THEN 0 ELSE n - (2 + Len(source.files))

\* The signatures among these: first the caller's own, then the signers'.
OwnFound(sigs, m) ==
    \A j \in 1..m : IsSignatureName(source.files[j].name) =>
        /\ R!IsSignature(DataEntry(source.files[j]))
        /\ OwnSignatures(source.files, j) \in 1..Len(sigs)
        /\ sigs[OwnSignatures(source.files, j)].doc =
              OwnDocument(source.files[j])

FullFound(sigs, own, n) ==
    \A i \in 1..n :
        sigs[own + i].doc =
            FullSignature(source.files, source.signers[i], i - 1)

SignaturesFound(sigs, n) ==
    LET own == OwnSignatures(source.files, FilesAmong(n))
    IN  /\ sigs \in Seq(Judged)
        /\ Len(sigs) = own + SignersAmong(n)
        /\ OwnFound(sigs, FilesAmong(n))
        /\ FullFound(sigs, own, SignersAmong(n))

ReaderInv ==
    /\ phase \notin {"closed", "broken"} => SourceIsPrefix
    /\ phase \in {"closed", "mimetype", "manifest"} =>
          cursor = 0 /\ found = <<>> /\ signatures = <<>>
    /\ phase \in {"files", "signatures", "done"} => R!ManifestIsReadable
    /\ phase = "files" =>
          /\ signatures = <<>> /\ cursor \in Nat
          /\ ~ OwnManifest =>
                cursor \in 0..(1 + Len(source.files)) /\ FilesFound(cursor)
    /\ (phase \in {"signatures", "done"} /\ ~ OwnManifest) =>
          found = source.files
    /\ phase = "signatures" =>
          /\ cursor \in 0..Len(archive)
          /\ errors = {} => SignaturesFound(signatures, cursor)
    /\ (phase = "done" /\ verdict) =>
          signatures # <<>> /\ SignaturesFound(signatures, Len(archive))

SealedAreUnique ==
    \A p \in Paths : disk[p].state = "sealed" => NamesAreUnique(disk[p].entries)
-----------------------------------------------------------------------------
(***************************************************************************)
(* A data file of a signature's name is one signature more.                *)
(***************************************************************************)
LEMMA OneMore ==
    ASSUME NEW fs, NEW n \in Nat
    PROVE  /\ OwnSignatures(fs, 0) = 0
           /\ OwnSignatures(fs, n) \in Nat
           /\ OwnSignatures(fs, n + 1) =
                 OwnSignatures(fs, n)
                   + (IF IsSignatureName(fs[n + 1].name) THEN 1 ELSE 0)
<1> DEFINE Own(k) == {j \in 1..k : IsSignatureName(fs[j].name)}
<1>1. IsFiniteSet(Own(n))
  <2>1. IsFiniteSet(1..n)
    BY FS_Interval
  <2> QED
    BY <2>1, FS_Subset
<1>2. Own(0) = {}
  OBVIOUS
<1>3. Cardinality(Own(n)) \in Nat
  BY <1>1, FS_CardinalityType
<1>4. Own(n + 1) = IF IsSignatureName(fs[n + 1].name)
                   THEN Own(n) \cup {n + 1} ELSE Own(n)
  <2>1. 1..(n + 1) = (1..n) \cup {n + 1}
    OBVIOUS
  <2> QED
    BY <2>1
<1>5. n + 1 \notin Own(n)
  OBVIOUS
<1>6. /\ OwnSignatures(fs, 0) = Cardinality(Own(0))
      /\ OwnSignatures(fs, n) = Cardinality(Own(n))
      /\ OwnSignatures(fs, n + 1) = Cardinality(Own(n + 1))
  BY DEF OwnSignatures
<1> HIDE DEF Own
<1>7. Cardinality(Own(n) \cup {n + 1}) = Cardinality(Own(n)) + 1
  BY <1>1, <1>5, FS_AddElement
<1> QED
  BY <1>2, <1>3, <1>4, <1>6, <1>7, FS_EmptySet

(***************************************************************************)
(* Builders and reader have one vocabulary.                                *)
(***************************************************************************)
LEMMA SameVocabulary ==
    /\ R!Documents = Documents
    /\ \A name : R!IsSignatureName(name) <=> IsSignatureName(name)
    /\ R!ManifestName = ManifestName
BY DEF R!Documents, Documents, R!Names, Names, R!CertKinds, CertKinds,
       R!Times, Times, R!UnsignedProperties, UnsignedProperties,
       R!MimetypeName, MimetypeName, R!ManifestName, ManifestName,
       R!RootName, RootName, R!IsSignatureName, IsSignatureName

(***************************************************************************)
(* What is no data file is read as what it is; a signature is a document   *)
(* and can be opened.                                                      *)
(***************************************************************************)
LEMMA OnlyDataIsText ==
    ASSUME NEW entry, ~ R!Is(entry, "content")
    PROVE  R!AsText(entry) = entry
BY DEF R!AsText

LEMMA DocumentOfForm ==
    /\ \A text \in R!TextForms : R!Is(text, "doc") => text.doc \in R!Documents
    /\ \A text \in Entries : R!Is(text, "doc") => text.doc \in Documents
<1>1. /\ \A text \in [binary : {TRUE}] : ~ R!Is(text, "doc")
      /\ \A text \in [paths : Seq(R!Names)] : ~ R!Is(text, "doc")
      /\ \A text \in [doc : R!Documents] : text.doc \in R!Documents
  BY DEF R!Is
<1>2. /\ \A text \in [name : Names, mimetype : {AsicE}] : ~ R!Is(text, "doc")
      /\ \A text \in [name : Names, content : Contents] : ~ R!Is(text, "doc")
      /\ \A text \in [name : Names, paths : Seq(Names)] : ~ R!Is(text, "doc")
      /\ \A text \in [name : Names, doc : Documents] : text.doc \in Documents
      /\ \A text \in [name : Names, cut : {TRUE}] : ~ R!Is(text, "doc")
  BY DEF R!Is
<1> QED
  <2>1. ASSUME NEW text \in R!TextForms, R!Is(text, "doc")
        PROVE  text.doc \in R!Documents
    <3>1. \/ text \in [binary : {TRUE}] \/ text \in [paths : Seq(R!Names)]
          \/ text \in [doc : R!Documents]
      BY <2>1 DEF R!TextForms
    <3> QED
      BY <1>1, <2>1, <3>1
  <2>2. ASSUME NEW text \in Entries, R!Is(text, "doc")
        PROVE  text.doc \in Documents
    <3>1. \/ text \in [name : Names, mimetype : {AsicE}]
          \/ text \in [name : Names, content : Contents]
          \/ text \in [name : Names, paths : Seq(Names)]
          \/ text \in [name : Names, doc : Documents]
          \/ text \in [name : Names, cut : {TRUE}]
      BY DEF Entries
    <3> QED
      BY <1>2, <2>2, <3>1
  <2> QED
    BY <2>1, <2>2

LEMMA SignatureIsDocument ==
    ASSUME NEW entry \in Entries, R!Is(R!AsText(entry), "doc")
    PROVE  R!AsText(entry).doc \in Documents
<1>1. R!AsText(entry) \in R!TextForms \/ R!AsText(entry) \in Entries
  BY SystemAssumption DEF R!AsText, R!Is, R!TextsAreTyped
<1> QED
  BY <1>1, DocumentOfForm, SameVocabulary

(***************************************************************************)
(* The entries of a beginning of a container, by position and by form.     *)
(***************************************************************************)
LEMMA PlacesOfForms ==
    ASSUME NEW entries, NEW fs, NEW ss, Len(fs) \in Nat,
           FollowsLayoutToCut(entries, fs, ss), NEW k \in 1..Len(entries)
    PROVE  /\ k <= 2 + Len(fs) + Len(ss)
           /\ k # Len(entries) => entries[k] = LayoutAt(fs, ss, k)
           /\ entries[k] = LayoutAt(fs, ss, k)
                \/ entries[k] = CutEntry(LayoutAt(fs, ss, k).name)
           /\ ~ R!Is(entries[k], "locked") /\ ~ R!Is(entries[k], "directory")
           /\ R!Is(R!AsText(entries[k]), "paths") =>
                \/ k = 2 + Len(fs) /\ R!AsText(entries[k]) = ManifestEntry(fs)
                \/ k \in 2..(1 + Len(fs)) /\ entries[k] = DataEntry(fs[k - 1])
           /\ R!Is(R!AsText(entries[k]), "doc") =>
                \/ /\ k > 2 + Len(fs) /\ entries[k] = LayoutAt(fs, ss, k)
                   /\ R!AsText(entries[k]) = entries[k]
                \/ k \in 2..(1 + Len(fs)) /\ entries[k] = DataEntry(fs[k - 1])
           /\ k > 2 + Len(fs) => ~ R!IsSkipped(entries[k])
           /\ k = 1 \/ k = 2 + Len(fs) => R!IsSkipped(entries[k])
           /\ k \in 2..(1 + Len(fs)) => entries[k].name = fs[k - 1].name
           /\ k = 2 + Len(fs) => entries[k].name = ManifestName
           /\ k = 1 => entries[k].name = MimetypeName
<1> DEFINE laid == LayoutAt(fs, ss, k)
<1>1. /\ k \in Nat /\ k # 0
      /\ k <= 2 + Len(fs) + Len(ss)
      /\ k # Len(entries) => entries[k] = laid
      /\ entries[k] = laid \/ entries[k] = CutEntry(laid.name)
  BY DEF FollowsLayoutToCut, LayoutSize
<1>2. /\ k = 1 => laid = MimetypeEntry
      /\ k \in 2..(1 + Len(fs)) => laid = DataEntry(fs[k - 1])
      /\ k = 2 + Len(fs) => laid = ManifestEntry(fs)
      /\ k > 2 + Len(fs) =>
            \E i, doc : laid = SignatureEntry(i, doc)
  BY <1>1 DEF LayoutAt
<1>3. k = 1 \/ k \in 2..(1 + Len(fs)) \/ k = 2 + Len(fs) \/ k > 2 + Len(fs)
  BY <1>1
<1> HIDE DEF laid
<1>4. entries[k].name = laid.name
  BY <1>1 DEF CutEntry
<1>5. /\ k = 1 => entries[k].name = MimetypeName
      /\ k \in 2..(1 + Len(fs)) => entries[k].name = fs[k - 1].name
      /\ k = 2 + Len(fs) => entries[k].name = ManifestName
      /\ k > 2 + Len(fs) => \E i : entries[k].name = SignatureName(i)
  BY <1>2, <1>4 DEF MimetypeEntry, DataEntry, ManifestEntry, SignatureEntry
<1>6. /\ k > 2 + Len(fs) => R!IsSignatureName(entries[k].name)
      /\ k = 1 \/ k = 2 + Len(fs) => ~ R!IsSignatureName(entries[k].name)
  BY <1>5 DEF SignatureName, MimetypeName, ManifestName, R!IsSignatureName
<1>7. CASE entries[k] = CutEntry(laid.name)
  <2>1. DOMAIN entries[k] = {"name", "cut"}
    BY <1>7 DEF CutEntry
  <2>2. R!AsText(entries[k]) = entries[k]
    BY <2>1, OnlyDataIsText DEF R!Is
  <2> QED
    BY <1>1, <1>5, <1>6, <2>1, <2>2 DEF R!Is, R!IsSkipped, laid
<1>8. CASE entries[k] = laid
  <2>1. CASE k = 1
    <3>1. DOMAIN entries[k] = {"name", "mimetype"}
      BY <1>2, <1>8, <2>1 DEF MimetypeEntry
    <3>2. R!AsText(entries[k]) = entries[k]
      BY <3>1, OnlyDataIsText DEF R!Is
    <3> QED
      BY <1>1, <1>5, <1>6, <2>1, <3>1, <3>2 DEF R!Is, R!IsSkipped, laid
  <2>2. CASE k \in 2..(1 + Len(fs))
    <3>1. entries[k] = DataEntry(fs[k - 1])
          /\ DOMAIN entries[k] = {"name", "content"}
      BY <1>2, <1>8, <2>2 DEF DataEntry
    <3>2. k # 1 /\ k # 2 + Len(fs) /\ ~ (k > 2 + Len(fs))
      BY <2>2
    <3>3. /\ ~ R!Is(entries[k], "locked") /\ ~ R!Is(entries[k], "directory")
      BY <3>1 DEF R!Is
    <3> QED
      BY <1>1, <1>5, <2>2, <3>1, <3>2, <3>3 DEF laid
  <2>3. CASE k = 2 + Len(fs)
    <3>1. entries[k] = ManifestEntry(fs) /\ DOMAIN entries[k] = {"name", "paths"}
      BY <1>2, <1>8, <2>3 DEF ManifestEntry
    <3>2. R!AsText(entries[k]) = entries[k]
      BY <3>1, OnlyDataIsText DEF R!Is
    <3> QED
      BY <1>1, <1>5, <1>6, <2>3, <3>1, <3>2 DEF R!Is, R!IsSkipped, laid
  <2>4. CASE k > 2 + Len(fs)
    <3>1. DOMAIN entries[k] = {"name", "doc"}
      BY <1>2, <1>8, <2>4 DEF SignatureEntry
    <3>2. R!AsText(entries[k]) = entries[k]
      BY <3>1, OnlyDataIsText DEF R!Is
    <3> QED
      BY <1>1, <1>5, <1>6, <1>8, <2>4, <3>1, <3>2 DEF R!Is, R!IsSkipped, laid
  <2> QED
    BY <1>3, <2>1, <2>2, <2>3, <2>4
<1> QED
  BY <1>1, <1>7, <1>8 DEF laid

(***************************************************************************)
(* A name that occurs once finds its entry.                                *)
(***************************************************************************)
LEMMA NameFindsPlace ==
    ASSUME NEW entries, NamesAreUnique(entries), NEW k \in 1..Len(entries)
    PROVE  /\ R!Holds(entries, entries[k].name)
           /\ R!ByName(entries, entries[k].name) = entries[k]
<1>1. \A j \in 1..Len(entries) :
        entries[j].name = entries[k].name => j = k
  BY DEF NamesAreUnique
<1> QED
  BY <1>1 DEF R!Holds, R!NamesOf, R!ByName

LEMMA PlaceOfName ==
    ASSUME NEW entries, NEW name, R!Holds(entries, name)
    PROVE  \E k \in 1..Len(entries) :
              entries[k].name = name /\ R!ByName(entries, name) = entries[k]
BY DEF R!Holds, R!NamesOf, R!ByName

LEMMA SourceTypes ==
    ASSUME SourceIsPrefix
    PROVE  /\ source.files \in Seq(Files) /\ Len(source.files) \in Nat
           /\ Len(source.signers) \in Nat
           /\ archive \in Seq(Entries) /\ Len(archive) \in Nat
           /\ \A k \in 1..Len(archive) : archive[k] \in Entries
           /\ \A j \in 1..Len(source.files) :
                 /\ source.files[j] \in Files
                 /\ source.files[j].name \in FileNames
                 /\ source.files[j] = [name |-> source.files[j].name,
                                       content |-> source.files[j].content]
<1>1. /\ source.files \in Seq(Files) /\ source.signers \in Seq(Signers)
      /\ archive \in Seq(Entries)
  BY DEF SourceIsPrefix, DiskFiles
<1>2. \A j \in 1..Len(source.files) : source.files[j] \in Files
  BY <1>1
<1>3. \A f \in Files :
        f.name \in FileNames /\ f = [name |-> f.name, content |-> f.content]
  BY DEF Files
<1>4. \A k \in 1..Len(archive) : archive[k] \in Entries
  <2> HIDE DEF Entries
  <2> QED
    BY <1>1
<1> QED
  BY <1>1, <1>2, <1>3, <1>4

(***************************************************************************)
(* A container whose manifest is the call's own holds every data file, and *)
(* the manifest lists the container and then these files.                  *)
(***************************************************************************)
LEMMA ReadableManifest ==
    ASSUME SourceIsPrefix, R!ManifestIsReadable, ~ OwnManifest
    PROVE  /\ Len(archive) >= 2 + Len(source.files)
           /\ R!Listed = ManifestPaths(source.files)
           /\ \A j \in 1..Len(source.files) :
                 archive[1 + j] = DataEntry(source.files[j])
<1>1. /\ Len(source.files) \in Nat /\ Len(archive) \in Nat
      /\ FollowsLayoutToCut(archive, source.files, source.signers)
  BY SourceTypes DEF SourceIsPrefix
<1>2. R!Holds(archive, ManifestName)
      /\ R!Is(R!AsText(R!ByName(archive, ManifestName)), "paths")
  BY SameVocabulary DEF R!ManifestIsReadable, R!Opens
<1>3. PICK m \in 1..Len(archive) :
          /\ archive[m].name = ManifestName
          /\ R!ByName(archive, ManifestName) = archive[m]
  BY <1>2, PlaceOfName
<1>4. m = 2 + Len(source.files)
      /\ R!AsText(archive[m]) = ManifestEntry(source.files)
  <2>1. m \notin 2..(1 + Len(source.files))
    <3>1. ASSUME m \in 2..(1 + Len(source.files))
          PROVE  FALSE
      <4>1. m - 1 \in 1..Len(source.files)
            /\ source.files[m - 1].name = ManifestName
        BY <1>1, <1>3, <3>1, PlacesOfForms
      <4> QED
        BY <4>1 DEF OwnManifest
    <3> QED
      BY <3>1
  <2> QED
    BY <1>1, <1>2, <1>3, <2>1, PlacesOfForms
<1>5. R!Listed = ManifestPaths(source.files)
  BY <1>3, <1>4, SameVocabulary DEF R!Listed, ManifestEntry
<1>6. ASSUME NEW j \in 1..Len(source.files)
      PROVE  archive[1 + j] = DataEntry(source.files[j])
  <2>1. 1 + j \in 1..Len(archive) /\ 1 + j # Len(archive)
    BY <1>1, <1>3, <1>4
  <2>2. archive[1 + j] = LayoutAt(source.files, source.signers, 1 + j)
    BY <1>1, <2>1, PlacesOfForms
  <2>3. 1 + j # 1 /\ 1 + j <= 1 + Len(source.files) /\ (1 + j) - 1 = j
    BY <1>1
  <2> QED
    BY <2>2, <2>3 DEF LayoutAt
<1> QED
  BY <1>1, <1>3, <1>4, <1>5, <1>6

(***************************************************************************)
(* Each data file can be opened by its name, and yields its content.       *)
(***************************************************************************)
LEMMA FileOpens ==
    ASSUME SourceIsPrefix, R!ManifestIsReadable, ~ OwnManifest,
           NEW j \in 1..Len(source.files)
    PROVE  /\ R!Opens(archive, source.files[j].name)
           /\ R!Bytes(R!ByName(archive, source.files[j].name))
                = source.files[j].content
<1> DEFINE file == source.files[j]
<1>1. Len(source.files) \in Nat /\ Len(archive) \in Nat
  BY SourceTypes
<1>2. 1 + j \in 1..Len(archive) /\ archive[1 + j] = DataEntry(file)
  BY <1>1, ReadableManifest
<1> HIDE DEF file
<1>3. archive[1 + j].name = file.name
  BY <1>2 DEF DataEntry
<1>4. /\ R!Holds(archive, file.name)
      /\ R!ByName(archive, file.name) = DataEntry(file)
  <2>1. NamesAreUnique(archive)
    BY DEF SourceIsPrefix
  <2> QED
    BY <1>2, <1>3, <2>1, NameFindsPlace
<1>5. /\ ~ R!Is(DataEntry(file), "locked")
      /\ R!Bytes(DataEntry(file)) = file.content
  BY DEF R!Is, R!Bytes, DataEntry
<1> QED
  BY <1>4, <1>5 DEF R!Opens, file

(***************************************************************************)
(* No entry of a container is named like the container in its manifest.    *)
(***************************************************************************)
LEMMA RootIsNoEntry ==
    ASSUME SourceIsPrefix
    PROVE  ~ R!Opens(archive, RootName)
<1>1. /\ Len(source.files) \in Nat /\ Len(archive) \in Nat
      /\ FollowsLayoutToCut(archive, source.files, source.signers)
  BY SourceTypes DEF SourceIsPrefix
<1>2. ASSUME NEW k \in 1..Len(archive)
      PROVE  archive[k].name # RootName
  <2> DEFINE entry == LayoutAt(source.files, source.signers, k)
  <2>1. k \in Nat /\ k # 0
    BY <1>1
  <2>2. archive[k].name = entry.name
    <3>1. archive[k] = entry \/ archive[k] = CutEntry(entry.name)
      BY <1>1, PlacesOfForms
    <3>2. CutEntry(entry.name).name = entry.name
      BY DEF CutEntry
    <3> HIDE DEF entry
    <3> QED
      BY <3>1, <3>2
  <2>3. CASE k = 1
    <3>1. entry = MimetypeEntry
      BY <2>3 DEF LayoutAt
    <3>2. MimetypeEntry.name # RootName
      BY DEF MimetypeEntry, MimetypeName, RootName
    <3> QED
      BY <2>2, <3>1, <3>2
  <2>4. CASE k # 1 /\ k <= 1 + Len(source.files)
    <3>1. k - 1 \in 1..Len(source.files)
      BY <1>1, <2>1, <2>4
    <3>2. entry = DataEntry(source.files[k - 1])
      BY <2>4 DEF LayoutAt
    <3>3. entry.name \in FileNames
      BY <3>1, <3>2, SourceTypes DEF DataEntry
    <3> QED
      BY <2>2, <3>3, SystemAssumption
  <2>5. CASE k = 2 + Len(source.files)
    <3>1. entry = ManifestEntry(source.files)
      BY <1>1, <2>5 DEF LayoutAt
    <3> QED
      BY <2>2, <3>1 DEF ManifestEntry, ManifestName, RootName
  <2>6. CASE k > 2 + Len(source.files)
    <3> DEFINE i == k - 3 - Len(source.files)
               doc == FullSignature(source.files, source.signers[i + 1], i)
    <3>1. k # 1 /\ ~ (k <= 1 + Len(source.files)) /\ k # 2 + Len(source.files)
      BY <1>1, <2>1, <2>6
    <3>2. entry = SignatureEntry(i, doc)
      BY <3>1 DEF LayoutAt
    <3> HIDE DEF i, doc, entry
    <3> QED
      BY <2>2, <3>2 DEF SignatureEntry, SignatureName, RootName
  <2> QED
    BY <1>1, <2>1, <2>3, <2>4, <2>5, <2>6
<1> QED
  BY <1>2, PlaceOfName DEF R!Opens
-----------------------------------------------------------------------------
(***************************************************************************)
(* The reader's steps keep ReaderInv, one action at a time.                *)
(***************************************************************************)
LEMMA OpenKeeps ==
    ASSUME TypeOK, SealedIsPrefix, SealedAreUnique, ReaderInv,
           NEW p \in Paths, OpenPath(p)
    PROVE  ReaderInv'
<1>1. /\ phase = "closed" /\ phase' = "mimetype"
      /\ source' = disk[p] /\ archive' = disk[p].entries
      /\ disk[p].state = "sealed" /\ disk[p] \in DiskFiles
      /\ cursor' = cursor /\ found' = found /\ signatures' = signatures
  BY DEF OpenPath, R!Open, TypeOK
<1>2. SourceIsPrefix'
  BY <1>1 DEF SourceIsPrefix, SealedIsPrefix, SealedAreUnique
<1> QED
  BY <1>1, <1>2 DEF ReaderInv

\* Steps that end the reading, or leave everything the reader has found.
LEMMA EndKeeps ==
    ASSUME ReaderInv, phase' \in {"broken", "error"},
           phase' = "error" => phase # "closed" /\ phase # "broken",
           UNCHANGED <<archive, source>>
    PROVE  ReaderInv'
BY DEF ReaderInv, SourceIsPrefix

LEMMA CheckMimetypeKeeps ==
    ASSUME ReaderInv, R!CheckMimetype, UNCHANGED source
    PROVE  ReaderInv'
<1>1. phase = "mimetype" /\ archive' = archive
      /\ phase' \in {"error", "manifest"}
      /\ cursor' = cursor /\ found' = found /\ signatures' = signatures
  BY DEF R!CheckMimetype, R!Fatal
<1> QED
  BY <1>1 DEF ReaderInv, SourceIsPrefix

LEMMA ReadManifestKeeps ==
    ASSUME ReaderInv, R!ReadManifest, UNCHANGED source
    PROVE  ReaderInv'
<1>1. CASE ~ R!ManifestIsReadable
  BY <1>1, EndKeeps DEF R!ReadManifest, R!Fatal
<1>2. CASE R!ManifestIsReadable
  <2>1. /\ phase = "manifest" /\ phase' = "files"
        /\ archive' = archive /\ cursor' = cursor /\ found' = found
        /\ signatures' = signatures
    BY <1>2 DEF R!ReadManifest
  <2>2. SourceIsPrefix /\ cursor = 0 /\ found = <<>> /\ signatures = <<>>
    BY <2>1 DEF ReaderInv
  <2>3. SourceIsPrefix' /\ R!ManifestIsReadable'
    BY <1>2, <2>1, <2>2 DEF SourceIsPrefix, R!ManifestIsReadable, R!Opens
  <2>4. cursor' \in 0..(1 + Len(source'.files))
    BY <2>1, <2>2, SourceTypes
  <2>5. FilesFound(cursor)'
    BY <2>1, <2>2 DEF FilesFound
  <2> QED
    BY <2>1, <2>2, <2>3, <2>4, <2>5 DEF ReaderInv
<1> QED
  BY <1>1, <1>2

LEMMA ReadFileKeeps ==
    ASSUME ReaderInv, R!ReadFile, UNCHANGED source
    PROVE  ReaderInv'
<1> DEFINE fs == source.files
<1>1. /\ phase = "files" /\ phase' = "files" /\ archive' = archive
      /\ cursor' = cursor + 1 /\ signatures' = signatures
      /\ cursor < Len(R!Listed)
  BY DEF R!ReadFile
<1>2. /\ SourceIsPrefix /\ R!ManifestIsReadable /\ signatures = <<>>
      /\ cursor \in Nat
      /\ ~ OwnManifest => cursor \in 0..(1 + Len(fs)) /\ FilesFound(cursor)
  BY <1>1 DEF ReaderInv
<1>3. SourceIsPrefix' /\ R!ManifestIsReadable'
  BY <1>1, <1>2 DEF SourceIsPrefix, R!ManifestIsReadable, R!Opens
<1>4. ASSUME ~ OwnManifest
      PROVE  cursor' \in 0..(1 + Len(fs)) /\ FilesFound(cursor)'
  <2>1. cursor \in 0..(1 + Len(fs)) /\ FilesFound(cursor)
    BY <1>2, <1>4
  <2>2. Len(fs) \in Nat /\ R!Listed = ManifestPaths(fs)
    BY <1>2, <1>4, SourceTypes, ReadableManifest
  <2>3. Len(R!Listed) = 1 + Len(fs)
    BY <2>2 DEF ManifestPaths
  <2>4. cursor \in Nat /\ cursor <= Len(fs)
    BY <1>1, <2>1, <2>2, <2>3
  <2>5. R!Listed[cursor + 1] = IF cursor = 0 THEN RootName ELSE fs[cursor].name
    <3>1. cursor + 1 \in 1..(1 + Len(fs)) /\ (cursor + 1) - 1 = cursor
          /\ (cursor + 1 = 1 <=> cursor = 0)
      BY <2>2, <2>4
    <3> HIDE DEF fs
    <3> QED
      BY <2>2, <3>1 DEF ManifestPaths
  <2>6. FilesFound(cursor)'
    <3>1. CASE cursor = 0
      <4>1. found' = found
        BY <1>2, <2>5, <3>1, RootIsNoEntry DEF R!ReadFile, R!RootName, RootName
      <4> QED
        BY <1>1, <2>1, <3>1, <4>1 DEF FilesFound
    <3>2. CASE cursor # 0
      <4> DEFINE file == fs[cursor]
      <4>1. cursor \in 1..Len(fs)
        BY <2>2, <2>4, <3>2
      <4>2. /\ R!Opens(archive, file.name)
            /\ R!Bytes(R!ByName(archive, file.name)) = file.content
            /\ file = [name |-> file.name, content |-> file.content]
            /\ file \in Files
        BY <1>2, <1>4, <4>1, FileOpens, SourceTypes
      <4>3. found' = Append(found, file)
        BY <2>5, <3>2, <4>2 DEF R!ReadFile
      <4>4. found \in Seq(Files) /\ Len(found) = cursor - 1
            /\ \A j \in 1..Len(found) : found[j] = fs[j]
        BY <2>1, <3>2 DEF FilesFound
      <4>5. /\ Append(found, file) \in Seq(Files)
            /\ Len(Append(found, file)) = cursor
            /\ \A j \in 1..cursor : Append(found, file)[j] = fs[j]
        <5> HIDE DEF fs
        <5>1. Append(found, file) \in Seq(Files)
              /\ Len(Append(found, file)) = Len(found) + 1
              /\ Append(found, file)[Len(found) + 1] = file
              /\ \A j \in 1..Len(found) : Append(found, file)[j] = found[j]
          <6> HIDE DEF file
          <6>1. file \in Files /\ found \in Seq(Files)
            BY <4>2, <4>4
          <6> QED
            BY <6>1
        <5> QED
          BY <2>4, <4>4, <5>1
      <4> QED
        BY <1>1, <2>4, <3>2, <4>3, <4>5 DEF FilesFound
    <3> QED
      BY <3>1, <3>2
  <2>7. cursor' \in 0..(1 + Len(fs))
    BY <1>1, <2>2, <2>4
  <2> QED
    BY <2>6, <2>7
<1>5. OwnManifest' <=> OwnManifest
  BY DEF OwnManifest
<1>6. cursor' \in Nat
  BY <1>1, <1>2
<1> QED
  BY <1>1, <1>2, <1>3, <1>4, <1>5, <1>6 DEF ReaderInv

LEMMA EndFilesKeeps ==
    ASSUME ReaderInv, R!EndFiles, UNCHANGED source
    PROVE  ReaderInv'
<1> DEFINE fs == source.files
<1>1. /\ phase = "files" /\ phase' = "signatures" /\ archive' = archive
      /\ cursor' = 0 /\ signatures' = signatures /\ found' = found
      /\ cursor >= Len(R!Listed)
  BY DEF R!EndFiles
<1>2. /\ SourceIsPrefix /\ R!ManifestIsReadable /\ signatures = <<>>
      /\ ~ OwnManifest => cursor \in 0..(1 + Len(fs)) /\ FilesFound(cursor)
  BY <1>1 DEF ReaderInv
<1>3. SourceIsPrefix' /\ R!ManifestIsReadable'
  BY <1>1, <1>2 DEF SourceIsPrefix, R!ManifestIsReadable, R!Opens
<1>4. Len(fs) \in Nat /\ fs \in Seq(Files) /\ Len(archive) \in Nat
  BY <1>2, SourceTypes
<1>5. ASSUME ~ OwnManifest
      PROVE  found = fs
  <2>1. R!Listed = ManifestPaths(fs)
    BY <1>2, <1>5, ReadableManifest
  <2>2. Len(R!Listed) = 1 + Len(fs)
    BY <1>4, <2>1 DEF ManifestPaths
  <2>3. cursor = 1 + Len(fs)
    BY <1>1, <1>2, <1>4, <1>5, <2>2
  <2>4. /\ found \in Seq(Files) /\ Len(found) = Len(fs)
        /\ \A j \in 1..Len(found) : found[j] = fs[j]
    BY <1>2, <1>4, <1>5, <2>3 DEF FilesFound
  <2> HIDE DEF fs
  <2> QED
    BY <1>4, <2>4, SeqEqual
<1>6. SignaturesFound(signatures, 0)'
  <2>1. FilesAmong(0)' = 0 /\ SignersAmong(0)' = 0
    BY <1>4 DEF FilesAmong, SignersAmong
  <2>2. OwnSignatures(source.files, 0)' = 0
    BY OneMore
  <2>3. signatures' \in Seq(Judged) /\ Len(signatures') = 0
    BY <1>1, <1>2
  <2> QED
    BY <2>1, <2>2, <2>3 DEF SignaturesFound, OwnFound, FullFound
<1>7. OwnManifest' <=> OwnManifest
  BY DEF OwnManifest
<1> QED
  BY <1>1, <1>2, <1>3, <1>4, <1>5, <1>6, <1>7 DEF ReaderInv

(***************************************************************************)
(* What one more entry adds to the data files and the documents of signers.*)
(***************************************************************************)
LEMMA OneEntryMore ==
    ASSUME Len(source.files) \in Nat, NEW n \in Nat
    PROVE  LET before == 2 + Len(source.files)
           IN  /\ FilesAmong(n) \in 0..Len(source.files)
               /\ SignersAmong(n) \in Nat
               /\ n + 1 = 1 \/ n + 1 = before =>
                     /\ FilesAmong(n + 1) = FilesAmong(n)
                     /\ SignersAmong(n + 1) = SignersAmong(n)
               /\ n \in 1..Len(source.files) =>
                     /\ FilesAmong(n) = n - 1 /\ FilesAmong(n + 1) = n
                     /\ SignersAmong(n) = 0 /\ SignersAmong(n + 1) = 0
               /\ n + 1 > before =>
                     /\ FilesAmong(n + 1) = FilesAmong(n)
                     /\ SignersAmong(n) = n - before
                     /\ SignersAmong(n + 1) = SignersAmong(n) + 1
<1> DEFINE f == Len(source.files)
<1>1. /\ FilesAmong(n) = IF n = 0 THEN 0 ELSE IF n <= 1 + f THEN n - 1 ELSE f
      /\ FilesAmong(n + 1) =
            IF n + 1 = 0 THEN 0
            ELSE IF n + 1 <= 1 + f THEN (n + 1) - 1 ELSE f
      /\ SignersAmong(n) = IF n <= 2 + f THEN 0 ELSE n - (2 + f)
      /\ SignersAmong(n + 1) = IF n + 1 <= 2 + f THEN 0 ELSE (n + 1) - (2 + f)
  BY DEF FilesAmong, SignersAmong
<1>2. f \in Nat
  OBVIOUS
<1> HIDE DEF f
<1>3. FilesAmong(n) \in 0..f /\ SignersAmong(n) \in Nat
  BY <1>1, <1>2
<1>4. n + 1 = 1 \/ n + 1 = 2 + f =>
        FilesAmong(n + 1) = FilesAmong(n) /\ SignersAmong(n + 1) = SignersAmong(n)
  BY <1>1, <1>2
<1>5. n \in 1..f =>
        /\ FilesAmong(n) = n - 1 /\ FilesAmong(n + 1) = n
        /\ SignersAmong(n) = 0 /\ SignersAmong(n + 1) = 0
  BY <1>1, <1>2
<1>6. n + 1 > 2 + f =>
        /\ FilesAmong(n + 1) = FilesAmong(n)
        /\ SignersAmong(n) = n - (2 + f)
        /\ SignersAmong(n + 1) = SignersAmong(n) + 1
  BY <1>1, <1>2
<1> QED
  BY <1>3, <1>4, <1>5, <1>6 DEF f

(***************************************************************************)
(* An entry that is skipped is no data file of a signature's name.         *)
(***************************************************************************)
LEMMA SkipKeepsFound ==
    ASSUME SourceIsPrefix, NEW n \in Nat, n + 1 \in 1..Len(archive),
           R!IsSkipped(archive[n + 1]), SignaturesFound(signatures, n)
    PROVE  SignaturesFound(signatures, n + 1)
<1> DEFINE fs == source.files
<1>1. /\ Len(fs) \in Nat /\ Len(archive) \in Nat
      /\ FollowsLayoutToCut(archive, fs, source.signers)
  BY SourceTypes DEF SourceIsPrefix
<1>2. ~ (n + 1 > 2 + Len(fs)) /\ ~ R!Is(archive[n + 1], "directory")
  BY <1>1, PlacesOfForms
<1>3. CASE n + 1 = 1 \/ n + 1 = 2 + Len(fs)
  <2>1. FilesAmong(n + 1) = FilesAmong(n) /\ SignersAmong(n + 1) = SignersAmong(n)
    BY <1>1, <1>3, OneEntryMore
  <2> QED
    BY <2>1 DEF SignaturesFound
<1>4. CASE n + 1 \in 2..(1 + Len(fs))
  <2>0. /\ n \in 1..Len(fs) /\ n - 1 \in Nat
        /\ (n - 1) + 1 = n /\ 1..n = (1..(n - 1)) \cup {n}
    BY <1>1, <1>4
  <2>1. /\ FilesAmong(n) = n - 1 /\ FilesAmong(n + 1) = n
        /\ SignersAmong(n) = 0 /\ SignersAmong(n + 1) = 0
    BY <1>1, <2>0, OneEntryMore
  <2>2. archive[n + 1].name = fs[n].name
    <3>1. (n + 1) - 1 = n
      OBVIOUS
    <3> QED
      BY <1>1, <1>4, <3>1, PlacesOfForms
  <2>3. ~ IsSignatureName(fs[n].name)
    BY <1>2, <2>2, SameVocabulary DEF R!IsSkipped
  <2>4. OwnSignatures(fs, n) = OwnSignatures(fs, n - 1)
    <3>1. /\ OwnSignatures(fs, n - 1) \in Nat
          /\ OwnSignatures(fs, (n - 1) + 1) =
                OwnSignatures(fs, n - 1)
                  + (IF IsSignatureName(fs[(n - 1) + 1].name) THEN 1 ELSE 0)
      BY <2>0, OneMore
    <3>2. OwnSignatures(fs, n) = OwnSignatures(fs, n - 1) + 0
      BY <2>0, <2>3, <3>1
    <3> QED
      BY <3>1, <3>2
  <2>5. OwnFound(signatures, n)
    <3>1. OwnFound(signatures, n - 1)
      BY <2>1 DEF SignaturesFound
    <3> QED
      BY <2>0, <2>3, <3>1 DEF OwnFound
  <2> QED
    BY <2>1, <2>4, <2>5 DEF SignaturesFound
<1> QED
  BY <1>1, <1>2, <1>3, <1>4

LEMMA OneSignatureMore ==
    ASSUME NEW sigs \in Seq(Judged), NEW judged \in Judged
    PROVE  /\ Append(sigs, judged) \in Seq(Judged)
           /\ Len(Append(sigs, judged)) = Len(sigs) + 1
           /\ Append(sigs, judged)[Len(sigs) + 1] = judged
           /\ \A i \in 1..Len(sigs) : Append(sigs, judged)[i] = sigs[i]
           /\ Len(sigs) \in Nat
OBVIOUS

(***************************************************************************)
(* A data file that is a signature is found where the data files of a      *)
(* signature's name before it are counted.                                 *)
(***************************************************************************)
LEMMA OwnIsFound ==
    ASSUME SourceIsPrefix, NEW n \in Nat, n + 1 \in 2..(1 + Len(source.files)),
           NEW judged \in Judged, SignaturesFound(signatures, n),
           IsSignatureName(source.files[n].name),
           R!IsSignature(DataEntry(source.files[n])),
           judged.doc = OwnDocument(source.files[n])
    PROVE  SignaturesFound(Append(signatures, judged), n + 1)
<1> DEFINE fs == source.files
           more == Append(signatures, judged)
<1>1. Len(fs) \in Nat
  BY SourceTypes
<1>2. /\ FilesAmong(n) = n - 1 /\ FilesAmong(n + 1) = n /\ n - 1 \in Nat
      /\ SignersAmong(n) = 0 /\ SignersAmong(n + 1) = 0
      /\ (n - 1) + 1 = n /\ 1..n = (1..(n - 1)) \cup {n}
  <2>1. /\ n \in 1..Len(fs) /\ n - 1 \in Nat
        /\ (n - 1) + 1 = n /\ 1..n = (1..(n - 1)) \cup {n}
    BY <1>1
  <2> QED
    BY <1>1, <2>1, OneEntryMore
<1>3. /\ OwnSignatures(fs, n - 1) \in Nat
      /\ OwnSignatures(fs, n) = OwnSignatures(fs, n - 1) + 1
  <2>1. /\ OwnSignatures(fs, n - 1) \in Nat
        /\ OwnSignatures(fs, (n - 1) + 1) =
              OwnSignatures(fs, n - 1)
                + (IF IsSignatureName(fs[(n - 1) + 1].name) THEN 1 ELSE 0)
    BY <1>2, OneMore
  <2> QED
    BY <1>2, <2>1
<1>4. /\ signatures \in Seq(Judged)
      /\ Len(signatures) = OwnSignatures(fs, n - 1)
      /\ OwnFound(signatures, n - 1)
  BY <1>2, <1>3 DEF SignaturesFound
<1>5. /\ more \in Seq(Judged) /\ Len(more) = OwnSignatures(fs, n)
      /\ more[OwnSignatures(fs, n)] = judged
      /\ \A i \in 1..Len(signatures) : more[i] = signatures[i]
  BY <1>3, <1>4, OneSignatureMore
<1> HIDE DEF more
<1>6. ASSUME NEW j \in 1..n, IsSignatureName(fs[j].name)
      PROVE  /\ R!IsSignature(DataEntry(fs[j]))
             /\ OwnSignatures(fs, j) \in 1..Len(more)
             /\ more[OwnSignatures(fs, j)].doc = OwnDocument(fs[j])
  <2>1. CASE j = n
    BY <1>3, <1>5, <2>1
  <2>2. CASE j \in 1..(n - 1)
    <3>1. /\ R!IsSignature(DataEntry(fs[j]))
          /\ OwnSignatures(fs, j) \in 1..Len(signatures)
          /\ signatures[OwnSignatures(fs, j)].doc = OwnDocument(fs[j])
      BY <1>4, <1>6, <2>2 DEF OwnFound
    <3> QED
      BY <1>3, <1>4, <1>5, <3>1
  <2> QED
    BY <1>2, <2>1, <2>2
<1>7. OwnFound(more, n)
  BY <1>6 DEF OwnFound
<1>8. FullFound(more, OwnSignatures(fs, n), 0)
  BY DEF FullFound
<1>9. Len(more) = OwnSignatures(fs, n) + 0
  BY <1>3, <1>5
<1> QED
  BY <1>2, <1>5, <1>7, <1>8, <1>9 DEF SignaturesFound, more

(***************************************************************************)
(* A signer's signature is found behind those of the data files.           *)
(***************************************************************************)
LEMMA FullIsFound ==
    ASSUME SourceIsPrefix, NEW n \in Nat, n + 1 > 2 + Len(source.files),
           NEW judged \in Judged, SignaturesFound(signatures, n),
           LET i == n - (2 + Len(source.files))
           IN  judged.doc = FullSignature(source.files, source.signers[i + 1], i)
    PROVE  SignaturesFound(Append(signatures, judged), n + 1)
<1> DEFINE fs == source.files
           i == n - (2 + Len(fs))
           m == FilesAmong(n)
           own == OwnSignatures(fs, m)
           more == Append(signatures, judged)
<1>1. Len(fs) \in Nat
  BY SourceTypes
<1>2. /\ m \in Nat /\ FilesAmong(n + 1) = m
      /\ SignersAmong(n) = i /\ SignersAmong(n + 1) = i + 1 /\ i \in Nat
      /\ judged.doc = FullSignature(fs, source.signers[i + 1], i)
  <2>1. n + 1 > 2 + Len(fs) /\ i \in Nat
    BY <1>1
  <2>2. judged.doc = FullSignature(fs, source.signers[i + 1], i)
    OBVIOUS
  <2>3. m \in 0..Len(fs) /\ FilesAmong(n + 1) = m
    BY <1>1, <2>1, OneEntryMore
  <2>4. SignersAmong(n) = i /\ SignersAmong(n + 1) = i + 1
    BY <1>1, <2>1, OneEntryMore
  <2>5. m \in Nat
    BY <1>1, <2>3
  <2> HIDE DEF m, i
  <2> QED
    BY <2>1, <2>2, <2>3, <2>4, <2>5
<1> HIDE DEF m, i
<1>3. own \in Nat
  BY <1>2, OneMore
<1>4. /\ signatures \in Seq(Judged) /\ Len(signatures) = own + i
      /\ OwnFound(signatures, m) /\ FullFound(signatures, own, i)
  BY <1>2 DEF SignaturesFound, m
<1> HIDE DEF own
<1>5. /\ more \in Seq(Judged) /\ Len(more) = own + (i + 1)
      /\ more[own + (i + 1)] = judged
      /\ \A j \in 1..Len(signatures) : more[j] = signatures[j]
  <2>1. Len(signatures) + 1 = own + (i + 1)
    BY <1>2, <1>3, <1>4
  <2> QED
    BY <1>4, <2>1, OneSignatureMore
<1> HIDE DEF more
<1>6. OwnFound(more, m)
  BY <1>2, <1>3, <1>4, <1>5 DEF OwnFound
<1>7. ASSUME NEW j \in 1..(i + 1)
      PROVE  more[own + j].doc = FullSignature(fs, source.signers[j], j - 1)
  <2>1. CASE j = i + 1
    <3>1. j - 1 = i
      BY <1>2, <2>1
    <3> QED
      BY <1>2, <1>5, <2>1, <3>1
  <2>2. CASE j \in 1..i
    <3>1. own + j \in 1..Len(signatures)
      BY <1>2, <1>3, <1>4, <2>2
    <3> QED
      BY <1>4, <1>5, <2>2, <3>1 DEF FullFound
  <2> QED
    BY <1>2, <2>1, <2>2
<1>8. FullFound(more, own, i + 1)
  BY <1>7 DEF FullFound
<1> QED
  BY <1>2, <1>5, <1>6, <1>8 DEF SignaturesFound, more, own

(***************************************************************************)
(* A signature that is judged is one or the other.                         *)
(***************************************************************************)
LEMMA JudgeKeepsFound ==
    ASSUME SourceIsPrefix, NEW n \in Nat, n + 1 \in 1..Len(archive),
           R!JudgeSignature(archive[n + 1]), SignaturesFound(signatures, n)
    PROVE  SignaturesFound(signatures', n + 1)
<1> DEFINE fs == source.files
           ss == source.signers
           entry == archive[n + 1]
           doc == R!AsText(entry).doc
           valid == ~ R!IsUnsupported(doc) /\ R!VerifySignature(doc, found)
           judged == [doc |-> doc, valid |-> valid]
<1>1. /\ Len(fs) \in Nat /\ Len(archive) \in Nat
      /\ FollowsLayoutToCut(archive, fs, ss) /\ entry \in Entries
  BY SourceTypes DEF SourceIsPrefix
<1>2. /\ R!IsSignature(entry) /\ R!Is(R!AsText(entry), "doc")
      /\ ~ R!IsSkipped(entry)
      /\ signatures' = Append(signatures, judged)
  BY DEF R!JudgeSignature, R!IsSignature
<1>3. judged \in Judged
  <2>1. doc \in Documents
    BY <1>1, <1>2, SignatureIsDocument
  <2>2. valid \in BOOLEAN
    OBVIOUS
  <2> HIDE DEF doc, valid
  <2> QED
    BY <2>1, <2>2 DEF Judged
<1>4. judged.doc = doc
  OBVIOUS
<1>5. \/ /\ n + 1 > 2 + Len(fs) /\ entry = LayoutAt(fs, ss, n + 1)
         /\ R!AsText(entry) = entry
      \/ n + 1 \in 2..(1 + Len(fs)) /\ entry = DataEntry(fs[(n + 1) - 1])
  BY <1>1, <1>2, PlacesOfForms
<1> HIDE DEF judged, doc
<1>6. CASE n + 1 \in 2..(1 + Len(fs)) /\ entry = DataEntry(fs[(n + 1) - 1])
  <2>1. (n + 1) - 1 = n /\ entry = DataEntry(fs[n]) /\ entry.name = fs[n].name
    BY <1>6 DEF DataEntry
  <2>2. IsSignatureName(fs[n].name)
    BY <1>2, <2>1, SameVocabulary DEF R!IsSkipped
  <2>3. doc = OwnDocument(fs[n])
    BY <2>1 DEF OwnDocument, doc
  <2> QED
    BY <1>2, <1>3, <1>4, <1>6, <2>1, <2>2, <2>3, OwnIsFound
<1>7. CASE /\ n + 1 > 2 + Len(fs) /\ entry = LayoutAt(fs, ss, n + 1)
           /\ R!AsText(entry) = entry
  <2> DEFINE i == n - (2 + Len(fs))
  <2>1. /\ n + 1 # 1 /\ ~ (n + 1 <= 1 + Len(fs)) /\ n + 1 # 2 + Len(fs)
        /\ (n + 1) - 3 - Len(fs) = i
    BY <1>1, <1>7
  <2>2. entry = SignatureEntry(i, FullSignature(fs, ss[i + 1], i))
    <3> HIDE DEF fs, ss
    <3> QED
      BY <1>7, <2>1 DEF LayoutAt
  <2> HIDE DEF i
  <2>3. judged.doc = FullSignature(fs, ss[i + 1], i)
    BY <1>4, <1>7, <2>2 DEF SignatureEntry, doc
  <2> QED
    BY <1>2, <1>3, <1>7, <2>3, FullIsFound DEF i
<1> QED
  BY <1>5, <1>6, <1>7

\* What was found is counted over the file that was opened, which stays.
LEMMA FoundNext ==
    ASSUME UNCHANGED source, SignaturesFound(signatures', cursor + 1),
           cursor' = cursor + 1
    PROVE  SignaturesFound(signatures, cursor)'
BY DEF SignaturesFound, OwnFound, FullFound, FilesAmong, SignersAmong

LEMMA ReadEntryKeeps ==
    ASSUME ReaderInv, R!ReadEntry, UNCHANGED source
    PROVE  ReaderInv'
<1> DEFINE k == cursor + 1
           entry == archive[cursor + 1]
<1>1. phase = "signatures" /\ cursor < Len(archive)
  BY DEF R!ReadEntry
<1>2. /\ SourceIsPrefix /\ R!ManifestIsReadable
      /\ ~ OwnManifest => found = source.files
      /\ cursor \in 0..Len(archive)
      /\ errors = {} => SignaturesFound(signatures, cursor)
  BY <1>1 DEF ReaderInv
<1>3. Len(archive) \in Nat
  BY <1>2, SourceTypes
<1>4. cursor \in Nat /\ k \in 1..Len(archive)
  BY <1>1, <1>2, <1>3
<1>5. ASSUME archive' = archive, phase' = phase, found' = found, cursor' = k,
             errors' = {} => SignaturesFound(signatures', k)
      PROVE  ReaderInv'
  <2>1. SourceIsPrefix' /\ R!ManifestIsReadable'
    BY <1>2, <1>5 DEF SourceIsPrefix, R!ManifestIsReadable, R!Opens
  <2>2. cursor' \in 0..Len(archive')
    BY <1>3, <1>4, <1>5
  <2>3. OwnManifest' <=> OwnManifest
    BY DEF OwnManifest
  <2>4. errors' = {} => SignaturesFound(signatures, cursor)'
    BY <1>5, FoundNext
  <2> QED
    BY <1>1, <1>2, <1>5, <2>1, <2>2, <2>3, <2>4 DEF ReaderInv
<1>6. CASE R!SkipEntry(entry)
  <2>1. /\ archive' = archive /\ phase' = phase /\ found' = found
        /\ cursor' = k /\ signatures' = signatures /\ errors' = errors
        /\ R!IsSkipped(entry)
    BY <1>6 DEF R!SkipEntry
  <2>2. errors' = {} => SignaturesFound(signatures, k)
    BY <1>2, <1>4, <2>1, SkipKeepsFound
  <2> QED
    BY <1>5, <2>1, <2>2
<1>7. CASE R!RejectEntry(entry)
  <2>1. /\ archive' = archive /\ phase' = phase /\ found' = found
        /\ cursor' = k /\ errors' # {}
    BY <1>7 DEF R!RejectEntry
  <2> QED
    BY <1>5, <2>1
<1>8. CASE R!JudgeSignature(entry)
  <2>1. /\ archive' = archive /\ phase' = phase /\ found' = found
        /\ cursor' = k /\ (errors' = {} => errors = {})
    BY <1>8 DEF R!JudgeSignature
  <2>2. errors' = {} => SignaturesFound(signatures', k)
    BY <1>2, <1>4, <1>8, <2>1, JudgeKeepsFound
  <2> QED
    BY <1>5, <2>1, <2>2
<1>9. CASE R!FailOnEntry(entry)
  BY <1>1, <1>9, EndKeeps DEF R!FailOnEntry, R!Fatal
<1> QED
  BY <1>6, <1>7, <1>8, <1>9 DEF R!ReadEntry

LEMMA ConcludeKeeps ==
    ASSUME ReaderInv, R!Conclude, UNCHANGED source
    PROVE  ReaderInv'
<1>1. /\ phase = "signatures" /\ phase' = "done" /\ archive' = archive
      /\ cursor >= Len(archive) /\ cursor' = cursor /\ found' = found
      /\ signatures' = signatures
      /\ verdict' => errors = {} /\ signatures # <<>>
  BY DEF R!Conclude
<1>2. /\ SourceIsPrefix /\ R!ManifestIsReadable
      /\ ~ OwnManifest => found = source.files
      /\ cursor \in 0..Len(archive)
      /\ errors = {} => SignaturesFound(signatures, cursor)
  BY <1>1 DEF ReaderInv
<1>3. cursor = Len(archive)
  BY <1>1, <1>2, SourceTypes
<1>4. SourceIsPrefix' /\ R!ManifestIsReadable'
  BY <1>1, <1>2 DEF SourceIsPrefix, R!ManifestIsReadable, R!Opens
<1>5. verdict' => signatures' # <<>> /\ SignaturesFound(signatures, Len(archive))'
  BY <1>1, <1>2, <1>3
     DEF SignaturesFound, OwnFound, FullFound, FilesAmong, SignersAmong
<1>6. OwnManifest' <=> OwnManifest
  BY DEF OwnManifest
<1> QED
  BY <1>1, <1>2, <1>4, <1>5, <1>6 DEF ReaderInv

LEMMA ReaderStepKeeps ==
    ASSUME TypeOK, SealedIsPrefix, SealedAreUnique, ReaderInv, ReaderStep
    PROVE  ReaderInv'
<1>1. ASSUME NEW p \in Paths, OpenUnreadable(p)
      PROVE  ReaderInv'
  BY <1>1, EndKeeps DEF OpenUnreadable, R!OpenFails
<1>2. CASE R!ReadFails /\ UNCHANGED source
  BY <1>2, EndKeeps DEF R!ReadFails
<1>3. CASE R!Advance /\ UNCHANGED source
  BY <1>3, CheckMimetypeKeeps, ReadManifestKeeps, ReadFileKeeps,
     EndFilesKeeps, ReadEntryKeeps, ConcludeKeeps DEF R!Advance
<1> QED
  BY <1>1, <1>2, <1>3, OpenKeeps DEF ReaderStep, R!Read

LEMMA ReaderKeptByBuilders ==
    ASSUME ReaderInv, UNCHANGED readerState
    PROVE  ReaderInv'
<1>1. /\ archive' = archive /\ phase' = phase /\ cursor' = cursor
      /\ found' = found /\ signatures' = signatures /\ errors' = errors
      /\ verdict' = verdict /\ source' = source
  BY DEF readerState
<1>2. SourceIsPrefix => SourceIsPrefix'
  BY <1>1 DEF SourceIsPrefix
<1>3. R!ManifestIsReadable => R!ManifestIsReadable'
  BY <1>1 DEF R!ManifestIsReadable, R!Opens
<1>4. FilesFound(cursor) => FilesFound(cursor)'
  BY <1>1 DEF FilesFound
<1>5. /\ SignaturesFound(signatures, cursor)
           => SignaturesFound(signatures, cursor)'
      /\ SignaturesFound(signatures, Len(archive))
           => SignaturesFound(signatures, Len(archive))'
  BY <1>1 DEF SignaturesFound, OwnFound, FullFound, FilesAmong, SignersAmong
<1>6. OwnManifest' <=> OwnManifest
  BY <1>1 DEF OwnManifest
<1> QED
  BY <1>1, <1>2, <1>3, <1>4, <1>5, <1>6 DEF ReaderInv
-----------------------------------------------------------------------------
(***************************************************************************)
(* A writer of archives never gives two entries one name, so that a reader *)
(* finds every entry that was written.                                     *)
(***************************************************************************)
LEMMA StepKeepsUnique ==
    ASSUME IInv, SealedAreUnique, [Next]_vars
    PROVE  SealedAreUnique'
<1>1. CASE UNCHANGED vars
  BY <1>1 DEF vars, SealedAreUnique
<1>2. ASSUME NEW b \in Builders, StepOf(b), NEW p \in Paths,
             disk'[p].state = "sealed"
      PROVE  NamesAreUnique(disk'[p].entries)
  <2>1. TypeOK /\ NamesAreUnique(zip[b])
    BY DEF IInv, CallInv, ZipContents
  <2>2. disk[p] \in DiskFiles
    BY <2>1 DEF TypeOK
  <2>3. /\ [disk[p] EXCEPT !.state = "torn"].state = "torn"
        /\ [disk[p] EXCEPT !.state = "sealed", !.entries = zip[b]].entries
              = zip[b]
    BY <2>2 DEF DiskFiles
  <2>4. CASE disk' = disk
    BY <1>2, <2>4 DEF SealedAreUnique
  <2>5. CASE Touched(b)
    BY <1>2, <2>1, <2>3, <2>5, TouchedFile DEF SealedAreUnique
  <2>6. CASE Sealed(b)
    BY <1>2, <2>1, <2>3, <2>6, SealedFile DEF SealedAreUnique
  <2>7. ASSUME NEW q \in Paths, Create(b, q)
        PROVE  NamesAreUnique(disk'[p].entries)
    BY <1>2, <2>1, <2>7 DEF Create, TypeOK, SealedAreUnique
  <2> QED
    BY <1>2, <2>4, <2>5, <2>6, <2>7, DiskSteps
<1> QED
  BY <1>1, <1>2 DEF Next, StepOf, SealedAreUnique

SystemInv == IInv /\ SealedAreUnique /\ ReaderInv

LEMMA InitSystemInv == SystemInit => SystemInv
<1> SUFFICES ASSUME SystemInit
             PROVE  SystemInv
  OBVIOUS
<1>1. IInv
  BY InitIInv DEF SystemInit
<1>2. SealedAreUnique
  BY DEF SystemInit, Init, Absent, SealedAreUnique
<1>3. ReaderInv
  BY DEF SystemInit, R!ReaderInit, ReaderInv
<1> QED
  BY <1>1, <1>2, <1>3 DEF SystemInv

LEMMA NextSystemInv == SystemInv /\ [SystemNext]_systemVars => SystemInv'
<1> SUFFICES ASSUME SystemInv, [SystemNext]_systemVars
             PROVE  SystemInv'
  OBVIOUS
<1>1. IInv /\ SealedAreUnique /\ ReaderInv /\ TypeOK /\ SealedIsPrefix
  BY DEF SystemInv, IInv
<1>2. CASE ReaderStep
  <2>1. UNCHANGED vars
    BY <1>2 DEF ReaderStep, OpenPath, OpenUnreadable
  <2>2. IInv' /\ SealedAreUnique'
    BY <1>1, <2>1, NextIInv, StepKeepsUnique
  <2> QED
    BY <1>1, <1>2, <2>2, ReaderStepKeeps DEF SystemInv
<1>3. CASE [Next]_vars /\ UNCHANGED readerState
  BY <1>1, <1>3, NextIInv, StepKeepsUnique, ReaderKeptByBuilders DEF SystemInv
<1> QED
  BY <1>2, <1>3 DEF SystemNext, BuilderStep, systemVars
-----------------------------------------------------------------------------
(***************************************************************************)
(* A data file of the manifest's name keeps a container from growing to    *)
(* its own manifest, so that no signer has come to sign it.                *)
(***************************************************************************)
LEMMA OwnManifestEnds ==
    ASSUME SourceIsPrefix, R!ManifestIsReadable, OwnManifest
    PROVE  LET m == FilesAmong(Len(archive))
           IN  /\ SignersAmong(Len(archive)) = 0
               /\ ManifestName \in NamesOf(SubSeq(source.files, 1, m))
<1> DEFINE fs == source.files
           m == FilesAmong(Len(archive))
<1>1. /\ Len(fs) \in Nat /\ Len(archive) \in Nat /\ NamesAreUnique(archive)
      /\ FollowsLayoutToCut(archive, fs, source.signers)
      /\ fs \in Seq(Files)
  BY SourceTypes DEF SourceIsPrefix
<1>2. PICK j \in 1..Len(fs) : fs[j].name = ManifestName
  BY DEF OwnManifest
<1>3. Len(archive) <= 1 + Len(fs)
  <2> SUFFICES ASSUME Len(archive) >= 2 + Len(fs)
               PROVE  FALSE
    BY <1>1
  <2>1. /\ j + 1 \in 1..Len(archive) /\ j + 1 \in 2..(1 + Len(fs))
        /\ 2 + Len(fs) \in 1..Len(archive) /\ j + 1 # 2 + Len(fs)
        /\ (j + 1) - 1 = j
    BY <1>1
  <2>2. archive[j + 1].name = fs[(j + 1) - 1].name
    BY <1>1, <2>1, PlacesOfForms
  <2>3. archive[2 + Len(fs)].name = ManifestName
    BY <1>1, <2>1, PlacesOfForms
  <2>4. archive[j + 1].name = archive[2 + Len(fs)].name
    BY <1>2, <2>1, <2>2, <2>3
  <2> HIDE DEF fs
  <2> QED
    BY <1>1, <2>1, <2>4 DEF NamesAreUnique
<1>4. PICK k \in 1..Len(archive) : archive[k].name = ManifestName
  BY PlaceOfName, SameVocabulary DEF R!ManifestIsReadable, R!Opens
<1>5. k # 1
  <2>1. k = 1 => archive[k].name = MimetypeName
    BY <1>1, PlacesOfForms
  <2> QED
    BY <1>4, <2>1 DEF ManifestName, MimetypeName
<1>6. k \in 2..(1 + Len(fs)) /\ Len(archive) # 0
  BY <1>1, <1>3, <1>5
<1>7. fs[k - 1].name = ManifestName
  BY <1>1, <1>4, <1>6, PlacesOfForms
<1>8. m = Len(archive) - 1 /\ SignersAmong(Len(archive)) = 0
  BY <1>1, <1>3, <1>6 DEF FilesAmong, SignersAmong
<1>9. k - 1 \in 1..m /\ m \in 0..Len(fs)
  BY <1>1, <1>3, <1>6, <1>8
<1> HIDE DEF m, fs
<1>10. Len(SubSeq(fs, 1, m)) = m /\ SubSeq(fs, 1, m)[k - 1] = fs[k - 1]
  BY <1>1, <1>9
<1> QED
  BY <1>7, <1>8, <1>9, <1>10 DEF NamesOf, m, fs

LEMMA HowManyFollow ==
    ASSUME NEW f \in Nat, NEW s \in Nat, NEW size \in Nat, size <= 2 + f + s,
           NEW n, n = IF size <= 2 + f THEN 0 ELSE size - (2 + f)
    PROVE  n <= s
OBVIOUS

(***************************************************************************)
(* A container that the reader reports valid is the work of one call,      *)
(* signed by the first of its signers or by documents that the caller had  *)
(* among its data files, whatever builders do meanwhile and however they   *)
(* fail: for any builders, paths, files and signers, any overlap of calls, *)
(* and whatever of the data files' bytes can be read as a signature or as  *)
(* a manifest.                                                             *)
(***************************************************************************)
THEOREM ValidContainersAreSigned == SystemSpec => []ValidIsSigned
<1>1. SystemInv => ValidIsSigned
  <2> SUFFICES ASSUME SystemInv, phase = "done", verdict
               PROVE  ValidIsSigned
    BY DEF ValidIsSigned
  <2> DEFINE fs == source.files
             size == Len(archive)
             m == FilesAmong(size)
             n == SignersAmong(size)
             own == OwnSignatures(fs, m)
  <2>1. /\ SourceIsPrefix /\ R!ManifestIsReadable /\ signatures # <<>>
        /\ ~ OwnManifest => found = fs
        /\ SignaturesFound(signatures, size)
    BY DEF SystemInv, ReaderInv
  <2>2. /\ size \in Nat /\ Len(fs) \in Nat /\ Len(source.signers) \in Nat
        /\ size <= 2 + Len(fs) + Len(source.signers)
    BY <2>1, SourceTypes DEF SourceIsPrefix, FollowsLayoutToCut, LayoutSize
  <2>3. m \in 0..Len(fs) /\ n \in 0..Len(source.signers)
    <3>1. m \in 0..Len(fs) /\ n \in Nat
      BY <2>2, OneEntryMore
    <3>2. n = IF size <= 2 + Len(fs) THEN 0 ELSE size - (2 + Len(fs))
      BY DEF SignersAmong
    <3>3. n <= Len(source.signers)
      <4> HIDE DEF n, size
      <4> QED
        BY <2>2, <3>2, HowManyFollow
    <3> HIDE DEF n
    <3> QED
      BY <2>2, <3>1, <3>3
  <2>4. /\ signatures \in Seq(Judged) /\ Len(signatures) = own + n
        /\ OwnFound(signatures, m) /\ FullFound(signatures, own, n)
    BY <2>1 DEF SignaturesFound
  <2>5. own \in Nat
    BY <2>2, <2>3, OneMore
  <2>6. own + n > 0
    <3>1. Len(signatures) \in Nat /\ Len(signatures) # 0
      BY <2>1, <2>4
    <3> HIDE DEF own, n
    <3> QED
      BY <2>4, <3>1
  <2>7. CASE ~ OwnManifest
    <3>1. size >= 2 + Len(fs)
      BY <2>1, <2>7, ReadableManifest
    <3>2. m = Len(fs)
      BY <2>2, <3>1 DEF FilesAmong
    <3> QED
      BY <2>1, <2>3, <2>4, <2>6, <2>7, <3>2
         DEF ValidIsSigned, OwnFound, FullFound
  <2>8. CASE OwnManifest
    <3>1. n = 0 /\ ManifestName \in NamesOf(SubSeq(fs, 1, m))
      BY <2>1, <2>8, OwnManifestEnds
    <3> QED
      BY <2>3, <2>4, <2>6, <3>1 DEF ValidIsSigned, OwnFound, FullFound
  <2> QED
    BY <2>7, <2>8
<1> QED
  BY <1>1, InitSystemInv, NextSystemInv, PTL DEF SystemSpec
-----------------------------------------------------------------------------
(***************************************************************************)
(* A whole container is accepted: no step of the reader finds an error in  *)
(* it, so that the reading ends in a verdict and the verdict is that it is *)
(* valid.                                                                  *)
(***************************************************************************)
IsRoundTrip ==
    IsComplete(source) /\ IsProperlySigned(source) /\ Len(source.files) = 1

NothingWrong ==
    /\ phase # "error" /\ errors = {}
    /\ \A i \in 1..Len(signatures) : signatures[i].valid
    /\ phase = "done" => verdict

AcceptInv ==
    /\ phase = "closed" => errors = {} /\ signatures = <<>>
    /\ (phase \notin {"closed", "broken"} /\ IsRoundTrip) => NothingWrong

\* Its entries: a mimetype, the data file, the manifest and the signatures.
LEMMA WholeContainer ==
    ASSUME SourceIsPrefix, IsRoundTrip
    PROVE  /\ Len(source.signers) \in Nat \ {0}
           /\ Len(archive) = 3 + Len(source.signers)
           /\ archive[1] = MimetypeEntry
           /\ archive[2] = DataEntry(source.files[1])
           /\ archive[3] = ManifestEntry(source.files)
           /\ \A k \in 4..Len(archive) :
                 archive[k] = SignatureEntry(k - 4,
                    FullSignature(source.files, source.signers[k - 3], k - 4))
           /\ ~ OwnManifest
<1> DEFINE fs == source.files
           ss == source.signers
<1>1. /\ Len(fs) = 1 /\ Len(ss) \in Nat /\ Len(archive) = 2 + Len(fs) + Len(ss)
      /\ \A k \in 1..Len(archive) : archive[k] = LayoutAt(fs, ss, k)
  BY SourceTypes
     DEF IsRoundTrip, IsComplete, FollowsLayout, LayoutSize, SourceIsPrefix
<1>2. Len(ss) # 0
  <2>1. ss \in Seq(Signers) /\ ss # <<>>
    BY DEF SourceIsPrefix, DiskFiles, IsRoundTrip, IsProperlySigned
  <2> QED
    BY <2>1
<1> HIDE DEF fs, ss
<1>3. LayoutAt(fs, ss, 1) = MimetypeEntry /\ 1 \in 1..Len(archive)
  BY <1>1 DEF LayoutAt
<1>4. LayoutAt(fs, ss, 2) = DataEntry(fs[1]) /\ 2 \in 1..Len(archive)
  BY <1>1 DEF LayoutAt
<1>5. LayoutAt(fs, ss, 3) = ManifestEntry(fs) /\ 3 \in 1..Len(archive)
  BY <1>1 DEF LayoutAt
<1>6. ASSUME NEW k \in 4..Len(archive)
      PROVE  archive[k]
               = SignatureEntry(k - 4, FullSignature(fs, ss[k - 3], k - 4))
  <2>1. /\ k # 1 /\ ~ (k <= 1 + Len(fs)) /\ k # 2 + Len(fs)
        /\ k - 3 - Len(fs) = k - 4 /\ (k - 4) + 1 = k - 3
        /\ k \in 1..Len(archive)
    BY <1>1
  <2> QED
    BY <1>1, <2>1 DEF LayoutAt
<1>7. ~ OwnManifest
  <2>1. /\ archive[2] = DataEntry(fs[1]) /\ archive[3] = ManifestEntry(fs)
        /\ 2 \in 1..Len(archive) /\ 3 \in 1..Len(archive)
    BY <1>1, <1>4, <1>5
  <2>2. archive[2].name = fs[1].name /\ archive[3].name = ManifestName
    BY <2>1 DEF DataEntry, ManifestEntry
  <2>3. NamesAreUnique(archive)
    BY DEF SourceIsPrefix
  <2>4. fs[1].name # ManifestName
    BY <2>1, <2>2, <2>3 DEF NamesAreUnique
  <2>5. \A j \in 1..Len(fs) : j = 1
    BY <1>1
  <2> QED
    BY <2>4, <2>5 DEF OwnManifest, fs
<1> QED
  BY <1>1, <1>2, <1>3, <1>4, <1>5, <1>6, <1>7 DEF fs, ss

LEMMA FullIsAccepted ==
    ASSUME NEW fs, Len(fs) = 1, ~ IsFragment(fs[1].name),
           NEW signer, signer.cert = "match", signer.time = "within", NEW i
    PROVE  LET doc == FullSignature(fs, signer, i)
           IN  /\ R!ParsesAsSignature(doc) /\ ~ R!IsUnsupported(doc)
               /\ R!VerifySignature(doc, fs)
               /\ R!SignatureErrors(doc, fs) = {}
<1> DEFINE doc == FullSignature(fs, signer, i)
<1>1. /\ doc.refs = [k \in 1..1 |->
                        [uri |-> fs[k].name, digest |-> fs[k].content]]
      /\ doc.formats = 1 /\ doc.cert = "match" /\ doc.time = "within"
      /\ doc.intact = TRUE
  BY DEF FullSignature, BuildXadesBasicSignature
<1> HIDE DEF doc
<1>2. /\ Len(doc.refs) = 1
      /\ doc.refs[1] = [uri |-> fs[1].name, digest |-> fs[1].content]
  BY <1>1
<1>3. R!Resolves(fs, doc.refs[1])
  BY <1>2 DEF R!Resolves
<1>4. R!VerifySignature(doc, fs)
  <2>1. ASSUME NEW k \in 1..Len(doc.refs)
        PROVE  k = 1
    BY <1>2
  <2> QED
    BY <1>1, <1>2, <1>3, <2>1 DEF R!VerifySignature, R!IsFragment, IsFragment
<1> QED
  BY <1>1, <1>4 DEF R!ParsesAsSignature, R!IsUnsupported, R!SignatureErrors, doc

\* What each position of such a container is to the signature loop.
LEMMA EntriesOfWhole ==
    ASSUME SourceIsPrefix, IsRoundTrip, found = source.files,
           NEW k \in 1..Len(archive)
    PROVE  \/ k <= 3 /\ R!IsSkipped(archive[k])
           \/ LET text == R!AsText(archive[k])
              IN  /\ R!IsSignature(archive[k]) /\ ~ R!IsBinary(archive[k])
                  /\ ~ R!IsUnsupported(text.doc)
                  /\ R!VerifySignature(text.doc, found)
                  /\ R!SignatureErrors(text.doc, found) = {}
<1> DEFINE fs == source.files
           ss == source.signers
<1>1. Len(fs) = 1 /\ Len(ss) \in Nat /\ Len(archive) = 3 + Len(ss)
  BY WholeContainer DEF IsRoundTrip
<1>2. /\ ~ IsFragment(fs[1].name) /\ ~ IsSignatureName(fs[1].name)
      /\ \A i \in 1..Len(ss) : ss[i].cert = "match" /\ ss[i].time = "within"
  BY <1>1 DEF IsRoundTrip, IsProperlySigned
<1>3. CASE k = 1
  BY <1>3, WholeContainer
     DEF R!IsSkipped, R!IsSignatureName, MimetypeEntry, MimetypeName
<1>4. CASE k = 2
  BY <1>2, <1>4, WholeContainer
     DEF R!IsSkipped, R!IsSignatureName, IsSignatureName, DataEntry
<1>5. CASE k = 3
  BY <1>5, WholeContainer
     DEF R!IsSkipped, R!IsSignatureName, ManifestEntry, ManifestName
<1>6. CASE k \in 4..Len(archive)
  <2> DEFINE doc == FullSignature(fs, ss[k - 3], k - 4)
  <2>1. archive[k] = SignatureEntry(k - 4, doc)
    BY <1>6, WholeContainer
  <2>2. k - 3 \in 1..Len(ss)
    BY <1>1, <1>6
  <2>3. /\ R!ParsesAsSignature(doc) /\ ~ R!IsUnsupported(doc)
        /\ R!VerifySignature(doc, fs) /\ R!SignatureErrors(doc, fs) = {}
    BY <1>1, <1>2, <2>2, FullIsAccepted
  <2> HIDE DEF doc
  <2>4. /\ archive[k].doc = doc /\ R!Is(archive[k], "doc")
        /\ ~ R!Is(archive[k], "content") /\ ~ R!Is(archive[k], "binary")
    BY <2>1 DEF SignatureEntry, R!Is
  <2>5. R!AsText(archive[k]) = archive[k]
    BY <2>4, OnlyDataIsText
  <2> QED
    BY <2>3, <2>4, <2>5 DEF R!IsSignature, R!IsBinary
<1> QED
  BY <1>1, <1>3, <1>4, <1>5, <1>6

\* Steps of the reader that leave its errors and its signatures alone.
LEMMA QuietStepAccepts ==
    ASSUME AcceptInv, phase \notin {"closed", "broken", "done"},
           phase' \notin {"error", "done", "closed"},
           UNCHANGED <<errors, signatures, source>>
    PROVE  AcceptInv'
BY DEF AcceptInv, NothingWrong, IsRoundTrip

LEMMA CheckMimetypeAccepts ==
    ASSUME AcceptInv, ReaderInv, R!CheckMimetype, UNCHANGED source
    PROVE  AcceptInv'
<1>1. /\ phase = "mimetype" /\ phase' \in {"error", "manifest"}
      /\ signatures' = signatures
  BY DEF R!CheckMimetype, R!Fatal
<1>2. SourceIsPrefix
  BY <1>1 DEF ReaderInv
<1>3. ASSUME IsRoundTrip
      PROVE  phase' = "manifest" /\ errors' = errors
  <2>1. /\ archive[1] = MimetypeEntry /\ 1 \in 1..Len(archive)
        /\ NamesAreUnique(archive)
    BY <1>2, <1>3, WholeContainer DEF SourceIsPrefix
  <2>2. /\ R!Holds(archive, MimetypeName)
        /\ R!ByName(archive, MimetypeName) = MimetypeEntry
    <3>1. archive[1].name = MimetypeName
      BY <2>1 DEF MimetypeEntry
    <3> QED
      BY <2>1, <3>1, NameFindsPlace
  <2>3. /\ ~ R!Is(MimetypeEntry, "locked") /\ ~ R!Is(MimetypeEntry, "binary")
        /\ R!Is(MimetypeEntry, "mimetype") /\ MimetypeEntry.mimetype = AsicE
        /\ R!AsText(MimetypeEntry) = MimetypeEntry
    BY DEF R!Is, R!AsText, MimetypeEntry
  <2>4. R!MimetypeName = MimetypeName /\ R!AsicE = AsicE
    BY DEF R!MimetypeName, MimetypeName, R!AsicE, AsicE
  <2>5. R!Opens(archive, R!MimetypeName)
    BY <2>2, <2>3, <2>4 DEF R!Opens
  <2>6. R!MimetypeErrors = {}
    BY <2>2, <2>3, <2>4, <2>5 DEF R!MimetypeErrors
  <2> QED
    BY <2>2, <2>3, <2>4, <2>6 DEF R!CheckMimetype
<1> QED
  BY <1>1, <1>3 DEF AcceptInv, NothingWrong, IsRoundTrip

LEMMA ReadManifestAccepts ==
    ASSUME AcceptInv, ReaderInv, R!ReadManifest, UNCHANGED source
    PROVE  AcceptInv'
<1>1. /\ phase = "manifest" /\ errors' = errors /\ signatures' = signatures
      /\ phase' = IF R!ManifestIsReadable THEN "files" ELSE "error"
  BY DEF R!ReadManifest, R!Fatal
<1>2. SourceIsPrefix
  BY <1>1 DEF ReaderInv
<1>3. ASSUME IsRoundTrip
      PROVE  R!ManifestIsReadable
  <2> DEFINE entry == ManifestEntry(source.files)
  <2>1. archive[3] = entry /\ 3 \in 1..Len(archive) /\ NamesAreUnique(archive)
    BY <1>2, <1>3, WholeContainer DEF SourceIsPrefix
  <2>2. /\ entry.name = R!ManifestName
        /\ ~ R!Is(entry, "locked") /\ R!Is(entry, "paths")
        /\ R!AsText(entry) = entry
    BY DEF ManifestEntry, ManifestName, R!ManifestName, R!Is, R!AsText
  <2> HIDE DEF entry
  <2>3. /\ R!Holds(archive, R!ManifestName)
        /\ R!ByName(archive, R!ManifestName) = entry
    BY <2>1, <2>2, NameFindsPlace
  <2> QED
    BY <2>2, <2>3 DEF R!ManifestIsReadable, R!Opens
<1> QED
  BY <1>1, <1>3 DEF AcceptInv, NothingWrong, IsRoundTrip

LEMMA ReadEntryAccepts ==
    ASSUME AcceptInv, ReaderInv, R!ReadEntry, UNCHANGED source
    PROVE  AcceptInv'
<1> DEFINE entry == archive[cursor + 1]
           doc == R!AsText(entry).doc
<1>1. /\ phase = "signatures" /\ cursor < Len(archive)
      /\ phase' \in {"error", "signatures"}
  BY DEF R!ReadEntry, R!SkipEntry, R!RejectEntry, R!JudgeSignature,
         R!FailOnEntry, R!Fatal
<1>2. /\ SourceIsPrefix /\ cursor \in 0..Len(archive)
      /\ ~ OwnManifest => found = source.files
      /\ errors = {} => SignaturesFound(signatures, cursor)
  BY <1>1 DEF ReaderInv
<1>3. ASSUME IsRoundTrip
      PROVE  NothingWrong'
  <2>1. /\ NothingWrong /\ SignaturesFound(signatures, cursor)
        /\ found = source.files
    BY <1>1, <1>2, <1>3, WholeContainer DEF AcceptInv, NothingWrong
  <2>2. cursor + 1 \in 1..Len(archive) /\ Len(archive) \in Nat
    BY <1>1, <1>2, SourceTypes
  <2>3. ~ R!Is(entry, "locked")
    <3>1. FollowsLayoutToCut(archive, source.files, source.signers)
          /\ Len(source.files) \in Nat
      BY <1>2, SourceTypes DEF SourceIsPrefix
    <3> QED
      BY <2>2, <3>1, PlacesOfForms
  <2>4. \/ R!IsSkipped(entry)
        \/ /\ R!IsSignature(entry) /\ ~ R!IsBinary(entry)
           /\ ~ R!IsUnsupported(doc) /\ R!VerifySignature(doc, found)
           /\ R!SignatureErrors(doc, found) = {}
    BY <1>2, <1>3, <2>1, <2>2, EntriesOfWhole
  <2> HIDE DEF entry
  <2>5. R!SkipEntry(entry) \/ R!RejectEntry(entry) \/ R!JudgeSignature(entry)
          \/ R!FailOnEntry(entry)
    BY DEF R!ReadEntry, entry
  <2>6. ~ R!FailOnEntry(entry) /\ ~ R!RejectEntry(entry)
    BY <2>3, <2>4 DEF R!FailOnEntry, R!RejectEntry
  <2>7. CASE R!SkipEntry(entry)
    BY <1>1, <2>1, <2>7 DEF R!SkipEntry, NothingWrong
  <2>8. CASE R!JudgeSignature(entry)
    <3> DEFINE valid == ~ R!IsUnsupported(doc) /\ R!VerifySignature(doc, found)
               judged == [doc |-> doc, valid |-> valid]
    <3>1. /\ phase' = "signatures" /\ ~ R!IsSkipped(entry)
          /\ errors' = errors \cup R!SignatureErrors(doc, found)
          /\ signatures' = Append(signatures, judged)
      BY <1>1, <2>8 DEF R!JudgeSignature
    <3>2. errors' = {} /\ judged.valid
      BY <2>1, <2>4, <3>1 DEF NothingWrong
    <3>3. signatures \in Seq(Judged)
      BY <2>1 DEF SignaturesFound
    <3> HIDE DEF judged
    <3>4. ASSUME NEW i \in 1..Len(signatures')
          PROVE  signatures'[i].valid
      <4>1. /\ i \in 1..Len(signatures) => signatures'[i] = signatures[i]
            /\ i \notin 1..Len(signatures) => signatures'[i] = judged
        BY <3>1, <3>3
      <4> QED
        BY <2>1, <3>2, <4>1 DEF NothingWrong
    <3> QED
      BY <3>1, <3>2, <3>4 DEF NothingWrong
  <2> QED
    BY <2>5, <2>6, <2>7, <2>8
<1>4. IsRoundTrip' => IsRoundTrip
  BY DEF IsRoundTrip
<1> QED
  BY <1>1, <1>3, <1>4 DEF AcceptInv

LEMMA ConcludeAccepts ==
    ASSUME AcceptInv, ReaderInv, R!Conclude, UNCHANGED source
    PROVE  AcceptInv'
<1>1. /\ phase = "signatures" /\ phase' = "done" /\ cursor >= Len(archive)
      /\ verdict' = /\ errors = {} /\ signatures # <<>>
                    /\ \A k \in 1..Len(signatures) : signatures[k].valid
      /\ errors' = errors /\ signatures' = signatures
  BY DEF R!Conclude
<1>2. /\ SourceIsPrefix /\ cursor \in 0..Len(archive)
      /\ errors = {} => SignaturesFound(signatures, cursor)
  BY <1>1 DEF ReaderInv
<1>3. ASSUME IsRoundTrip
      PROVE  NothingWrong'
  <2>1. NothingWrong /\ SignaturesFound(signatures, cursor)
    BY <1>1, <1>2, <1>3 DEF AcceptInv, NothingWrong
  <2>2. /\ Len(source.signers) \in Nat \ {0} /\ Len(source.files) = 1
        /\ Len(archive) = 3 + Len(source.signers) /\ cursor = Len(archive)
    BY <1>1, <1>2, <1>3, WholeContainer DEF IsRoundTrip
  <2>3. signatures # <<>>
    <3> DEFINE m == FilesAmong(cursor)
               own == OwnSignatures(source.files, m)
    <3>1. Len(signatures) = own + SignersAmong(cursor)
      BY <2>1 DEF SignaturesFound
    <3>2. m \in Nat
      <4>1. cursor \in Nat /\ Len(source.files) \in Nat
        BY <2>2
      <4>2. m \in 0..Len(source.files)
        BY <4>1, OneEntryMore
      <4> QED
        BY <4>1, <4>2
    <3>3. own \in Nat
      BY <3>2, OneMore
    <3>4. SignersAmong(cursor) = Len(source.signers)
      BY <2>2 DEF SignersAmong
    <3> HIDE DEF own
    <3>5. Len(signatures) # 0
      BY <2>2, <3>1, <3>3, <3>4
    <3> QED
      BY <3>5
  <2> QED
    BY <1>1, <2>1, <2>3 DEF NothingWrong
<1>4. IsRoundTrip' => IsRoundTrip
  BY DEF IsRoundTrip
<1> QED
  BY <1>1, <1>3, <1>4 DEF AcceptInv

LEMMA StepAccepts ==
    ASSUME SystemInv, AcceptInv, [SystemNext]_systemVars
    PROVE  AcceptInv'
<1>1. ReaderInv
  BY DEF SystemInv
<1>2. CASE UNCHANGED readerState
  BY <1>2 DEF readerState, AcceptInv, NothingWrong, IsRoundTrip
<1>3. ASSUME NEW p \in Paths, OpenPath(p)
      PROVE  AcceptInv'
  <2>1. /\ phase = "closed" /\ phase' = "mimetype"
        /\ errors' = errors /\ signatures' = signatures
    BY <1>3 DEF OpenPath, R!Open
  <2>2. errors' = {} /\ signatures' = <<>>
    BY <2>1 DEF AcceptInv
  <2> QED
    BY <2>1, <2>2 DEF AcceptInv, NothingWrong
<1>4. ASSUME phase' = "broken"
      PROVE  AcceptInv'
  BY <1>4 DEF AcceptInv
<1>5. CASE R!ReadFails \/ \E p \in Paths : OpenUnreadable(p)
  BY <1>4, <1>5 DEF R!ReadFails, OpenUnreadable, R!OpenFails
<1>6. CASE R!Advance /\ UNCHANGED source
  <2>1. CASE R!ReadFile \/ R!EndFiles
    <3>1. /\ phase = "files" /\ phase' \in {"files", "signatures"}
          /\ errors' = errors /\ signatures' = signatures
      BY <2>1 DEF R!ReadFile, R!EndFiles
    <3> QED
      BY <1>6, <3>1, QuietStepAccepts
  <2> QED
    BY <1>1, <1>6, <2>1, CheckMimetypeAccepts, ReadManifestAccepts,
       ReadEntryAccepts, ConcludeAccepts DEF R!Advance
<1> QED
  BY <1>2, <1>3, <1>5, <1>6
     DEF SystemNext, BuilderStep, ReaderStep, R!Read, systemVars

(***************************************************************************)
(* CompleteIsAccepted: a whole, properly signed container of one data file *)
(* is read without error and reported valid, for any ordinary name, any    *)
(* content and any number of signers of any signature level, while any     *)
(* builders work on the same paths (parse_document).                       *)
(***************************************************************************)
THEOREM CompleteContainersAreAccepted == SystemSpec => []CompleteIsAccepted
<1>1. SystemInit => SystemInv /\ AcceptInv
  BY InitSystemInv DEF SystemInit, R!ReaderInit, AcceptInv
<1>2. SystemInv /\ AcceptInv /\ [SystemNext]_systemVars
        => SystemInv' /\ AcceptInv'
  BY NextSystemInv, StepAccepts
<1>3. AcceptInv => CompleteIsAccepted
  BY DEF AcceptInv, NothingWrong, IsRoundTrip, CompleteIsAccepted
<1> QED
  BY <1>1, <1>2, <1>3, PTL DEF SystemSpec
=============================================================================
