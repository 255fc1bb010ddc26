------------------------ MODULE DigiDocBuilderProofs ------------------------
(***************************************************************************)
(* Proofs about DigiDocBuilder, for any builders, paths, files, signers    *)
(* and bounds.  IInv is shown to be inductive, one action at a time, and   *)
(* the safety properties of DigiDocBuilder follow from it.                 *)
(***************************************************************************)
EXTENDS DigiDocBuilder, SequenceTheorems, TLAPS

-----------------------------------------------------------------------------
(***************************************************************************)
(* Signature documents.                                                    *)
(***************************************************************************)
(***************************************************************************)
(* build_xades_basic_signature makes a document of the declared shape.     *)
(***************************************************************************)
LEMMA BesIsDocument ==
    ASSUME NEW fs \in Seq(Files), NEW signer \in SignerInputs, NEW i \in Nat
    PROVE  BuildXadesBasicSignature(fs, signer, i) \in Documents
<1>1. [k \in 1..Len(fs) |-> [uri |-> fs[k].name, digest |-> fs[k].content]]
        \in Seq([uri : Names, digest : Contents])
  <2>1. \A k \in 1..Len(fs) : fs[k].name \in Names /\ fs[k].content \in Contents
    <3> TAKE k \in 1..Len(fs)
    <3>1. fs[k] \in Files
      OBVIOUS
    <3> QED
      BY <3>1 DEF Files, Names
  <2>2. \A k \in 1..Len(fs) :
          [uri |-> fs[k].name, digest |-> fs[k].content]
            \in [uri : Names, digest : Contents]
    BY <2>1
  <2> QED
    BY <2>2
<1>2. Len(fs) \in Nat
  OBVIOUS
<1>3. signer.cert \in CertKinds /\ signer.time \in Times
  BY DEF SignerInputs
<1>4. <<>> \in Seq(UnsignedProperties)
  OBVIOUS
<1> QED
  BY <1>1, <1>2, <1>3, <1>4 DEF BuildXadesBasicSignature, Documents

(***************************************************************************)
(* The upgrades to T and LT keep the shape of a document.                  *)
(***************************************************************************)
LEMMA UpgradesAreDocuments ==
    ASSUME NEW doc \in Documents, NEW token \in UnsignedProperties,
           NEW issuer \in UnsignedProperties
    PROVE  /\ UpgradeBesToT(doc, token) \in Documents
           /\ UpgradeTToLT(doc, issuer, token) \in Documents
<1>1. <<token>> \in Seq(UnsignedProperties)
  OBVIOUS
<1>2. doc.unsigned \o <<issuer, token>> \in Seq(UnsignedProperties)
  <2>1. doc.unsigned \in Seq(UnsignedProperties)
    BY DEF Documents
  <2>2. <<issuer, token>> \in Seq(UnsignedProperties)
    OBVIOUS
  <2> QED
    BY <2>1, <2>2
<1> QED
  BY <1>1, <1>2 DEF UpgradeBesToT, UpgradeTToLT, Documents

(***************************************************************************)
(* Each path through build_xades_signature yields the signature of the     *)
(* level that the signer's servers allow.                                  *)
(***************************************************************************)
LEMMA LevelsAreFull ==
    ASSUME NEW fs, NEW signer, NEW i,
           NEW bes, bes = BuildXadesBasicSignature(fs, signer, i)
    PROVE  /\ ~ signer.tsa => bes = FullSignature(fs, signer, i)
           /\ signer.tsa /\ ~ signer.ocsp =>
                UpgradeBesToT(bes, TimeStamp(i)) = FullSignature(fs, signer, i)
           /\ signer.tsa /\ signer.ocsp =>
                UpgradeTToLT(UpgradeBesToT(bes, TimeStamp(i)),
                             IssuerCertificate(signer, i), OcspResponse(i))
                  = FullSignature(fs, signer, i)
<1>1. ASSUME ~ signer.tsa
      PROVE  bes = FullSignature(fs, signer, i)
  BY <1>1 DEF FullSignature, BuildXadesBasicSignature
<1>2. ASSUME signer.tsa, ~ signer.ocsp
      PROVE  UpgradeBesToT(bes, TimeStamp(i)) = FullSignature(fs, signer, i)
  BY <1>2 DEF FullSignature, BuildXadesBasicSignature, UpgradeBesToT
<1>3. ASSUME signer.tsa, signer.ocsp
      PROVE  UpgradeTToLT(UpgradeBesToT(bes, TimeStamp(i)),
                          IssuerCertificate(signer, i), OcspResponse(i))
               = FullSignature(fs, signer, i)
  <2> DEFINE stamp == TimeStamp(i)
             issuer == IssuerCertificate(signer, i)
             response == OcspResponse(i)
  <2>1. ASSUME NEW x, NEW y, NEW z
        PROVE  <<x>> \o <<y, z>> = <<x, y, z>>
    <3> DEFINE S == {x, y, z}
    <3>1. <<x>> \in Seq(S) /\ <<y, z>> \in Seq(S) /\ <<x, y, z>> \in Seq(S)
      OBVIOUS
    <3>2. <<x>> \o <<y, z>> \in Seq(S) /\ Len(<<x>> \o <<y, z>>) = 3
      BY <3>1
    <3>3. \A k \in 1..3 : (<<x>> \o <<y, z>>)[k] = <<x, y, z>>[k]
      BY <3>1, ConcatProperties
    <3> HIDE DEF S
    <3> QED
      BY <3>1, <3>2, <3>3, SeqEqual
  <2>2. UpgradeBesToT(bes, stamp).unsigned = <<stamp>>
    BY DEF UpgradeBesToT, BuildXadesBasicSignature
  <2>3. UpgradeTToLT(UpgradeBesToT(bes, stamp), issuer, response)
          = [bes EXCEPT !.unsigned = <<stamp, issuer, response>>]
    BY <2>1, <2>2 DEF UpgradeTToLT, UpgradeBesToT, BuildXadesBasicSignature
  <2> QED
    BY <1>3, <2>3 DEF FullSignature
<1> QED
  BY <1>1, <1>2, <1>3
-----------------------------------------------------------------------------
(***************************************************************************)
(* Archives.                                                               *)
(***************************************************************************)
(***************************************************************************)
(* Appending the entry that the layout asks for next keeps the layout.     *)
(***************************************************************************)
LEMMA AppendFollows ==
    ASSUME NEW entries \in Seq(Entries), NEW fs \in Seq(Files), NEW ss,
           Len(ss) \in Nat,
           FollowsLayout(entries, fs, ss),
           Len(entries) < LayoutSize(fs, ss),
           NEW entry, entry = LayoutAt(fs, ss, Len(entries) + 1)
    PROVE  FollowsLayout(Append(entries, entry), fs, ss)
<1> DEFINE longer == Append(entries, entry)
<1>1. Len(longer) = Len(entries) + 1
  OBVIOUS
<1>2. ASSUME NEW k \in 1..Len(longer)
      PROVE  longer[k] = LayoutAt(fs, ss, k)
  <2>1. CASE k <= Len(entries)
    <3>1. longer[k] = entries[k]
      BY <2>1
    <3> QED
      BY <2>1, <3>1 DEF FollowsLayout
  <2>2. CASE k = Len(entries) + 1
    BY <2>2
  <2> QED
    BY <1>1, <2>1, <2>2
<1>3. LayoutSize(fs, ss) \in Nat
  BY DEF LayoutSize
<1>4. Len(longer) <= LayoutSize(fs, ss)
  BY <1>1, <1>3
<1> QED
  BY <1>2, <1>4 DEF FollowsLayout

(***************************************************************************)
(* A layout followed to the last entry is one followed up to a cut; so is  *)
(* one whose next entry was cut off.                                       *)
(***************************************************************************)
LEMMA CutFollows ==
    ASSUME NEW entries \in Seq(Entries), NEW fs \in Seq(Files), NEW ss,
           Len(ss) \in Nat,
           FollowsLayout(entries, fs, ss)
    PROVE  /\ FollowsLayoutToCut(entries, fs, ss)
           /\ Len(entries) < LayoutSize(fs, ss) =>
                FollowsLayoutToCut(
                    Append(entries,
                        CutEntry(LayoutAt(fs, ss, Len(entries) + 1).name)),
                    fs, ss)
<1>1. FollowsLayoutToCut(entries, fs, ss)
  BY DEF FollowsLayout, FollowsLayoutToCut
<1>2. ASSUME Len(entries) < LayoutSize(fs, ss)
      PROVE  FollowsLayoutToCut(
                 Append(entries,
                     CutEntry(LayoutAt(fs, ss, Len(entries) + 1).name)),
                 fs, ss)
  <2> DEFINE cut == CutEntry(LayoutAt(fs, ss, Len(entries) + 1).name)
             longer == Append(entries, cut)
  <2>1. Len(longer) = Len(entries) + 1 /\ longer[Len(entries) + 1] = cut
    OBVIOUS
  <2>2. ASSUME NEW k \in 1..Len(longer)
        PROVE  \/ longer[k] = LayoutAt(fs, ss, k)
               \/ /\ k = Len(longer)
                  /\ longer[k] = CutEntry(LayoutAt(fs, ss, k).name)
    <3>1. CASE k <= Len(entries)
      <4>1. longer[k] = entries[k]
        BY <3>1
      <4> QED
        BY <3>1, <4>1 DEF FollowsLayout
    <3>2. CASE k = Len(entries) + 1
      BY <2>1, <3>2
    <3> QED
      BY <2>1, <3>1, <3>2
  <2>3. Len(longer) <= LayoutSize(fs, ss)
    BY <1>2, <2>1 DEF LayoutSize
  <2> HIDE DEF longer, cut
  <2>4. FollowsLayoutToCut(longer, fs, ss)
    BY <2>2, <2>3 DEF FollowsLayoutToCut
  <2> QED
    BY <2>4 DEF longer, cut
<1> QED
  BY <1>1, <1>2

(***************************************************************************)
(* A name that start_file does not refuse keeps the names apart.           *)
(***************************************************************************)
LEMMA AppendUnique ==
    ASSUME NEW entries \in Seq(Entries), NamesAreUnique(entries),
           NEW entry, entry.name \notin NamesOf(entries)
    PROVE  NamesAreUnique(Append(entries, entry))
<1> DEFINE longer == Append(entries, entry)
<1>1. /\ Len(longer) = Len(entries) + 1
      /\ longer[Len(entries) + 1] = entry
      /\ \A k \in 1..Len(entries) : longer[k] = entries[k]
  OBVIOUS
<1>2. \A k \in 1..Len(entries) : entries[k].name # entry.name
  BY DEF NamesOf
<1>3. ASSUME NEW j \in 1..Len(longer), NEW k \in 1..Len(longer),
             longer[j].name = longer[k].name
      PROVE  j = k
  <2>1. CASE j <= Len(entries) /\ k <= Len(entries)
    BY <1>1, <1>3, <2>1 DEF NamesAreUnique
  <2>2. CASE j <= Len(entries) /\ k = Len(entries) + 1
    BY <1>1, <1>2, <1>3, <2>2
  <2>3. CASE j = Len(entries) + 1 /\ k <= Len(entries)
    BY <1>1, <1>2, <1>3, <2>3
  <2> QED
    BY <1>1, <2>1, <2>2, <2>3
<1> QED
  BY <1>3 DEF NamesAreUnique
-----------------------------------------------------------------------------
(***************************************************************************)
(* What one step leaves alone.                                             *)
(***************************************************************************)
StepOf(b) == Progress(b) \/ Failure(b) \/ Environment(b)

\* A step of b changes nothing of another builder, its own call included.
OthersKeep(b) ==
    \A c \in Builders \ {b} :
        /\ files'[c] = files[c] /\ signers'[c] = signers[c]
        /\ pc'[c] = pc[c] /\ path'[c] = path[c] /\ at'[c] = at[c]
        /\ zip'[c] = zip[c] /\ draft'[c] = draft[c]
        /\ request'[c] = request[c]

(***************************************************************************)
(* A builder and its call are private: of what a step of b changes, others *)
(* share the disk alone.                                                   *)
(***************************************************************************)
LEMMA StepKeepsOthers ==
    ASSUME TypeOK, NEW b \in Builders, StepOf(b)
    PROVE  OthersKeep(b)
<1> USE DEF TypeOK
<1>1. CASE Progress(b)
  BY <1>1 DEF Progress, WriteMimetype, WriteDataFile, WriteManifest, Sign,
     ReceiveToken, ReceiveResponse, WriteSignature, Finish, Written, OthersKeep
<1>2. CASE Failure(b)
  BY <1>2 DEF Failure, RejectDuplicate, WriteFails, SignFails, Refused,
     Timeout, FinishFails, Unwind, Abandon, OthersKeep
<1>3. CASE Environment(b)
  BY <1>3 DEF Environment, AddFile, AddFileContent, AddFileFails, AddSigner,
     Consumed, Create, CreateFails, Cancel, Abandon, Crash, Answer, OthersKeep
<1> QED
  BY <1>1, <1>2, <1>3 DEF StepOf

(***************************************************************************)
(* Hence the invariant of another builder's call is kept.                  *)
(***************************************************************************)
LEMMA OthersCallInv ==
    ASSUME NEW b \in Builders, NEW c \in Builders \ {b},
           OthersKeep(b), CallInv(c)
    PROVE  CallInv(c)'
<1>1. /\ files'[c] = files[c] /\ signers'[c] = signers[c]
      /\ pc'[c] = pc[c] /\ at'[c] = at[c] /\ zip'[c] = zip[c]
      /\ draft'[c] = draft[c] /\ request'[c] = request[c]
  BY DEF OthersKeep
<1>2. ZipPosition(c)'
  BY <1>1 DEF CallInv, ZipPosition
<1>3. ZipContents(c)'
  BY <1>1 DEF CallInv, ZipContents
<1>4. DraftLevel(c)'
  BY <1>1 DEF CallInv, DraftLevel
<1>5. RequestMatches(c)'
  BY <1>1 DEF CallInv, RequestMatches
<1> QED
  BY <1>2, <1>3, <1>4, <1>5 DEF CallInv
-----------------------------------------------------------------------------
(***************************************************************************)
(* The disk.                                                               *)
(***************************************************************************)
DiskInv ==
    /\ \A b \in Builders : MakerInv(b)
    /\ SealedIsPrefix
    /\ SerialInv

(***************************************************************************)
(* A write leaves a file alone, or tears the archive of another maker.     *)
(***************************************************************************)
LEMMA TouchedFile ==
    ASSUME TypeOK, NEW b \in Builders, Touched(b)
    PROVE  /\ disk' \in [Paths -> DiskFiles]
           /\ \A p \in Paths :
                 \/ disk'[p] = disk[p]
                 \/ /\ p = path[b] /\ ~ IsMaker(b)
                    /\ disk'[p] = [disk[p] EXCEPT !.state = "torn"]
<1>1. path[b] \in Paths
  BY DEF TypeOK
<1>2. CASE IsMaker(b)
  <2>1. disk[path[b]] \in DiskFiles
    BY <1>1 DEF TypeOK
  <2>2. [disk[path[b]] EXCEPT !.state = disk[path[b]].state] = disk[path[b]]
    BY <2>1 DEF DiskFiles
  <2>3. disk' = disk
    BY <1>1, <1>2, <2>2 DEF Touched, TypeOK
  <2> QED
    BY <2>3 DEF TypeOK
<1>3. CASE ~ IsMaker(b)
  <2>1. disk' = [disk EXCEPT ![path[b]].state = "torn"]
    BY <1>3 DEF Touched
  <2>2. [disk[path[b]] EXCEPT !.state = "torn"] \in DiskFiles
    BY <1>1 DEF TypeOK, DiskFiles
  <2> QED
    BY <1>1, <1>3, <2>1, <2>2 DEF TypeOK
<1> QED
  BY <1>2, <1>3

(***************************************************************************)
(* The central directory seals an open file of its own maker and tears any *)
(* other.                                                                  *)
(***************************************************************************)
LEMMA SealedFile ==
    ASSUME TypeOK, NEW b \in Builders, Sealed(b)
    PROVE  /\ disk' \in [Paths -> DiskFiles]
           /\ \A p \in Paths :
                 \/ p # path[b] /\ disk'[p] = disk[p]
                 \/ /\ p = path[b] /\ IsMaker(b) /\ disk[p].state = "open"
                    /\ disk'[p] = [disk[p] EXCEPT !.state = "sealed",
                                                  !.entries = zip[b]]
                 \/ /\ p = path[b] /\ (~ IsMaker(b) \/ disk[p].state # "open")
                    /\ disk'[p] = [disk[p] EXCEPT !.state = "torn"]
<1>1. path[b] \in Paths /\ zip[b] \in Seq(Entries)
  BY DEF TypeOK
<1>2. disk[path[b]] \in DiskFiles
  BY <1>1 DEF TypeOK
<1>3. /\ [disk[path[b]] EXCEPT !.state = "sealed", !.entries = zip[b]]
           \in DiskFiles
      /\ [disk[path[b]] EXCEPT !.state = "torn"] \in DiskFiles
  BY <1>1, <1>2 DEF DiskFiles
<1>4. CASE IsMaker(b) /\ disk[path[b]].state = "open"
  <2>1. disk' = [disk EXCEPT ![path[b]] =
           [disk[path[b]] EXCEPT !.state = "sealed", !.entries = zip[b]]]
    BY <1>4 DEF Sealed
  <2> QED
    BY <1>1, <1>3, <1>4, <2>1 DEF TypeOK
<1>5. CASE ~ (IsMaker(b) /\ disk[path[b]].state = "open")
  <2>1. disk' = [disk EXCEPT ![path[b]] =
           [disk[path[b]] EXCEPT !.state = "torn"]]
    BY <1>5 DEF Sealed
  <2> QED
    BY <1>1, <1>3, <1>5, <2>1 DEF TypeOK
<1> QED
  BY <1>4, <1>5

(***************************************************************************)
(* A file that is not sealed by a step gives nothing new to SealedIsPrefix.*)
(***************************************************************************)
LEMMA PrefixKept ==
    ASSUME SealedIsPrefix,
           \A p \in Paths :
              \/ disk'[p] = disk[p]
              \/ disk'[p].state # "sealed"
    PROVE  SealedIsPrefix'
BY DEF SealedIsPrefix

(***************************************************************************)
(* A running call that goes on, unwinds or fails keeps the invariant of    *)
(* the disk, whether it writes or not.                                     *)
(***************************************************************************)
LEMMA RunningKeepsDisk ==
    ASSUME TypeOK, DiskInv, NEW b \in Builders, OthersKeep(b),
           pc[b] \in Running, pc'[b] \in Running \cup {"failed"},
           files'[b] = files[b], signers'[b] = signers[b], path'[b] = path[b],
           disk' = disk \/ Touched(b)
    PROVE  DiskInv'
<1>1. \A p \in Paths :
         \/ disk'[p] = disk[p]
         \/ /\ p = path[b] /\ ~ IsMaker(b)
            /\ disk'[p].state = "torn" /\ disk'[p].maker = disk[p].maker
            /\ disk'[p].files = disk[p].files
            /\ disk'[p].signers = disk[p].signers
  <2>1. CASE disk' = disk
    BY <2>1
  <2>2. CASE Touched(b)
    <3>1. ASSUME NEW p \in Paths, disk'[p] = [disk[p] EXCEPT !.state = "torn"]
          PROVE  /\ disk'[p].state = "torn" /\ disk'[p].maker = disk[p].maker
                 /\ disk'[p].files = disk[p].files
                 /\ disk'[p].signers = disk[p].signers
      BY <3>1 DEF TypeOK, DiskFiles
    <3> QED
      BY <2>2, <3>1, TouchedFile
  <2> QED
    BY <2>1, <2>2
<1>2. ASSUME NEW c \in Builders
      PROVE  MakerInv(c)'
  <2>1. path[c] \in Paths
    BY DEF TypeOK
  <2>2. MakerInv(c)
    BY DEF DiskInv
  <2>3. CASE c = b
    BY <1>1, <2>1, <2>2, <2>3 DEF MakerInv, IsMaker, Running, Writing, Awaiting
  <2>4. CASE c # b
    <3>1. /\ files'[c] = files[c] /\ signers'[c] = signers[c]
          /\ pc'[c] = pc[c] /\ path'[c] = path[c] /\ zip'[c] = zip[c]
      BY <2>4 DEF OthersKeep
    <3> QED
      BY <1>1, <2>1, <2>2, <3>1 DEF MakerInv
  <2> QED
    BY <2>3, <2>4
<1>3. SealedIsPrefix'
  BY <1>1, PrefixKept DEF DiskInv
<1>4. SerialInv'
  <2>1. SUFFICES ASSUME ~ Overlap
                 PROVE  /\ \A c \in Builders :
                             pc'[c] \in Running => disk'[path'[c]].maker = c
                        /\ \A p \in Paths : disk'[p].state # "torn"
    BY DEF SerialInv, IsMaker
  <2>2. IsMaker(b) /\ \A p \in Paths : disk[p].state # "torn"
    BY <2>1 DEF DiskInv, SerialInv
  <2>3. \A p \in Paths : disk'[p] = disk[p]
    BY <1>1, <2>2
  <2>4. ASSUME NEW c \in Builders, pc'[c] \in Running
        PROVE  disk'[path'[c]].maker = c
    <3>1. pc[c] \in Running /\ path'[c] = path[c]
      BY <2>4 DEF OthersKeep
    <3>2. disk[path[c]].maker = c /\ path[c] \in Paths
      BY <2>1, <3>1 DEF DiskInv, SerialInv, IsMaker, TypeOK
    <3> QED
      BY <2>3, <3>1, <3>2
  <2> QED
    BY <2>2, <2>3, <2>4
<1> QED
  BY <1>2, <1>3, <1>4 DEF DiskInv

(***************************************************************************)
(* So does a builder that is, or comes to be, without a call to account    *)
(* for: whatever its fields become, the disk stays as it is.               *)
(***************************************************************************)
LEMMA IdleKeepsDisk ==
    ASSUME TypeOK, DiskInv, NEW b \in Builders, OthersKeep(b),
           pc'[b] \in {"idle", "failed"}, disk' = disk
    PROVE  DiskInv'
<1>1. pc'[b] \notin Running /\ pc'[b] # "ok"
  BY DEF Running, Writing, Awaiting
<1>2. ASSUME NEW c \in Builders
      PROVE  MakerInv(c)'
  <2>1. CASE c = b
    BY <1>1, <2>1 DEF MakerInv
  <2>2. CASE c # b
    <3>1. /\ files'[c] = files[c] /\ signers'[c] = signers[c]
          /\ pc'[c] = pc[c] /\ path'[c] = path[c] /\ zip'[c] = zip[c]
      BY <2>2 DEF OthersKeep
    <3> QED
      BY <3>1 DEF MakerInv, DiskInv
  <2> QED
    BY <2>1, <2>2
<1>3. SealedIsPrefix'
  BY PrefixKept DEF DiskInv
<1>4. SerialInv'
  <2>1. ASSUME ~ Overlap, NEW c \in Builders, pc'[c] \in Running
        PROVE  disk'[path'[c]].maker = c
    <3>1. pc[c] \in Running /\ path'[c] = path[c]
      BY <1>1, <2>1 DEF OthersKeep
    <3> QED
      BY <2>1, <3>1 DEF DiskInv, SerialInv, IsMaker
  <2> QED
    BY <2>1 DEF DiskInv, SerialInv, IsMaker
<1> QED
  BY <1>2, <1>3, <1>4 DEF DiskInv

(***************************************************************************)
(* File::create makes b the maker of p; a call that was writing p is its   *)
(* maker no longer, and without overlap there is none.                     *)
(***************************************************************************)
LEMMA CreateKeepsDisk ==
    ASSUME TypeOK, DiskInv, NEW b \in Builders, NEW p \in Paths,
           OthersKeep(b), Create(b, p)
    PROVE  DiskInv'
<1>1. /\ pc'[b] = "mimetype" /\ path'[b] = p
      /\ files' = files /\ signers' = signers
  BY DEF Create, TypeOK
<1>2. /\ disk'[p].state = "open" /\ disk'[p].maker = b
      /\ disk'[p].files = files[b] /\ disk'[p].signers = signers[b]
      /\ \A q \in Paths \ {p} : disk'[q] = disk[q]
  BY DEF Create, TypeOK
<1>3. ASSUME NEW c \in Builders
      PROVE  MakerInv(c)'
  <2>1. CASE c = b
    BY <1>1, <1>2, <2>1 DEF MakerInv
  <2>2. CASE c # b
    <3>1. /\ files'[c] = files[c] /\ signers'[c] = signers[c]
          /\ pc'[c] = pc[c] /\ path'[c] = path[c] /\ zip'[c] = zip[c]
      BY <2>2 DEF OthersKeep
    <3>2. path[c] \in Paths /\ MakerInv(c)
      BY DEF TypeOK, DiskInv
    <3>3. CASE path[c] = p
      BY <1>2, <2>2, <3>1, <3>3 DEF MakerInv
    <3>4. CASE path[c] # p
      BY <1>2, <3>1, <3>2, <3>4 DEF MakerInv
    <3> QED
      BY <3>3, <3>4
  <2> QED
    BY <2>1, <2>2
<1>4. SealedIsPrefix'
  BY <1>2, PrefixKept DEF DiskInv
<1>5. SerialInv'
  <2>1. ASSUME ~ Overlap, NEW c \in Builders, pc'[c] \in Running
        PROVE  disk'[path'[c]].maker = c
    <3>1. CASE c = b
      BY <1>1, <1>2, <3>1
    <3>2. CASE c # b
      <4>1. pc[c] \in Running /\ path'[c] = path[c] /\ path[c] \in Paths
        BY <2>1, <3>2 DEF OthersKeep, TypeOK
      <4>2. path[c] # p
        BY <2>1, <4>1 DEF Create
      <4> QED
        BY <1>2, <2>1, <4>1, <4>2 DEF DiskInv, SerialInv, IsMaker
    <3> QED
      BY <3>1, <3>2
  <2>2. ASSUME ~ Overlap, NEW q \in Paths
        PROVE  disk'[q].state # "torn"
    BY <1>2, <2>2 DEF DiskInv, SerialInv
  <2> QED
    BY <2>1, <2>2 DEF SerialInv, IsMaker
<1> QED
  BY <1>3, <1>4, <1>5 DEF DiskInv

(***************************************************************************)
(* The central directory is written for entries that follow the layout; a  *)
(* call that was its path's maker has then sealed it.                      *)
(***************************************************************************)
LEMMA SealKeepsDisk ==
    ASSUME TypeOK, DiskInv, NEW b \in Builders, OthersKeep(b),
           pc[b] \in Running, pc'[b] \in {"ok", "failed"},
           files'[b] = files[b], signers'[b] = signers[b],
           path'[b] = path[b], zip'[b] = zip[b],
           FollowsLayoutToCut(zip[b], files[b], signers[b]),
           Sealed(b)
    PROVE  DiskInv'
<1>1. path[b] \in Paths /\ MakerInv(b) /\ disk[path[b]] \in DiskFiles
  BY DEF DiskInv, TypeOK
<1>2. \A p \in Paths \ {path[b]} : disk'[p] = disk[p]
  BY SealedFile
<1>3. /\ disk'[path[b]].maker = disk[path[b]].maker
      /\ disk'[path[b]].files = disk[path[b]].files
      /\ disk'[path[b]].signers = disk[path[b]].signers
      /\ \/ /\ IsMaker(b) /\ disk[path[b]].state = "open"
            /\ disk'[path[b]].state = "sealed"
            /\ disk'[path[b]].entries = zip[b]
         \/ /\ ~ IsMaker(b) \/ disk[path[b]].state # "open"
            /\ disk'[path[b]].state = "torn"
  BY <1>1, SealedFile DEF DiskFiles
<1>4. ASSUME NEW c \in Builders
      PROVE  MakerInv(c)'
  <2>1. CASE c = b
    BY <1>1, <1>3, <2>1 DEF MakerInv, IsMaker, Running, Writing, Awaiting
  <2>2. CASE c # b
    <3>1. /\ files'[c] = files[c] /\ signers'[c] = signers[c]
          /\ pc'[c] = pc[c] /\ path'[c] = path[c] /\ zip'[c] = zip[c]
      BY <2>2 DEF OthersKeep
    <3>2. path[c] \in Paths /\ MakerInv(c)
      BY DEF TypeOK, DiskInv
    <3>3. CASE path[c] = path[b]
      BY <1>3, <2>2, <3>1, <3>2, <3>3 DEF MakerInv, IsMaker
    <3>4. CASE path[c] # path[b]
      BY <1>2, <3>1, <3>2, <3>4 DEF MakerInv
    <3> QED
      BY <3>3, <3>4
  <2> QED
    BY <2>1, <2>2
<1>5. SealedIsPrefix'
  <2>1. ASSUME NEW p \in Paths, disk'[p].state = "sealed"
        PROVE  FollowsLayoutToCut(disk'[p].entries, disk'[p].files,
                                  disk'[p].signers)
    <3>1. CASE p = path[b]
      BY <1>1, <1>3, <2>1, <3>1 DEF MakerInv, IsMaker
    <3>2. CASE p # path[b]
      BY <1>2, <2>1, <3>2 DEF DiskInv, SealedIsPrefix
    <3> QED
      BY <3>1, <3>2
  <2> QED
    BY <2>1 DEF SealedIsPrefix
<1>6. SerialInv'
  <2>1. ASSUME ~ Overlap, NEW c \in Builders, pc'[c] \in Running
        PROVE  disk'[path'[c]].maker = c
    <3>1. pc[c] \in Running /\ path'[c] = path[c] /\ path[c] \in Paths
      BY <2>1 DEF OthersKeep, TypeOK
    <3>2. disk[path[c]].maker = c
      BY <2>1, <3>1 DEF DiskInv, SerialInv, IsMaker
    <3> QED
      BY <1>2, <1>3, <3>1, <3>2
  <2>2. ASSUME ~ Overlap, NEW p \in Paths
        PROVE  disk'[p].state # "torn"
    <3>1. IsMaker(b) /\ disk[p].state # "torn" /\ disk[path[b]].state # "torn"
      BY <1>1, <2>2 DEF DiskInv, SerialInv
    <3>2. disk[path[b]].state = "open"
      BY <1>1, <3>1 DEF MakerInv, IsMaker
    <3> QED
      BY <1>2, <1>3, <3>1, <3>2
  <2> QED
    BY <2>1, <2>2 DEF SerialInv, IsMaker
<1> QED
  BY <1>4, <1>5, <1>6 DEF DiskInv
-----------------------------------------------------------------------------
(***************************************************************************)
(* The call of the builder that takes the step.                            *)
(***************************************************************************)
(***************************************************************************)
(* The layout by position: after the mimetype, file a ...                  *)
(***************************************************************************)
LEMMA FilePosition ==
    ASSUME NEW fs, NEW ss, NEW a \in Nat, Len(fs) \in Nat, a < Len(fs)
    PROVE  LayoutAt(fs, ss, a + 2) = DataEntry(fs[a + 1])
<1>1. a + 2 # 1 /\ a + 2 <= 1 + Len(fs) /\ (a + 2) - 1 = a + 1
  OBVIOUS
<1> QED
  BY <1>1 DEF LayoutAt

(***************************************************************************)
(* ... then the manifest ...                                               *)
(***************************************************************************)
LEMMA ManifestPosition ==
    ASSUME NEW fs, NEW ss, Len(fs) \in Nat
    PROVE  LayoutAt(fs, ss, Len(fs) + 2) = ManifestEntry(fs)
<1>1. /\ Len(fs) + 2 # 1 /\ ~ (Len(fs) + 2 <= 1 + Len(fs))
      /\ Len(fs) + 2 = 2 + Len(fs)
  OBVIOUS
<1> QED
  BY <1>1 DEF LayoutAt

(***************************************************************************)
(* ... then the signature of signer a.                                     *)
(***************************************************************************)
LEMMA SignaturePosition ==
    ASSUME NEW fs, NEW ss, NEW a \in Nat, Len(fs) \in Nat
    PROVE  LayoutAt(fs, ss, Len(fs) + a + 3)
             = SignatureEntry(a, FullSignature(fs, ss[a + 1], a))
<1> DEFINE k == Len(fs) + a + 3
<1>1. k # 1 /\ ~ (k <= 1 + Len(fs)) /\ k # 2 + Len(fs) /\ k - 3 - Len(fs) = a
  OBVIOUS
<1> HIDE DEF k
<1>2. LayoutAt(fs, ss, k) = SignatureEntry(a, FullSignature(fs, ss[a + 1], a))
  BY <1>1 DEF LayoutAt
<1> QED
  BY <1>2 DEF k

(***************************************************************************)
(* Where a call stands in its layout: "next" is the position of the entry  *)
(* it writes next, with the lengths given names.                           *)
(***************************************************************************)
LEMMA WhereCallStands ==
    ASSUME TypeOK, NEW b \in Builders, CallInv(b), pc[b] \in Writing
    PROVE  \E nf, ns, a, next \in Nat :
              /\ nf = Len(files[b]) /\ ns = Len(signers[b]) /\ a = at[b]
              /\ next = Len(zip[b]) + 1
              /\ next <= 2 + nf + ns
              /\ pc[b] = "mimetype" => next = 1
              /\ pc[b] = "files" => a <= nf /\ next = a + 2
              /\ pc[b] = "store" => next = nf + a + 3 /\ a < ns
<1>1. PICK nf, ns, nz, a \in Nat :
         /\ nf = Len(files[b]) /\ ns = Len(signers[b])
         /\ nz = Len(zip[b]) /\ a = at[b]
  BY DEF TypeOK
<1>2. /\ pc[b] = "mimetype" => nz = 0
      /\ pc[b] = "files" => a <= nf /\ nz = 1 + a
      /\ pc[b] = "store" => nz = 2 + nf + a /\ a < ns
  BY <1>1 DEF CallInv, ZipPosition
<1>3. PICK next \in Nat : next = nz + 1
  OBVIOUS
<1>4. /\ pc[b] = "mimetype" => next = 1
      /\ pc[b] = "files" => a <= nf /\ next = a + 2
      /\ pc[b] = "store" => next = nf + a + 3 /\ a < ns
  BY <1>2, <1>3
<1>5. next <= 2 + nf + ns
  BY <1>4 DEF Writing
<1>6. next = Len(zip[b]) + 1
  BY <1>1, <1>3
<1> QED
  BY <1>1, <1>4, <1>5, <1>6

(***************************************************************************)
(* The entry that each writing step appends is the one that the layout has *)
(* next, and so is its name when the step fails.                           *)
(***************************************************************************)
LEMMA NextIsLayout ==
    ASSUME TypeOK, NEW b \in Builders, CallInv(b), pc[b] \in Writing
    PROVE  LET next == LayoutAt(files[b], signers[b], Len(zip[b]) + 1)
           IN  /\ Len(zip[b]) < LayoutSize(files[b], signers[b])
               /\ next.name = NextName(b)
               /\ pc[b] = "mimetype" => next = MimetypeEntry
               /\ pc[b] = "files" /\ at[b] < Len(files[b]) =>
                    next = DataEntry(files[b][at[b] + 1])
               /\ pc[b] = "files" /\ at[b] >= Len(files[b]) =>
                    next = ManifestEntry(files[b]) /\ at[b] = Len(files[b])
               /\ pc[b] = "store" =>
                    next = SignatureEntry(at[b],
                      FullSignature(files[b], signers[b][at[b] + 1], at[b]))
<1> DEFINE entry == LayoutAt(files[b], signers[b], Len(zip[b]) + 1)
<1>1. PICK nf, ns, a, next \in Nat :
         /\ nf = Len(files[b]) /\ ns = Len(signers[b]) /\ a = at[b]
         /\ next = Len(zip[b]) + 1
         /\ next <= 2 + nf + ns
         /\ pc[b] = "mimetype" => next = 1
         /\ pc[b] = "files" => a <= nf /\ next = a + 2
         /\ pc[b] = "store" => next = nf + a + 3 /\ a < ns
  BY WhereCallStands
<1>2. Len(zip[b]) < LayoutSize(files[b], signers[b])
  <2>1. next <= LayoutSize(files[b], signers[b])
    BY <1>1 DEF LayoutSize
  <2>2. Len(zip[b]) \in Nat /\ LayoutSize(files[b], signers[b]) \in Nat
    BY <1>1 DEF TypeOK, LayoutSize
  <2> QED
    BY <1>1, <2>1, <2>2
<1>3. entry = LayoutAt(files[b], signers[b], next)
  BY <1>1
<1>4. CASE pc[b] = "mimetype"
  <2>1. entry = MimetypeEntry
    <3>1. next = 1
      BY <1>1, <1>4
    <3>2. LayoutAt(files[b], signers[b], 1) = MimetypeEntry
      BY DEF LayoutAt
    <3> HIDE DEF entry
    <3> QED
      BY <1>3, <3>1, <3>2
  <2>2. entry.name = NextName(b)
    BY <1>4, <2>1 DEF MimetypeEntry, NextName
  <2> QED
    BY <1>2, <1>4, <2>1, <2>2
<1>5. CASE pc[b] = "files" /\ a < nf
  <2>1. entry = DataEntry(files[b][a + 1])
    <3>1. Len(files[b]) \in Nat /\ a < Len(files[b]) /\ next = a + 2
      BY <1>1, <1>5
    <3>2. LayoutAt(files[b], signers[b], a + 2) = DataEntry(files[b][a + 1])
      BY <3>1, FilePosition
    <3> HIDE DEF entry
    <3> QED
      BY <1>3, <3>1, <3>2
  <2>2. entry.name = NextName(b)
    BY <1>1, <1>5, <2>1 DEF DataEntry, NextName
  <2>3. ~ (at[b] >= Len(files[b]))
    BY <1>1, <1>5
  <2> QED
    BY <1>1, <1>2, <1>5, <2>1, <2>2, <2>3
<1>6. CASE pc[b] = "files" /\ a = nf
  <2>1. entry = ManifestEntry(files[b])
    <3>1. Len(files[b]) \in Nat /\ next = Len(files[b]) + 2
      BY <1>1, <1>6
    <3>2. LayoutAt(files[b], signers[b], Len(files[b]) + 2)
            = ManifestEntry(files[b])
      BY <3>1, ManifestPosition
    <3> HIDE DEF entry
    <3> QED
      BY <1>3, <3>1, <3>2
  <2>2. entry.name = NextName(b)
    BY <1>1, <1>6, <2>1 DEF ManifestEntry, NextName
  <2>3. ~ (at[b] < Len(files[b]))
    BY <1>1, <1>6
  <2> QED
    BY <1>1, <1>2, <1>6, <2>1, <2>2, <2>3
<1>7. CASE pc[b] = "store"
  <2>1. entry = SignatureEntry(a, FullSignature(files[b], signers[b][a + 1], a))
    <3>1. Len(files[b]) \in Nat /\ next = Len(files[b]) + a + 3
      BY <1>1, <1>7
    <3>2. LayoutAt(files[b], signers[b], Len(files[b]) + a + 3)
            = SignatureEntry(a, FullSignature(files[b], signers[b][a + 1], a))
      BY <3>1, SignaturePosition
    <3> HIDE DEF entry
    <3> QED
      BY <1>3, <3>1, <3>2
  <2>2. entry.name = NextName(b)
    BY <1>1, <1>7, <2>1 DEF SignatureEntry, NextName
  <2> QED
    BY <1>1, <1>2, <1>7, <2>1, <2>2
<1>8. pc[b] = "files" => a < nf \/ a = nf
  BY <1>1
<1> QED
  BY <1>4, <1>5, <1>6, <1>7, <1>8 DEF Writing
-----------------------------------------------------------------------------
(***************************************************************************)
(* Types.                                                                  *)
(***************************************************************************)
(***************************************************************************)
(* The names the builder makes are names, and so are those of its files.   *)
(***************************************************************************)
LEMMA MadeNames ==
    ASSUME NEW i \in Nat
    PROVE  /\ MimetypeName \in Names /\ ManifestName \in Names
           /\ RootName \in Names /\ SignatureName(i) \in Names
<1>1. SignatureName(i) \in {"META-INF/signatures"} \X Nat
  BY DEF SignatureName
<1> QED
  BY <1>1 DEF Names

LEMMA FileTypes ==
    ASSUME NEW file \in Files
    PROVE  file.name \in Names /\ file.content \in Contents
BY DEF Files, Names

(***************************************************************************)
(* What it puts into UnsignedSignatureProperties, and what it asks for.    *)
(***************************************************************************)
LEMMA MadeValues ==
    ASSUME NEW i \in Nat, NEW signer
    PROVE  /\ TimeStamp(i) \in UnsignedProperties
           /\ OcspResponse(i) \in UnsignedProperties
           /\ IssuerCertificate(signer, i) \in UnsignedProperties
BY DEF TimeStamp, OcspResponse, IssuerCertificate, UnsignedProperties

LEMMA MadeRequests ==
    ASSUME NEW i \in Nat
    PROVE  /\ NoRequest \in Requests
           /\ Post("tsa", i) \in Requests /\ Post("ocsp", i) \in Requests
BY DEF NoRequest, Post, Requests, Awaiting

(***************************************************************************)
(* Everything the builder writes is an archive entry.                      *)
(***************************************************************************)
LEMMA EntryForms ==
    ASSUME NEW name \in Names
    PROVE  /\ [name |-> name, mimetype |-> AsicE] \in Entries
           /\ \A c \in Contents : [name |-> name, content |-> c] \in Entries
           /\ \A s \in Seq(Names) : [name |-> name, paths |-> s] \in Entries
           /\ \A d \in Documents : [name |-> name, doc |-> d] \in Entries
           /\ [name |-> name, cut |-> TRUE] \in Entries
<1>1. [name |-> name, mimetype |-> AsicE] \in [name : Names, mimetype : {AsicE}]
  OBVIOUS
<1>2. \A c \in Contents :
         [name |-> name, content |-> c] \in [name : Names, content : Contents]
  OBVIOUS
<1>3. \A s \in Seq(Names) :
         [name |-> name, paths |-> s] \in [name : Names, paths : Seq(Names)]
  OBVIOUS
<1>4. \A d \in Documents :
         [name |-> name, doc |-> d] \in [name : Names, doc : Documents]
  OBVIOUS
<1>5. [name |-> name, cut |-> TRUE] \in [name : Names, cut : {TRUE}]
  OBVIOUS
<1> QED
  BY <1>1, <1>2, <1>3, <1>4, <1>5, Zenon DEF Entries

LEMMA ManifestType ==
    ASSUME NEW fs \in Seq(Files)
    PROVE  ManifestEntry(fs) \in Entries
<1>1. RootName \in Names /\ ManifestName \in Names
  BY MadeNames
<1>2. ASSUME NEW k \in 1..(1 + Len(fs))
      PROVE  (IF k = 1 THEN RootName ELSE fs[k - 1].name) \in Names
  <2>1. CASE k = 1
    BY <1>1, <2>1
  <2>2. CASE k # 1
    <3>1. fs[k - 1] \in Files
      BY <2>2
    <3> QED
      BY <2>2, <3>1 DEF Files, Names
  <2> QED
    BY <2>1, <2>2
<1>3. 1 + Len(fs) \in Nat
  OBVIOUS
<1>4. ManifestPaths(fs) \in Seq(Names)
  BY <1>2, <1>3 DEF ManifestPaths
<1> QED
  BY <1>1, <1>4, EntryForms DEF ManifestEntry

LEMMA MimetypeType == MimetypeEntry \in Entries
BY MadeNames, EntryForms DEF MimetypeEntry

LEMMA EntryTypes ==
    /\ \A file \in Files : DataEntry(file) \in Entries
    /\ \A i \in Nat, doc \in Documents : SignatureEntry(i, doc) \in Entries
    /\ \A name \in Names : CutEntry(name) \in Entries
<1>1. ASSUME NEW file \in Files
      PROVE  DataEntry(file) \in Entries
  BY FileTypes, EntryForms DEF DataEntry
<1>2. ASSUME NEW i \in Nat, NEW doc \in Documents
      PROVE  SignatureEntry(i, doc) \in Entries
  BY MadeNames, EntryForms DEF SignatureEntry
<1>3. \A name \in Names : CutEntry(name) \in Entries
  BY EntryForms DEF CutEntry
<1> QED
  BY <1>1, <1>2, <1>3

(***************************************************************************)
(* The name of the entry that is to be written is a name.                  *)
(***************************************************************************)
LEMMA NextNameType ==
    ASSUME TypeOK, NEW b \in Builders
    PROVE  NextName(b) \in Names
<1>1. at[b] \in Nat /\ files[b] \in Seq(Files)
  BY DEF TypeOK
<1>2. ASSUME at[b] < Len(files[b])
      PROVE  files[b][at[b] + 1].name \in Names
  <2>1. files[b][at[b] + 1] \in Files
    BY <1>1, <1>2
  <2> QED
    BY <2>1, FileTypes
<1>3. /\ MimetypeName \in Names /\ ManifestName \in Names
      /\ SignatureName(at[b]) \in Names
  BY <1>1, MadeNames
<1> QED
  BY <1>2, <1>3 DEF NextName

(***************************************************************************)
(* A writing step keeps the types of what it changes.                      *)
(***************************************************************************)
LEMMA WrittenTypes ==
    ASSUME TypeOK, NEW b \in Builders, NEW entry \in Entries, Written(b, entry)
    PROVE  /\ zip' \in [Builders -> Seq(Entries)]
           /\ zip'[b] = Append(zip[b], entry)
           /\ disk' \in [Paths -> DiskFiles]
<1>1. zip[b] \in Seq(Entries)
  BY DEF TypeOK
<1>2. Append(zip[b], entry) \in Seq(Entries)
  BY <1>1
<1>3. zip' = [zip EXCEPT ![b] = Append(zip[b], entry)]
  BY DEF Written
<1>4. disk' \in [Paths -> DiskFiles]
  BY TouchedFile DEF Written
<1> QED
  BY <1>2, <1>3, <1>4 DEF TypeOK

(***************************************************************************)
(* So does every way of abandoning a call.                                 *)
(***************************************************************************)
LEMMA AbandonTypes ==
    ASSUME TypeOK, NEW b \in Builders, Abandon(b),
           zip' \in [Builders -> Seq(Entries)], disk' \in [Paths -> DiskFiles]
    PROVE  TypeOK'
<1>1. NoRequest \in Requests
  BY MadeRequests
<1>2. <<>> \in Seq(Documents)
  OBVIOUS
<1>3. /\ files' \in [Builders -> Seq(Files)]
      /\ signers' \in [Builders -> Seq(Signers)]
      /\ path' \in [Builders -> Paths] /\ at' \in [Builders -> Nat]
  BY DEF Abandon, TypeOK
<1>4. pc' \in [Builders -> Resting \cup Running]
  BY DEF Abandon, TypeOK, Running
<1>5. draft' \in [Builders -> Seq(Documents)]
  BY <1>2 DEF Abandon, TypeOK
<1>6. request' \in [Builders -> Requests]
  BY <1>1 DEF Abandon, TypeOK
<1> QED
  BY <1>3, <1>4, <1>5, <1>6 DEF TypeOK

(***************************************************************************)
(* The signer that the loop is at.                                         *)
(***************************************************************************)
LEMMA CurrentSigner ==
    ASSUME TypeOK, NEW b \in Builders, at[b] < Len(signers[b])
    PROVE  signers[b][at[b] + 1] \in SignerInputs
<1>1. at[b] \in Nat /\ signers[b] \in Seq(Signers)
  BY DEF TypeOK
<1>2. signers[b][at[b] + 1] \in Signers
  BY <1>1
<1> QED
  BY <1>2, BuilderAssumption

(***************************************************************************)
(* Every step of a call on its way keeps the types.                        *)
(***************************************************************************)
LEMMA ProgressTypes ==
    ASSUME TypeOK, NEW b \in Builders, CallInv(b), Progress(b)
    PROVE  TypeOK'
<1>1. /\ files[b] \in Seq(Files) /\ signers[b] \in Seq(Signers)
      /\ at[b] \in Nat /\ path[b] \in Paths /\ draft[b] \in Seq(Documents)
      /\ request[b] \in Requests
  BY DEF TypeOK
<1>2. /\ "files" \in Running /\ "sign" \in Running /\ "tsa" \in Running
      /\ "ocsp" \in Running /\ "store" \in Running /\ "ok" \in Resting
  BY DEF Running, Writing, Awaiting, Resting
<1>3. /\ NoRequest \in Requests
      /\ Post("tsa", at[b]) \in Requests /\ Post("ocsp", at[b]) \in Requests
  BY <1>1, MadeRequests
<1>4. CASE WriteMimetype(b)
  <2>1. MimetypeEntry \in Entries
    BY MimetypeType
  <2>2. zip' \in [Builders -> Seq(Entries)] /\ disk' \in [Paths -> DiskFiles]
    BY <1>4, <2>1, WrittenTypes DEF WriteMimetype
  <2> QED
    BY <1>2, <1>4, <2>2 DEF WriteMimetype, TypeOK
<1>5. CASE WriteDataFile(b)
  <2>1. DataEntry(files[b][at[b] + 1]) \in Entries
    <3>1. files[b][at[b] + 1] \in Files
      BY <1>1, <1>5 DEF WriteDataFile
    <3> QED
      BY <3>1 DEF Files, Names, DataEntry, Entries
  <2>2. zip' \in [Builders -> Seq(Entries)] /\ disk' \in [Paths -> DiskFiles]
    BY <1>5, <2>1, WrittenTypes DEF WriteDataFile
  <2>3. at' \in [Builders -> Nat]
    BY <1>1, <1>5 DEF WriteDataFile, TypeOK
  <2> QED
    BY <1>5, <2>2, <2>3 DEF WriteDataFile, TypeOK
<1>6. CASE WriteManifest(b)
  <2>1. ManifestEntry(files[b]) \in Entries
    BY <1>1, ManifestType
  <2>2. zip' \in [Builders -> Seq(Entries)] /\ disk' \in [Paths -> DiskFiles]
    BY <1>6, <2>1, WrittenTypes DEF WriteManifest
  <2>3. at' \in [Builders -> Nat]
    BY <1>6 DEF WriteManifest, TypeOK
  <2> QED
    BY <1>2, <1>6, <2>2, <2>3 DEF WriteManifest, TypeOK
<1>7. CASE Sign(b)
  <2> DEFINE signer == signers[b][at[b] + 1]
             bes == BuildXadesBasicSignature(files[b], signer, at[b])
  <2>1. <<bes>> \in Seq(Documents)
    <3>1. bes \in Documents
      BY <1>1, <1>7, BesIsDocument, CurrentSigner DEF Sign
    <3> QED
      BY <3>1
  <2> HIDE DEF bes
  <2>2. draft' = [draft EXCEPT ![b] = <<bes>>]
    BY <1>7 DEF Sign, bes
  <2>3. draft' \in [Builders -> Seq(Documents)]
    BY <2>1, <2>2 DEF TypeOK
  <2>4. pc' \in [Builders -> Resting \cup Running]
    BY <1>2, <1>7 DEF Sign, TypeOK
  <2>5. request' \in [Builders -> Requests]
    BY <1>3, <1>7 DEF Sign, TypeOK
  <2> QED
    BY <1>7, <2>3, <2>4, <2>5 DEF Sign, TypeOK
<1>8. CASE ReceiveToken(b)
  <2>1. <<UpgradeBesToT(draft[b][1], request[b].reply)>> \in Seq(Documents)
    <3>1. draft[b][1] \in Documents
      <4>1. PICK doc : draft[b] = <<doc>>
        BY <1>8 DEF ReceiveToken, CallInv, DraftLevel
      <4> QED
        BY <1>1, <4>1
    <3>2. request[b].reply \in UnsignedProperties
      BY <1>1, <1>8 DEF ReceiveToken, Requests
    <3>3. UpgradeBesToT(draft[b][1], request[b].reply) \in Documents
      BY <3>1, <3>2, UpgradesAreDocuments
    <3> QED
      BY <3>3
  <2>2. draft' \in [Builders -> Seq(Documents)]
    BY <1>8, <2>1 DEF ReceiveToken, TypeOK
  <2>3. pc' \in [Builders -> Resting \cup Running]
    BY <1>2, <1>8 DEF ReceiveToken, TypeOK
  <2>4. request' \in [Builders -> Requests]
    BY <1>3, <1>8 DEF ReceiveToken, TypeOK
  <2> QED
    BY <1>8, <2>2, <2>3, <2>4 DEF ReceiveToken, TypeOK
<1>9. CASE ReceiveResponse(b)
  <2> DEFINE issuer == IssuerCertificate(signers[b][at[b] + 1], at[b])
  <2>1. <<UpgradeTToLT(draft[b][1], issuer, request[b].reply)>>
          \in Seq(Documents)
    <3>1. draft[b][1] \in Documents
      <4>1. PICK doc : draft[b] = <<doc>>
        BY <1>9 DEF ReceiveResponse, CallInv, DraftLevel
      <4> QED
        BY <1>1, <4>1
    <3>2. request[b].reply \in UnsignedProperties
      BY <1>1, <1>9 DEF ReceiveResponse, Requests
    <3>3. issuer \in UnsignedProperties
      BY <1>1, MadeValues
    <3>4. UpgradeTToLT(draft[b][1], issuer, request[b].reply) \in Documents
      BY <3>1, <3>2, <3>3, UpgradesAreDocuments
    <3> QED
      BY <3>4
  <2>2. draft' \in [Builders -> Seq(Documents)]
    BY <1>9, <2>1 DEF ReceiveResponse, TypeOK
  <2>3. pc' \in [Builders -> Resting \cup Running]
    BY <1>2, <1>9 DEF ReceiveResponse, TypeOK
  <2>4. request' \in [Builders -> Requests]
    BY <1>3, <1>9 DEF ReceiveResponse, TypeOK
  <2> QED
    BY <1>9, <2>2, <2>3, <2>4 DEF ReceiveResponse, TypeOK
<1>10. CASE WriteSignature(b)
  <2>1. SignatureEntry(at[b], draft[b][1]) \in Entries
    <3>1. draft[b][1] \in Documents
      <4>1. PICK doc : draft[b] = <<doc>>
        BY <1>10 DEF WriteSignature, CallInv, DraftLevel
      <4> QED
        BY <1>1, <4>1
    <3> QED
      BY <1>1, <3>1, EntryTypes
  <2>2. zip' \in [Builders -> Seq(Entries)] /\ disk' \in [Paths -> DiskFiles]
    BY <1>10, <2>1, WrittenTypes DEF WriteSignature
  <2>3. <<>> \in Seq(Documents) /\ at[b] + 1 \in Nat
    BY <1>1
  <2> QED
    BY <1>2, <1>10, <2>2, <2>3 DEF WriteSignature, TypeOK
<1>11. CASE Finish(b)
  <2>1. disk' \in [Paths -> DiskFiles]
    BY <1>11, SealedFile DEF Finish
  <2> QED
    BY <1>2, <1>11, <2>1 DEF Finish, TypeOK
<1> QED
  BY <1>4, <1>5, <1>6, <1>7, <1>8, <1>9, <1>10, <1>11 DEF Progress

(***************************************************************************)
(* Every step of a call that fails keeps the types.                        *)
(***************************************************************************)
LEMMA FailureTypes ==
    ASSUME TypeOK, NEW b \in Builders, Failure(b)
    PROVE  TypeOK'
<1>1. CASE RejectDuplicate(b) \/ SignFails(b) \/ Refused(b) \/ Timeout(b)
  <2>1. Abandon(b) /\ zip' = zip /\ disk' = disk
    BY <1>1 DEF RejectDuplicate, SignFails, Refused, Timeout
  <2>2. zip' \in [Builders -> Seq(Entries)] /\ disk' \in [Paths -> DiskFiles]
    BY <2>1 DEF TypeOK
  <2> QED
    BY <2>1, <2>2, AbandonTypes
<1>2. CASE WriteFails(b)
  <2>1. Append(zip[b], CutEntry(NextName(b))) \in Seq(Entries)
    <3>1. CutEntry(NextName(b)) \in Entries
      BY NextNameType, EntryTypes
    <3>2. zip[b] \in Seq(Entries)
      BY DEF TypeOK
    <3> QED
      BY <3>1, <3>2
  <2>2. zip' \in [Builders -> Seq(Entries)]
    BY <1>2, <2>1 DEF WriteFails, TypeOK
  <2>3. disk' \in [Paths -> DiskFiles]
    BY <1>2, TouchedFile DEF WriteFails, TypeOK
  <2> QED
    BY <1>2, <2>2, <2>3, AbandonTypes DEF WriteFails
<1>3. CASE FinishFails(b)
  <2>1. disk' \in [Paths -> DiskFiles]
    BY <1>3, TouchedFile DEF FinishFails, TypeOK
  <2>2. zip' \in [Builders -> Seq(Entries)]
    BY <1>3 DEF FinishFails, TypeOK
  <2> QED
    BY <1>3, <2>1, <2>2, AbandonTypes DEF FinishFails
<1>4. CASE Unwind(b)
  <2>1. disk' \in [Paths -> DiskFiles]
    BY <1>4, TouchedFile, SealedFile DEF Unwind, TypeOK
  <2>2. pc' \in [Builders -> Resting \cup Running]
    BY <1>4 DEF Unwind, TypeOK, Resting
  <2> QED
    BY <1>4, <2>1, <2>2 DEF Unwind, TypeOK
<1> QED
  BY <1>1, <1>2, <1>3, <1>4 DEF Failure

(***************************************************************************)
(* So does every step of the caller, of a crash and of the servers.        *)
(***************************************************************************)
LEMMA EnvironmentTypes ==
    ASSUME TypeOK, NEW b \in Builders, CallInv(b), Environment(b)
    PROVE  TypeOK'
<1>1. /\ files[b] \in Seq(Files) /\ signers[b] \in Seq(Signers)
      /\ request[b] \in Requests
  BY DEF TypeOK
<1>2. "idle" \in Resting /\ "failed" \in Resting /\ "mimetype" \in Running
  BY DEF Resting, Running, Writing
<1>3. ASSUME NEW file \in Files, AddFile(b, file)
      PROVE  TypeOK'
  <2>1. CASE AddFileContent(b, file)
    <3>1. Append(files[b], file) \in Seq(Files)
      BY <1>1
    <3> QED
      BY <1>2, <2>1, <3>1 DEF AddFileContent, Consumed, TypeOK
  <2>2. CASE AddFileFails(b)
    BY <1>2, <2>2 DEF AddFileFails, Consumed, TypeOK
  <2> QED
    BY <1>3, <2>1, <2>2 DEF AddFile
<1>4. ASSUME NEW signer \in Signers, AddSigner(b, signer)
      PROVE  TypeOK'
  <2>1. Append(signers[b], signer) \in Seq(Signers)
    BY <1>1
  <2> QED
    BY <1>2, <1>4, <2>1 DEF AddSigner, Consumed, TypeOK
<1>5. ASSUME NEW p \in Paths, Create(b, p)
      PROVE  TypeOK'
  <2>1. [state |-> "open", maker |-> b, files |-> files[b],
         signers |-> signers[b], entries |-> <<>>] \in DiskFiles
    BY <1>1 DEF DiskFiles
  <2>2. disk' \in [Paths -> DiskFiles]
    BY <1>5, <2>1 DEF Create, TypeOK
  <2>3. zip' \in [Builders -> Seq(Entries)]
    BY <1>5 DEF Create, TypeOK
  <2>4. /\ pc' \in [Builders -> Resting \cup Running]
        /\ path' \in [Builders -> Paths] /\ at' \in [Builders -> Nat]
    BY <1>2, <1>5 DEF Create, TypeOK
  <2> QED
    BY <1>5, <2>2, <2>3, <2>4 DEF Create, TypeOK
<1>6. CASE CreateFails(b)
  BY <1>2, <1>6 DEF CreateFails, TypeOK
<1>7. CASE Cancel(b)
  <2>1. Abandon(b) /\ zip' = zip /\ disk' = disk
    BY <1>7 DEF Cancel
  <2>2. zip' \in [Builders -> Seq(Entries)] /\ disk' \in [Paths -> DiskFiles]
    BY <2>1 DEF TypeOK
  <2> QED
    BY <2>1, <2>2, AbandonTypes
<1>8. CASE Crash(b)
  <2>1. request' \in [Builders -> Requests]
    BY <1>8, MadeRequests DEF Crash, TypeOK
  <2>2. /\ files' \in [Builders -> Seq(Files)]
        /\ signers' \in [Builders -> Seq(Signers)]
        /\ zip' \in [Builders -> Seq(Entries)]
        /\ draft' \in [Builders -> Seq(Documents)]
        /\ at' \in [Builders -> Nat]
    BY <1>8 DEF Crash, TypeOK
  <2>3. pc' \in [Builders -> Resting \cup Running]
    BY <1>2, <1>8 DEF Crash, TypeOK
  <2> QED
    BY <1>8, <2>1, <2>2, <2>3 DEF Crash, TypeOK
<1>9. CASE Answer(b)
  <2>1. PICK reply \in {TimeStamp(request[b].about),
                        OcspResponse(request[b].about), Refusal} :
          request' = [request EXCEPT ![b].reply = reply]
    BY <1>9 DEF Answer
  <2>2. reply \in {NoReply, Refusal} \cup UnsignedProperties
    BY <1>1, <2>1, MadeValues DEF Requests
  <2>3. [request[b] EXCEPT !.reply = reply] \in Requests
    BY <1>1, <2>2 DEF Requests
  <2>4. request' \in [Builders -> Requests]
    BY <2>1, <2>3 DEF TypeOK
  <2> QED
    BY <1>9, <2>4 DEF Answer, TypeOK
<1> QED
  BY <1>3, <1>4, <1>5, <1>6, <1>7, <1>8, <1>9 DEF Environment

(***************************************************************************)
(* A call at rest has little to answer for.                                *)
(***************************************************************************)
LEMMA AtRest ==
    ASSUME NEW b \in Builders, pc'[b] \in {"idle", "failed"},
           request'[b] = NoRequest, NamesAreUnique(zip'[b])
    PROVE  CallInv(b)'
<1>1. ZipPosition(b)'
  BY DEF ZipPosition
<1>2. ZipContents(b)'
  BY DEF ZipContents, Running, Writing, Awaiting
<1>3. DraftLevel(b)'
  BY DEF DraftLevel
<1>4. RequestMatches(b)'
  BY DEF RequestMatches, Awaiting
<1> QED
  BY <1>1, <1>2, <1>3, <1>4 DEF CallInv

(***************************************************************************)
(* Nor does one that has been abandoned, its archive apart.                *)
(***************************************************************************)
LEMMA AbandonCall ==
    ASSUME TypeOK, NEW b \in Builders, Abandon(b),
           FollowsLayoutToCut(zip'[b], files[b], signers[b]),
           NamesAreUnique(zip'[b])
    PROVE  CallInv(b)'
<1>1. /\ pc'[b] = "unwind" /\ request'[b] = NoRequest
      /\ files'[b] = files[b] /\ signers'[b] = signers[b]
  BY DEF Abandon, TypeOK
<1>2. ZipPosition(b)'
  BY <1>1 DEF ZipPosition
<1>3. ZipContents(b)'
  BY <1>1 DEF ZipContents
<1>4. DraftLevel(b)'
  BY <1>1 DEF DraftLevel
<1>5. RequestMatches(b)'
  BY <1>1 DEF RequestMatches, Awaiting
<1> QED
  BY <1>2, <1>3, <1>4, <1>5 DEF CallInv

(***************************************************************************)
(* While a call runs, what it has written is a layout up to a cut.         *)
(***************************************************************************)
LEMMA RunningIsPrefix ==
    ASSUME TypeOK, NEW b \in Builders, CallInv(b), pc[b] \in Running
    PROVE  /\ FollowsLayoutToCut(zip[b], files[b], signers[b])
           /\ NamesAreUnique(zip[b])
<1>1. /\ zip[b] \in Seq(Entries) /\ files[b] \in Seq(Files)
      /\ Len(signers[b]) \in Nat
  BY DEF TypeOK
<1>2. NamesAreUnique(zip[b])
  BY DEF CallInv, ZipContents
<1>3. CASE pc[b] = "unwind"
  BY <1>2, <1>3 DEF CallInv, ZipContents
<1>4. CASE pc[b] # "unwind"
  <2>1. FollowsLayout(zip[b], files[b], signers[b])
    BY <1>4 DEF CallInv, ZipContents
  <2> QED
    BY <1>1, <1>2, <2>1, CutFollows
<1> QED
  BY <1>3, <1>4

(***************************************************************************)
(* Each writing step that succeeds extends the layout by its next entry.   *)
(***************************************************************************)
LEMMA WrittenCall ==
    ASSUME TypeOK, NEW b \in Builders, CallInv(b), pc[b] \in Writing,
           NEW entry,
           entry = LayoutAt(files[b], signers[b], Len(zip[b]) + 1),
           Written(b, entry)
    PROVE  /\ FollowsLayout(zip'[b], files[b], signers[b])
           /\ NamesAreUnique(zip'[b])
           /\ Len(zip'[b]) = Len(zip[b]) + 1
<1>1. /\ zip[b] \in Seq(Entries) /\ files[b] \in Seq(Files)
      /\ Len(signers[b]) \in Nat
  BY DEF TypeOK
<1>2. zip'[b] = Append(zip[b], entry) /\ entry.name \notin NamesOf(zip[b])
  BY DEF Written, TypeOK
<1>3. FollowsLayout(zip[b], files[b], signers[b]) /\ NamesAreUnique(zip[b])
  BY DEF CallInv, ZipContents, Running, Writing
<1>4. Len(zip[b]) < LayoutSize(files[b], signers[b])
  BY NextIsLayout
<1>5. FollowsLayout(Append(zip[b], entry), files[b], signers[b])
  BY <1>1, <1>3, <1>4, AppendFollows
<1>6. NamesAreUnique(Append(zip[b], entry))
  BY <1>1, <1>2, <1>3, AppendUnique
<1>7. Len(Append(zip[b], entry)) = Len(zip[b]) + 1
  BY <1>1
<1> QED
  BY <1>2, <1>5, <1>6, <1>7

(***************************************************************************)
(* Every failing step keeps the invariant of its call.                     *)
(***************************************************************************)
LEMMA FailureCallInv ==
    ASSUME TypeOK, NEW b \in Builders, CallInv(b), Failure(b)
    PROVE  CallInv(b)'
<1>1. CASE \/ RejectDuplicate(b) \/ SignFails(b) \/ Refused(b) \/ Timeout(b)
           \/ FinishFails(b)
  <2>1. Abandon(b) /\ zip' = zip /\ pc[b] \in Running
    BY <1>1 DEF RejectDuplicate, SignFails, Refused, Timeout, FinishFails,
                Running
  <2> QED
    BY <2>1, RunningIsPrefix, AbandonCall
<1>2. CASE WriteFails(b)
  <2>1. Abandon(b) /\ pc[b] \in Writing /\ pc[b] \in Running
    BY <1>2 DEF WriteFails, Running
  <2>2. CASE zip' = zip
    BY <2>1, <2>2, RunningIsPrefix, AbandonCall
  <2>3. CASE zip' = [zip EXCEPT ![b] = Append(@, CutEntry(NextName(b)))]
    <3> DEFINE cut == CutEntry(NextName(b))
    <3>1. /\ zip[b] \in Seq(Entries) /\ files[b] \in Seq(Files)
          /\ Len(signers[b]) \in Nat
      BY DEF TypeOK
    <3>2. zip'[b] = Append(zip[b], cut)
      BY <2>3 DEF TypeOK
    <3>3. FollowsLayout(zip[b], files[b], signers[b]) /\ NamesAreUnique(zip[b])
      BY <2>1 DEF CallInv, ZipContents, Writing
    <3>4. /\ Len(zip[b]) < LayoutSize(files[b], signers[b])
          /\ cut = CutEntry(LayoutAt(files[b], signers[b],
                                     Len(zip[b]) + 1).name)
      BY <2>1, NextIsLayout
    <3>5. FollowsLayoutToCut(Append(zip[b], cut), files[b], signers[b])
      BY <3>1, <3>3, <3>4, CutFollows
    <3>6. cut.name = NextName(b)
      BY DEF CutEntry
    <3>7. NextName(b) \notin NamesOf(zip[b])
      BY <1>2 DEF WriteFails
    <3> HIDE DEF cut
    <3>8. NamesAreUnique(Append(zip[b], cut))
      BY <3>1, <3>3, <3>6, <3>7, AppendUnique
    <3> QED
      BY <2>1, <3>2, <3>5, <3>8, AbandonCall
  <2> QED
    BY <1>2, <2>2, <2>3 DEF WriteFails
<1>3. CASE Unwind(b)
  <2>1. pc'[b] = "failed" /\ request'[b] = NoRequest /\ zip' = zip
    BY <1>3 DEF Unwind, CallInv, RequestMatches, Awaiting, TypeOK
  <2>2. NamesAreUnique(zip[b])
    BY DEF CallInv, ZipContents
  <2> QED
    BY <2>1, <2>2, AtRest
<1> QED
  BY <1>1, <1>2, <1>3 DEF Failure

(***************************************************************************)
(* Every step that writes an entry keeps the invariant of its call.        *)
(***************************************************************************)
LEMMA WritingCallInv ==
    ASSUME TypeOK, NEW b \in Builders, CallInv(b),
           \/ WriteMimetype(b) \/ WriteDataFile(b)
           \/ WriteManifest(b) \/ WriteSignature(b)
    PROVE  CallInv(b)'
<1> DEFINE entry == LayoutAt(files[b], signers[b], Len(zip[b]) + 1)
<1>1. pc[b] \in Writing /\ pc[b] \notin Awaiting
  BY DEF WriteMimetype, WriteDataFile, WriteManifest, WriteSignature, Writing,
         Awaiting
<1>2. Written(b, entry)
  <2>1. CASE WriteMimetype(b)
    BY <1>1, <2>1, NextIsLayout DEF WriteMimetype
  <2>2. CASE WriteDataFile(b)
    BY <1>1, <2>2, NextIsLayout DEF WriteDataFile
  <2>3. CASE WriteManifest(b)
    BY <1>1, <2>3, NextIsLayout DEF WriteManifest
  <2>4. CASE WriteSignature(b)
    <3>1. draft[b] = <<FullSignature(files[b], signers[b][at[b] + 1], at[b])>>
      BY <2>4 DEF WriteSignature, CallInv, DraftLevel
    <3>2. draft[b][1] = FullSignature(files[b], signers[b][at[b] + 1], at[b])
      BY <3>1
    <3> QED
      BY <1>1, <2>4, <3>2, NextIsLayout DEF WriteSignature
  <2> QED
    BY <2>1, <2>2, <2>3, <2>4
<1>3. /\ FollowsLayout(zip'[b], files[b], signers[b])
      /\ NamesAreUnique(zip'[b]) /\ Len(zip'[b]) = Len(zip[b]) + 1
  BY <1>1, <1>2, WrittenCall
<1>4. /\ files'[b] = files[b] /\ signers'[b] = signers[b]
      /\ request'[b] = NoRequest /\ pc'[b] \in {"files", "sign"}
  BY <1>1 DEF WriteMimetype, WriteDataFile, WriteManifest, WriteSignature,
              CallInv, RequestMatches, TypeOK
<1>5. ZipPosition(b)'
  <2>1. PICK nf, ns, a, nz \in Nat :
           /\ nf = Len(files[b]) /\ ns = Len(signers[b])
           /\ a = at[b] /\ nz = Len(zip[b])
    BY DEF TypeOK
  <2>2. Len(zip'[b]) = nz + 1
    BY <1>3, <2>1
  <2>3. CASE WriteMimetype(b)
    <3>1. a = 0 /\ nz = 0 /\ at'[b] = a /\ pc'[b] = "files"
      BY <2>1, <2>3 DEF WriteMimetype, CallInv, ZipPosition, TypeOK
    <3> QED
      BY <1>4, <2>1, <2>2, <3>1 DEF ZipPosition
  <2>4. CASE WriteDataFile(b)
    <3>1. a < nf /\ nz = 1 + a /\ at'[b] = a + 1 /\ pc'[b] = "files"
      BY <2>1, <2>4 DEF WriteDataFile, CallInv, ZipPosition, TypeOK
    <3>2. at'[b] <= nf /\ Len(zip'[b]) = 1 + at'[b]
      BY <2>2, <3>1
    <3> QED
      BY <1>4, <2>1, <3>1, <3>2 DEF ZipPosition
  <2>5. CASE WriteManifest(b)
    <3>1. a = nf /\ nz = 1 + a /\ at'[b] = 0 /\ pc'[b] = "sign"
      BY <1>1, <2>1, <2>5, NextIsLayout
         DEF WriteManifest, CallInv, ZipPosition, TypeOK
    <3>2. at'[b] <= ns /\ Len(zip'[b]) = 2 + nf + at'[b]
      BY <2>2, <3>1
    <3> QED
      BY <1>4, <2>1, <3>1, <3>2 DEF ZipPosition
  <2>6. CASE WriteSignature(b)
    <3>1. /\ a < ns /\ nz = 2 + nf + a /\ at'[b] = a + 1
          /\ pc'[b] = "sign"
      BY <2>1, <2>6 DEF WriteSignature, CallInv, ZipPosition, TypeOK
    <3>2. at'[b] <= ns /\ Len(zip'[b]) = 2 + nf + at'[b]
      BY <2>2, <3>1
    <3> QED
      BY <1>4, <2>1, <3>1, <3>2 DEF ZipPosition
  <2> QED
    BY <2>3, <2>4, <2>5, <2>6
<1>6. ZipContents(b)'
  BY <1>3, <1>4 DEF ZipContents
<1>7. DraftLevel(b)'
  BY <1>4 DEF DraftLevel
<1>8. RequestMatches(b)'
  BY <1>4 DEF RequestMatches, Awaiting
<1> QED
  BY <1>5, <1>6, <1>7, <1>8 DEF CallInv

(***************************************************************************)
(* So does every step of build_xades_signature.                            *)
(***************************************************************************)
LEMMA SigningCallInv ==
    ASSUME TypeOK, NEW b \in Builders, CallInv(b),
           Sign(b) \/ ReceiveToken(b) \/ ReceiveResponse(b)
    PROVE  CallInv(b)'
<1> DEFINE signer == signers[b][at[b] + 1]
           bes == BuildXadesBasicSignature(files[b], signer, at[b])
<1>1. /\ pc[b] \in {"sign", "tsa", "ocsp"}
      /\ pc'[b] \in {"tsa", "ocsp", "store"}
      /\ at[b] < Len(signers[b])
  BY DEF Sign, ReceiveToken, ReceiveResponse, CallInv, ZipPosition, TypeOK
<1>2. /\ files'[b] = files[b] /\ signers'[b] = signers[b]
      /\ at'[b] = at[b] /\ zip'[b] = zip[b]
  BY DEF Sign, ReceiveToken, ReceiveResponse
<1>3. ZipPosition(b)'
  BY <1>1, <1>2 DEF CallInv, ZipPosition
<1>4. ZipContents(b)'
  <2>1. FollowsLayout(zip[b], files[b], signers[b]) /\ NamesAreUnique(zip[b])
    BY <1>1 DEF CallInv, ZipContents, Running, Awaiting
  <2> QED
    BY <1>1, <1>2, <2>1 DEF ZipContents
<1>5. DraftLevel(b)' /\ RequestMatches(b)'
  <2>1. CASE Sign(b)
    <3>1. /\ draft'[b] = <<bes>>
          /\ signer.tsa => pc'[b] = "tsa" /\ request'[b] = Post("tsa", at[b])
          /\ ~ signer.tsa => pc'[b] = "store" /\ request'[b] = NoRequest
      BY <2>1 DEF Sign, TypeOK
    <3>2. ~ signer.tsa => bes = FullSignature(files[b], signer, at[b])
      BY LevelsAreFull
    <3>3. DraftLevel(b)'
      BY <1>2, <3>1, <3>2 DEF DraftLevel
    <3>4. RequestMatches(b)'
      BY <1>2, <3>1 DEF RequestMatches, Post, Awaiting
    <3> QED
      BY <3>3, <3>4
  <2>2. CASE ReceiveToken(b)
    <3> DEFINE t == UpgradeBesToT(bes, TimeStamp(at[b]))
    <3>1. /\ draft[b] = <<bes>> /\ signer.tsa
          /\ request[b].reply = TimeStamp(at[b])
      BY <2>2 DEF ReceiveToken, CallInv, DraftLevel, RequestMatches
    <3>2. draft[b][1] = bes
      BY <3>1
    <3>3. /\ draft'[b] = <<t>>
          /\ signer.ocsp => pc'[b] = "ocsp" /\ request'[b] = Post("ocsp", at[b])
          /\ ~ signer.ocsp => pc'[b] = "store" /\ request'[b] = NoRequest
      BY <2>2, <3>1, <3>2 DEF ReceiveToken, TypeOK
    <3>4. ~ signer.ocsp => t = FullSignature(files[b], signer, at[b])
      BY <3>1, LevelsAreFull
    <3>5. DraftLevel(b)'
      BY <1>2, <3>1, <3>3, <3>4 DEF DraftLevel
    <3>6. RequestMatches(b)'
      BY <1>2, <3>3 DEF RequestMatches, Post, Awaiting
    <3> QED
      BY <3>5, <3>6
  <2>3. CASE ReceiveResponse(b)
    <3> DEFINE t == UpgradeBesToT(bes, TimeStamp(at[b]))
               lt == UpgradeTToLT(t, IssuerCertificate(signer, at[b]),
                                  OcspResponse(at[b]))
    <3>1. /\ draft[b] = <<t>> /\ signer.tsa /\ signer.ocsp
          /\ request[b].reply = OcspResponse(at[b])
      BY <2>3 DEF ReceiveResponse, CallInv, DraftLevel, RequestMatches
    <3>2. draft[b][1] = t
      BY <3>1
    <3>3. /\ draft'[b] = <<lt>> /\ pc'[b] = "store"
          /\ request'[b] = NoRequest
      BY <2>3, <3>1, <3>2 DEF ReceiveResponse, TypeOK
    <3>4. lt = FullSignature(files[b], signer, at[b])
      BY <3>1, LevelsAreFull
    <3>5. DraftLevel(b)'
      BY <1>2, <3>3, <3>4 DEF DraftLevel
    <3>6. RequestMatches(b)'
      BY <3>3 DEF RequestMatches, Awaiting
    <3> QED
      BY <3>5, <3>6
  <2> QED
    BY <2>1, <2>2, <2>3
<1> QED
  BY <1>3, <1>4, <1>5 DEF CallInv

(***************************************************************************)
(* finish comes after the last signature: the whole container is written.  *)
(***************************************************************************)
LEMMA FinishCallInv ==
    ASSUME TypeOK, NEW b \in Builders, CallInv(b), Finish(b)
    PROVE  CallInv(b)'
<1>1. /\ pc[b] = "sign" /\ pc'[b] = "ok" /\ request'[b] = NoRequest
      /\ files'[b] = files[b] /\ signers'[b] = signers[b]
      /\ at'[b] = at[b] /\ zip'[b] = zip[b]
  BY DEF Finish, CallInv, RequestMatches, Awaiting, TypeOK
<1>2. Len(zip[b]) = LayoutSize(files[b], signers[b])
  <2>1. PICK nf, ns, a \in Nat :
           nf = Len(files[b]) /\ ns = Len(signers[b]) /\ a = at[b]
    BY DEF TypeOK
  <2>2. a <= ns /\ a >= ns /\ Len(zip[b]) = 2 + nf + a
    BY <1>1, <2>1 DEF Finish, CallInv, ZipPosition
  <2>3. Len(zip[b]) = 2 + nf + ns
    BY <2>2
  <2> QED
    BY <2>1, <2>3 DEF LayoutSize
<1>3. ZipPosition(b)'
  BY <1>1, <1>2 DEF ZipPosition
<1>4. ZipContents(b)'
  <2>1. FollowsLayout(zip[b], files[b], signers[b]) /\ NamesAreUnique(zip[b])
    BY <1>1 DEF CallInv, ZipContents, Running
  <2> QED
    BY <1>1, <2>1 DEF ZipContents
<1>5. DraftLevel(b)'
  BY <1>1 DEF DraftLevel
<1>6. RequestMatches(b)'
  BY <1>1 DEF RequestMatches, Awaiting
<1> QED
  BY <1>3, <1>4, <1>5, <1>6 DEF CallInv

(***************************************************************************)
(* A server's answer is about the request that is outstanding.             *)
(***************************************************************************)
LEMMA AnswerCallInv ==
    ASSUME TypeOK, NEW b \in Builders, CallInv(b), Answer(b)
    PROVE  CallInv(b)' /\ pc[b] \in Awaiting
<1>1. /\ files'[b] = files[b] /\ signers'[b] = signers[b]
      /\ pc'[b] = pc[b] /\ at'[b] = at[b] /\ zip'[b] = zip[b]
      /\ draft'[b] = draft[b]
  BY DEF Answer
<1>2. pc[b] \in Awaiting
  BY DEF Answer, CallInv, RequestMatches, NoRequest, Awaiting
<1>3. request[b].to = pc[b] /\ request[b].about = at[b]
  BY <1>2 DEF CallInv, RequestMatches
<1>4. PICK reply :
         /\ request' = [request EXCEPT ![b].reply = reply]
         /\ pc[b] = "tsa" => reply \in {TimeStamp(at[b]), Refusal}
         /\ pc[b] = "ocsp" => reply \in {OcspResponse(at[b]), Refusal}
  BY <1>3 DEF Answer
<1>5. /\ request'[b].to = pc[b] /\ request'[b].about = at[b]
      /\ request'[b].reply = reply
  <2>1. request[b] \in Requests
    BY DEF TypeOK
  <2>2. request'[b] = [request[b] EXCEPT !.reply = reply]
    BY <1>4 DEF TypeOK
  <2> QED
    BY <1>3, <2>1, <2>2 DEF Requests
<1>6. ZipPosition(b)'
  BY <1>1 DEF CallInv, ZipPosition
<1>7. ZipContents(b)'
  BY <1>1 DEF CallInv, ZipContents
<1>8. DraftLevel(b)'
  BY <1>1 DEF CallInv, DraftLevel
<1>9. RequestMatches(b)'
  BY <1>1, <1>2, <1>4, <1>5 DEF RequestMatches
<1> QED
  BY <1>2, <1>6, <1>7, <1>8, <1>9 DEF CallInv

(***************************************************************************)
(* Every step of the caller, of a crash and of the servers keeps the       *)
(* invariant of the call.                                                  *)
(***************************************************************************)
LEMMA EnvironmentCallInv ==
    ASSUME TypeOK, NEW b \in Builders, CallInv(b), Environment(b)
    PROVE  CallInv(b)'
<1>1. NamesAreUnique(zip[b])
  BY DEF CallInv, ZipContents
<1>2. pc[b] \in Resting => request[b] = NoRequest
  BY DEF CallInv, RequestMatches, Resting, Awaiting
<1>3. NamesAreUnique(<<>>)
  BY DEF NamesAreUnique
<1>4. ASSUME \/ \E file \in Files : AddFile(b, file)
             \/ \E signer \in Signers : AddSigner(b, signer)
             \/ CreateFails(b)
      PROVE  CallInv(b)'
  <2>1. /\ pc[b] \in Resting /\ pc'[b] \in {"idle", "failed"}
        /\ request' = request /\ zip' = zip
    BY <1>4 DEF AddFile, AddFileContent, AddFileFails, AddSigner, CreateFails,
                Consumed, TypeOK
  <2> QED
    BY <1>1, <1>2, <2>1, AtRest
<1>5. ASSUME NEW p \in Paths, Create(b, p)
      PROVE  CallInv(b)'
  <2>1. /\ pc[b] \in Resting /\ pc'[b] = "mimetype" /\ at'[b] = 0
        /\ zip'[b] = <<>> /\ request'[b] = request[b]
        /\ files'[b] = files[b] /\ signers'[b] = signers[b]
    BY <1>5 DEF Create, TypeOK
  <2>2. FollowsLayout(<<>>, files[b], signers[b])
    <3>1. LayoutSize(files[b], signers[b]) \in Nat
      BY DEF LayoutSize, TypeOK
    <3> QED
      BY <3>1 DEF FollowsLayout
  <2>3. ZipPosition(b)'
    BY <2>1 DEF ZipPosition
  <2>4. ZipContents(b)'
    BY <1>3, <2>1, <2>2 DEF ZipContents
  <2>5. DraftLevel(b)'
    BY <2>1 DEF DraftLevel
  <2>6. RequestMatches(b)'
    BY <1>2, <2>1 DEF RequestMatches, Awaiting
  <2> QED
    BY <2>3, <2>4, <2>5, <2>6 DEF CallInv
<1>6. CASE Cancel(b)
  <2>1. Abandon(b) /\ zip' = zip /\ pc[b] \in Running
    BY <1>6 DEF Cancel, Running
  <2> QED
    BY <2>1, RunningIsPrefix, AbandonCall
<1>7. CASE Crash(b)
  <2>1. pc'[b] = "idle" /\ request'[b] = NoRequest /\ zip'[b] = <<>>
    BY <1>7 DEF Crash, TypeOK
  <2> QED
    BY <1>3, <2>1, AtRest
<1>8. CASE Answer(b)
  BY <1>8, AnswerCallInv
<1> QED
  BY <1>4, <1>5, <1>6, <1>7, <1>8 DEF Environment
-----------------------------------------------------------------------------
(***************************************************************************)
(* Every step keeps the disk's invariant.                                  *)
(***************************************************************************)
LEMMA StepKeepsDisk ==
    ASSUME TypeOK, DiskInv, NEW b \in Builders, CallInv(b), StepOf(b)
    PROVE  DiskInv'
<1>1. OthersKeep(b)
  BY StepKeepsOthers
<1>2. CASE \/ WriteMimetype(b) \/ WriteDataFile(b) \/ WriteManifest(b)
           \/ Sign(b) \/ ReceiveToken(b) \/ ReceiveResponse(b)
           \/ WriteSignature(b)
  <2>1. /\ pc[b] \in Running /\ pc'[b] \in Running
        /\ files'[b] = files[b] /\ signers'[b] = signers[b]
        /\ path'[b] = path[b]
    BY <1>2 DEF WriteMimetype, WriteDataFile, WriteManifest, Sign,
       ReceiveToken, ReceiveResponse, WriteSignature, Running, Writing,
       Awaiting, TypeOK
  <2>2. disk' = disk \/ Touched(b)
    BY <1>2 DEF WriteMimetype, WriteDataFile, WriteManifest, Sign,
       ReceiveToken, ReceiveResponse, WriteSignature, Written
  <2> QED
    BY <1>1, <2>1, <2>2, RunningKeepsDisk
<1>3. CASE \/ RejectDuplicate(b) \/ WriteFails(b) \/ SignFails(b)
           \/ Refused(b) \/ Timeout(b) \/ FinishFails(b) \/ Cancel(b)
  <2>1. Abandon(b) /\ pc[b] \in Running
    BY <1>3 DEF RejectDuplicate, WriteFails, SignFails, Refused, Timeout,
       FinishFails, Cancel, Running
  <2>2. /\ pc'[b] \in Running /\ path'[b] = path[b]
        /\ files'[b] = files[b] /\ signers'[b] = signers[b]
    BY <2>1 DEF Abandon, Running, TypeOK
  <2>3. disk' = disk \/ Touched(b)
    BY <1>3 DEF RejectDuplicate, WriteFails, SignFails, Refused, Timeout,
       FinishFails, Cancel
  <2> QED
    BY <1>1, <2>1, <2>2, <2>3, RunningKeepsDisk
<1>4. CASE Finish(b) \/ Unwind(b)
  <2>1. /\ pc[b] \in Running /\ pc'[b] \in {"ok", "failed"}
        /\ files'[b] = files[b] /\ signers'[b] = signers[b]
        /\ path'[b] = path[b] /\ zip'[b] = zip[b]
    BY <1>4 DEF Finish, Unwind, Running, TypeOK
  <2>2. FollowsLayoutToCut(zip[b], files[b], signers[b])
    BY <2>1, RunningIsPrefix
  <2>3. CASE Sealed(b)
    BY <1>1, <2>1, <2>2, <2>3, SealKeepsDisk
  <2>4. CASE Unwind(b) /\ (disk' = disk \/ Touched(b))
    <3>1. pc'[b] = "failed"
      BY <2>4 DEF Unwind, TypeOK
    <3> QED
      BY <1>1, <2>1, <2>4, <3>1, RunningKeepsDisk
  <2> QED
    BY <1>4, <2>3, <2>4 DEF Finish, Unwind
<1>5. ASSUME \/ \E file \in Files : AddFile(b, file)
             \/ \E signer \in Signers : AddSigner(b, signer)
             \/ CreateFails(b) \/ Crash(b)
      PROVE  DiskInv'
  <2>1. pc'[b] \in {"idle", "failed"} /\ disk' = disk
    BY <1>5 DEF AddFile, AddFileContent, AddFileFails, AddSigner, CreateFails,
                Crash, Consumed, TypeOK
  <2> QED
    BY <1>1, <2>1, IdleKeepsDisk
<1>6. ASSUME NEW p \in Paths, Create(b, p)
      PROVE  DiskInv'
  BY <1>1, <1>6, CreateKeepsDisk
<1>7. CASE Answer(b)
  <2>1. pc[b] \in Running
    BY <1>7, AnswerCallInv DEF Running
  <2> QED
    BY <1>1, <1>7, <2>1, RunningKeepsDisk DEF Answer
<1> QED
  BY <1>2, <1>3, <1>4, <1>5, <1>6, <1>7
     DEF StepOf, Progress, Failure, Environment
-----------------------------------------------------------------------------
(***************************************************************************)
(* IInv is inductive.                                                      *)
(***************************************************************************)
LEMMA InitIInv == Init => IInv
<1> SUFFICES ASSUME Init
             PROVE  IInv
  OBVIOUS
<1>1. Absent \in DiskFiles
  BY DEF Absent, DiskFiles
<1>2. NoRequest \in Requests
  BY MadeRequests
<1>3. TypeOK
  BY <1>1, <1>2 DEF Init, TypeOK, Resting
<1>4. ASSUME NEW b \in Builders
      PROVE  CallInv(b) /\ MakerInv(b)
  <2>1. /\ pc[b] = "idle" /\ zip[b] = <<>> /\ request[b] = NoRequest
    BY DEF Init
  <2>2. ZipPosition(b)
    BY <2>1 DEF ZipPosition
  <2>3. ZipContents(b)
    BY <2>1 DEF ZipContents, Running, Writing, Awaiting, NamesAreUnique
  <2>4. DraftLevel(b)
    BY <2>1 DEF DraftLevel
  <2>5. RequestMatches(b)
    BY <2>1 DEF RequestMatches, Awaiting
  <2>6. MakerInv(b)
    BY <2>1 DEF MakerInv, Running, Writing, Awaiting
  <2> QED
    BY <2>2, <2>3, <2>4, <2>5, <2>6 DEF CallInv
<1>5. SealedIsPrefix
  BY DEF Init, SealedIsPrefix, Absent
<1>6. SerialInv
  BY DEF Init, SerialInv, Absent, Running, Writing, Awaiting
<1> QED
  BY <1>3, <1>4, <1>5, <1>6 DEF IInv

LEMMA NextIInv == IInv /\ [Next]_vars => IInv'
<1> SUFFICES ASSUME IInv, [Next]_vars
             PROVE  IInv'
  OBVIOUS
<1>1. TypeOK /\ DiskInv /\ \A b \in Builders : CallInv(b)
  BY DEF IInv, DiskInv
<1>2. ASSUME NEW b \in Builders, StepOf(b)
      PROVE  IInv'
  <2>1. TypeOK'
    BY <1>1, <1>2, ProgressTypes, FailureTypes, EnvironmentTypes DEF StepOf
  <2>2. DiskInv'
    BY <1>1, <1>2, StepKeepsDisk
  <2>3. CallInv(b)'
    <3>1. CASE Progress(b)
      BY <1>1, <3>1, WritingCallInv, SigningCallInv, FinishCallInv
         DEF Progress
    <3> QED
      BY <1>1, <1>2, <3>1, FailureCallInv, EnvironmentCallInv DEF StepOf
  <2>4. ASSUME NEW c \in Builders \ {b}
        PROVE  CallInv(c)'
    BY <1>1, <1>2, StepKeepsOthers, OthersCallInv
  <2> QED
    BY <2>1, <2>2, <2>3, <2>4 DEF IInv, DiskInv
<1>3. CASE UNCHANGED vars
  <2>1. /\ files' = files /\ signers' = signers /\ pc' = pc /\ path' = path
        /\ at' = at /\ zip' = zip /\ draft' = draft /\ request' = request
        /\ disk' = disk
    BY <1>3 DEF vars
  <2>2. TypeOK'
    BY <1>1, <2>1 DEF TypeOK
  <2>3. ASSUME NEW b \in Builders
        PROVE  CallInv(b)'
    <3>1. CallInv(b)
      BY <1>1
    <3> QED
      BY <2>1, <3>1 DEF CallInv, ZipPosition, ZipContents, DraftLevel,
                        RequestMatches
  <2>4. DiskInv'
    BY <1>1, <2>1 DEF DiskInv, MakerInv, SealedIsPrefix, SerialInv, IsMaker
  <2> QED
    BY <2>2, <2>3, <2>4 DEF IInv, DiskInv
<1> QED
  BY <1>2, <1>3 DEF Next, StepOf

(***************************************************************************)
(* A step writes to the disk in one of three ways, or not at all.          *)
(***************************************************************************)
LEMMA DiskSteps ==
    ASSUME NEW b \in Builders, StepOf(b)
    PROVE  \/ disk' = disk \/ Touched(b) \/ Sealed(b)
           \/ \E q \in Paths : Create(b, q)
<1>1. CASE Progress(b)
  BY <1>1 DEF Progress, WriteMimetype, WriteDataFile, WriteManifest, Sign,
     ReceiveToken, ReceiveResponse, WriteSignature, Finish, Written
<1>2. CASE Failure(b)
  BY <1>2 DEF Failure, RejectDuplicate, WriteFails, SignFails, Refused,
     Timeout, FinishFails, Unwind
<1>3. CASE Environment(b)
  BY <1>3 DEF Environment, AddFile, AddFileContent, AddFileFails,
     AddSigner, Consumed, CreateFails, Cancel, Crash, Answer
<1> QED
  BY <1>1, <1>2, <1>3 DEF StepOf

(***************************************************************************)
(* No step exchanges one readable container for another.                   *)
(***************************************************************************)
LEMMA StepNeverSwaps ==
    ASSUME TypeOK, [Next]_vars, NEW p \in Paths,
           disk[p].state = "sealed", disk'[p].state = "sealed"
    PROVE  disk'[p] = disk[p]
<1>1. CASE UNCHANGED vars
  BY <1>1 DEF vars
<1>2. ASSUME NEW b \in Builders, StepOf(b)
      PROVE  disk'[p] = disk[p]
  <2>1. \/ disk' = disk \/ Touched(b) \/ Sealed(b)
        \/ \E q \in Paths : Create(b, q)
    BY <1>2, DiskSteps
  <2>2. disk[p] \in DiskFiles
    BY DEF TypeOK
  <2>3. [disk[p] EXCEPT !.state = "torn"].state = "torn"
    BY <2>2 DEF DiskFiles
  <2>4. CASE Touched(b)
    BY <2>3, <2>4, TouchedFile
  <2>5. CASE Sealed(b)
    BY <2>3, <2>5, SealedFile
  <2>6. ASSUME NEW q \in Paths, Create(b, q)
        PROVE  disk'[p] = disk[p]
    BY <2>6 DEF Create, TypeOK
  <2> QED
    BY <2>1, <2>4, <2>5, <2>6
<1> QED
  BY <1>1, <1>2 DEF Next, StepOf
-----------------------------------------------------------------------------
(***************************************************************************)
(* The inductive invariant holds of every behaviour: the position of the   *)
(* ZipWriter, the level of the signature being made, the request that is   *)
(* outstanding and the file on disk agree in every state.                  *)
(***************************************************************************)
THEOREM Invariant == Spec => []IInv
BY InitIInv, NextIInv, PTL DEF Spec

(***************************************************************************)
(* Every variable keeps its type.                                          *)
(***************************************************************************)
THEOREM TypeCorrect == Spec => []TypeOK
<1>1. IInv => TypeOK
  BY DEF IInv
<1> QED
  BY <1>1, Invariant, PTL

(***************************************************************************)
(* An Ok of create_container means a whole container on disk, for any      *)
(* number of files, signers and concurrent builders.                       *)
(***************************************************************************)
THEOREM OkPublishes == Spec => []OkIsPublished
<1>1. IInv => OkIsPublished
  <2> SUFFICES ASSUME IInv, NEW b \in Builders,
                      pc[b] = "ok", disk[path[b]].maker = b,
                      disk[path[b]].state # "torn"
               PROVE  /\ disk[path[b]].state = "sealed"
                      /\ disk[path[b]].files = files[b]
                      /\ disk[path[b]].signers = signers[b]
                      /\ Len(disk[path[b]].entries)
                            = LayoutSize(files[b], signers[b])
                      /\ FollowsLayout(disk[path[b]].entries, files[b],
                                       signers[b])
                      /\ NamesAreUnique(disk[path[b]].entries)
    BY DEF OkIsPublished
  <2>1. /\ disk[path[b]].state = "sealed" /\ disk[path[b]].entries = zip[b]
        /\ disk[path[b]].files = files[b] /\ disk[path[b]].signers = signers[b]
    BY DEF IInv, MakerInv
  <2>2. /\ Len(zip[b]) = LayoutSize(files[b], signers[b])
        /\ FollowsLayout(zip[b], files[b], signers[b])
        /\ NamesAreUnique(zip[b])
    BY DEF IInv, CallInv, ZipPosition, ZipContents
  <2> QED
    BY <2>1, <2>2
<1> QED
  BY <1>1, Invariant, PTL

(***************************************************************************)
(* What a failed, timed-out, cancelled or crashed call leaves readable is  *)
(* a prefix of its container.                                              *)
(***************************************************************************)
THEOREM SealedArePrefixes == Spec => []SealedIsPrefix
<1>1. IInv => SealedIsPrefix
  BY DEF IInv
<1> QED
  BY <1>1, Invariant, PTL

(***************************************************************************)
(* No path is readable before the call that created it has returned.       *)
(***************************************************************************)
THEOREM SealedAreSettled == Spec => []SealedIsSettled
<1>1. IInv => SealedIsSettled
  BY DEF IInv, SealedIsSettled, MakerInv, IsMaker
<1> QED
  BY <1>1, Invariant, PTL

(***************************************************************************)
(* Callers that run one call on a path at a time never tear a container.   *)
(***************************************************************************)
THEOREM SerialCallsNeverTear == Spec => []SerialNeverTears
<1>1. IInv => SerialNeverTears
  BY DEF IInv, SerialInv, SerialNeverTears
<1> QED
  BY <1>1, Invariant, PTL

(***************************************************************************)
(* No step replaces a readable container by another, overlap or not.       *)
(***************************************************************************)
THEOREM ContainersNeverSwap == Spec => NeverSwapped
<1>1. TypeOK /\ [Next]_vars =>
        [\A p \in Paths :
            (disk[p].state = "sealed" /\ disk'[p].state = "sealed")
                => disk'[p] = disk[p]]_vars
  BY StepNeverSwaps
<1> QED
  BY <1>1, TypeCorrect, PTL DEF Spec, NeverSwapped
-----------------------------------------------------------------------------
(***************************************************************************)
(* DigiDocBuilder implements ContainerStore: every step of a builder is a  *)
(* step of the store or leaves the store as it is.                         *)
(***************************************************************************)
(***************************************************************************)
(* The store and the builder speak of the same containers.                 *)
(***************************************************************************)
LEMMA SameContainers ==
    /\ Store!Files = Files
    /\ \A fs, ss : Store!Container(fs, ss) = Container(fs, ss)
    /\ \A fs, ss : Store!Remnants(fs, ss) = Remnants(fs, ss)
    /\ \A entries : Store!NamesAreUnique(entries) <=> NamesAreUnique(entries)
<1>1. \A fs, ss, k : Store!LayoutAt(fs, ss, k) = LayoutAt(fs, ss, k)
  BY DEF Store!LayoutAt, LayoutAt, Store!MimetypeEntry, MimetypeEntry,
     Store!DataEntry, DataEntry, Store!ManifestEntry, ManifestEntry,
     Store!SignatureEntry, SignatureEntry, Store!FullSignature, FullSignature,
     Store!ManifestPaths, ManifestPaths, Store!MimetypeName, MimetypeName,
     Store!ManifestName, ManifestName, Store!RootName, RootName,
     Store!SignatureName, SignatureName, Store!AsicE, AsicE,
     Store!BuildXadesBasicSignature, BuildXadesBasicSignature,
     Store!TimeStamp, TimeStamp, Store!IssuerCertificate, IssuerCertificate,
     Store!OcspResponse, OcspResponse
<1>2. \A fs, ss : Store!LayoutSize(fs, ss) = LayoutSize(fs, ss)
  BY DEF Store!LayoutSize, LayoutSize
<1>3. \A name : Store!CutEntry(name) = CutEntry(name)
  BY DEF Store!CutEntry, CutEntry
<1>4. \A fs, ss, n : Store!Beginning(fs, ss, n) = Beginning(fs, ss, n)
  BY <1>1 DEF Store!Beginning, Beginning
<1>5. \A fs, ss, n : Store!CutBeginning(fs, ss, n) = CutBeginning(fs, ss, n)
  BY <1>1, <1>3 DEF Store!CutBeginning, CutBeginning
<1>6. \A fs, ss : Store!Container(fs, ss) = Container(fs, ss)
  BY <1>2, <1>4 DEF Store!Container, Container
<1>7. \A fs, ss : Store!Remnants(fs, ss) = Remnants(fs, ss)
  BY <1>2, <1>4, <1>5 DEF Store!Remnants, Remnants
<1> QED
  BY <1>6, <1>7 DEF Store!Files, Files, Store!NamesAreUnique, NamesAreUnique

(***************************************************************************)
(* Before the first call, the two specifications agree.                    *)
(***************************************************************************)
LEMMA StoreInit == Init => Store!Init
<1> SUFFICES ASSUME Init
             PROVE  Store!Init
  OBVIOUS
<1>1. Outcome = [b \in Builders |-> "idle"]
  BY DEF Init, Outcome, Running, Writing, Awaiting
<1> QED
  BY <1>1 DEF Init, Store!Init, Absent

(***************************************************************************)
(* A sequence of entries is the function of its positions.                 *)
(***************************************************************************)
LEMMA EntriesAreFunctions ==
    ASSUME NEW entries \in Seq(Entries)
    PROVE  /\ Len(entries) \in Nat
           /\ entries = [k \in 1..Len(entries) |-> entries[k]]
BY LenProperties

(***************************************************************************)
(* A layout that is as long as it can be is the whole container.           *)
(***************************************************************************)
LEMMA WholeLayout ==
    ASSUME NEW fs, NEW ss, NEW entries \in Seq(Entries),
           Len(entries) = LayoutSize(fs, ss), FollowsLayout(entries, fs, ss)
    PROVE  entries = Container(fs, ss)
<1>1. entries = [k \in 1..LayoutSize(fs, ss) |-> entries[k]]
  BY EntriesAreFunctions
<1>2. \A k \in 1..LayoutSize(fs, ss) : entries[k] = LayoutAt(fs, ss, k)
  BY DEF FollowsLayout
<1> QED
  BY <1>1, <1>2 DEF Container, Beginning

(***************************************************************************)
(* A layout up to a cut is one of the remnants of the container.           *)
(***************************************************************************)
LEMMA PrefixIsRemnant ==
    ASSUME NEW fs, NEW ss, NEW entries \in Seq(Entries),
           LayoutSize(fs, ss) \in Nat, FollowsLayoutToCut(entries, fs, ss)
    PROVE  entries \in Remnants(fs, ss)
<1> DEFINE n == Len(entries)
           At(k) == LayoutAt(fs, ss, k)
<1>1. n \in Nat /\ entries = [k \in 1..n |-> entries[k]]
  BY EntriesAreFunctions
<1>2. n \in 0..LayoutSize(fs, ss)
  BY <1>1 DEF FollowsLayoutToCut
<1>3. \A k \in 1..n :
         \/ entries[k] = At(k)
         \/ k = n /\ entries[k] = CutEntry(At(k).name)
  BY DEF FollowsLayoutToCut
<1> HIDE DEF n, At
<1>4. CASE \A k \in 1..n : entries[k] = At(k)
  <2>1. entries = Beginning(fs, ss, n)
    BY <1>1, <1>4 DEF Beginning, At
  <2> QED
    BY <1>2, <2>1 DEF Remnants
<1>5. CASE \E k \in 1..n : entries[k] # At(k)
  <2>1. n \in 1..n /\ entries[n] = CutEntry(At(n).name)
    BY <1>3, <1>5
  <2>2. \A k \in 1..n :
           entries[k] = IF k = n THEN CutEntry(At(k).name) ELSE At(k)
    BY <1>3, <2>1
  <2>3. entries = CutBeginning(fs, ss, n)
    BY <1>1, <2>2 DEF CutBeginning, At
  <2>4. n \in 1..LayoutSize(fs, ss)
    BY <1>1, <1>2, <2>1
  <2> QED
    BY <2>3, <2>4 DEF Remnants
<1> QED
  BY <1>4, <1>5
-----------------------------------------------------------------------------
(***************************************************************************)
(* What a step of b does to the outcomes is what it does to that of b.     *)
(***************************************************************************)
LEMMA OutcomeStep ==
    ASSUME NEW b \in Builders, OthersKeep(b), NEW o,
           o = IF pc'[b] \in Running THEN "running" ELSE pc'[b]
    PROVE  Outcome' = [Outcome EXCEPT ![b] = o]
<1>1. \A c \in Builders \ {b} : pc'[c] = pc[c]
  BY DEF OthersKeep
<1> QED
  BY <1>1 DEF Outcome

(***************************************************************************)
(* The store sees a builder run exactly while its call does.               *)
(***************************************************************************)
LEMMA OutcomeOf ==
    ASSUME TypeOK, NEW b \in Builders
    PROVE  /\ Outcome[b] = "running" <=> pc[b] \in Running
           /\ pc[b] \notin Running => Outcome[b] = pc[b]
BY DEF Outcome, Running, Writing, Awaiting, Resting, TypeOK

(***************************************************************************)
(* Within a call, a step is invisible or spoils another call's file.       *)
(***************************************************************************)
LEMMA InnerStep ==
    ASSUME TypeOK, NEW b \in Builders, OthersKeep(b),
           pc[b] \in Running, pc'[b] \in Running,
           files' = files, signers' = signers, path' = path,
           disk' = disk \/ Touched(b)
    PROVE  [Store!Next]_(Store!storeVars)
<1>1. Outcome[b] = "running"
  BY OutcomeOf
<1>2. Outcome' = Outcome
  <2>1. Outcome' = [Outcome EXCEPT ![b] = "running"]
    BY OutcomeStep
  <2> QED
    BY <1>1, <2>1 DEF Outcome
<1>3. CASE disk' = disk
  BY <1>2, <1>3 DEF Store!storeVars
<1>4. CASE Touched(b) /\ IsMaker(b)
  <2>1. disk' \in [Paths -> DiskFiles] /\ \A p \in Paths : disk'[p] = disk[p]
    BY <1>4, TouchedFile
  <2>2. disk' = disk
    BY <2>1 DEF TypeOK
  <2> QED
    BY <1>3, <2>2
<1>5. CASE Touched(b) /\ ~ IsMaker(b)
  <2>1. Store!Spoilt(b)
    BY <1>5 DEF Store!Spoilt, Store!Owns, Touched, IsMaker
  <2>2. Store!Spoil(b)
    BY <1>1, <1>2, <2>1 DEF Store!Spoil
  <2> QED
    BY <2>2 DEF Store!Next
<1> QED
  BY <1>3, <1>4, <1>5

(***************************************************************************)
(* Each step of a call that goes on is such a step.                        *)
(***************************************************************************)
LEMMA RunningStep ==
    ASSUME TypeOK, NEW b \in Builders, CallInv(b), OthersKeep(b),
           \/ WriteMimetype(b) \/ WriteDataFile(b) \/ WriteManifest(b)
           \/ Sign(b) \/ ReceiveToken(b) \/ ReceiveResponse(b)
           \/ WriteSignature(b)
           \/ RejectDuplicate(b) \/ WriteFails(b) \/ SignFails(b)
           \/ Refused(b) \/ Timeout(b) \/ FinishFails(b) \/ Cancel(b)
           \/ Answer(b)
    PROVE  [Store!Next]_(Store!storeVars)
<1>1. CASE \/ WriteMimetype(b) \/ WriteDataFile(b) \/ WriteManifest(b)
           \/ Sign(b) \/ ReceiveToken(b) \/ ReceiveResponse(b)
           \/ WriteSignature(b)
  <2>1. pc[b] \in Running /\ pc'[b] \in Running
    BY <1>1 DEF WriteMimetype, WriteDataFile, WriteManifest, Sign,
       ReceiveToken, ReceiveResponse, WriteSignature, Running, Writing,
       Awaiting, TypeOK
  <2>2. /\ files' = files /\ signers' = signers /\ path' = path
        /\ disk' = disk \/ Touched(b)
    BY <1>1 DEF WriteMimetype, WriteDataFile, WriteManifest, Sign,
       ReceiveToken, ReceiveResponse, WriteSignature, Written
  <2> QED
    BY <2>1, <2>2, InnerStep
<1>2. CASE \/ RejectDuplicate(b) \/ WriteFails(b) \/ SignFails(b)
           \/ Refused(b) \/ Timeout(b) \/ FinishFails(b) \/ Cancel(b)
  <2>1. /\ Abandon(b) /\ pc[b] \in Running
        /\ disk' = disk \/ Touched(b)
    BY <1>2 DEF RejectDuplicate, WriteFails, SignFails, Refused, Timeout,
       FinishFails, Cancel, Running
  <2>2. /\ files' = files /\ signers' = signers /\ path' = path
        /\ pc'[b] \in Running
    BY <2>1 DEF Abandon, Running, TypeOK
  <2> QED
    BY <2>1, <2>2, InnerStep
<1>3. CASE Answer(b)
  <2>1. pc[b] \in Running
    BY <1>3, AnswerCallInv DEF Running
  <2> QED
    BY <1>3, <2>1, InnerStep DEF Answer
<1> QED
  BY <1>1, <1>2, <1>3
-----------------------------------------------------------------------------
(***************************************************************************)
(* The central directory of b publishes what b has written.                *)
(***************************************************************************)
LEMMA SealedIsPublished ==
    ASSUME NEW b \in Builders, Sealed(b)
    PROVE  Store!Published(b, zip[b])
BY DEF Sealed, IsMaker, Store!Published, Store!Owns

(***************************************************************************)
(* A call that finishes has made its whole container.                      *)
(***************************************************************************)
LEMMA FinishSucceeds ==
    ASSUME TypeOK, NEW b \in Builders, CallInv(b), OthersKeep(b), Finish(b)
    PROVE  Store!Succeed(b)
<1>1. /\ pc[b] \in Running /\ pc'[b] = "ok" /\ zip'[b] = zip[b]
      /\ files' = files /\ signers' = signers /\ path' = path
  BY DEF Finish, Running, TypeOK
<1>2. /\ Len(zip[b]) = LayoutSize(files[b], signers[b])
      /\ FollowsLayout(zip[b], files[b], signers[b])
      /\ NamesAreUnique(zip[b])
  BY <1>1, FinishCallInv DEF CallInv, ZipPosition, ZipContents
<1>3. zip[b] \in Seq(Entries)
  BY DEF TypeOK
<1>4. zip[b] = Container(files[b], signers[b])
  BY <1>2, <1>3, WholeLayout
<1>5. Store!Published(b, Container(files[b], signers[b]))
  BY <1>4, SealedIsPublished DEF Finish
<1>6. Outcome[b] = "running" /\ Outcome' = [Outcome EXCEPT ![b] = "ok"]
  BY <1>1, OutcomeOf, OutcomeStep DEF Running, Writing, Awaiting
<1> QED
  BY <1>1, <1>2, <1>4, <1>5, <1>6, SameContainers DEF Store!Succeed

(***************************************************************************)
(* A call that unwinds leaves a remnant, or does not reach its file.       *)
(***************************************************************************)
LEMMA UnwindFails ==
    ASSUME TypeOK, NEW b \in Builders, CallInv(b), OthersKeep(b), Unwind(b)
    PROVE  Store!Fail(b)
<1>1. /\ pc[b] \in Running /\ pc'[b] = "failed"
      /\ files' = files /\ signers' = signers /\ path' = path
  BY DEF Unwind, Running, TypeOK
<1>2. Outcome[b] = "running" /\ Outcome' = [Outcome EXCEPT ![b] = "failed"]
  BY <1>1, OutcomeOf, OutcomeStep DEF Running, Writing, Awaiting
<1>3. \/ \E entries \in Remnants(files[b], signers[b]) :
             Store!Published(b, entries)
      \/ Store!Spoilt(b)
      \/ disk' = disk
  <2>1. CASE Sealed(b)
    <3>1. zip[b] \in Seq(Entries) /\ LayoutSize(files[b], signers[b]) \in Nat
      BY DEF TypeOK, LayoutSize
    <3>2. zip[b] \in Remnants(files[b], signers[b])
      BY <1>1, <3>1, RunningIsPrefix, PrefixIsRemnant
    <3> QED
      BY <2>1, <3>2, SealedIsPublished
  <2>2. CASE Touched(b) /\ IsMaker(b)
    <3>1. disk' \in [Paths -> DiskFiles] /\ \A p \in Paths : disk'[p] = disk[p]
      BY <2>2, TouchedFile
    <3> QED
      BY <3>1 DEF TypeOK
  <2>3. CASE Touched(b) /\ ~ IsMaker(b)
    BY <2>3 DEF Store!Spoilt, Store!Owns, Touched, IsMaker
  <2> QED
    BY <2>1, <2>2, <2>3 DEF Unwind
<1> QED
  BY <1>1, <1>2, <1>3, SameContainers DEF Store!Fail

(***************************************************************************)
(* Steps outside of a call, and the death of its process.                  *)
(***************************************************************************)
LEMMA RestingStep ==
    ASSUME TypeOK, NEW b \in Builders, OthersKeep(b),
           \/ \E file \in Files : AddFile(b, file)
           \/ \E signer \in Signers : AddSigner(b, signer)
           \/ \E p \in Paths : Create(b, p)
           \/ CreateFails(b) \/ Crash(b)
    PROVE  Store!Next
<1>1. ASSUME \/ \E file \in Files : AddFile(b, file)
             \/ \E signer \in Signers : AddSigner(b, signer)
      PROVE  Store!Fill(b)
  <2>1. Consumed(b)
    BY <1>1 DEF AddFile, AddFileContent, AddFileFails, AddSigner
  <2>2. pc[b] \notin Running /\ pc'[b] = "idle"
    BY <2>1 DEF Consumed, Resting, Running, Writing, Awaiting, TypeOK
  <2>3. Outcome[b] # "running" /\ Outcome' = [Outcome EXCEPT ![b] = "idle"]
    BY <2>2, OutcomeOf, OutcomeStep DEF Running, Writing, Awaiting
  <2>4. \/ \E file \in Files :
              /\ files' = [files EXCEPT ![b] = Append(@, file)]
              /\ UNCHANGED signers
        \/ \E signer \in Signers :
              /\ signers' = [signers EXCEPT ![b] = Append(@, signer)]
              /\ UNCHANGED files
        \/ Store!Emptied(b)
    BY <1>1 DEF AddFile, AddFileContent, AddFileFails, AddSigner,
                Store!Emptied
  <2> QED
    BY <2>1, <2>3, <2>4, SameContainers DEF Consumed, Store!Fill
<1>2. ASSUME NEW p \in Paths, Create(b, p)
      PROVE  Store!Start(b, p)
  <2>1. pc[b] \notin Running /\ pc'[b] \in Running
    BY <1>2 DEF Create, Resting, Running, Writing, Awaiting, TypeOK
  <2>2. Outcome[b] # "running" /\ Outcome' = [Outcome EXCEPT ![b] = "running"]
    BY <2>1, OutcomeOf, OutcomeStep
  <2>3. Overlap \/ \A c \in Builders : Outcome[c] = "running" => path[c] # p
    BY <1>2, OutcomeOf DEF Create
  <2> QED
    BY <1>2, <2>2, <2>3 DEF Create, Store!Start
<1>3. ASSUME CreateFails(b)
      PROVE  Store!Refuse(b)
  <2>1. pc[b] \notin Running /\ pc'[b] = "failed"
    BY <1>3 DEF CreateFails, Resting, Running, Writing, Awaiting, TypeOK
  <2>2. Outcome[b] # "running" /\ Outcome' = [Outcome EXCEPT ![b] = "failed"]
    BY <2>1, OutcomeOf, OutcomeStep DEF Running, Writing, Awaiting
  <2> QED
    BY <1>3, <2>2 DEF CreateFails, Store!Refuse
<1>4. ASSUME Crash(b)
      PROVE  Store!Crash(b)
  <2>1. pc[b] \in Running /\ pc'[b] = "idle"
    BY <1>4 DEF Crash, TypeOK
  <2>2. Outcome[b] = "running" /\ Outcome' = [Outcome EXCEPT ![b] = "idle"]
    BY <2>1, OutcomeOf, OutcomeStep DEF Running, Writing, Awaiting
  <2> QED
    BY <1>4, <2>2 DEF Crash, Store!Crash, Store!Emptied
<1> QED
  BY <1>1, <1>2, <1>3, <1>4 DEF Store!Next
-----------------------------------------------------------------------------
(***************************************************************************)
(* Every step of DigiDocBuilder is a step of the store or invisible to it. *)
(***************************************************************************)
LEMMA StoreStep ==
    ASSUME IInv, [Next]_vars
    PROVE  [Store!Next]_(Store!storeVars)
<1>1. TypeOK
  BY DEF IInv
<1>2. ASSUME NEW b \in Builders, StepOf(b)
      PROVE  [Store!Next]_(Store!storeVars)
  <2>1. OthersKeep(b) /\ CallInv(b)
    BY <1>1, <1>2, StepKeepsOthers DEF IInv
  <2>2. \/ WriteMimetype(b) \/ WriteDataFile(b) \/ WriteManifest(b)
        \/ Sign(b) \/ ReceiveToken(b) \/ ReceiveResponse(b)
        \/ WriteSignature(b)
        \/ RejectDuplicate(b) \/ WriteFails(b) \/ SignFails(b)
        \/ Refused(b) \/ Timeout(b) \/ FinishFails(b) \/ Cancel(b)
        \/ Answer(b)
        => [Store!Next]_(Store!storeVars)
    BY <1>1, <2>1, RunningStep
  <2>3. Finish(b) => Store!Next
    BY <1>1, <2>1, FinishSucceeds DEF Store!Next
  <2>4. Unwind(b) => Store!Next
    BY <1>1, <2>1, UnwindFails DEF Store!Next
  <2>5. \/ \E file \in Files : AddFile(b, file)
        \/ \E signer \in Signers : AddSigner(b, signer)
        \/ \E p \in Paths : Create(b, p)
        \/ CreateFails(b) \/ Crash(b)
        => Store!Next
    BY <1>1, <2>1, RestingStep
  <2> QED
    BY <1>2, <2>2, <2>3, <2>4, <2>5
       DEF StepOf, Progress, Failure, Environment
<1>3. CASE UNCHANGED vars
  BY <1>3 DEF vars, Store!storeVars, Outcome
<1> QED
  BY <1>2, <1>3 DEF Next, StepOf

(***************************************************************************)
(* For its callers and readers, create_container is the two steps of       *)
(* ContainerStore, for any builders, files, signers and servers.           *)
(***************************************************************************)
THEOREM Refinement == Spec => ImplementsStore
BY StoreInit, StoreStep, Invariant, PTL DEF Spec, ImplementsStore, Store!Spec
=============================================================================
