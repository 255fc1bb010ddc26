---------------------------- MODULE DigiDocSystem ----------------------------
(***************************************************************************)
(* Builders and a reader on the same paths.  The reader may open a path at *)
(* any moment: before it is created, while it is written, after the call   *)
(* that wrote it failed, was cancelled or crashed, and while the path is   *)
(* being created anew.                                                     *)
(***************************************************************************)
EXTENDS DigiDocBuilder, FiniteSets

CONSTANTS
    ReadsAs,     \* what a reader takes the contents of data files for
    OtherBytes   \* the contents of an entry that is not a data file

VARIABLES
    archive, phase, cursor, found, signatures, errors, warnings, verdict,
    source     \* the file on disk whose directory the reader has loaded

R == INSTANCE DigiDocReader WITH Archives <- {}

\* A data file called "/" would answer for the container in the manifest.
ASSUME SystemAssumption == RootName \notin FileNames /\ R!TextsAreTyped

readerState ==
    <<archive, phase, cursor, found, signatures, errors, warnings, verdict,
      source>>
systemVars == <<vars, readerState>>

SystemInit == Init /\ R!ReaderInit /\ source = Absent

BuilderStep == Next /\ UNCHANGED readerState

(***************************************************************************)
(* A file with a central directory of its own opens as an archive.  A torn *)
(* one is left out: what it opens as depends on the byte offsets of two    *)
(* archives, and callers that do not overlap never make one.               *)
(***************************************************************************)
OpenPath(p) ==
    /\ disk[p].state = "sealed"
    /\ R!Open(disk[p].entries)
    /\ source' = disk[p]
    /\ UNCHANGED vars

OpenUnreadable(p) ==
    /\ disk[p].state \in {"absent", "open"}
    /\ R!OpenFails
    /\ UNCHANGED <<vars, source>>

ReaderStep ==
    \/ \E p \in Paths : OpenPath(p) \/ OpenUnreadable(p)
    \/ R!Read /\ UNCHANGED <<vars, source>>

SystemNext == BuilderStep \/ ReaderStep

SystemSpec == SystemInit /\ [][SystemNext]_systemVars
-----------------------------------------------------------------------------
(***************************************************************************)
(* Properties.                                                             *)
(***************************************************************************)
\* How many of the first n data files bear the name of a signature.
OwnSignatures(fs, n) == Cardinality({j \in 1..n : IsSignatureName(fs[j].name)})

\* The document that such a file holds.
OwnDocument(file) == R!AsText(DataEntry(file)).doc

(***************************************************************************)
(* ValidIsSigned: when the reader reports a container valid, the container *)
(* is the work of one create_container call, and the signatures are, in    *)
(* this order and with none left out, the documents in those of its data   *)
(* files that the caller called META-INF/signatures..., and the whole      *)
(* signatures of the first of its signers, over all of its files.  Every   *)
(* file of the call is reported; or else the caller gave it a manifest of  *)
(* its own, whose name kept the call from getting to its signers.  It      *)
(* holds whatever became of the call: failed, cancelled and crashed calls  *)
(* leave prefixes of their container behind.                               *)
(***************************************************************************)
ValidIsSigned ==
    (phase = "done" /\ verdict) =>
        LET fs == source.files
        IN  \E m \in 0..Len(fs), n \in 0..Len(source.signers) :
                LET own == OwnSignatures(fs, m)
                IN  /\ Len(signatures) = own + n /\ own + n > 0
                    /\ \A j \in 1..m : IsSignatureName(fs[j].name) =>
                          /\ R!IsSignature(DataEntry(fs[j]))
                          /\ signatures[OwnSignatures(fs, j)].doc =
                                OwnDocument(fs[j])
                    /\ \A i \in 1..n :
                          signatures[own + i].doc =
                              FullSignature(fs, source.signers[i], i - 1)
                    /\ \/ m = Len(fs) /\ found = fs
                       \/ n = 0 /\ ManifestName \in NamesOf(SubSeq(fs, 1, m))

(***************************************************************************)
(* A container written to its end, for one data file of an ordinary name,  *)
(* by signers whose certificates fit their keys and signing times.         *)
(***************************************************************************)
IsComplete(d) ==
    d.state = "sealed" /\ Len(d.entries) = LayoutSize(d.files, d.signers)
      /\ FollowsLayout(d.entries, d.files, d.signers)

IsProperlySigned(d) ==
    /\ d.signers # <<>>
    /\ \A i \in 1..Len(d.signers) :
          d.signers[i].cert = "match" /\ d.signers[i].time = "within"
    /\ \A i \in 1..Len(d.files) :
          /\ ~ IsFragment(d.files[i].name)
          /\ ~ IsSignatureName(d.files[i].name)

(***************************************************************************)
(* CompleteIsAccepted: a whole, properly signed container of one data file *)
(* is read without error and reported valid, at every signature level and  *)
(* for every number of signers (the round trip of digidoc/mod.rs).  Their  *)
(* keys are of a kind that the reader can verify: "match" says so.         *)
(***************************************************************************)
CompleteIsAccepted ==
    (phase \in {"done", "error"} /\ IsComplete(source)
       /\ IsProperlySigned(source) /\ Len(source.files) = 1)
    => phase = "done" /\ verdict

(***************************************************************************)
(* SignedContainersVerify: digidoc/mod.rs says that every file of a signed *)
(* container is signed, and its round trip that such a container is valid: *)
(* so is a whole, properly signed container of any number of data files.   *)
(***************************************************************************)
SignedContainersVerify ==
    (phase = "done" /\ IsComplete(source) /\ IsProperlySigned(source)
       /\ source.files # <<>>)
    => verdict
=============================================================================
