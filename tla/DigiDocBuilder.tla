--------------------------- MODULE DigiDocBuilder ---------------------------
(***************************************************************************)
(* The write path of digidoc/builder.rs: callers fill a DigiDocBuilder and *)
(* call create_container, which writes an archive entry by entry, awaiting *)
(* a TSA and an OCSP responder between two entries when a signer asks for  *)
(* them.                                                                   *)
(*                                                                         *)
(* A builder is a process: DigiDocSignerInput is not Sync, so the futures  *)
(* of one builder stay on one thread, while builders of other threads and  *)
(* processes interleave with it at any step.  Two futures of one builder   *)
(* that are polled in turns behave as two builders of equal contents whose *)
(* steps interleave at the awaits only, a subset of what is modelled.      *)
(***************************************************************************)
EXTENDS Layout

CONSTANTS
    Builders,    \* the builders, each in a thread or process of its own
    Paths,       \* the output paths
    Signers,     \* the inputs a caller may give to add_signer
    Overlap,     \* whether callers may run two calls on one path at a time
    MaxFiles,    \* bound: data files of a builder
    MaxSigners,  \* bound: signers of a builder
    Nobody       \* the maker of a path that was never created

ASSUME BuilderAssumption ==
    /\ Signers \subseteq SignerInputs
    /\ Overlap \in BOOLEAN
    /\ MaxFiles \in Nat /\ MaxSigners \in Nat
    /\ Nobody \notin Builders

VARIABLES
    files,     \* files[b], signers[b]: the fields of builder b
    signers,
    pc,        \* where the create_container of b stands
    path,      \* path[b]: its output_path
    at,        \* at[b]: turns made in its loop over the files or the signers
    zip,       \* zip[b]: the entries its ZipWriter has written
    draft,     \* draft[b]: the signature document being made, in a sequence
    request,   \* request[b]: its outstanding HTTP request
    disk       \* disk[p]: the file at path p

caller == <<files, signers>>
call == <<pc, path, at, zip, draft, request>>
vars == <<files, signers, pc, path, at, zip, draft, request, disk>>
-----------------------------------------------------------------------------
(***************************************************************************)
(* State.                                                                  *)
(***************************************************************************)
Resting == {"idle", "ok", "failed"}
Writing == {"mimetype", "files", "store"}
Awaiting == {"tsa", "ocsp"}
Running == Writing \cup Awaiting \cup {"sign", "unwind"}

NoReply == <<"none", 0>>
Refusal == <<"refused", 0>>
Requests ==
    [to : Awaiting \cup {"none"}, about : Nat,
     reply : {NoReply, Refusal} \cup UnsignedProperties]
NoRequest == [to |-> "none", about |-> 0, reply |-> NoReply]
Post(server, i) == [to |-> server, about |-> i, reply |-> NoReply]

(***************************************************************************)
(* A file on disk.  "open": created and, with no central directory yet,    *)
(* unreadable as an archive.  "sealed": an archive of these entries.       *)
(* "torn": overwritten in part by the writer of another archive.  "maker"  *)
(* is the builder whose call created it last and "files" and "signers" are *)
(* what that builder held then.                                            *)
(***************************************************************************)
DiskFiles ==
    [state : {"absent", "open", "sealed", "torn"},
     maker : Builders \cup {Nobody},
     files : Seq(Files), signers : Seq(Signers), entries : Seq(Entries)]

Absent == [state |-> "absent", maker |-> Nobody,
           files |-> <<>>, signers |-> <<>>, entries |-> <<>>]

TypeOK ==
    /\ files \in [Builders -> Seq(Files)]
    /\ signers \in [Builders -> Seq(Signers)]
    /\ pc \in [Builders -> Resting \cup Running]
    /\ path \in [Builders -> Paths]
    /\ at \in [Builders -> Nat]
    /\ zip \in [Builders -> Seq(Entries)]
    /\ draft \in [Builders -> Seq(Documents)]
    /\ request \in [Builders -> Requests]
    /\ disk \in [Paths -> DiskFiles]

Init ==
    /\ files = [b \in Builders |-> <<>>]
    /\ signers = [b \in Builders |-> <<>>]
    /\ pc = [b \in Builders |-> "idle"]
    /\ path \in [Builders -> Paths]
    /\ at = [b \in Builders |-> 0]
    /\ zip = [b \in Builders |-> <<>>]
    /\ draft = [b \in Builders |-> <<>>]
    /\ request = [b \in Builders |-> NoRequest]
    /\ disk = [p \in Paths |-> Absent]
-----------------------------------------------------------------------------
(***************************************************************************)
(* Filling a builder.  create_container borrows it, so that nothing is     *)
(* added while a call runs; an outcome that was returned is consumed.      *)
(***************************************************************************)
Consumed(b) ==
    /\ pc[b] \in Resting
    /\ pc' = [pc EXCEPT ![b] = "idle"]
    /\ UNCHANGED <<path, at, zip, draft, request, disk>>

\* Mutant: a file may be added while the builder's call runs.
AddFileContentWhileRunning(b, file) ==
    /\ Len(files[b]) < MaxFiles
    /\ files' = [files EXCEPT ![b] = Append(@, file)]
    /\ UNCHANGED <<signers, pc, path, at, zip, draft, request, disk>>

AddFileContent(b, file) ==
    /\ Len(files[b]) < MaxFiles
    /\ files' = [files EXCEPT ![b] = Append(@, file)]
    /\ UNCHANGED signers
    /\ Consumed(b)

(***************************************************************************)
(* add_file takes the builder by value: when the path has no name or the   *)
(* file cannot be read, the builder and all it held are gone, and the      *)
(* caller starts from a new one.                                           *)
(***************************************************************************)
AddFileFails(b) ==
    /\ files' = [files EXCEPT ![b] = <<>>]
    /\ signers' = [signers EXCEPT ![b] = <<>>]
    /\ Consumed(b)

AddFile(b, file) == AddFileContent(b, file) \/ AddFileFails(b)

AddSigner(b, signer) ==
    /\ Len(signers[b]) < MaxSigners
    /\ signers' = [signers EXCEPT ![b] = Append(@, signer)]
    /\ UNCHANGED files
    /\ Consumed(b)
-----------------------------------------------------------------------------
(***************************************************************************)
(* Bytes on disk.  A write by a call whose file another call has created   *)
(* anew goes into that other archive.                                      *)
(***************************************************************************)
IsMaker(b) == disk[path[b]].maker = b

Touched(b) ==
    disk' = [disk EXCEPT ![path[b]].state = IF IsMaker(b) THEN @ ELSE "torn"]

\* Mutant: the directory is written whoever created the file last.
SealedByLast(b) ==
    disk' = [disk EXCEPT ![path[b]] =
                [@ EXCEPT !.state = "sealed", !.entries = zip[b]]]

\* ZipWriter writes the central directory.
Sealed(b) ==
    disk' = [disk EXCEPT ![path[b]] =
                IF IsMaker(b) /\ @.state = "open"
                THEN [@ EXCEPT !.state = "sealed", !.entries = zip[b]]
                ELSE [@ EXCEPT !.state = "torn"]]

\* Mutant: start_file lets a name be written twice.
WrittenTwice(b, entry) ==
    /\ zip' = [zip EXCEPT ![b] = Append(@, entry)]
    /\ Touched(b)

\* start_file, which refuses a name the archive has already, then write_all.
Written(b, entry) ==
    /\ entry.name \notin NamesOf(zip[b])
    /\ zip' = [zip EXCEPT ![b] = Append(@, entry)]
    /\ Touched(b)

\* The name of the entry that is to be written next.
NextName(b) ==
    IF pc[b] = "mimetype" THEN MimetypeName
    ELSE IF pc[b] = "store" THEN SignatureName(at[b])
    ELSE IF at[b] < Len(files[b]) THEN files[b][at[b] + 1].name
    ELSE ManifestName
-----------------------------------------------------------------------------
(***************************************************************************)
(* create_container.                                                       *)
(***************************************************************************)
\* Mutant: the file is opened for writing and not truncated.
CreateUntruncated(b, p) ==
    /\ pc[b] \in Resting
    /\ Overlap \/ \A c \in Builders : pc[c] \in Running => path[c] # p
    /\ pc' = [pc EXCEPT ![b] = "mimetype"]
    /\ path' = [path EXCEPT ![b] = p]
    /\ at' = [at EXCEPT ![b] = 0]
    /\ zip' = [zip EXCEPT ![b] = <<>>]
    /\ disk' = [disk EXCEPT ![p] =
                   [@ EXCEPT !.state = IF @ = "absent" THEN "open" ELSE @,
                             !.maker = b, !.files = files[b],
                             !.signers = signers[b]]]
    /\ UNCHANGED <<files, signers, draft, request>>

\* File::create truncates what is there.
Create(b, p) ==
    /\ pc[b] \in Resting
    /\ Overlap \/ \A c \in Builders : pc[c] \in Running => path[c] # p
    /\ pc' = [pc EXCEPT ![b] = "mimetype"]
    /\ path' = [path EXCEPT ![b] = p]
    /\ at' = [at EXCEPT ![b] = 0]
    /\ zip' = [zip EXCEPT ![b] = <<>>]
    /\ disk' = [disk EXCEPT ![p] =
                   [state |-> "open", maker |-> b, files |-> files[b],
                    signers |-> signers[b], entries |-> <<>>]]
    /\ UNCHANGED <<files, signers, draft, request>>

\* create_dir_all or File::create fails: nothing was written.
CreateFails(b) ==
    /\ pc[b] \in Resting
    /\ pc' = [pc EXCEPT ![b] = "failed"]
    /\ UNCHANGED <<files, signers, path, at, zip, draft, request, disk>>

WriteMimetype(b) ==
    /\ pc[b] = "mimetype"
    /\ Written(b, MimetypeEntry)
    /\ pc' = [pc EXCEPT ![b] = "files"]
    /\ UNCHANGED <<files, signers, path, at, draft, request>>

WriteDataFile(b) ==
    /\ pc[b] = "files" /\ at[b] < Len(files[b])
    /\ Written(b, DataEntry(files[b][at[b] + 1]))
    /\ at' = [at EXCEPT ![b] = @ + 1]
    /\ UNCHANGED <<files, signers, pc, path, draft, request>>

\* Mutant: the loop over the signers goes on from the turn of the last file.
WriteManifestKeepingTurn(b) ==
    /\ pc[b] = "files" /\ at[b] >= Len(files[b])
    /\ Written(b, ManifestEntry(files[b]))
    /\ pc' = [pc EXCEPT ![b] = "sign"]
    /\ UNCHANGED <<files, signers, path, at, draft, request>>

WriteManifest(b) ==
    /\ pc[b] = "files" /\ at[b] >= Len(files[b])
    /\ Written(b, ManifestEntry(files[b]))
    /\ pc' = [pc EXCEPT ![b] = "sign"]
    /\ at' = [at EXCEPT ![b] = 0]
    /\ UNCHANGED <<files, signers, path, draft, request>>

(***************************************************************************)
(* build_xades_signature, up to its first await: the BES document is made  *)
(* and, when a TSA is configured, its signature value is posted there.     *)
(***************************************************************************)
Sign(b) ==
    /\ pc[b] = "sign" /\ at[b] < Len(signers[b])
    /\ LET signer == signers[b][at[b] + 1]
           bes == BuildXadesBasicSignature(files[b], signer, at[b])
       IN  /\ draft' = [draft EXCEPT ![b] = <<bes>>]
           /\ pc' = [pc EXCEPT ![b] = IF signer.tsa THEN "tsa" ELSE "store"]
           /\ request' = [request EXCEPT ![b] =
                 IF signer.tsa THEN Post("tsa", at[b]) ELSE NoRequest]
    /\ UNCHANGED <<files, signers, path, at, zip, disk>>

\* Mutant: the status of the TSA's answer is not looked at.
ReceiveTokenUnchecked(b) ==
    /\ pc[b] = "tsa" /\ request[b].reply # NoReply
    /\ draft' = [draft EXCEPT ![b] = <<UpgradeBesToT(@[1], request[b].reply)>>]
    /\ pc' = [pc EXCEPT ![b] = "store"]
    /\ request' = [request EXCEPT ![b] = NoRequest]
    /\ UNCHANGED <<files, signers, path, at, zip, disk>>

\* Mutant: the answer of the TSA is still there when the OCSP answer is read.
ReceiveTokenKeepingIt(b) ==
    /\ pc[b] = "tsa" /\ request[b].reply \notin {NoReply, Refusal}
    /\ draft' = [draft EXCEPT ![b] = <<UpgradeBesToT(@[1], request[b].reply)>>]
    /\ pc' = [pc EXCEPT ![b] = "ocsp"]
    /\ request' = [request EXCEPT ![b].to = "ocsp"]
    /\ UNCHANGED <<files, signers, path, at, zip, disk>>

\* The TSA's token arrives: BES -> T, then on to the OCSP responder if any.
ReceiveToken(b) ==
    /\ pc[b] = "tsa"
    /\ request[b].reply \notin {NoReply, Refusal}
    /\ LET signer == signers[b][at[b] + 1]
       IN  /\ draft' = [draft EXCEPT ![b] =
                 <<UpgradeBesToT(@[1], request[b].reply)>>]
           /\ pc' = [pc EXCEPT ![b] = IF signer.ocsp THEN "ocsp" ELSE "store"]
           /\ request' = [request EXCEPT ![b] =
                 IF signer.ocsp THEN Post("ocsp", at[b]) ELSE NoRequest]
    /\ UNCHANGED <<files, signers, path, at, zip, disk>>

\* The OCSP response arrives: T -> LT.  Its certificate status is not read.
ReceiveResponse(b) ==
    /\ pc[b] = "ocsp"
    /\ request[b].reply \notin {NoReply, Refusal}
    /\ CanUpgradeToLT(draft[b][1])
    /\ LET issuer == IssuerCertificate(signers[b][at[b] + 1], at[b])
       IN  draft' = [draft EXCEPT ![b] =
               <<UpgradeTToLT(@[1], issuer, request[b].reply)>>]
    /\ pc' = [pc EXCEPT ![b] = "store"]
    /\ request' = [request EXCEPT ![b] = NoRequest]
    /\ UNCHANGED <<files, signers, path, at, zip, disk>>

WriteSignature(b) ==
    /\ pc[b] = "store"
    /\ Written(b, SignatureEntry(at[b], draft[b][1]))
    /\ draft' = [draft EXCEPT ![b] = <<>>]
    /\ at' = [at EXCEPT ![b] = @ + 1]
    /\ pc' = [pc EXCEPT ![b] = "sign"]
    /\ UNCHANGED <<files, signers, path, request>>

\* Mutant: after finish the drop of the ZipWriter writes a second directory.
FinishThenDrop(b) ==
    /\ pc[b] = "sign" /\ at[b] >= Len(signers[b])
    /\ Sealed(b)
    /\ pc' = [pc EXCEPT ![b] = "unwind"]
    /\ UNCHANGED <<files, signers, path, at, zip, draft, request>>

Finish(b) ==
    /\ pc[b] = "sign" /\ at[b] >= Len(signers[b])
    /\ Sealed(b)
    /\ pc' = [pc EXCEPT ![b] = "ok"]
    /\ UNCHANGED <<files, signers, path, at, zip, draft, request>>
-----------------------------------------------------------------------------
(***************************************************************************)
(* The error paths.  Each `?` drops the local variables, the ZipWriter     *)
(* among them, and nothing removes or restores the output file.            *)
(***************************************************************************)
Abandon(b) ==
    /\ pc' = [pc EXCEPT ![b] = "unwind"]
    /\ draft' = [draft EXCEPT ![b] = <<>>]
    /\ request' = [request EXCEPT ![b] = NoRequest]
    /\ UNCHANGED <<files, signers, path, at>>

\* start_file refuses a name that the archive holds already.
RejectDuplicate(b) ==
    /\ pc[b] \in Writing
    /\ NextName(b) \in NamesOf(zip[b])
    /\ Abandon(b)
    /\ UNCHANGED <<zip, disk>>

\* start_file or write_all fails, before or after bytes reach the disk.
WriteFails(b) ==
    /\ pc[b] \in Writing
    /\ NextName(b) \notin NamesOf(zip[b])
    /\ \/ UNCHANGED <<zip, disk>>
       \/ /\ zip' \in
                {zip, [zip EXCEPT ![b] = Append(@, CutEntry(NextName(b)))]}
          /\ Touched(b)
    /\ Abandon(b)

\* The certificate does not parse or the signer returns an error.
SignFails(b) ==
    /\ pc[b] = "sign" /\ at[b] < Len(signers[b])
    /\ Abandon(b)
    /\ UNCHANGED <<zip, disk>>

\* An HTTP error status, or a body without token or response in it.
Refused(b) ==
    /\ pc[b] \in Awaiting
    /\ request[b].reply = Refusal
    /\ Abandon(b)
    /\ UNCHANGED <<zip, disk>>

\* Mutant: a server that does not answer lowers the level of the signature.
TimeoutLowersLevel(b) ==
    /\ pc[b] \in Awaiting
    /\ pc' = [pc EXCEPT ![b] = "store"]
    /\ request' = [request EXCEPT ![b] = NoRequest]
    /\ UNCHANGED <<files, signers, path, at, zip, draft, disk>>

\* Mutant: the client of the OCSP responder has no timeout.
TimeoutOfTsaOnly(b) ==
    /\ pc[b] = "tsa"
    /\ Abandon(b)
    /\ UNCHANGED <<zip, disk>>

\* No connection, or no whole answer within the 10 s of the HTTP client.
Timeout(b) ==
    /\ pc[b] \in Awaiting
    /\ Abandon(b)
    /\ UNCHANGED <<zip, disk>>

\* The caller drops the future, which it can do while the future awaits.
Cancel(b) ==
    /\ pc[b] \in Awaiting
    /\ Abandon(b)
    /\ UNCHANGED <<zip, disk>>

FinishFails(b) ==
    /\ pc[b] = "sign" /\ at[b] >= Len(signers[b])
    /\ Touched(b) \/ UNCHANGED disk
    /\ Abandon(b)
    /\ UNCHANGED zip

(***************************************************************************)
(* Drop of the ZipWriter writes the central directory of the entries so    *)
(* far, and swallows the error when that fails too.                        *)
(***************************************************************************)
Unwind(b) ==
    /\ pc[b] = "unwind"
    /\ Sealed(b) \/ Touched(b) \/ UNCHANGED disk
    /\ pc' = [pc EXCEPT ![b] = "failed"]
    /\ UNCHANGED <<files, signers, path, at, zip, draft, request>>

\* The process of b dies in the middle of a call and is started again.
Crash(b) ==
    /\ pc[b] \in Running
    /\ pc' = [pc EXCEPT ![b] = "idle"]
    /\ files' = [files EXCEPT ![b] = <<>>]
    /\ signers' = [signers EXCEPT ![b] = <<>>]
    /\ at' = [at EXCEPT ![b] = 0]
    /\ zip' = [zip EXCEPT ![b] = <<>>]
    /\ draft' = [draft EXCEPT ![b] = <<>>]
    /\ request' = [request EXCEPT ![b] = NoRequest]
    /\ UNCHANGED <<path, disk>>
-----------------------------------------------------------------------------
(***************************************************************************)
(* The servers.  A TSA answers with a token over what was posted, an OCSP  *)
(* responder with a response about the certificate asked for, or either    *)
(* with something that is neither; or it does not answer at all.           *)
(***************************************************************************)
Answer(b) ==
    /\ request[b].to \in Awaiting
    /\ request[b].reply = NoReply
    /\ LET granted == IF request[b].to = "tsa" THEN TimeStamp(request[b].about)
                                               ELSE OcspResponse(request[b].about)
       IN  \E reply \in {granted, Refusal} :
               request' = [request EXCEPT ![b].reply = reply]
    /\ UNCHANGED <<files, signers, pc, path, at, zip, draft, disk>>
-----------------------------------------------------------------------------
\* What a running call does of itself.
Progress(b) ==
    \/ WriteMimetype(b) \/ WriteDataFile(b) \/ WriteManifest(b)
    \/ Sign(b) \/ ReceiveToken(b) \/ ReceiveResponse(b)
    \/ WriteSignature(b) \/ Finish(b)

Failure(b) ==
    \/ RejectDuplicate(b) \/ WriteFails(b) \/ SignFails(b)
    \/ Refused(b) \/ Timeout(b) \/ FinishFails(b) \/ Unwind(b)

Environment(b) ==
    \/ \E file \in Files : AddFile(b, file)
    \/ \E signer \in Signers : AddSigner(b, signer)
    \/ \E p \in Paths : Create(b, p)
    \/ CreateFails(b) \/ Cancel(b) \/ Crash(b) \/ Answer(b)

Next == \E b \in Builders : Progress(b) \/ Failure(b) \/ Environment(b)

Spec == Init /\ [][Next]_vars

(***************************************************************************)
(* A polled future and the timer of the HTTP client make progress.  No     *)
(* write, signer or server has to fail, servers may stay silent, and no    *)
(* caller has to call, cancel or crash.                                    *)
(***************************************************************************)
Scheduled(b) ==
    \/ Progress(b) \/ RejectDuplicate(b) \/ Refused(b) \/ Timeout(b)
    \/ Unwind(b)

Fairness == \A b \in Builders : WF_vars(Scheduled(b))

FairSpec == Spec /\ Fairness
-----------------------------------------------------------------------------
(***************************************************************************)
(* The refinement mapping to ContainerStore: a call that is somewhere in   *)
(* create_container is running there.                                      *)
(***************************************************************************)
Outcome == [b \in Builders |-> IF pc[b] \in Running THEN "running" ELSE pc[b]]

Store == INSTANCE ContainerStore WITH outcome <- Outcome
-----------------------------------------------------------------------------
(***************************************************************************)
(* Properties.                                                             *)
(***************************************************************************)
(***************************************************************************)
(* OkIsPublished: when create_container has returned Ok, its path holds    *)
(* the whole container of the builder's files and signers, every signature *)
(* at the level asked for and no name twice, unless another call has       *)
(* created or overwritten the path since (builder.rs, create_container).   *)
(***************************************************************************)
OkIsPublished ==
    \A b \in Builders :
        LET d == disk[path[b]]
        IN  (pc[b] = "ok" /\ d.maker = b /\ d.state # "torn") =>
                /\ d.state = "sealed"
                /\ d.files = files[b] /\ d.signers = signers[b]
                /\ Len(d.entries) = LayoutSize(files[b], signers[b])
                /\ FollowsLayout(d.entries, files[b], signers[b])
                /\ NamesAreUnique(d.entries)

(***************************************************************************)
(* SealedIsPrefix: whatever failed and wherever it failed, a readable      *)
(* container that only its own writer has written is a prefix of the       *)
(* container its builder held, cut in its last entry at most: no token or  *)
(* response of another request, no signature ahead of the manifest.        *)
(***************************************************************************)
SealedIsPrefix ==
    \A p \in Paths :
        disk[p].state = "sealed" =>
            FollowsLayoutToCut(disk[p].entries, disk[p].files, disk[p].signers)

(***************************************************************************)
(* SealedIsSettled: a path is readable only once the call that created it  *)
(* has returned or unwound; no reader sees a container that is still being *)
(* written (builder.rs, finish and the drop of the ZipWriter).             *)
(***************************************************************************)
SealedIsSettled ==
    \A b \in Builders :
        (pc[b] \in Running /\ IsMaker(b)) => disk[path[b]].state # "sealed"

(***************************************************************************)
(* SerialNeverTears: callers that never run two calls on one path at a     *)
(* time never get a torn container, whatever is cancelled, times out or    *)
(* crashes: no call writes to its path after it has come to rest.          *)
(***************************************************************************)
SerialNeverTears ==
    ~ Overlap => \A p \in Paths : disk[p].state # "torn"

(***************************************************************************)
(* NeverSwapped: a readable container is never exchanged for another in    *)
(* one step; it is truncated or torn first, even when two calls write the  *)
(* same path, so that a reader cannot take one for the other.              *)
(***************************************************************************)
NeverSwapped ==
    [][\A p \in Paths :
         (disk[p].state = "sealed" /\ disk'[p].state = "sealed")
             => disk'[p] = disk[p]]_vars

(***************************************************************************)
(* ImplementsStore: for its users, create_container is two steps of        *)
(* ContainerStore, one that empties the path and one that leaves there the *)
(* whole container and Ok, or a remnant, or nothing, and an error: all of  *)
(* its writes, requests, refusals and timeouts come down to these.         *)
(***************************************************************************)
ImplementsStore == Store!Spec

(***************************************************************************)
(* CallsReturn: every create_container returns, even when the TSA or the   *)
(* OCSP responder never answers (tsa.rs and ocsp.rs, the client timeout).  *)
(***************************************************************************)
CallsReturn ==
    \A b \in Builders : pc[b] \in Running ~> pc[b] \in Resting
-----------------------------------------------------------------------------
(***************************************************************************)
(* The inductive invariant, in named parts.                                *)
(***************************************************************************)
\* The ZipWriter is as far as the program counter and the loops say.
ZipPosition(b) ==
    /\ pc[b] = "mimetype" => at[b] = 0 /\ Len(zip[b]) = 0
    /\ pc[b] = "files" =>
          at[b] <= Len(files[b]) /\ Len(zip[b]) = 1 + at[b]
    /\ pc[b] \in {"sign", "tsa", "ocsp", "store"} =>
          at[b] <= Len(signers[b]) /\ Len(zip[b]) = 2 + Len(files[b]) + at[b]
    /\ pc[b] \in {"tsa", "ocsp", "store"} => at[b] < Len(signers[b])
    /\ pc[b] = "ok" => Len(zip[b]) = LayoutSize(files[b], signers[b])

\* What it has written is what the layout asks for, up to a cut on failure.
ZipContents(b) ==
    /\ pc[b] \in (Running \ {"unwind"}) \cup {"ok"} =>
          FollowsLayout(zip[b], files[b], signers[b])
    /\ pc[b] = "unwind" => FollowsLayoutToCut(zip[b], files[b], signers[b])
    /\ NamesAreUnique(zip[b])

\* The document being made is that of the signer the loop is at.
DraftLevel(b) ==
    LET signer == signers[b][at[b] + 1]
        bes == BuildXadesBasicSignature(files[b], signer, at[b])
    IN  /\ pc[b] = "tsa" => draft[b] = <<bes>> /\ signer.tsa
        /\ pc[b] = "ocsp" =>
              /\ draft[b] = <<UpgradeBesToT(bes, TimeStamp(at[b]))>>
              /\ signer.tsa /\ signer.ocsp
        /\ pc[b] = "store" =>
              draft[b] = <<FullSignature(files[b], signer, at[b])>>

\* The outstanding request, and its answer, are about that signer too.
RequestMatches(b) ==
    /\ pc[b] \notin Awaiting => request[b] = NoRequest
    /\ pc[b] \in Awaiting => request[b].to = pc[b] /\ request[b].about = at[b]
    /\ pc[b] = "tsa" =>
          request[b].reply \in {NoReply, Refusal, TimeStamp(at[b])}
    /\ pc[b] = "ocsp" =>
          request[b].reply \in {NoReply, Refusal, OcspResponse(at[b])}

CallInv(b) ==
    ZipPosition(b) /\ ZipContents(b) /\ DraftLevel(b) /\ RequestMatches(b)

\* The file of a call that is still its maker is open, or torn by another.
MakerInv(b) ==
    LET d == disk[path[b]]
    IN  /\ (pc[b] \in Running /\ d.maker = b) =>
              /\ d.state \in {"open", "torn"}
              /\ d.files = files[b] /\ d.signers = signers[b]
        /\ (pc[b] = "ok" /\ d.maker = b /\ d.state # "torn") =>
              /\ d.state = "sealed" /\ d.entries = zip[b]
              /\ d.files = files[b] /\ d.signers = signers[b]

SerialInv ==
    ~ Overlap =>
        /\ \A b \in Builders : pc[b] \in Running => IsMaker(b)
        /\ \A p \in Paths : disk[p].state # "torn"

IInv ==
    /\ TypeOK
    /\ \A b \in Builders : CallInv(b)
    /\ \A b \in Builders : MakerInv(b)
    /\ SealedIsPrefix
    /\ SerialInv
=============================================================================
