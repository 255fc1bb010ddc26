--------------------------- MODULE MCDigiDocSystem ---------------------------
(***************************************************************************)
(* Values for the constants of DigiDocSystem that a .cfg cannot write.     *)
(***************************************************************************)
EXTENDS DigiDocSystem

PlainNames == {<<"a.txt", 0>>, <<"b.txt", 0>>}
PlainName == {<<"a.txt", 0>>}

\* A plain name, a fragment, and the names of a signature and the manifest.
OddNames == {<<"a.txt", 0>>, <<"#", 0>>, SignatureName(1), ManifestName}

(***************************************************************************)
(* Contents that are more than text: a signature over nothing but itself,  *)
(* of another's making, and a manifest that lists one file and no other.   *)
(***************************************************************************)
CONSTANTS s, m

SelfContained ==
    [index |-> 9, refs |-> <<>>, formats |-> 1, cert |-> "match",
     time |-> "within", intact |-> TRUE, unsigned |-> <<>>]

OwnTexts ==
    [c \in {s, m} \cap Contents |->
        IF c = s THEN [doc |-> SelfContained]
                 ELSE [paths |-> <<RootName, SignatureName(1)>>]]

Signer(tsa, ocsp, cert, time) ==
    [tsa |-> tsa, ocsp |-> ocsp, issuer |-> TRUE, cert |-> cert, time |-> time]

SignerBes == Signer(FALSE, FALSE, "match", "within")
SignerLT == Signer(TRUE, TRUE, "match", "within")

MixedSigners ==
    {SignerBes, SignerLT, Signer(FALSE, FALSE, "mismatch", "within"),
     Signer(FALSE, FALSE, "match", "late")}
OneSigner == {SignerBes}
FullSigner == {SignerLT}

(***************************************************************************)
(* Bound: what is given to builders, and to those whose files are on disk, *)
(* is one data file and any signers, or else any data files under plain    *)
(* names and those of a signature and the manifest, and one plain signer.  *)
(***************************************************************************)
HasOneFile(fs) == Len(fs) <= 1

HasOneSigner(fs, ss) ==
    /\ ss \in {<<>>, <<SignerBes>>}
    /\ \A j \in 1..Len(fs) : ~ IsFragment(fs[j].name)

OneFileOrOneSigner ==
    \/ /\ \A b \in Builders : HasOneFile(files[b])
       /\ \A p \in Paths : HasOneFile(disk[p].files)
    \/ /\ \A b \in Builders : HasOneSigner(files[b], signers[b])
       /\ \A p \in Paths : HasOneSigner(disk[p].files, disk[p].signers)

(***************************************************************************)
(* Builders and reader share nothing but the file that OpenPath copies     *)
(* into "source", and the invariants speak of the reader's state alone: a  *)
(* builder's step after OpenPath commutes with every step of the reader,   *)
(* so that builders may be stopped there without losing a reader's state.  *)
(***************************************************************************)
BuildersRestWhileReading == phase = "closed" \/ UNCHANGED vars

(***************************************************************************)
(* A call that returns seals its file in its last step, and until the next *)
(* call the file stays as it is, whatever is added to its builder: opened  *)
(* before any of that, it shows a reader the same.                         *)
(***************************************************************************)
AsItsCallLeftIt(b) ==
    /\ pc[b] \in {"ok", "failed"}
    /\ disk[path[b]].files = files[b] /\ disk[path[b]].signers = signers[b]

OpenedAtOnce ==
    phase # "closed" \/ phase' = "closed" \/ \E b \in Builders : AsItsCallLeftIt(b)
=============================================================================
