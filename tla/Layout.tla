------------------------------- MODULE Layout -------------------------------
(***************************************************************************)
(* What the container of given files and signers holds, stated over whole  *)
(* archives and by position, independently of the loops that write one.    *)
(***************************************************************************)
EXTENDS Xades

(***************************************************************************)
(* The layout of the container of the files fs and signers ss, from the    *)
(* module documentation of digidoc: a mimetype first, the data files, a manifest that lists all of *)
(* them, and one signature per signer, of the level its servers allow.     *)
(***************************************************************************)
FullSignature(fs, signer, i) ==
    LET bes == BuildXadesBasicSignature(fs, signer, i)
        lt == <<TimeStamp(i), IssuerCertificate(signer, i), OcspResponse(i)>>
    IN  [bes EXCEPT !.unsigned =
            IF ~ signer.tsa THEN <<>>
            ELSE IF signer.ocsp THEN lt ELSE <<TimeStamp(i)>>]

LayoutSize(fs, ss) == 2 + Len(fs) + Len(ss)

LayoutAt(fs, ss, k) ==
    IF k = 1 THEN MimetypeEntry
    ELSE IF k <= 1 + Len(fs) THEN DataEntry(fs[k - 1])
    ELSE IF k = 2 + Len(fs) THEN ManifestEntry(fs)
    ELSE LET i == k - 3 - Len(fs)
         IN  SignatureEntry(i, FullSignature(fs, ss[i + 1], i))

FollowsLayout(entries, fs, ss) ==
    /\ Len(entries) <= LayoutSize(fs, ss)
    /\ \A k \in 1..Len(entries) : entries[k] = LayoutAt(fs, ss, k)

NamesAreUnique(entries) ==
    \A j, k \in 1..Len(entries) :
        entries[j].name = entries[k].name => j = k

\* FollowsLayout, except that a failed write may have cut off the last entry.
FollowsLayoutToCut(entries, fs, ss) ==
    LET n == Len(entries)
    IN  /\ n <= LayoutSize(fs, ss)
        /\ \A k \in 1..n :
              \/ entries[k] = LayoutAt(fs, ss, k)
              \/ k = n /\ entries[k] = CutEntry(LayoutAt(fs, ss, k).name)

(***************************************************************************)
(* The whole container, and what a call may leave of it: the entries up to *)
(* some position, the last of them cut off or not.                         *)
(***************************************************************************)
Beginning(fs, ss, n) == [k \in 1..n |-> LayoutAt(fs, ss, k)]

Container(fs, ss) == Beginning(fs, ss, LayoutSize(fs, ss))

CutBeginning(fs, ss, n) ==
    [k \in 1..n |-> IF k = n THEN CutEntry(LayoutAt(fs, ss, k).name)
                             ELSE LayoutAt(fs, ss, k)]

Remnants(fs, ss) ==
    {Beginning(fs, ss, n) : n \in 0..LayoutSize(fs, ss)}
      \cup {CutBeginning(fs, ss, n) : n \in 1..LayoutSize(fs, ss)}
=============================================================================
