--------------------------- MODULE MCDigiDocReader ---------------------------
(***************************************************************************)
(* The archives that a reader is given: every choice of a mimetype, of a   *)
(* manifest, of one data file and of up to two entries under               *)
(* META-INF/signatures, of the builder's making and of others'; manifest   *)
(* and signatures may also be data files that a caller gave these names.   *)
(***************************************************************************)
EXTENDS DigiDocReader

A == <<"a.txt", 0>>
B == <<"b.txt", 0>>
Fragment == <<"#", 0>>
MCFileNames == {A, B, Fragment}

\* Two texts, and the contents of a signature and of a manifest.
CONSTANTS x, y, s, m

Optional(entries) == {<<>>} \cup {<<e>> : e \in entries}

MimetypeChoices ==
    Optional({MimetypeEntry, BinaryEntry(MimetypeName),
              [name |-> MimetypeName, mimetype |-> "application/zip"],
              LockedEntry(MimetypeName)})

ManifestChoices ==
    Optional({CutEntry(ManifestName), BinaryEntry(ManifestName),
              [name |-> ManifestName, content |-> m]} \cup
             {[name |-> ManifestName, paths |-> paths] :
                 paths \in {<<>>, <<RootName, A>>, <<B, A>>, <<A, A>>}})

DataChoices ==
    Optional({[name |-> A, content |-> x], [name |-> A, content |-> y],
              LockedEntry(A)})

Good == [index |-> 0, refs |-> <<[uri |-> A, digest |-> x]>>, formats |-> 1,
         cert |-> "match", time |-> "within", intact |-> TRUE,
         unsigned |-> <<>>]

Docs ==
    {Good, [Good EXCEPT !.formats = 2], [Good EXCEPT !.cert = "mismatch"],
     [Good EXCEPT !.cert = "unsupported"], [Good EXCEPT !.time = "early"],
     [Good EXCEPT !.time = "late"], [Good EXCEPT !.intact = FALSE],
     [Good EXCEPT !.refs[1].uri = Fragment]}

MCReadsAs ==
    [c \in {s, m} |->
        IF c = s THEN [doc |-> Good] ELSE [paths |-> <<RootName, A>>]]

SignatureForms(i) ==
    {SignatureEntry(i, doc) : doc \in Docs} \cup
    {[name |-> SignatureName(i), content |-> c] : c \in {x, s}} \cup
    {CutEntry(SignatureName(i)), BinaryEntry(SignatureName(i)),
     DirectoryEntry(SignatureName(i)), LockedEntry(SignatureName(i))}

MCArchives ==
    {mimetype \o data \o manifest \o first \o second :
        mimetype \in MimetypeChoices, data \in DataChoices,
        manifest \in ManifestChoices,
        first \in Optional(SignatureForms(0)),
        second \in Optional(SignatureForms(1))}
=============================================================================
