----------------------------- MODULE TagPrefixes -----------------------------
(***************************************************************************)
(* strip_tag_prefixes of digidoc/reader.rs, byte by byte, on the documents *)
(* that an XML parser accepts: tags with a name and an attribute, and text *)
(* between them.  What it returns is what parse_signature deserialises.    *)
(*                                                                         *)
(* "ds:" stands for the bytes of any of the three prefixes: no two of them *)
(* overlap, so the scan meets each occurrence whole.  "a" is any other     *)
(* ASCII character, "wide" one whose UTF-8 form has two bytes.             *)
(***************************************************************************)
EXTENDS Naturals, Sequences, SequencesExt

CONSTANTS
    Strings,    \* the texts and the attribute values
    MaxPieces   \* bound: pieces of a document

Symbols == {"a", ">", "ds:", "wide"}

ASSUME TagPrefixesAssumption ==
    Strings \subseteq Seq(Symbols) /\ MaxPieces \in Nat

VARIABLES
    document,   \* its pieces: tags and texts
    bytes,      \* xml.as_bytes(), empty before strip_tag_prefixes is called
    i,          \* bytes consumed
    insideTag,  \* inside_tag
    out,        \* the characters pushed so far
    scanning    \* whether the call has begun

scanVars == <<document, bytes, i, insideTag, out, scanning>>
-----------------------------------------------------------------------------
(***************************************************************************)
(* Documents.  In a value and in a text XML forbids "<" but not ">".       *)
(***************************************************************************)
Pieces ==
    [tag : {TRUE}, prefixed : BOOLEAN, string : Strings]
      \cup [tag : {FALSE}, prefixed : {FALSE}, string : Strings]

Name(prefixed) == IF prefixed THEN <<"ds:", "a">> ELSE <<"a">>

Whole(pieces) ==
    FlattenSeq(
        [k \in 1..Len(pieces) |->
            IF pieces[k].tag
            THEN <<"<">> \o Name(pieces[k].prefixed) \o <<"=">>
                   \o pieces[k].string \o <<">">>
            ELSE pieces[k].string])

Source == Whole(document)

\* What the comment asks for: names lose their prefix, nothing else changes.
Expected ==
    Whole([k \in 1..Len(document) |-> [document[k] EXCEPT !.prefixed = FALSE]])

\* The UTF-8 bytes of a text: one for an ASCII character, two for a wide one.
Bytes(text) ==
    FlattenSeq([k \in 1..Len(text) |->
                   IF text[k] = "wide" THEN <<"lead", "trail">> ELSE <<text[k]>>])

\* "ch as char": a byte above 127 becomes a character of its own.
AsChar(byte) ==
    IF byte = "lead" THEN "Latin-1 lead"
    ELSE IF byte = "trail" THEN "Latin-1 trail" ELSE byte
-----------------------------------------------------------------------------
ScanInit ==
    /\ document = <<>>
    /\ bytes = <<>> /\ i = 0 /\ insideTag = FALSE /\ out = <<>> /\ scanning = FALSE

Write(piece) ==
    /\ ~ scanning /\ Len(document) < MaxPieces
    /\ document' = Append(document, piece)
    /\ UNCHANGED <<bytes, i, insideTag, out, scanning>>

Call ==
    /\ ~ scanning /\ document # <<>>
    /\ scanning' = TRUE
    /\ bytes' = Bytes(Source)
    /\ UNCHANGED <<document, i, insideTag, out>>

MoreBytes == scanning /\ i < Len(bytes)

Meets(byte) == MoreBytes /\ bytes[i + 1] = byte

Consume(char) ==
    /\ out' = out \o char
    /\ i' = i + 1
    /\ UNCHANGED <<document, bytes, scanning>>

OpenTag == Meets("<") /\ insideTag' = TRUE /\ Consume(<<"<">>)

\* Mutant: a tag that has begun never ends.
CloseTagInside == Meets(">") /\ insideTag' = TRUE /\ Consume(<<">">>)

CloseTag == Meets(">") /\ insideTag' = FALSE /\ Consume(<<">">>)

\* Mutant: a prefix is matched but not consumed.
StripPrefixInPlace ==
    /\ Meets("ds:") /\ insideTag
    /\ UNCHANGED scanVars

StripPrefix ==
    /\ Meets("ds:") /\ insideTag
    /\ Consume(<<>>)
    /\ UNCHANGED insideTag

CopyByte ==
    /\ MoreBytes
    /\ bytes[i + 1] \notin {"<", ">"} \cup (IF insideTag THEN {"ds:"} ELSE {})
    /\ Consume(<<AsChar(bytes[i + 1])>>)
    /\ UNCHANGED insideTag

Scan == OpenTag \/ CloseTag \/ StripPrefix \/ CopyByte

ScanNext ==
    \/ \E piece \in Pieces : Write(piece)
    \/ Call
    \/ Scan

\* The loop runs to its end once it was entered.
ScanSpec == ScanInit /\ [][ScanNext]_scanVars /\ WF_scanVars(Scan)
-----------------------------------------------------------------------------
(***************************************************************************)
(* Properties.                                                             *)
(***************************************************************************)
Returned == scanning /\ ~ MoreBytes

IsAscii(string) == \A k \in 1..Len(string) : string[k] # "wide"

\* A prefix that comes before every ">" of a value.
ExposesPrefix(value) ==
    \E k \in 1..Len(value) :
        value[k] = "ds:" /\ \A j \in 1..(k - 1) : value[j] # ">"

IsHarmless(piece) ==
    IsAscii(piece.string) /\ (piece.tag => ~ ExposesPrefix(piece.string))

(***************************************************************************)
(* StripsNamesOnly: the names lose their prefixes and everything else      *)
(* stays as it is, prefixes in a text and ">" in a value included, exactly *)
(* for the documents in which every character is ASCII and no attribute    *)
(* value has a prefix before its first ">".  The fields that               *)
(* parse_signature takes from the result (base64, a time, an algorithm's   *)
(* URI) are of this kind.                                                  *)
(***************************************************************************)
StripsNamesOnly ==
    Returned =>
        (out = Expected
           <=> \A k \in 1..Len(document) : IsHarmless(document[k]))

(***************************************************************************)
(* ScanEnds: the loop comes to the end of every document: each of its      *)
(* branches, the one that skips a prefix included, moves on.               *)
(***************************************************************************)
ScanEnds == scanning ~> Returned

(***************************************************************************)
(* TextAndValuesUntouched: the comment of strip_tag_prefixes, "leaving     *)
(* text content and attribute values untouched".                           *)
(***************************************************************************)
TextAndValuesUntouched == Returned => out = Expected
=============================================================================
