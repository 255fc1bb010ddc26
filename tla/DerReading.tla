----------------------------- MODULE DerReading -----------------------------
(***************************************************************************)
(* Der against DerReference.  A behaviour grows a length, one at a time,   *)
(* or an input, byte by byte, so that every value up to a bound is a state.*)
(***************************************************************************)
EXTENDS DerReference

CONSTANTS
    Alphabet,    \* the bytes of the inputs
    MaxInput,    \* bound: bytes of an input
    MaxLength    \* bound: lengths

ASSUME ReadingAssumption ==
    Alphabet \subseteq Byte /\ MaxInput \in Nat /\ MaxLength \in Nat

VARIABLES
    input,   \* the bytes that a decoder is given
    len      \* the length that is encoded

readingVars == <<input, len>>

ReadingInit == input = <<>> /\ len = 0

Longer ==
    /\ input = <<>> /\ len < MaxLength
    /\ len' = len + 1
    /\ UNCHANGED input

MoreInput ==
    /\ len = 0 /\ Len(input) < MaxInput
    /\ \E byte \in Alphabet : input' = Append(input, byte)
    /\ UNCHANGED len

ReadingNext == Longer \/ MoreInput

ReadingSpec == ReadingInit /\ [][ReadingNext]_readingVars
-----------------------------------------------------------------------------
\* What is read is what the reference sees, and nothing where it sees nothing.
ReadsAsSeen(bytes, tag) ==
    LET read == ReadTlvWithRemainder(bytes, tag)
    IN  Readings(bytes, tag) = IF read = NoResult THEN {} ELSE {read}

(***************************************************************************)
(* LengthReadsBack: read_length undoes encode_length for every length that *)
(* fits four bytes, whatever bytes follow (der.rs, where the forms meet).  *)
(***************************************************************************)
LengthReadsBack ==
    len < Base4 =>
        LET code == EncodeLength(len)
        IN  /\ ReadLength(code) = <<len, Len(code)>>
            /\ ReadLength(code \o code) = <<len, Len(code)>>

(***************************************************************************)
(* LengthIsDer: encode_length writes the shortest form, as DER requires of *)
(* the requests to a TSA and an OCSP responder.                            *)
(***************************************************************************)
LengthIsDer == len < Base4 => EncodeLength(len) = ShortestForm(len)

(***************************************************************************)
(* ReadsWhatIsThere: a decoder finds a TLV exactly when the input begins   *)
(* with one, there is one way only to see it, and value and remainder      *)
(* share out the bytes after the header: nothing is read past the end.     *)
(***************************************************************************)
ReadsWhatIsThere == \A tag \in {0, 1} : ReadsAsSeen(input, tag)
=============================================================================
