-------------------------------- MODULE Der --------------------------------
(***************************************************************************)
(* The DER primitives of pki/der.rs over sequences of bytes.               *)
(*                                                                         *)
(* A byte has Base values, 256 in the code.  Model checking takes 16: the  *)
(* short form of a length then ends at 7, and lengths of two, three and    *)
(* four bytes begin at 16, 256 and 4096, within reach of TLC.              *)
(*                                                                         *)
(* An Err is NoResult and an Ok is a tuple.  usize has 64 bits, so that a  *)
(* sum of a length of four bytes and a header does not overflow.           *)
(***************************************************************************)
EXTENDS Naturals, Sequences

CONSTANT Base

ASSUME BaseAssumption == Base \in {16, 256}

Byte == 0..(Base - 1)
Bytes == Seq(Byte)

NoResult == <<>>

\* 0x80: as first byte of a length, the bit that marks the long form.
LongForm == Base \div 2

Base2 == Base * Base
Base3 == Base * Base2
Base4 == Base * Base3

\* The fold of read_length and decode_unsigned_int: (acc << 8) | byte.
BigEndian(bytes) ==
    LET value[n \in 0..Len(bytes)] ==
            IF n = 0 THEN 0 ELSE Base * value[n - 1] + bytes[n]
    IN  value[Len(bytes)]
-----------------------------------------------------------------------------
\* Mutant: a byte with the short form's first bit still counts as short.
EncodeLengthShortOfBase(len) ==
    IF len < Base THEN <<len>>
    ELSE IF len < Base2 THEN <<LongForm + 2, len \div Base, len % Base>>
    ELSE IF len < Base3
    THEN <<LongForm + 3, len \div Base2, (len \div Base) % Base, len % Base>>
    ELSE <<LongForm + 4, (len \div Base3) % Base, (len \div Base2) % Base,
           (len \div Base) % Base, len % Base>>

\* Mutant: < in place of <=, so that 0xff takes two bytes.
EncodeLengthBelowByte(len) ==
    IF len < LongForm THEN <<len>>
    ELSE IF len < Base - 1 THEN <<LongForm + 1, len>>
    ELSE IF len < Base2 THEN <<LongForm + 2, len \div Base, len % Base>>
    ELSE IF len < Base3
    THEN <<LongForm + 3, len \div Base2, (len \div Base) % Base, len % Base>>
    ELSE <<LongForm + 4, (len \div Base3) % Base, (len \div Base2) % Base,
           (len \div Base) % Base, len % Base>>

\* The last form takes the low four bytes of len: `len as u32`.
EncodeLength(len) ==
    IF len < LongForm THEN <<len>>
    ELSE IF len < Base THEN <<LongForm + 1, len>>
    ELSE IF len < Base2 THEN <<LongForm + 2, len \div Base, len % Base>>
    ELSE IF len < Base3
    THEN <<LongForm + 3, len \div Base2, (len \div Base) % Base, len % Base>>
    ELSE <<LongForm + 4, (len \div Base3) % Base, (len \div Base2) % Base,
           (len \div Base) % Base, len % Base>>

EncodeTlv(tag, value) == <<tag>> \o EncodeLength(Len(value)) \o value

\* Mutant: a length of four bytes is refused.
ReadLengthOfThree(input) ==
    IF input = <<>> THEN NoResult
    ELSE IF input[1] < LongForm THEN <<input[1], 1>>
    ELSE LET n == input[1] - LongForm
         IN  IF n = 0 \/ n >= 4 \/ Len(input) < 1 + n THEN NoResult
             ELSE <<BigEndian(SubSeq(input, 2, 1 + n)), 1 + n>>

\* The length, and the number of bytes that hold it.
ReadLength(input) ==
    IF input = <<>> THEN NoResult
    ELSE IF input[1] < LongForm THEN <<input[1], 1>>
    ELSE LET n == input[1] - LongForm
         IN  IF n = 0 \/ n > 4 \/ Len(input) < 1 + n THEN NoResult
             ELSE <<BigEndian(SubSeq(input, 2, 1 + n)), 1 + n>>

\* Mutant: a value that is cut off is taken as far as it goes.
TlvSizesUnchecked(input) ==
    IF input = <<>> THEN NoResult
    ELSE LET length == ReadLength(Tail(input))
             end == 1 + length[2] + length[1]
         IN  IF length = NoResult THEN NoResult
             ELSE <<1 + length[2],
                    IF end > Len(input) THEN Len(input) ELSE end>>

\* The size of the TLV at the start of input: of its header and altogether.
TlvSizes(input) ==
    IF input = <<>> THEN NoResult
    ELSE LET length == ReadLength(Tail(input))
         IN  IF length = NoResult \/ 1 + length[2] + length[1] > Len(input)
             THEN NoResult
             ELSE <<1 + length[2], 1 + length[2] + length[1]>>

\* The value of the TLV at the start of input, and the bytes after the TLV.
ReadTlvWithRemainder(input, tag) ==
    LET sizes == TlvSizes(input)
    IN  IF sizes = NoResult \/ input[1] # tag THEN NoResult
        ELSE <<SubSeq(input, sizes[1] + 1, sizes[2]),
               SubSeq(input, sizes[2] + 1, Len(input))>>

ReadTlv(input, tag) ==
    LET read == ReadTlvWithRemainder(input, tag)
    IN  IF read = NoResult \/ read[2] # <<>> THEN NoResult ELSE <<read[1]>>

TotalTlvLength(input) ==
    LET sizes == TlvSizes(input)
    IN  IF sizes = NoResult THEN NoResult ELSE <<sizes[2]>>

\* At most 8 bytes, after a leading zero of an unsigned INTEGER.
DecodeUnsignedInt(value) ==
    LET bytes == IF Len(value) > 1 /\ value[1] = 0 THEN Tail(value) ELSE value
    IN  IF value = <<>> \/ Len(value) > 9 \/ Len(bytes) > 8 THEN NoResult
        ELSE <<BigEndian(bytes)>>
=============================================================================
