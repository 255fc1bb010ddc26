----------------------------- MODULE PkiProofs -----------------------------
(***************************************************************************)
(* Proofs about the bytes of der.rs and the messages that are made of them,*)
(* for bytes of 256 values as in the code and of 16 as in the runs.  First,*)
(* what der.rs reads is what it wrote, for every length that fits four     *)
(* bytes.  Then, of the messages of PkiBodies: an answer that was cut off is*)
(* refused, and a request reads back for digests of any length that a      *)
(* length of four bytes can count.                                         *)
(***************************************************************************)
EXTENDS PkiBodies, SequenceInduction


(***************************************************************************)
(* BigEndian, by the recursive function it is defined with.                *)
(***************************************************************************)
Accumulates(f, bytes, n) ==
    f = [k \in 0..n |-> IF k = 0 THEN 0 ELSE Base * f[k - 1] + bytes[k]]

LEMMA AccumulatesExists ==
    ASSUME NEW bytes
    PROVE  \A n \in Nat : \E f : Accumulates(f, bytes, n)
  <1> DEFINE S == {n \in Nat : \E f : Accumulates(f, bytes, n)}
  <1>1. 0 \in S
    <2> DEFINE f == [k \in 0..0 |-> 0]
    <2>1. Accumulates(f, bytes, 0)
      BY DEF Accumulates
    <2> QED
      BY <2>1
  <1>2. ASSUME NEW n \in Nat, n \in S
        PROVE  n + 1 \in S
    <2>1. PICK f : Accumulates(f, bytes, n)
      BY <1>2
    <2> DEFINE last == Base * f[n] + bytes[n + 1]
               g == [k \in 0..(n + 1) |-> IF k = n + 1 THEN last ELSE f[k]]
    <2>2. ASSUME NEW k \in 0..(n + 1)
          PROVE  g[k] = IF k = 0 THEN 0 ELSE Base * g[k - 1] + bytes[k]
      <3>1. CASE k = n + 1
        <4>1. k # 0 /\ k - 1 = n /\ n \in 0..(n + 1) /\ n # n + 1
          BY <3>1
        <4>2. g[k - 1] = f[n] /\ g[k] = last
          BY <3>1, <4>1
        <4> QED
          BY <3>1, <4>1, <4>2
      <3>2. CASE k # n + 1
        <4>1. /\ k \in 0..n
              /\ k # 0 => k - 1 \in 0..(n + 1) /\ k - 1 # n + 1
          BY <3>2
        <4>2. g[k] = f[k] /\ (k # 0 => g[k - 1] = f[k - 1])
          BY <3>2, <4>1
        <4>3. f[k] = IF k = 0 THEN 0 ELSE Base * f[k - 1] + bytes[k]
          BY <2>1, <4>1 DEF Accumulates
        <4> QED
          BY <4>2, <4>3
      <3> QED
        BY <3>1, <3>2
    <2>3. Accumulates(g, bytes, n + 1)
      BY <2>2, Zenon DEF Accumulates
    <2> QED
      BY <2>3
  <1> HIDE DEF S
  <1>3. \A n \in Nat : n \in S
    BY <1>1, <1>2, Induction
  <1> QED
    BY <1>3 DEF S

\* What it is at a number does not depend on where it ends.
LEMMA AccumulatesUnique ==
    ASSUME NEW bytes, NEW more, NEW n \in Nat, NEW m \in Nat, n <= m,
           Agree(bytes, more, n),
           NEW f, Accumulates(f, bytes, n), NEW g, Accumulates(g, more, m)
    PROVE  f[n] = g[n]
  <1> DEFINE S == {k \in Nat : k \in 0..n => f[k] = g[k]}
  <1>1. 0 \in S
    BY DEF Accumulates
  <1>2. ASSUME NEW k \in Nat, k \in S
        PROVE  k + 1 \in S
    <2> SUFFICES ASSUME k + 1 \in 0..n
                 PROVE  f[k + 1] = g[k + 1]
      OBVIOUS
    <2>1. /\ k + 1 \in 0..m /\ (k + 1) - 1 = k /\ k + 1 # 0
          /\ k \in 0..n /\ k + 1 \in 1..n
      OBVIOUS
    <2>2. f[k + 1] = Base * f[k] + bytes[k + 1]
      BY <2>1 DEF Accumulates
    <2>3. g[k + 1] = Base * g[k] + more[k + 1]
      BY <2>1 DEF Accumulates
    <2> QED
      BY <1>2, <2>1, <2>2, <2>3 DEF Agree
  <1> HIDE DEF S
  <1>3. \A k \in Nat : k \in S
    BY <1>1, <1>2, Induction
  <1>4. n \in S
    BY <1>3
  <1> QED
    BY <1>4 DEF S

LEMMA BigEndianIs ==
    ASSUME NEW bytes \in Bytes
    PROVE  \E f : Accumulates(f, bytes, Len(bytes)) /\ BigEndian(bytes) = f[Len(bytes)]
  <1> DEFINE n == Len(bytes)
             F(f) == [k \in 0..n |->
                         IF k = 0 THEN 0 ELSE Base * f[k - 1] + bytes[k]]
             value == CHOOSE f : f = F(f)
  <1>1. BigEndian(bytes) = value[n]
    BY DEF BigEndian
  <1>2. n \in Nat
    BY DEF Bytes
  <1>3. \E f : f = F(f)
    BY <1>2, AccumulatesExists DEF Accumulates
  <1>4. value = F(value)
    BY <1>3
  <1> HIDE DEF value
  <1> QED
    BY <1>1, <1>4 DEF Accumulates

LEMMA BigEndianOfNone == <<>> \in Bytes /\ BigEndian(<<>>) = 0
  <1>1. <<>> \in Bytes /\ Len(<<>>) = 0
    BY DEF Bytes
  <1>2. PICK f : Accumulates(f, <<>>, 0) /\ BigEndian(<<>>) = f[0]
    BY <1>1, BigEndianIs
  <1>3. f[0] = 0
    BY <1>2 DEF Accumulates
  <1> QED
    BY <1>1, <1>2, <1>3

LEMMA BigEndianOfAppend ==
    ASSUME NEW bytes \in Bytes, NEW byte \in Byte
    PROVE  /\ Append(bytes, byte) \in Bytes
           /\ BigEndian(Append(bytes, byte)) = Base * BigEndian(bytes) + byte
  <1> DEFINE more == Append(bytes, byte)
             n == Len(bytes)
  <1>1. /\ n \in Nat /\ more \in Bytes /\ Len(more) = n + 1
        /\ more[n + 1] = byte /\ \A k \in 1..n : bytes[k] = more[k]
    BY DEF Bytes
  <1>2. n \in Nat /\ n + 1 \in Nat /\ n <= n + 1
    BY <1>1
  <1>3. Agree(bytes, more, n)
    BY <1>1 DEF Agree
  <1>4. PICK f : Accumulates(f, bytes, n) /\ BigEndian(bytes) = f[n]
    BY BigEndianIs
  <1> HIDE DEF more, n
  <1>5. PICK g : Accumulates(g, more, n + 1) /\ BigEndian(more) = g[n + 1]
    BY <1>1, BigEndianIs
  <1>6. f[n] = g[n]
    BY <1>2, <1>3, <1>4, <1>5, AccumulatesUnique
  <1>7. g[n + 1] = Base * g[n] + more[n + 1]
    <2>1. n + 1 \in 0..(n + 1) /\ n + 1 # 0 /\ (n + 1) - 1 = n
      BY <1>2
    <2> QED
      BY <1>5, <2>1 DEF Accumulates
  <1> QED
    BY <1>1, <1>4, <1>5, <1>6, <1>7 DEF more

LEMMA BigEndianType == \A bytes \in Bytes : BigEndian(bytes) \in Nat
  <1> DEFINE P == {bytes \in Bytes : BigEndian(bytes) \in Nat}
  <1>1. <<>> \in P
    BY BigEndianOfNone
  <1>2. ASSUME NEW bytes \in Seq(Byte), NEW byte \in Byte, bytes \in P
        PROVE  Append(bytes, byte) \in P
    <2>1. /\ Append(bytes, byte) \in Bytes
          /\ BigEndian(Append(bytes, byte)) = Base * BigEndian(bytes) + byte
      BY BigEndianOfAppend DEF Bytes
    <2>2. BigEndian(bytes) \in Nat /\ Base \in Nat /\ byte \in Nat
      BY <1>2, BaseAssumption DEF Byte
    <2> QED
      BY <2>1, <2>2
  <1> HIDE DEF P
  <1>3. \A bytes \in Seq(Byte) : bytes \in P
    BY <1>1, <1>2, SequenceInduction
  <1> QED
    BY <1>3 DEF P, Bytes

LEMMA BigEndianOfOne ==
    ASSUME NEW a \in Byte
    PROVE  <<a>> \in Bytes /\ BigEndian(<<a>>) = a
  <1>1. <<a>> = Append(<<>>, a)
    OBVIOUS
  <1>2. Base \in Nat /\ a \in Nat
    BY BaseAssumption DEF Byte
  <1>3. /\ Append(<<>>, a) \in Bytes
        /\ BigEndian(Append(<<>>, a)) = Base * BigEndian(<<>>) + a
    BY BigEndianOfNone, BigEndianOfAppend, Zenon
  <1>4. Base * BigEndian(<<>>) + a = a
    BY <1>2, BigEndianOfNone
  <1> QED
    BY <1>1, <1>3, <1>4, Zenon

LEMMA BigEndianOfTwo ==
    ASSUME NEW a \in Byte, NEW b \in Byte
    PROVE  <<a, b>> \in Bytes /\ BigEndian(<<a, b>>) = Base * a + b
  <1>1. <<a, b>> = Append(<<a>>, b)
    OBVIOUS
  <1>2. /\ Append(<<a>>, b) \in Bytes
        /\ BigEndian(Append(<<a>>, b)) = Base * BigEndian(<<a>>) + b
    BY BigEndianOfOne, BigEndianOfAppend, Zenon
  <1> QED
    BY <1>1, <1>2, BigEndianOfOne, Zenon

LEMMA BigEndianOfThree ==
    ASSUME NEW a \in Byte, NEW b \in Byte, NEW c \in Byte
    PROVE  /\ <<a, b, c>> \in Bytes
           /\ BigEndian(<<a, b, c>>) = Base * (Base * a + b) + c
  <1>1. <<a, b, c>> = Append(<<a, b>>, c)
    OBVIOUS
  <1>2. /\ Append(<<a, b>>, c) \in Bytes
        /\ BigEndian(Append(<<a, b>>, c)) = Base * BigEndian(<<a, b>>) + c
    BY BigEndianOfTwo, BigEndianOfAppend, Zenon
  <1> QED
    BY <1>1, <1>2, BigEndianOfTwo, Zenon

LEMMA BigEndianOfFour ==
    ASSUME NEW a \in Byte, NEW b \in Byte, NEW c \in Byte, NEW d \in Byte
    PROVE  /\ <<a, b, c, d>> \in Bytes
           /\ BigEndian(<<a, b, c, d>>)
                = Base * (Base * (Base * a + b) + c) + d
  <1>1. <<a, b, c, d>> = Append(<<a, b, c>>, d)
    OBVIOUS
  <1>2. /\ Append(<<a, b, c>>, d) \in Bytes
        /\ BigEndian(Append(<<a, b, c>>, d)) = Base * BigEndian(<<a, b, c>>) + d
    BY BigEndianOfThree, BigEndianOfAppend, Zenon
  <1>3. BigEndian(<<a, b, c>>) = Base * (Base * a + b) + c
    BY BigEndianOfThree
  <1> QED
    BY <1>1, <1>2, <1>3, Zenon
-----------------------------------------------------------------------------
LEMMA Powers ==
    \/ /\ Base = 16 /\ LongForm = 8
       /\ Base2 = 256 /\ Base3 = 4096 /\ Base4 = 65536
    \/ /\ Base = 256 /\ LongForm = 128
       /\ Base2 = 65536 /\ Base3 = 16777216 /\ Base4 = 4294967296
  BY BaseAssumption DEF LongForm, Base2, Base3, Base4

LEMMA LongFormByte ==
    ASSUME NEW k \in 1..4
    PROVE  LongForm + k \in Byte /\ LongForm \in Nat
  BY Powers DEF Byte

\* The first byte of a length and what it counts are read, not what follows.
LEMMA LongFormReads ==
    ASSUME NEW digits \in Bytes, Len(digits) \in 1..4, NEW rest \in Bytes
    PROVE  ReadLength((<<LongForm + Len(digits)>> \o digits) \o rest)
             = <<BigEndian(digits), 1 + Len(digits)>>
  <1> DEFINE n == Len(digits)
             code == <<LongForm + n>> \o digits
             all == code \o rest
  <1>1. n \in 1..4
    OBVIOUS
  <1>2. digits \in Seq(Byte) /\ rest \in Seq(Byte)
    BY DEF Bytes
  <1> HIDE DEF n
  <1>3. LongForm + n \in Byte /\ LongForm \in Nat
    BY <1>1, LongFormByte
  <1>4. <<LongForm + n>> \in Seq(Byte) /\ Len(<<LongForm + n>>) = 1
    BY <1>3
  <1>5. code \in Seq(Byte) /\ Len(code) = 1 + n /\ code[1] = LongForm + n
    <2>1. code \in Seq(Byte) /\ Len(code) = 1 + n
      BY <1>2, <1>4, ConcatProperties DEF n
    <2>2. code[1] = <<LongForm + n>>[1]
      BY <1>1, <1>2, <1>4, ConcatProperties DEF n
    <2> QED
      BY <2>1, <2>2
  <1>6. SubSeq(code, 2, 1 + n) = digits
    <2>1. SubSeq(code, 2, 1 + n) = SubSeq(digits, 2 - 1, (1 + n) - 1)
      BY <1>1, <1>2, <1>4, SubSeqOfConcat2 DEF n
    <2>2. 2 - 1 = 1 /\ (1 + n) - 1 = n
      BY <1>1
    <2>3. SubSeq(digits, 1, n) = digits
      BY <1>2, SubSeqFull DEF n
    <2> QED
      BY <2>1, <2>2, <2>3
  <1> HIDE DEF code
  <1>7. Len(rest) \in Nat
    BY <1>2
  <1>8. Len(all) = 1 + n + Len(rest) /\ all[1] = LongForm + n /\ all # <<>>
    <2>1. Len(all) = Len(code) + Len(rest)
      BY <1>2, <1>5, ConcatProperties
    <2>2. all[1] = code[1]
      BY <1>1, <1>2, <1>5, <1>7, ConcatProperties
    <2> QED
      BY <1>1, <1>5, <1>7, <2>1, <2>2
  <1>9. SubSeq(all, 2, 1 + n) = digits
    BY <1>1, <1>2, <1>5, <1>6, SubSeqOfConcat1
  <1> HIDE DEF all
  <1>10. /\ ~(all[1] < LongForm) /\ all[1] - LongForm = n
         /\ ~(n = 0 \/ n > 4 \/ Len(all) < 1 + n)
    BY <1>1, <1>3, <1>7, <1>8
  <1>11. ReadLength(all) = <<BigEndian(digits), 1 + n>>
    BY <1>8, <1>9, <1>10 DEF ReadLength
  <1> QED
    BY <1>11 DEF n, all, code
-----------------------------------------------------------------------------
\* Division by Base, as the shifts and masks of encode_length do it.
LEMMA Shift ==
    ASSUME NEW n \in Nat
    PROVE  /\ n % Base \in Byte
           /\ n \div Base \in Nat
           /\ Base * (n \div Base) + (n % Base) = n
           /\ n < Base => n \in Byte /\ n % Base = n
           /\ n < Base2 => n \div Base \in Byte
  BY Powers DEF Byte

LEMMA ShiftTwice ==
    ASSUME NEW n \in Nat
    PROVE  /\ (n \div Base) \div Base = n \div Base2
           /\ (n \div Base2) \div Base = n \div Base3
           /\ n \div Base2 \in Nat /\ n \div Base3 \in Nat
           /\ n < Base3 => n \div Base2 < Base
           /\ n < Base4 => n \div Base3 < Base
  BY Powers

\* A length is itself, in the short form, or the number that its digits stand for.
LEMMA EncodedLength ==
    ASSUME NEW n \in Nat, n < Base4
    PROVE  \/ n < LongForm /\ EncodeLength(n) = <<n>>
           \/ \E digits \in Bytes :
                 /\ Len(digits) \in 1..4
                 /\ EncodeLength(n) = <<LongForm + Len(digits)>> \o digits
                 /\ BigEndian(digits) = n
  <1> DEFINE x == n \div Base
             y == n \div Base2
             z == n \div Base3
  <1>1. /\ x \in Nat /\ y \in Nat /\ z \in Nat
        /\ x \div Base = y /\ y \div Base = z
    BY Shift, ShiftTwice
  <1>2. /\ n % Base \in Byte /\ x % Base \in Byte /\ y % Base \in Byte
        /\ Base * x + (n % Base) = n
        /\ Base * y + (x % Base) = x
        /\ Base * z + (y % Base) = y
    <2> HIDE DEF x, y, z
    <2>1. Base * x + (n % Base) = n
      BY Shift DEF x
    <2> QED
      BY <1>1, <2>1, Shift
  <1>3. CASE n < LongForm
    BY <1>3 DEF EncodeLength
  <1>4. CASE ~(n < LongForm) /\ n < Base
    <2> DEFINE digits == <<n>>
    <2>1. n \in Byte
      BY <1>4, Shift
    <2>2. digits \in Bytes /\ Len(digits) = 1
      BY <2>1 DEF Bytes
    <2>3. EncodeLength(n) = <<LongForm + 1>> \o digits
      BY <1>4 DEF EncodeLength
    <2>4. BigEndian(digits) = n
      BY <2>1, BigEndianOfOne
    <2> HIDE DEF digits
    <2>5. /\ Len(digits) \in 1..4
          /\ EncodeLength(n) = <<LongForm + Len(digits)>> \o digits
      BY <2>2, <2>3
    <2> QED
      BY <2>2, <2>4, <2>5
  <1>5. CASE ~(n < LongForm) /\ ~(n < Base) /\ n < Base2
    <2> DEFINE digits == <<x, n % Base>>
    <2>1. x \in Byte
      BY <1>5, Shift
    <2>2. digits \in Bytes /\ Len(digits) = 2
      BY <1>2, <2>1 DEF Bytes
    <2>3. EncodeLength(n) = <<LongForm + 2>> \o digits
      BY <1>5 DEF EncodeLength
    <2>4. BigEndian(digits) = n
      BY <1>2, <2>1, BigEndianOfTwo
    <2> HIDE DEF digits
    <2>5. /\ Len(digits) \in 1..4
          /\ EncodeLength(n) = <<LongForm + Len(digits)>> \o digits
      BY <2>2, <2>3
    <2> QED
      BY <2>2, <2>4, <2>5
  <1>6. CASE /\ ~(n < LongForm) /\ ~(n < Base) /\ ~(n < Base2)
             /\ n < Base3
    <2> DEFINE digits == <<y, x % Base, n % Base>>
    <2>1. y \in Byte
      BY <1>1, <1>6, Shift, ShiftTwice
    <2>2. digits \in Bytes /\ Len(digits) = 3
      BY <1>2, <2>1 DEF Bytes
    <2>3. EncodeLength(n) = <<LongForm + 3>> \o digits
      BY <1>6 DEF EncodeLength
    <2>4. BigEndian(digits) = n
      BY <1>2, <2>1, BigEndianOfThree
    <2> HIDE DEF digits
    <2>5. /\ Len(digits) \in 1..4
          /\ EncodeLength(n) = <<LongForm + Len(digits)>> \o digits
      BY <2>2, <2>3
    <2> QED
      BY <2>2, <2>4, <2>5
  <1>7. CASE /\ ~(n < LongForm) /\ ~(n < Base) /\ ~(n < Base2)
             /\ ~(n < Base3)
    <2> DEFINE digits == <<z % Base, y % Base, x % Base, n % Base>>
    <2>1. z % Base \in Byte /\ z % Base = z
      BY <1>1, Shift, ShiftTwice
    <2>2. digits \in Bytes /\ Len(digits) = 4
      BY <1>2, <2>1 DEF Bytes
    <2>3. EncodeLength(n) = <<LongForm + 4>> \o digits
      BY <1>7 DEF EncodeLength
    <2>4. BigEndian(digits) = n
      <3>1. BigEndian(digits)
              = Base * (Base * (Base * (z % Base) + (y % Base)) + (x % Base))
                  + (n % Base)
        BY <1>2, <2>1, BigEndianOfFour
      <3> QED
        BY <1>2, <2>1, <3>1
    <2> HIDE DEF digits
    <2>5. /\ Len(digits) \in 1..4
          /\ EncodeLength(n) = <<LongForm + Len(digits)>> \o digits
      BY <2>2, <2>3
    <2> QED
      BY <2>2, <2>4, <2>5
  <1> QED
    BY <1>3, <1>4, <1>5, <1>6, <1>7
(***************************************************************************)
(* What encode_length writes is read back, whatever follows.               *)
(***************************************************************************)
LEMMA ReadsEncodedLength ==
    ASSUME NEW n \in Nat, n < Base4, NEW rest \in Bytes
    PROVE  /\ EncodeLength(n) \in Bytes /\ Len(EncodeLength(n)) \in 1..5
           /\ ReadLength(EncodeLength(n) \o rest) = <<n, Len(EncodeLength(n))>>
  <1>1. CASE n < LongForm /\ EncodeLength(n) = <<n>>
    <2>1. n \in Byte
      BY <1>1, Powers DEF Byte
    <2>2. <<n>> \in Seq(Byte) /\ rest \in Seq(Byte) /\ Len(<<n>>) = 1
      BY <2>1 DEF Bytes
    <2>3. (<<n>> \o rest)[1] = n /\ <<n>> \o rest # <<>>
      BY <2>2, ConcatProperties
    <2>4. ReadLength(<<n>> \o rest) = <<n, 1>>
      BY <1>1, <2>3 DEF ReadLength
    <2> QED
      BY <1>1, <2>2, <2>4 DEF Bytes
  <1>2. ASSUME NEW digits \in Bytes, Len(digits) \in 1..4,
               EncodeLength(n) = <<LongForm + Len(digits)>> \o digits,
               BigEndian(digits) = n
        PROVE  /\ EncodeLength(n) \in Bytes /\ Len(EncodeLength(n)) \in 1..5
               /\ ReadLength(EncodeLength(n) \o rest)
                    = <<n, Len(EncodeLength(n))>>
    <2>0. Len(digits) \in 1..4
      BY <1>2
    <2>1. LongForm + Len(digits) \in Byte
      BY <2>0, LongFormByte
    <2>2. /\ <<LongForm + Len(digits)>> \in Seq(Byte)
          /\ Len(<<LongForm + Len(digits)>>) = 1 /\ digits \in Seq(Byte)
      BY <2>1 DEF Bytes
    <2>3. EncodeLength(n) \in Seq(Byte) /\ Len(EncodeLength(n)) = 1 + Len(digits)
      BY <1>2, <2>2, ConcatProperties
    <2>4. ReadLength(EncodeLength(n) \o rest) = <<n, 1 + Len(digits)>>
      BY <1>2, LongFormReads
    <2>5. EncodeLength(n) \in Bytes
      BY <2>3 DEF Bytes
    <2>6. Len(EncodeLength(n)) \in 1..5
      <3>1. \A k \in 1..4 : 1 + k \in 1..5
        OBVIOUS
      <3> QED
        BY <2>0, <2>3, <3>1
    <2> QED
      BY <2>3, <2>4, <2>5, <2>6
  <1> QED
    BY <1>1, <1>2, EncodedLength

\* The last part of a concatenation, and the one in the middle, cut out again.
LEMMA LastPart ==
    ASSUME NEW a \in Seq(Byte), NEW c \in Seq(Byte)
    PROVE  SubSeq(a \o c, Len(a) + 1, Len(a) + Len(c)) = c
  <1>1. Len(a) \in Nat /\ Len(c) \in Nat
    OBVIOUS
  <1>2. CASE Len(c) = 0
    <2>1. SubSeq(a \o c, Len(a) + 1, Len(a) + Len(c)) = <<>>
      BY <1>1, <1>2, SubSeqEmpty
    <2> QED
      BY <1>2, <2>1, EmptySeq
  <1>3. CASE Len(c) # 0
    <2>1. SubSeq(a \o c, Len(a) + 1, Len(a) + Len(c))
            = SubSeq(c, (Len(a) + 1) - Len(a), (Len(a) + Len(c)) - Len(a))
      BY <1>1, <1>3, SubSeqOfConcat2
    <2>2. (Len(a) + 1) - Len(a) = 1 /\ (Len(a) + Len(c)) - Len(a) = Len(c)
      BY <1>1
    <2> QED
      BY <2>1, <2>2, SubSeqFull
  <1> QED
    BY <1>2, <1>3

LEMMA MiddlePart ==
    ASSUME NEW a \in Seq(Byte), NEW b \in Seq(Byte), NEW c \in Seq(Byte)
    PROVE  SubSeq((a \o b) \o c, Len(a) + 1, Len(a) + Len(b)) = b
  <1>1. Len(a) \in Nat /\ Len(b) \in Nat
    OBVIOUS
  <1>2. a \o b \in Seq(Byte) /\ Len(a \o b) = Len(a) + Len(b)
    BY ConcatProperties
  <1>3. CASE Len(b) = 0
    <2>1. SubSeq((a \o b) \o c, Len(a) + 1, Len(a) + Len(b)) = <<>>
      BY <1>1, <1>3, SubSeqEmpty
    <2> QED
      BY <1>3, <2>1, EmptySeq
  <1>4. CASE Len(b) # 0
    <2>1. /\ Len(a) + 1 \in 1..Len(a \o b)
          /\ Len(a) + Len(b) \in 1..Len(a \o b)
      BY <1>1, <1>2, <1>4
    <2>2. SubSeq((a \o b) \o c, Len(a) + 1, Len(a) + Len(b))
            = SubSeq(a \o b, Len(a) + 1, Len(a) + Len(b))
      BY <1>2, <2>1, SubSeqOfConcat1
    <2> QED
      BY <2>2, LastPart
  <1> QED
    BY <1>3, <1>4

LEMMA JoinedBytes ==
    ASSUME NEW a \in Seq(Byte), NEW b \in Seq(Byte)
    PROVE  a \o b \in Seq(Byte) /\ Len(a \o b) = Len(a) + Len(b)
  BY ConcatProperties

(***************************************************************************)
(* read_tlv_with_remainder undoes encode_tlv, and read_tlv does when        *)
(* nothing follows: the value is cut where its header says.                 *)
(***************************************************************************)
THEOREM TlvReadsBack ==
    ASSUME NEW tag \in Byte, NEW value \in Bytes, Len(value) < Base4,
           NEW rest \in Bytes
    PROVE  /\ EncodeTlv(tag, value) \in Bytes
           /\ ReadTlvWithRemainder(EncodeTlv(tag, value) \o rest, tag)
                = <<value, rest>>
  <1> DEFINE code == EncodeLength(Len(value))
             tail == code \o (value \o rest)
             head == <<tag>> \o code
             all == <<tag>> \o tail
             h == 1 + Len(code)
             n == Len(value)
             r == Len(rest)
  <1>1. /\ value \in Seq(Byte) /\ rest \in Seq(Byte) /\ value \o rest \in Seq(Byte)
        /\ n \in Nat /\ r \in Nat /\ Len(value \o rest) = n + r
        /\ <<tag>> \in Seq(Byte) /\ Len(<<tag>>) = 1
    BY ConcatProperties DEF Bytes
  <1>2. code \in Seq(Byte) /\ Len(code) \in 1..5 /\ ReadLength(tail) = <<n, h - 1>>
    <2>1. value \o rest \in Bytes
      BY <1>1 DEF Bytes
    <2>2. /\ code \in Bytes /\ Len(code) \in 1..5
          /\ ReadLength(code \o (value \o rest)) = <<n, Len(code)>>
      BY <1>1, <2>1, ReadsEncodedLength
    <2> HIDE DEF code
    <2>3. h - 1 = Len(code)
      BY <2>2
    <2> QED
      BY <2>2, <2>3 DEF Bytes
  <1> HIDE DEF code
  <1>3. /\ tail \in Seq(Byte) /\ Len(tail) = Len(code) + (n + r)
        /\ head \in Seq(Byte) /\ Len(head) = h
    <2>1. tail \in Seq(Byte) /\ Len(tail) = Len(code) + (n + r)
      BY <1>1, <1>2, JoinedBytes
    <2>2. head \in Seq(Byte) /\ Len(head) = h
      BY <1>1, <1>2, JoinedBytes
    <2> QED
      BY <2>1, <2>2
  <1>4. h \in 2..6
    <2>1. \A l \in 1..5 : 1 + l \in 2..6
      OBVIOUS
    <2> QED
      BY <1>2, <2>1, Zenon
  <1> HIDE DEF tail, h, n, r
  <1>5. all \in Seq(Byte) /\ Len(all) = h + (n + r)
    <2>1. all \in Seq(Byte) /\ Len(all) = 1 + Len(tail)
      BY <1>1, <1>3, JoinedBytes
    <2>2. Len(code) \in 1..5
      BY <1>2
    <2> QED
      BY <1>1, <1>3, <2>1, <2>2 DEF h
  <1>6. all[1] = tag /\ Tail(all) = tail /\ all # <<>>
    BY <1>1, <1>3
  <1>7. all = head \o (value \o rest) /\ all = (head \o value) \o rest
    <2>1. all = head \o (value \o rest)
      <3>1. /\ <<tag>> \in Seq(Byte) /\ code \in Seq(Byte)
            /\ value \o rest \in Seq(Byte)
        BY <1>1, <1>2
      <3>2. (<<tag>> \o code) \o (value \o rest)
              = <<tag>> \o (code \o (value \o rest))
        BY <3>1, ConcatAssociative
      <3> QED
        BY <3>2, Zenon DEF tail, head
    <2> HIDE DEF head, all
    <2>2. (head \o value) \o rest = head \o (value \o rest)
      <3>1. head \in Seq(Byte) /\ value \in Seq(Byte) /\ rest \in Seq(Byte)
        BY <1>1, <1>3
      <3> QED
        BY <3>1, ConcatAssociative
    <2> QED
      BY <2>1, <2>2
  <1>8. EncodeTlv(tag, value) = head \o value /\ EncodeTlv(tag, value) \in Bytes
    BY <1>1, <1>3, ConcatProperties DEF EncodeTlv, Bytes, code
  <1>9. TlvSizes(all) = <<h, h + n>>
    <2>1. /\ 1 + ReadLength(tail)[2] = h
          /\ 1 + ReadLength(tail)[2] + ReadLength(tail)[1] = h + n
          /\ ~(h + n > Len(all)) /\ ReadLength(tail) # NoResult
      BY <1>1, <1>2, <1>4, <1>5 DEF NoResult
    <2> QED
      BY <1>6, <2>1 DEF TlvSizes
  <1>10. /\ SubSeq(all, h + 1, h + n) = value
         /\ SubSeq(all, h + n + 1, Len(all)) = rest
    <2> HIDE DEF head, all
    <2>1. SubSeq(all, Len(head) + 1, Len(head) + Len(value)) = value
      <3>1. head \in Seq(Byte) /\ value \in Seq(Byte) /\ rest \in Seq(Byte)
        BY <1>1, <1>3
      <3>2. all = (head \o value) \o rest
        BY <1>7
      <3> QED
        BY <3>1, <3>2, MiddlePart, Zenon
    <2>2. SubSeq(all, Len(head \o value) + 1, Len(head \o value) + Len(rest))
            = rest
      BY <1>1, <1>3, <1>7, <1>8, LastPart DEF Bytes
    <2>3. Len(head \o value) = h + n /\ Len(all) = (h + n) + r
      BY <1>1, <1>3, <1>4, <1>5, ConcatProperties DEF n
    <2> QED
      BY <1>3, <2>1, <2>2, <2>3 DEF n, r
  <1>11. ReadTlvWithRemainder(all, tag) = <<value, rest>>
    <2> DEFINE sizes == TlvSizes(all)
    <2>1. sizes # NoResult /\ all[1] = tag /\ sizes[1] = h /\ sizes[2] = h + n
      BY <1>6, <1>9 DEF NoResult
    <2> HIDE DEF all, sizes
    <2>2. /\ SubSeq(all, sizes[1] + 1, sizes[2]) = value
          /\ SubSeq(all, sizes[2] + 1, Len(all)) = rest
      BY <1>10, <2>1
    <2> QED
      BY <2>1, <2>2 DEF ReadTlvWithRemainder, sizes
  <1> HIDE DEF head, all
  <1> QED
    BY <1>7, <1>8, <1>11
(***************************************************************************)
(* LengthReadsBack holds for every length, and in bytes of 256 values:     *)
(* encode_length and read_length meet at every border of their forms.      *)
(***************************************************************************)
THEOREM LengthsReadBack == ReadingSpec => []LengthReadsBack
  <1> DEFINE IsLength == len \in Nat
  <1>1. ReadingInit => IsLength
    BY DEF ReadingInit
  <1>2. IsLength /\ [ReadingNext]_readingVars => IsLength'
    BY DEF ReadingNext, Longer, MoreInput, readingVars
  <1>3. IsLength => LengthReadsBack
    <2> SUFFICES ASSUME len \in Nat, len < Base4
                 PROVE  LET code == EncodeLength(len)
                        IN  /\ ReadLength(code) = <<len, Len(code)>>
                            /\ ReadLength(code \o code) = <<len, Len(code)>>
      BY DEF LengthReadsBack
    <2> DEFINE code == EncodeLength(len)
    <2>1. <<>> \in Bytes
      BY DEF Bytes
    <2>2. code \in Bytes /\ ReadLength(code \o <<>>) = <<len, Len(code)>>
      BY <2>1, ReadsEncodedLength
    <2>3. ReadLength(code \o code) = <<len, Len(code)>>
      BY <2>2, ReadsEncodedLength
    <2>4. code \o <<>> = code
      BY <2>2, ConcatEmptySeq DEF Bytes
    <2> QED
      BY <2>2, <2>3, <2>4
  <1> QED
    BY <1>1, <1>2, <1>3, PTL DEF ReadingSpec
-----------------------------------------------------------------------------
(***************************************************************************)
(* The reference's digits and the numbers they are the digits of.          *)
(***************************************************************************)
LEMMA PowersOf ==
    /\ Power(0) = 1 /\ Power(1) = Base /\ Power(2) = Base2
    /\ Power(3) = Base3 /\ Power(4) = Base4
  BY DEF Power

LEMMA DigitsOf ==
    ASSUME NEW n \in Nat
    PROVE  /\ Digits(n, 1) = <<n % Base>>
           /\ Digits(n, 2) = <<(n \div Base) % Base, n % Base>>
           /\ Digits(n, 3)
                = <<(n \div Base2) % Base, (n \div Base) % Base, n % Base>>
           /\ Digits(n, 4)
                = <<(n \div Base3) % Base, (n \div Base2) % Base,
                    (n \div Base) % Base, n % Base>>
  <1> DEFINE d(i) == (n \div Power(i)) % Base
  <1>1. /\ d(0) = n % Base /\ d(1) = (n \div Base) % Base
        /\ d(2) = (n \div Base2) % Base /\ d(3) = (n \div Base3) % Base
    <2>1. n \div 1 = n
      OBVIOUS
    <2> QED
      BY <2>1, PowersOf
  <1>2. \A k \in 1..4 : Digits(n, k) = [i \in 1..k |-> d(k - i)]
    BY DEF Digits
  <1> HIDE DEF d
  <1>3. /\ [i \in 1..1 |-> d(1 - i)] = <<d(0)>>
        /\ [i \in 1..2 |-> d(2 - i)] = <<d(1), d(0)>>
        /\ [i \in 1..3 |-> d(3 - i)] = <<d(2), d(1), d(0)>>
        /\ [i \in 1..4 |-> d(4 - i)] = <<d(3), d(2), d(1), d(0)>>
    OBVIOUS
  <1> QED
    BY <1>1, <1>2, <1>3

\* The number that a sequence of digits was before its last digit was added.
LEMMA Unshift ==
    ASSUME NEW n \in Nat, NEW x \in Byte
    PROVE  /\ Base * n + x \in Nat
           /\ (Base * n + x) % Base = x
           /\ (Base * n + x) \div Base = n
           /\ n < Base => Base * n + x < Base2
           /\ n < Base2 => Base * n + x < Base3
           /\ n < Base3 => Base * n + x < Base4
  BY Powers DEF Byte

\* Digits stand for one number of their size, and are its digits.
LEMMA DigitsReadBack ==
    ASSUME NEW k \in 1..4, NEW digits \in Bytes, Len(digits) = k
    PROVE  /\ BigEndian(digits) \in Nat
           /\ BigEndian(digits) < Power(k)
           /\ Digits(BigEndian(digits), k) = digits
  <1>1. \A i \in 1..k : digits[i] \in Byte
    BY DEF Bytes
  <1> DEFINE a == digits[1]
             b == digits[2]
             c == digits[3]
             d == digits[4]
             two == Base * a + b
             three == Base * two + c
             four == Base * three + d
  <1>2. CASE k = 1
    <2>1. a \in Byte /\ digits = <<a>>
      BY <1>1, <1>2 DEF Bytes
    <2> HIDE DEF a
    <2>2. BigEndian(digits) = a
      BY <2>1, BigEndianOfOne
    <2>3. a \in Nat /\ a < Base /\ a % Base = a
      BY <2>1, Powers DEF Byte
    <2>4. Digits(a, 1) = <<a>>
      BY <2>3, DigitsOf
    <2> QED
      BY <1>2, <2>1, <2>2, <2>3, <2>4, PowersOf
  <1>3. CASE k = 2
    <2>1. a \in Byte /\ b \in Byte /\ digits = <<a, b>>
      BY <1>1, <1>3 DEF Bytes
    <2> HIDE DEF a, b
    <2>2. BigEndian(digits) = two
      BY <2>1, BigEndianOfTwo
    <2>3. a \in Nat /\ a < Base /\ a % Base = a
      BY <2>1, Powers DEF Byte
    <2>4. /\ two \in Nat /\ two % Base = b /\ two \div Base = a
          /\ two < Base2
      BY <2>1, <2>3, Unshift
    <2> HIDE DEF two
    <2>5. Digits(two, 2) = <<a, b>>
      BY <2>3, <2>4, DigitsOf
    <2> QED
      BY <1>3, <2>1, <2>2, <2>4, <2>5, PowersOf
  <1>4. CASE k = 3
    <2>1. a \in Byte /\ b \in Byte /\ c \in Byte /\ digits = <<a, b, c>>
      BY <1>1, <1>4 DEF Bytes
    <2> HIDE DEF a, b, c
    <2>2. BigEndian(digits) = three
      BY <2>1, BigEndianOfThree
    <2>3. a \in Nat /\ a < Base /\ a % Base = a
      BY <2>1, Powers DEF Byte
    <2>4. /\ two \in Nat /\ two % Base = b /\ two \div Base = a
          /\ two < Base2
      BY <2>1, <2>3, Unshift
    <2> HIDE DEF two
    <2>5. /\ three \in Nat /\ three % Base = c /\ three \div Base = two
          /\ three < Base3
      BY <2>1, <2>4, Unshift
    <2> HIDE DEF three
    <2>6. three \div Base2 = a
      BY <2>4, <2>5, ShiftTwice
    <2>7. Digits(three, 3) = <<a, b, c>>
      BY <2>3, <2>4, <2>5, <2>6, DigitsOf
    <2> QED
      BY <1>4, <2>1, <2>2, <2>5, <2>7, PowersOf
  <1>5. CASE k = 4
    <2>1. /\ a \in Byte /\ b \in Byte /\ c \in Byte /\ d \in Byte
          /\ digits = <<a, b, c, d>>
      BY <1>1, <1>5 DEF Bytes
    <2> HIDE DEF a, b, c, d
    <2>2. BigEndian(digits) = four
      BY <2>1, BigEndianOfFour
    <2>3. a \in Nat /\ a < Base /\ a % Base = a
      BY <2>1, Powers DEF Byte
    <2>4. /\ two \in Nat /\ two % Base = b /\ two \div Base = a
          /\ two < Base2
      BY <2>1, <2>3, Unshift
    <2> HIDE DEF two
    <2>5. /\ three \in Nat /\ three % Base = c /\ three \div Base = two
          /\ three < Base3
      BY <2>1, <2>4, Unshift
    <2> HIDE DEF three
    <2>6. /\ four \in Nat /\ four % Base = d /\ four \div Base = three
          /\ four < Base4
      BY <2>1, <2>5, Unshift
    <2> HIDE DEF four
    <2>7. four \div Base2 = two
      BY <2>5, <2>6, ShiftTwice
    <2>8. four \div Base3 = a
      BY <2>4, <2>6, <2>7, ShiftTwice
    <2>9. Digits(four, 4) = <<a, b, c, d>>
      BY <2>3, <2>4, <2>5, <2>6, <2>7, <2>8, DigitsOf
    <2> QED
      BY <1>5, <2>1, <2>2, <2>6, <2>9, PowersOf
  <1> QED
    BY <1>2, <1>3, <1>4, <1>5

\* The digits of a number of their size stand for it.
LEMMA NumberReadsBack ==
    ASSUME NEW k \in 1..4, NEW n \in Nat, n < Power(k)
    PROVE  /\ Digits(n, k) \in Bytes /\ Len(Digits(n, k)) = k
           /\ BigEndian(Digits(n, k)) = n
  <1> DEFINE x == n \div Base
             y == n \div Base2
             z == n \div Base3
  <1>1. /\ x \in Nat /\ y \in Nat /\ z \in Nat
        /\ x \div Base = y /\ y \div Base = z
    BY Shift, ShiftTwice
  <1>2. /\ n % Base \in Byte /\ x % Base \in Byte
        /\ y % Base \in Byte /\ z % Base \in Byte
        /\ Base * x + (n % Base) = n
        /\ Base * y + (x % Base) = x
        /\ Base * z + (y % Base) = y
    <2> HIDE DEF x, y, z
    <2>1. Base * x + (n % Base) = n
      BY Shift DEF x
    <2> QED
      BY <1>1, <2>1, Shift
  <1>3. /\ n < Base => n % Base = n
        /\ n < Base2 => x % Base = x
        /\ n < Base3 => y % Base = y
        /\ n < Base4 => z % Base = z
    <2>1. /\ n < Base3 => y < Base
          /\ n < Base4 => z < Base
      BY ShiftTwice
    <2>2. /\ n < Base => n % Base = n
          /\ n < Base2 => x \in Byte
      BY Shift
    <2>3. \A m \in Byte : m < Base
      BY Powers DEF Byte
    <2> HIDE DEF x, y, z
    <2> QED
      BY <1>1, <2>1, <2>2, <2>3, Shift
  <1>4. /\ Digits(n, 1) = <<n % Base>>
        /\ Digits(n, 2) = <<x % Base, n % Base>>
        /\ Digits(n, 3) = <<y % Base, x % Base, n % Base>>
        /\ Digits(n, 4) = <<z % Base, y % Base, x % Base, n % Base>>
    BY DigitsOf
  <1> HIDE DEF x, y, z
  <1>5. CASE k = 1
    <2>1. n % Base = n
      BY <1>3, <1>5, PowersOf
    <2>2. BigEndian(<<n % Base>>) = n % Base /\ <<n % Base>> \in Bytes
      BY <1>2, BigEndianOfOne
    <2> QED
      BY <1>4, <1>5, <2>1, <2>2
  <1>6. CASE k = 2
    <2>1. x % Base = x
      BY <1>3, <1>6, PowersOf
    <2>2. /\ BigEndian(<<x % Base, n % Base>>) = Base * (x % Base) + (n % Base)
          /\ <<x % Base, n % Base>> \in Bytes
      BY <1>2, BigEndianOfTwo
    <2>3. BigEndian(<<x % Base, n % Base>>) = n
      BY <1>2, <2>1, <2>2, Zenon
    <2> QED
      BY <1>4, <1>6, <2>2, <2>3
  <1>7. CASE k = 3
    <2>1. y % Base = y
      BY <1>3, <1>7, PowersOf
    <2>2. /\ BigEndian(<<y % Base, x % Base, n % Base>>)
                = Base * (Base * (y % Base) + (x % Base)) + (n % Base)
          /\ <<y % Base, x % Base, n % Base>> \in Bytes
      BY <1>2, BigEndianOfThree
    <2>3. BigEndian(<<y % Base, x % Base, n % Base>>) = n
      BY <1>2, <2>1, <2>2, Zenon
    <2> QED
      BY <1>4, <1>7, <2>2, <2>3
  <1>8. CASE k = 4
    <2>1. z % Base = z
      BY <1>3, <1>8, PowersOf
    <2>2. /\ BigEndian(<<z % Base, y % Base, x % Base, n % Base>>)
                = Base * (Base * (Base * (z % Base) + (y % Base)) + (x % Base))
                    + (n % Base)
          /\ <<z % Base, y % Base, x % Base, n % Base>> \in Bytes
      BY <1>2, BigEndianOfFour
    <2>3. BigEndian(<<z % Base, y % Base, x % Base, n % Base>>) = n
      BY <1>2, <2>1, <2>2, Zenon
    <2> QED
      BY <1>4, <1>8, <2>2, <2>3
  <1> QED
    BY <1>5, <1>6, <1>7, <1>8
-----------------------------------------------------------------------------
(***************************************************************************)
(* LengthIsDer: encode_length writes the shortest form of every length     *)
(* that fits four bytes.                                                   *)
(***************************************************************************)
LEMMA ShortestIs ==
    ASSUME NEW n, NEW size \in 1..5, Fits(n, size),
           \A k \in 1..(size - 1) : ~ Fits(n, k)
    PROVE  ShortestForm(n) = Form(n, size)
  <1> DEFINE Is(s) == Fits(n, s) /\ \A k \in 1..(s - 1) : ~ Fits(n, k)
             best == CHOOSE s \in 1..5 : Is(s)
  <1>1. best \in 1..5 /\ Is(best)
    <2>1. Is(size)
      OBVIOUS
    <2> HIDE DEF Is
    <2> QED
      BY <2>1
  <1>2. ShortestForm(n) = Form(n, best)
    BY DEF ShortestForm
  <1> HIDE DEF best
  <1>3. best = size
    <2>1. best < size => best \in 1..(size - 1)
      BY <1>1
    <2>2. size < best => size \in 1..(best - 1)
      BY <1>1
    <2>3. best < size \/ size < best \/ best = size
      BY <1>1
    <2> QED
      BY <1>1, <2>1, <2>2, <2>3
  <1> QED
    BY <1>2, <1>3

LEMMA FitsIs ==
    ASSUME NEW n
    PROVE  /\ Fits(n, 1) <=> n < LongForm
           /\ Fits(n, 2) <=> n < Base
           /\ Fits(n, 3) <=> n < Base2
           /\ Fits(n, 4) <=> n < Base3
           /\ Fits(n, 5) <=> n < Base4
  BY PowersOf DEF Fits

\* How many bytes encode_length takes is where a length lies among the powers.
LEMMA EncodedSize ==
    ASSUME NEW n \in Nat
    PROVE  /\ n < LongForm => Len(EncodeLength(n)) = 1
           /\ ~ (n < LongForm) /\ n < Base => Len(EncodeLength(n)) = 2
           /\ ~ (n < Base) /\ n < Base2 => Len(EncodeLength(n)) = 3
           /\ ~ (n < Base2) /\ n < Base3 => Len(EncodeLength(n)) = 4
           /\ ~ (n < Base3) => Len(EncodeLength(n)) = 5
  <1>1. LongForm \in Nat /\ LongForm < Base /\ Base < Base2 /\ Base2 < Base3
        /\ Base \in Nat /\ Base2 \in Nat /\ Base3 \in Nat
    BY Powers
  <1> QED
    BY <1>1 DEF EncodeLength

LEMMA EncodesShortest ==
    ASSUME NEW n \in Nat, n < Base4
    PROVE  EncodeLength(n) = ShortestForm(n)
  <1>1. CASE n < LongForm
    <2>1. Fits(n, 1) /\ \A k \in 1..(1 - 1) : ~ Fits(n, k)
      BY <1>1, FitsIs
    <2>2. ShortestForm(n) = Form(n, 1)
      BY <2>1, ShortestIs
    <2> QED
      BY <1>1, <2>2 DEF EncodeLength, Form
  <1>2. CASE ~ (n < LongForm)
    <2>1. PICK digits \in Bytes :
             /\ Len(digits) \in 1..4
             /\ EncodeLength(n) = <<LongForm + Len(digits)>> \o digits
             /\ BigEndian(digits) = n
      BY <1>2, EncodedLength
    <2> DEFINE k == Len(digits)
    <2>2. k \in 1..4 /\ n < Power(k) /\ Digits(n, k) = digits
      BY <2>1, DigitsReadBack
    <2>3. Len(EncodeLength(n)) = k + 1
      <3>1. <<LongForm + k>> \in Seq(Byte) /\ Len(<<LongForm + k>>) = 1
        <4>1. LongForm + k \in Byte
          BY <2>2, LongFormByte
        <4> QED
          BY <4>1
      <3>2. Len(<<LongForm + k>> \o digits) = 1 + k
        BY <3>1, ConcatProperties DEF Bytes
      <3> QED
        BY <2>1, <2>2, <3>2
    <2> HIDE DEF k
    <2>4. Form(n, k + 1) = EncodeLength(n)
      <3>1. /\ (k + 1) - 1 = k /\ k + 1 # 1
            /\ LongForm + (k + 1) - 1 = LongForm + k
        BY <2>2, Powers
      <3> QED
        BY <2>1, <2>2, <3>1 DEF Form, k
    <2>5. Fits(n, k + 1) /\ \A j \in 1..((k + 1) - 1) : ~ Fits(n, j)
      <3>1. Fits(n, k + 1)
        <4>1. (k + 1) - 1 = k /\ k + 1 # 1
          BY <2>2
        <4> QED
          BY <2>2, <4>1 DEF Fits
      <3>2. /\ k = 1 => ~ Fits(n, 1)
            /\ k = 2 => ~ Fits(n, 1) /\ ~ Fits(n, 2)
            /\ k = 3 => ~ Fits(n, 1) /\ ~ Fits(n, 2) /\ ~ Fits(n, 3)
            /\ k = 4 => /\ ~ Fits(n, 1) /\ ~ Fits(n, 2) /\ ~ Fits(n, 3)
                        /\ ~ Fits(n, 4)
        <4>1. /\ LongForm \in Nat /\ LongForm < Base /\ Base < Base2
              /\ Base2 < Base3
              /\ Base \in Nat /\ Base2 \in Nat /\ Base3 \in Nat
          BY Powers
        <4>2. k \in 1..4
          BY <2>2
        <4> DEFINE size == Len(EncodeLength(n))
        <4>3. size = k + 1
          BY <2>3
        <4>4. /\ n < LongForm => size = 1
              /\ ~ (n < LongForm) /\ n < Base => size = 2
              /\ ~ (n < Base) /\ n < Base2 => size = 3
              /\ ~ (n < Base2) /\ n < Base3 => size = 4
          BY EncodedSize
        <4> HIDE DEF size
        <4>5. /\ k = 2 => ~ (n < Base)
              /\ k = 3 => ~ (n < Base) /\ ~ (n < Base2)
              /\ k = 4 => ~ (n < Base) /\ ~ (n < Base2) /\ ~ (n < Base3)
          BY <1>2, <4>1, <4>2, <4>3, <4>4
        <4> QED
          BY <1>2, <4>5, FitsIs, Zenon
      <3>3. \A j \in 1..((k + 1) - 1) : ~ Fits(n, j)
        BY <2>2, <3>2
      <3> QED
        BY <3>1, <3>3
    <2>6. k + 1 \in 1..5
      BY <2>2
    <2> QED
      BY <2>4, <2>5, <2>6, ShortestIs
  <1> QED
    BY <1>1, <1>2
-----------------------------------------------------------------------------
(***************************************************************************)
(* What read_length makes of an input is the reading of the reference.     *)
(***************************************************************************)
IsForm(bytes, n, size) ==
    size <= Len(bytes) /\ Fits(n, size) /\ SubSeq(bytes, 1, size) = Form(n, size)

LEMMA FormBegins ==
    ASSUME NEW n \in Nat, NEW k \in 1..4, n < Power(k)
    PROVE  /\ Form(n, k + 1) = <<LongForm + k>> \o Digits(n, k)
           /\ Form(n, k + 1) \in Bytes /\ Form(n, k + 1)[1] = LongForm + k
           /\ SubSeq(Form(n, k + 1), 2, k + 1) = Digits(n, k)
  <1> DEFINE d == Digits(n, k)
             head == <<LongForm + k>>
  <1>1. d \in Seq(Byte) /\ Len(d) = k
    BY NumberReadsBack DEF Bytes
  <1>2. LongForm + k \in Byte /\ LongForm \in Nat
    BY LongFormByte
  <1>3. head \in Seq(Byte) /\ Len(head) = 1 /\ head[1] = LongForm + k
    BY <1>2
  <1>4. Form(n, k + 1) = head \o d
    <2>1. (k + 1) - 1 = k /\ k + 1 # 1 /\ LongForm + (k + 1) - 1 = LongForm + k
      BY <1>2
    <2> QED
      BY <2>1 DEF Form
  <1> HIDE DEF d, head
  <1>5. head \o d \in Seq(Byte) /\ (head \o d)[1] = LongForm + k
    <2>1. 1 \in 1..(1 + k) /\ 1 <= 1
      OBVIOUS
    <2>2. head \o d \in Seq(Byte) /\ (head \o d)[1] = head[1]
      BY <1>1, <1>3, <2>1, ConcatProperties
    <2> QED
      BY <1>3, <2>2
  <1>6. SubSeq(head \o d, 2, k + 1) = d
    <2>1. /\ 2 \in (Len(head) + 1)..(Len(head) + Len(d))
          /\ k + 1 \in (Len(head) + 1)..(Len(head) + Len(d))
      BY <1>1, <1>3
    <2>2. SubSeq(head \o d, 2, k + 1)
            = SubSeq(d, 2 - Len(head), (k + 1) - Len(head))
      <3>1. head \in Seq(Byte) /\ d \in Seq(Byte)
        BY <1>1, <1>3
      <3> QED
        BY <2>1, <3>1, SubSeqOfConcat2, Zenon
    <2>3. 2 - Len(head) = 1 /\ (k + 1) - Len(head) = k
      BY <1>3
    <2>4. SubSeq(d, 1, k) = d
      BY <1>1, SubSeqFull
    <2> QED
      BY <2>2, <2>3, <2>4
  <1> QED
    BY <1>4, <1>5, <1>6 DEF Bytes, d, head

LEMMA FirstByte ==
    ASSUME NEW bytes \in Seq(Byte), 1 \in 1..Len(bytes)
    PROVE  SubSeq(bytes, 1, 1) = <<bytes[1]>>
  <1>1. Len(bytes) \in Nat /\ bytes[1] \in Byte
    OBVIOUS
  <1>2. /\ SubSeq(bytes, 1, 1) \in Seq(Byte)
        /\ Len(SubSeq(bytes, 1, 1)) = 1
        /\ SubSeq(bytes, 1, 1)[1] = bytes[1]
    BY <1>1
  <1>3. <<bytes[1]>> \in Seq(Byte) /\ Len(<<bytes[1]>>) = 1
        /\ <<bytes[1]>>[1] = bytes[1]
    BY <1>1
  <1>4. \A i \in 1..1 : SubSeq(bytes, 1, 1)[i] = <<bytes[1]>>[i]
    BY <1>2, <1>3
  <1> QED
    BY <1>2, <1>3, <1>4, SeqEqual, Zenon

\* A form is read, and nothing else.
LEMMA FormIsRead ==
    ASSUME NEW bytes \in Bytes, NEW n \in Nat, NEW size \in 1..5,
           IsForm(bytes, n, size)
    PROVE  ReadLength(bytes) = <<n, size>>
  <1>1. /\ bytes \in Seq(Byte) /\ Len(bytes) \in Nat /\ size <= Len(bytes)
        /\ size \in 1..Len(bytes) /\ 1 \in 1..Len(bytes)
        /\ bytes # <<>> /\ bytes[1] \in Byte
    BY DEF IsForm, Bytes
  <1>2. /\ SubSeq(bytes, 1, size)[1] = bytes[1]
    <2>1. size \in Nat /\ 1 \in 1..size
      OBVIOUS
    <2> QED
      BY <1>1, <2>1
  <1>3. CASE size = 1
    <2>1. n < LongForm /\ SubSeq(bytes, 1, size) = <<n>>
      BY <1>3, FitsIs DEF IsForm, Form
    <2>2. <<n>>[1] = n
      OBVIOUS
    <2>3. bytes[1] = n
      BY <1>2, <2>1, <2>2, Zenon
    <2> QED
      BY <1>1, <1>3, <2>1, <2>3 DEF ReadLength
  <1>4. CASE size # 1
    <2> DEFINE k == size - 1
    <2>1. k \in 1..4 /\ k + 1 = size /\ 1 + k = size
      BY <1>4
    <2>2. n < Power(k) /\ SubSeq(bytes, 1, size) = Form(n, k + 1)
      BY <1>4, <2>1 DEF IsForm, Fits
    <2> HIDE DEF k
    <2>3. /\ Form(n, k + 1)[1] = LongForm + k
          /\ SubSeq(Form(n, k + 1), 2, k + 1) = Digits(n, k)
          /\ BigEndian(Digits(n, k)) = n
      BY <2>1, <2>2, FormBegins, NumberReadsBack
    <2>4. bytes[1] = LongForm + k
      BY <1>2, <2>2, <2>3
    <2>5. SubSeq(bytes, 2, 1 + k) = Digits(n, k)
      <3>1. SubSeq(SubSeq(bytes, 1, size), 2, size) = SubSeq(bytes, 2, size)
        <4>1. size \in Nat /\ 2 <= size /\ size <= Len(bytes)
          BY <1>1, <1>4
        <4> QED
          BY <1>1, <4>1
      <3> QED
        BY <2>1, <2>2, <2>3, <3>1
    <2>6. /\ LongForm \in Nat /\ ~ (LongForm + k < LongForm)
          /\ (LongForm + k) - LongForm = k
          /\ ~ (k = 0 \/ k > 4 \/ Len(bytes) < 1 + k)
      BY <1>1, <2>1, Powers
    <2>7. ReadLength(bytes) = <<BigEndian(SubSeq(bytes, 2, 1 + k)), 1 + k>>
      BY <1>1, <2>4, <2>6 DEF ReadLength
    <2> QED
      BY <2>1, <2>3, <2>5, <2>7
  <1> QED
    BY <1>3, <1>4

LEMMA ReadIsForm ==
    ASSUME NEW bytes \in Bytes, ReadLength(bytes) # NoResult
    PROVE  \E n \in Nat, size \in 1..5 :
              ReadLength(bytes) = <<n, size>> /\ IsForm(bytes, n, size)
  <1>1. bytes # <<>>
    BY DEF ReadLength
  <1>2. /\ bytes \in Seq(Byte) /\ Len(bytes) \in Nat /\ 1 \in 1..Len(bytes)
        /\ bytes[1] \in Byte /\ bytes[1] \in Nat /\ LongForm \in Nat
    BY <1>1, Powers DEF Bytes, Byte
  <1>3. CASE bytes[1] < LongForm
    <2> DEFINE n == bytes[1]
    <2>1. ReadLength(bytes) = <<n, 1>> /\ Fits(n, 1)
      BY <1>1, <1>3, FitsIs DEF ReadLength
    <2>2. SubSeq(bytes, 1, 1) = <<n>>
      BY <1>2, FirstByte
    <2>3. IsForm(bytes, n, 1)
      BY <1>2, <2>1, <2>2 DEF IsForm, Form
    <2> QED
      BY <1>2, <2>1, <2>3
  <1>4. CASE ~ (bytes[1] < LongForm)
    <2> DEFINE k == bytes[1] - LongForm
               d == SubSeq(bytes, 2, 1 + k)
               n == BigEndian(d)
    <2>1. ~ (k = 0 \/ k > 4 \/ Len(bytes) < 1 + k)
      BY <1>1, <1>4 DEF ReadLength
    <2>2. k \in 1..4 /\ 1 + k <= Len(bytes) /\ bytes[1] = LongForm + k
      BY <1>2, <1>4, <2>1
    <2>3. ReadLength(bytes) = <<n, 1 + k>>
      BY <1>1, <1>4, <2>1 DEF ReadLength
    <2> HIDE DEF k
    <2>4. d \in Bytes /\ Len(d) = k
      BY <1>2, <2>2 DEF Bytes
    <2>5. SubSeq(bytes, 1, 1 + k) = <<bytes[1]>> \o d
      <3>1. 1 \in 1..Len(bytes) /\ 1 + k \in 1..Len(bytes)
        BY <1>2, <2>2
      <3>2. SubSeq(bytes, 1, 1 + k) = <<bytes[1]>> \o SubSeq(bytes, 1 + 1, 1 + k)
        BY <1>2, <3>1, SubSeqRecursiveFirst
      <3>3. 1 + 1 = 2
        OBVIOUS
      <3> QED
        BY <3>2, <3>3
    <2> HIDE DEF d
    <2>6. n \in Nat /\ n < Power(k) /\ Digits(n, k) = d
      BY <2>2, <2>4, DigitsReadBack
    <2> HIDE DEF n
    <2>7. Form(n, k + 1) = <<LongForm + k>> \o d
      BY <2>2, <2>6, FormBegins
    <2>8. /\ Fits(n, k + 1) /\ k + 1 = 1 + k /\ k + 1 \in 1..5
      <3>1. (k + 1) - 1 = k /\ k + 1 # 1 /\ k + 1 = 1 + k /\ k + 1 \in 1..5
        BY <2>2
      <3> QED
        BY <2>6, <3>1 DEF Fits
    <2>9. IsForm(bytes, n, k + 1)
      BY <2>2, <2>5, <2>7, <2>8 DEF IsForm
    <2> QED
      BY <2>3, <2>6, <2>8, <2>9
  <1> QED
    BY <1>3, <1>4

(***************************************************************************)
(* The sizes of the TLV at the start of an input frame it, and no other    *)
(* frame does.                                                             *)
(***************************************************************************)
LEMMA FramesAreSizes ==
    ASSUME NEW bytes \in Bytes, bytes # <<>>
    PROVE  Frames(bytes) = IF TlvSizes(bytes) = NoResult THEN {}
                                                         ELSE {TlvSizes(bytes)}
  <1> DEFINE tail == Tail(bytes)
             Framed(h, n) == Fits(n, h - 1) /\ SubSeq(bytes, 2, h) = Form(n, h - 1)
  <1>1. /\ bytes \in Seq(Byte) /\ Len(bytes) \in Nat
        /\ tail \in Bytes /\ Len(tail) = Len(bytes) - 1
    BY DEF Bytes
  <1>2. ASSUME NEW h \in 2..Len(bytes)
        PROVE  SubSeq(tail, 1, h - 1) = SubSeq(bytes, 2, h)
    BY <1>1
  <1>3. \A f : f \in Frames(bytes)
             <=> \E h \in 2..6 : \E n \in 0..(Len(bytes) - h) :
                    Framed(h, n) /\ f = <<h, h + n>>
    <2> DEFINE FramesOf(h) ==
                 {<<h, h + n>> : n \in {k \in 0..(Len(bytes) - h) : Framed(h, k)}}
    <2>1. Frames(bytes) = UNION {FramesOf(h) : h \in 2..6}
      BY DEF Frames
    <2>2. \A h, f : f \in FramesOf(h)
                      <=> \E n \in 0..(Len(bytes) - h) :
                             Framed(h, n) /\ f = <<h, h + n>>
      <3> HIDE DEF Framed
      <3> QED
        OBVIOUS
    <2> HIDE DEF FramesOf
    <2>3. \A f : f \in Frames(bytes) <=> \E h \in 2..6 : f \in FramesOf(h)
      BY <2>1
    <2> HIDE DEF Framed
    <2> SUFFICES ASSUME NEW f
                 PROVE  f \in Frames(bytes)
                          <=> \E h \in 2..6 : \E n \in 0..(Len(bytes) - h) :
                                 Framed(h, n) /\ f = <<h, h + n>>
      OBVIOUS
    <2>4. f \in Frames(bytes) <=> \E h \in 2..6 : f \in FramesOf(h)
      BY <2>3
    <2>5. \A h : f \in FramesOf(h) <=> \E n \in 0..(Len(bytes) - h) :
                                          Framed(h, n) /\ f = <<h, h + n>>
      BY <2>2
    <2> QED
      BY <2>4, <2>5, Zenon
  <1> HIDE DEF tail
  <1>4. ASSUME NEW f \in Frames(bytes)
        PROVE  TlvSizes(bytes) = f /\ f # NoResult
    <2>0. PICK h \in 2..6 : \E n \in 0..(Len(bytes) - h) :
             Framed(h, n) /\ f = <<h, h + n>>
      BY <1>3, <1>4
    <2>1. PICK n \in 0..(Len(bytes) - h) : Framed(h, n) /\ f = <<h, h + n>>
      BY <2>0
    <2>2. /\ h \in 2..Len(bytes) /\ n \in Nat /\ h - 1 \in 1..5
          /\ h - 1 <= Len(tail) /\ 1 + (h - 1) = h
          /\ ~ (h + n > Len(bytes))
      BY <1>1
    <2>3. SubSeq(tail, 1, h - 1) = Form(n, h - 1) /\ Fits(n, h - 1)
      BY <1>2, <2>1, <2>2
    <2>4. ReadLength(tail) = <<n, h - 1>>
      BY <1>1, <2>2, <2>3, FormIsRead DEF IsForm
    <2>5. /\ ReadLength(tail) # NoResult
          /\ 1 + ReadLength(tail)[2] = h
          /\ 1 + ReadLength(tail)[2] + ReadLength(tail)[1] = h + n
      BY <2>2, <2>4 DEF NoResult
    <2>6. TlvSizes(bytes) = <<h, h + n>>
      BY <2>2, <2>5 DEF TlvSizes, tail
    <2> QED
      BY <2>1, <2>6 DEF NoResult
  <1>5. ASSUME TlvSizes(bytes) # NoResult
        PROVE  TlvSizes(bytes) \in Frames(bytes)
    <2>1. ReadLength(tail) # NoResult
      BY <1>5 DEF TlvSizes, tail
    <2>2. PICK n \in Nat, size \in 1..5 :
             ReadLength(tail) = <<n, size>> /\ IsForm(tail, n, size)
      BY <1>1, <2>1, ReadIsForm
    <2>3. ReadLength(tail)[1] = n /\ ReadLength(tail)[2] = size
      BY <2>2
    <2>4. ~ (1 + size + n > Len(bytes)) /\ TlvSizes(bytes) = <<1 + size, 1 + size + n>>
      BY <1>5, <2>1, <2>3 DEF TlvSizes, tail
    <2> DEFINE h == 1 + size
    <2>5. /\ h \in 2..6 /\ h \in 2..Len(bytes) /\ h - 1 = size
          /\ n \in 0..(Len(bytes) - h)
      BY <1>1, <2>4
    <2> HIDE DEF h
    <2>6. SubSeq(tail, 1, h - 1) = Form(n, h - 1) /\ Fits(n, h - 1)
      BY <2>2, <2>5 DEF IsForm
    <2>7. Framed(h, n)
      BY <1>2, <2>5, <2>6
    <2>8. TlvSizes(bytes) = <<h, h + n>>
      BY <2>4 DEF h
    <2> HIDE DEF Framed
    <2> QED
      BY <1>3, <2>5, <2>7, <2>8
  <1> QED
    BY <1>4, <1>5

LEMMA NoFrameOfNone == Frames(<<>>) = {} /\ TlvSizes(<<>>) = NoResult
  <1>1. \A h \in 2..6 : 0..(Len(<<>>) - h) = {}
    OBVIOUS
  <1>2. Frames(<<>>) = {}
    BY <1>1 DEF Frames
  <1> QED
    BY <1>2 DEF TlvSizes

(***************************************************************************)
(* What read_tlv_with_remainder returns is the one reading there is.       *)
(***************************************************************************)
LEMMA ReadingsAreRead ==
    ASSUME NEW bytes \in Bytes, NEW tag
    PROVE  Readings(bytes, tag) =
             IF ReadTlvWithRemainder(bytes, tag) = NoResult THEN {}
             ELSE {ReadTlvWithRemainder(bytes, tag)}
  <1>1. CASE bytes = <<>> \/ bytes[1] # tag
    <2>1. ReadTlvWithRemainder(bytes, tag) = NoResult
      <3>1. bytes = <<>> => TlvSizes(bytes) = NoResult
        BY NoFrameOfNone
      <3>2. TlvSizes(bytes) = NoResult \/ bytes[1] # tag
        BY <1>1, <3>1
      <3> QED
        BY <3>2, Zenon DEF ReadTlvWithRemainder
    <2>2. Readings(bytes, tag) = {}
      BY <1>1 DEF Readings
    <2> QED
      BY <2>1, <2>2
  <1>2. CASE bytes # <<>> /\ bytes[1] = tag
    <2> DEFINE Parts(f) == <<SubSeq(bytes, f[1] + 1, f[2]),
                             SubSeq(bytes, f[2] + 1, Len(bytes))>>
    <2>1. Readings(bytes, tag) = {Parts(f) : f \in Frames(bytes)}
      BY <1>2 DEF Readings
    <2>2. ReadTlvWithRemainder(bytes, tag)
            = IF TlvSizes(bytes) = NoResult THEN NoResult
              ELSE Parts(TlvSizes(bytes))
      BY <1>2 DEF ReadTlvWithRemainder
    <2>3. \A f : Parts(f) # NoResult
      BY DEF NoResult
    <2> HIDE DEF Parts
    <2>4. CASE TlvSizes(bytes) = NoResult
      <3>1. Frames(bytes) = {}
        BY <1>2, <2>4, FramesAreSizes
      <3> QED
        BY <2>1, <2>2, <2>4, <3>1
    <2>5. CASE TlvSizes(bytes) # NoResult
      <3>1. Frames(bytes) = {TlvSizes(bytes)}
        BY <1>2, <2>5, FramesAreSizes
      <3> QED
        BY <2>1, <2>2, <2>3, <2>5, <3>1
    <2> QED
      BY <2>4, <2>5
  <1> QED
    BY <1>1, <1>2
-----------------------------------------------------------------------------
(***************************************************************************)
(* Lengths are numbers and inputs are bytes.                               *)
(***************************************************************************)
ReadingType == len \in Nat /\ input \in Bytes

LEMMA AlwaysReadingType == ReadingSpec => []ReadingType
  <1>1. ReadingInit => ReadingType
    BY BigEndianOfNone DEF ReadingInit, ReadingType
  <1>2. ReadingType /\ [ReadingNext]_readingVars => ReadingType'
    <2> SUFFICES ASSUME ReadingType, [ReadingNext]_readingVars
                 PROVE  ReadingType'
      OBVIOUS
    <2>1. CASE Longer
      BY <2>1 DEF Longer, ReadingType
    <2>2. CASE MoreInput
      <3>1. PICK byte \in Byte : input' = Append(input, byte)
        BY <2>2, ReadingAssumption DEF MoreInput
      <3>2. input' \in Bytes
        BY <3>1, BigEndianOfAppend DEF ReadingType
      <3> QED
        BY <2>2, <3>2 DEF MoreInput, ReadingType
    <2>3. CASE UNCHANGED readingVars
      BY <2>3 DEF readingVars, ReadingType
    <2> QED
      BY <2>1, <2>2, <2>3 DEF ReadingNext
  <1> QED
    BY <1>1, <1>2, PTL DEF ReadingSpec

(***************************************************************************)
(* LengthIsDer for every length: encode_length writes the shortest form.   *)
(***************************************************************************)
THEOREM LengthsAreShortest == ReadingSpec => []LengthIsDer
  <1>1. ReadingType => LengthIsDer
    BY EncodesShortest DEF ReadingType, LengthIsDer
  <1> QED
    BY <1>1, AlwaysReadingType, PTL

(***************************************************************************)
(* ReadsWhatIsThere for every input: the reader of der.rs finds a TLV      *)
(* where the reference does, and the same one.                             *)
(***************************************************************************)
THEOREM ReadersAreExact == ReadingSpec => []ReadsWhatIsThere
  <1>1. ReadingType => ReadsWhatIsThere
    BY ReadingsAreRead DEF ReadingType, ReadsWhatIsThere, ReadsAsSeen
  <1> QED
    BY <1>1, AlwaysReadingType, PTL

-----------------------------------------------------------------------------
(***************************************************************************)
(* Four bytes hold the length of every envelope of a request.              *)
(***************************************************************************)
RequestsFit ==
    2 * MaxDigest + Len(Sha256Oid) + Len(Sha1Oid) + 100 < Base4

BodiesType ==
    body \in Bytes /\ digest \in Bytes /\ Len(digest) \in 0..MaxDigest
-----------------------------------------------------------------------------
(***************************************************************************)
(* Sequences of bytes.                                                     *)
(***************************************************************************)
LEMMA Joined ==
    ASSUME NEW a \in Bytes, NEW b \in Bytes
    PROVE  a \o b \in Bytes /\ Len(a \o b) = Len(a) + Len(b)
  BY ConcatProperties DEF Bytes

\* The bytes of a beginning, and what follows its first byte.
LEMMA Beginning ==
    ASSUME NEW bytes \in Bytes, NEW n \in 0..Len(bytes)
    PROVE  /\ SubSeq(bytes, 1, n) \in Bytes /\ Len(SubSeq(bytes, 1, n)) = n
           /\ \A k \in 1..n : SubSeq(bytes, 1, n)[k] = bytes[k]
           /\ n > 0 => /\ Tail(bytes) \in Bytes
                       /\ Len(Tail(bytes)) = Len(bytes) - 1
                       /\ Tail(SubSeq(bytes, 1, n))
                            = SubSeq(Tail(bytes), 1, n - 1)
  <1> DEFINE cut == SubSeq(bytes, 1, n)
             rest == SubSeq(Tail(bytes), 1, n - 1)
  <1>1. /\ bytes \in Seq(Byte) /\ Len(bytes) \in Nat
        /\ n \in Nat /\ n <= Len(bytes)
    BY DEF Bytes
  <1>2. cut \in Seq(Byte) /\ Len(cut) = n /\ \A k \in 1..n : cut[k] = bytes[k]
    BY <1>1
  <1>3. ASSUME n > 0
        PROVE  Tail(bytes) \in Seq(Byte) /\ Len(Tail(bytes)) = Len(bytes) - 1
                 /\ Tail(cut) = rest
    <2>1. /\ Tail(bytes) \in Seq(Byte) /\ Len(Tail(bytes)) = Len(bytes) - 1
          /\ \A k \in 1..(Len(bytes) - 1) : Tail(bytes)[k] = bytes[k + 1]
      BY <1>1, <1>3
    <2>2. /\ rest \in Seq(Byte) /\ Len(rest) = n - 1
          /\ \A k \in 1..(n - 1) : rest[k] = bytes[k + 1]
      BY <1>1, <1>3, <2>1
    <2> HIDE DEF cut, rest
    <2>3. /\ Tail(cut) \in Seq(Byte) /\ Len(Tail(cut)) = n - 1
          /\ \A k \in 1..(n - 1) : Tail(cut)[k] = bytes[k + 1]
      BY <1>1, <1>2, <1>3
    <2> QED
      BY <2>1, <2>2, <2>3
  <1> QED
    BY <1>2, <1>3 DEF Bytes
-----------------------------------------------------------------------------
(***************************************************************************)
(* A length that can be read from a beginning is that of the whole.        *)
(***************************************************************************)
LEMMA CutLength ==
    ASSUME NEW bytes \in Bytes, NEW n \in 0..Len(bytes),
           ReadLength(SubSeq(bytes, 1, n)) # NoResult
    PROVE  ReadLength(bytes) = ReadLength(SubSeq(bytes, 1, n))
  <1> DEFINE cut == SubSeq(bytes, 1, n)
  <1>1. /\ bytes \in Seq(Byte) /\ Len(bytes) \in Nat /\ n \in Nat
        /\ n <= Len(bytes)
        /\ cut \in Seq(Byte) /\ Len(cut) = n
        /\ \A k \in 1..n : cut[k] = bytes[k]
    BY Beginning DEF Bytes
  <1> HIDE DEF cut
  <1>2. cut # <<>> /\ n > 0
    <2>1. cut # <<>>
      BY DEF ReadLength, cut
    <2> QED
      BY <1>1, <2>1, EmptySeq
  <1>3. cut[1] = bytes[1] /\ bytes # <<>> /\ bytes[1] \in Byte
    BY <1>1, <1>2
  <1>4. CASE bytes[1] < LongForm
    BY <1>2, <1>3, <1>4 DEF ReadLength, cut
  <1>5. CASE ~ (bytes[1] < LongForm)
    <2> DEFINE m == bytes[1] - LongForm
    <2>1. ~ (m = 0 \/ m > 4 \/ Len(cut) < 1 + m)
      BY <1>2, <1>3, <1>5 DEF ReadLength, cut
    <2>2. m \in 1..4 /\ 1 + m <= n
      <3>1. bytes[1] \in Nat /\ LongForm \in Nat
        BY <1>3, Powers DEF Byte
      <3> QED
        BY <1>1, <1>5, <2>1, <3>1
    <2> HIDE DEF m
    <2>3. SubSeq(cut, 2, 1 + m) = SubSeq(bytes, 2, 1 + m)
      BY <1>1, <2>2
    <2>4. ~ (m = 0 \/ m > 4 \/ Len(bytes) < 1 + m)
      BY <1>1, <2>2
    <2>5. ReadLength(cut) = <<BigEndian(SubSeq(cut, 2, 1 + m)), 1 + m>>
      BY <1>2, <1>3, <1>5, <2>1 DEF ReadLength, m
    <2>6. ReadLength(bytes) = <<BigEndian(SubSeq(bytes, 2, 1 + m)), 1 + m>>
      BY <1>3, <1>5, <2>4 DEF ReadLength, m
    <2> QED
      BY <2>3, <2>5, <2>6 DEF cut
  <1> QED
    BY <1>4, <1>5

(***************************************************************************)
(* No beginning of a TLV is a TLV.                                         *)
(***************************************************************************)
LEMMA CutTlv ==
    ASSUME NEW bytes \in Bytes, NEW n \in 0..(Len(bytes) - 1),
           TotalTlvLength(bytes) = <<Len(bytes)>>
    PROVE  TlvSizes(SubSeq(bytes, 1, n)) = NoResult
  <1> DEFINE cut == SubSeq(bytes, 1, n)
             length == ReadLength(Tail(cut))
  <1> SUFFICES ASSUME cut # <<>>, length # NoResult
               PROVE  1 + length[2] + length[1] > Len(cut)
    BY DEF TlvSizes
  <1>1. Len(bytes) \in Nat /\ n \in 0..Len(bytes) /\ Len(cut) = n
    <2>1. Len(bytes) \in Nat
      BY DEF Bytes
    <2> QED
      BY <2>1, Beginning
  <1>2. n > 0 /\ bytes # <<>>
    <2>1. cut \in Seq(Byte)
      BY <1>1, Beginning DEF Bytes
    <2> HIDE DEF cut
    <2>2. n # 0
      BY <1>1, <2>1, EmptySeq
    <2> QED
      BY <1>1, <2>2
  <1>3. /\ Tail(bytes) \in Bytes /\ n - 1 \in 0..Len(Tail(bytes))
        /\ Tail(cut) = SubSeq(Tail(bytes), 1, n - 1)
    BY <1>1, <1>2, Beginning
  <1>4. ReadLength(Tail(bytes)) = length
    BY <1>3, CutLength
  <1> HIDE DEF cut, length
  <1>5. 1 + length[2] + length[1] = Len(bytes)
    <2>1. TotalTlvLength(bytes) # NoResult
      BY <1>1 DEF NoResult
    <2>2. TlvSizes(bytes) # NoResult /\ TlvSizes(bytes)[2] = Len(bytes)
      BY <2>1 DEF TotalTlvLength
    <2> QED
      BY <1>2, <1>4, <2>2 DEF TlvSizes
  <1> QED
    BY <1>1, <1>5
-----------------------------------------------------------------------------
(***************************************************************************)
(* What is encoded, of any length, is bytes, and how many at most.         *)
(***************************************************************************)
LEMMA LengthIsBytes ==
    ASSUME NEW n \in Nat
    PROVE  EncodeLength(n) \in Bytes /\ Len(EncodeLength(n)) \in 1..5
  <1> DEFINE x == n \div Base
             y == n \div Base2
             z == n \div Base3
  <1>1. x \in Nat /\ y \in Nat /\ z \in Nat
    BY Shift, ShiftTwice
  <1>2. /\ n % Base \in Byte /\ x % Base \in Byte
        /\ y % Base \in Byte /\ z % Base \in Byte
    BY <1>1, Shift
  <1>3. /\ n < Base => n \in Byte
        /\ n < Base2 => x \in Byte
        /\ n < Base3 => y \in Byte
    <2>1. n < Base3 => y < Base
      BY ShiftTwice
    <2> QED
      BY <1>1, <2>1, Shift
  <1>4. LongForm <= Base /\ LongForm \in Nat /\ Base \in Nat
    BY Powers
  <1>5. /\ LongForm + 1 \in Byte /\ LongForm + 2 \in Byte
        /\ LongForm + 3 \in Byte /\ LongForm + 4 \in Byte
    BY LongFormByte
  <1> HIDE DEF x, y, z
  <1>6. CASE n < LongForm
    BY <1>3, <1>4, <1>6 DEF EncodeLength, Bytes
  <1>7. CASE ~ (n < LongForm) /\ n < Base
    BY <1>3, <1>5, <1>7 DEF EncodeLength, Bytes
  <1>8. CASE ~ (n < LongForm) /\ ~ (n < Base) /\ n < Base2
    BY <1>2, <1>3, <1>5, <1>8 DEF EncodeLength, Bytes, x
  <1>9. CASE ~ (n < LongForm) /\ ~ (n < Base) /\ ~ (n < Base2) /\ n < Base3
    BY <1>2, <1>3, <1>5, <1>9 DEF EncodeLength, Bytes, x, y
  <1>10. CASE ~ (n < LongForm) /\ ~ (n < Base) /\ ~ (n < Base2) /\ ~ (n < Base3)
    BY <1>2, <1>5, <1>10 DEF EncodeLength, Bytes, x, y, z
  <1> QED
    BY <1>6, <1>7, <1>8, <1>9, <1>10

LEMMA TlvIsBytes ==
    ASSUME NEW tag \in Byte, NEW value \in Bytes
    PROVE  /\ EncodeTlv(tag, value) \in Bytes
           /\ Len(EncodeTlv(tag, value)) \in Nat
           /\ Len(EncodeTlv(tag, value)) <= 6 + Len(value)
  <1>1. Len(value) \in Nat /\ <<tag>> \in Bytes /\ Len(<<tag>>) = 1
    BY DEF Bytes
  <1>2. /\ EncodeLength(Len(value)) \in Bytes
        /\ Len(EncodeLength(Len(value))) \in 1..5
    BY <1>1, LengthIsBytes
  <1>3. /\ <<tag>> \o EncodeLength(Len(value)) \in Bytes
        /\ Len(<<tag>> \o EncodeLength(Len(value)))
             = 1 + Len(EncodeLength(Len(value)))
    BY <1>1, <1>2, Joined
  <1>4. /\ EncodeTlv(tag, value) \in Bytes
        /\ Len(EncodeTlv(tag, value))
             = Len(<<tag>> \o EncodeLength(Len(value))) + Len(value)
    BY <1>3, Joined DEF EncodeTlv
  <1>5. \A k \in 1..5, n \in Nat : 1 + k + n \in Nat /\ 1 + k + n <= 6 + n
    OBVIOUS
  <1>6. Len(EncodeTlv(tag, value))
          = 1 + Len(EncodeLength(Len(value))) + Len(value)
    BY <1>3, <1>4
  <1> QED
    BY <1>1, <1>2, <1>4, <1>5, <1>6

LEMMA InSequenceIsBytes ==
    ASSUME NEW value \in Bytes
    PROVE  /\ InSequence(value) \in Bytes
           /\ Len(InSequence(value)) \in Nat
           /\ Len(InSequence(value)) <= 6 + Len(value)
  BY TlvIsBytes, PkiAssumption DEF InSequence, Tags

LEMMA TagsAreBytes ==
    /\ SequenceTag \in Byte /\ IntegerTag \in Byte /\ OctetStringTag \in Byte
    /\ NullTag \in Byte /\ ObjectIdTag \in Byte /\ BooleanTag \in Byte
    /\ EnumeratedTag \in Byte /\ Explicit0Tag \in Byte
    /\ <<>> \in Bytes /\ Len(<<>>) = 0
    /\ \A byte \in Byte : <<byte>> \in Bytes /\ Len(<<byte>>) = 1
    /\ 0 \in Byte /\ 1 \in Byte /\ 2 \in Byte
  <1>1. Tags \subseteq Byte
    BY PkiAssumption
  <1>2. 0 \in Byte /\ 1 \in Byte /\ 2 \in Byte
    BY Powers DEF Byte
  <1> QED
    BY <1>1, <1>2 DEF Tags, Bytes
-----------------------------------------------------------------------------
(***************************************************************************)
(* Bodies and digests are bytes.                                           *)
(***************************************************************************)
LEMMA AnswersAreBytes ==
    ASSUME NEW s \in 0..2
    PROVE  TimeStampResp(s) \in Bytes /\ OcspResp(s) \in Bytes
  <1> USE TagsAreBytes
  <1>1. <<s>> \in Bytes /\ <<1>> \in Bytes /\ OcspBasicOid \in Bytes
    <2>1. s \in Byte
      OBVIOUS
    <2> QED
      BY <2>1, PkiAssumption
  <1>2. Granted \in Bytes
    BY <1>1, TlvIsBytes, InSequenceIsBytes DEF Granted
  <1>3. TimeStampResp(s) \in Bytes
    <2> DEFINE token == IF s \in {0, 1} THEN Granted ELSE <<>>
               info == InSequence(EncodeTlv(IntegerTag, <<s>>))
    <2>1. token \in Bytes /\ info \in Bytes
      BY <1>1, <1>2, TlvIsBytes, InSequenceIsBytes
    <2>2. info \o token \in Bytes
      BY <2>1, Joined
    <2> QED
      BY <2>2, InSequenceIsBytes DEF TimeStampResp
  <1>4. OcspResp(s) \in Bytes
    <2> DEFINE basic == EncodeTlv(ObjectIdTag, OcspBasicOid)
                          \o EncodeTlv(OctetStringTag, Granted)
               bytes == IF s = 0 THEN EncodeTlv(Explicit0Tag, InSequence(basic))
                                 ELSE <<>>
               state == EncodeTlv(EnumeratedTag, <<s>>)
    <2>1. basic \in Bytes
      BY <1>1, <1>2, TlvIsBytes, Joined
    <2> HIDE DEF basic
    <2>2. bytes \in Bytes /\ state \in Bytes
      BY <1>1, <2>1, TlvIsBytes, InSequenceIsBytes
    <2>3. state \o bytes \in Bytes
      BY <2>2, Joined
    <2> QED
      BY <2>3, InSequenceIsBytes DEF OcspResp, basic
  <1> QED
    BY <1>3, <1>4

LEMMA AlwaysBodiesType == BodiesSpec => []BodiesType
  <1> USE DEF BodiesType
  <1>1. BodiesInit => BodiesType
    <2> SUFFICES ASSUME BodiesInit PROVE BodiesType
      OBVIOUS
    <2>1. server = "none" => body = <<>>
      BY DEF BodiesInit
    <2>2. server # "none" =>
             /\ status \in 0..2
             /\ body \in {TimeStampResp(status), OcspResp(status)}
      BY DEF BodiesInit
    <2>3. body \in Bytes
      BY <2>1, <2>2, AnswersAreBytes, TagsAreBytes
    <2>4. digest = <<>>
      BY DEF BodiesInit
    <2> QED
      BY <2>3, <2>4, TagsAreBytes, BodiesAssumption
  <1>2. BodiesType /\ [BodiesNext]_bodyVars => BodiesType'
    <2> SUFFICES ASSUME BodiesType, [BodiesNext]_bodyVars PROVE BodiesType'
      OBVIOUS
    <2>1. body \in Seq(Byte) /\ digest \in Seq(Byte) /\ MaxDigest \in Nat
      BY BodiesAssumption DEF Bytes
    <2>2. CASE Grow \/ UNCHANGED bodyVars
      BY <2>2 DEF Grow, bodyVars, answerVars
    <2>3. CASE CutOff
      BY <2>1, <2>3 DEF CutOff, Edited, Bytes
    <2>4. CASE Alter
      <3>1. PICK k \in 1..Len(body), byte \in Byte :
               body' = [body EXCEPT ![k] = byte]
        BY <2>4, BodiesAssumption DEF Alter
      <3>2. body' \in Seq(Byte)
        BY <2>1, <3>1
      <3> QED
        BY <2>4, <3>2 DEF Alter, Edited, Bytes
    <2>5. CASE Extend
      <3>1. PICK byte \in Byte : body' = Append(body, byte)
        BY <2>5, BodiesAssumption DEF Extend
      <3>2. body' \in Seq(Byte)
        BY <2>1, <3>1
      <3> QED
        BY <2>5, <3>2 DEF Extend, Edited, Bytes
    <2>6. CASE LongerDigest
      <3>1. Len(digest) % Base \in Byte
        BY <2>1, Shift
      <3>2. /\ digest' = Append(digest, Len(digest) % Base)
            /\ Len(digest) < MaxDigest /\ body' = body
        BY <2>6 DEF LongerDigest
      <3>3. digest' \in Seq(Byte) /\ Len(digest') = Len(digest) + 1
        BY <2>1, <3>1, <3>2
      <3> QED
        BY <2>1, <3>2, <3>3 DEF Bytes
    <2> QED
      BY <2>2, <2>3, <2>4, <2>5, <2>6 DEF BodiesNext
  <1> QED
    BY <1>1, <1>2, PTL DEF BodiesSpec

(***************************************************************************)
(* CutIsRefused: whatever server it comes from and however it was altered, *)
(* an answer that is accepted and fills its body has no beginning that is  *)
(* accepted (extract_timestamp_token, extract_basic_ocsp_response).        *)
(***************************************************************************)
THEOREM CutsAreRefused == BodiesSpec => []CutIsRefused
  <1>1. BodiesType => CutIsRefused
    <2> SUFFICES ASSUME BodiesType, TotalTlvLength(body) = <<Len(body)>>,
                        NEW n \in 0..(Len(body) - 1)
                 PROVE  Extracted(SubSeq(body, 1, n)) = NoResult
      BY DEF CutIsRefused
    <2>1. TlvSizes(SubSeq(body, 1, n)) = NoResult
      BY CutTlv DEF BodiesType
    <2>2. ReadTlvWithRemainder(SubSeq(body, 1, n), SequenceTag) = NoResult
      BY <2>1 DEF ReadTlvWithRemainder
    <2> QED
      BY <2>2 DEF Extracted, ExtractTimestampToken, ExtractBasicOcspResponse
  <1> QED
    BY <1>1, AlwaysBodiesType, PTL
-----------------------------------------------------------------------------
(***************************************************************************)
(* Sequences of so many bytes, and what envelopes and joining add.         *)
(***************************************************************************)
UpTo(n) == {bytes \in Bytes : Len(bytes) <= n}

LEMMA SizeOfTlv ==
    ASSUME NEW tag \in Byte, NEW n \in Nat, NEW value \in UpTo(n)
    PROVE  EncodeTlv(tag, value) \in UpTo(n + 6)
  <1>1. value \in Bytes /\ Len(value) \in Nat /\ Len(value) <= n
    BY DEF UpTo, Bytes
  <1>2. /\ EncodeTlv(tag, value) \in Bytes
        /\ Len(EncodeTlv(tag, value)) \in Nat
        /\ Len(EncodeTlv(tag, value)) <= 6 + Len(value)
    BY <1>1, TlvIsBytes
  <1> QED
    BY <1>1, <1>2 DEF UpTo

LEMMA SizeOfSequence ==
    ASSUME NEW n \in Nat, NEW value \in UpTo(n)
    PROVE  InSequence(value) \in UpTo(n + 6)
  BY SizeOfTlv, TagsAreBytes DEF InSequence

LEMMA SizeOfJoined ==
    ASSUME NEW n \in Nat, NEW m \in Nat, NEW a \in UpTo(n), NEW b \in UpTo(m)
    PROVE  a \o b \in UpTo(n + m)
  <1>1. /\ a \in Bytes /\ Len(a) \in Nat /\ Len(a) <= n
        /\ b \in Bytes /\ Len(b) \in Nat /\ Len(b) <= m
    BY DEF UpTo, Bytes
  <1>2. a \o b \in Bytes /\ Len(a \o b) = Len(a) + Len(b)
    BY <1>1, Joined
  <1> QED
    BY <1>1, <1>2 DEF UpTo

LEMMA Regrouped ==
    ASSUME NEW a \in Bytes, NEW b \in Bytes, NEW c \in Bytes
    PROVE  (a \o b) \o c = a \o (b \o c)
  BY ConcatAssociative DEF Bytes

LEMMA OneByte ==
    ASSUME NEW byte \in Byte
    PROVE  <<byte>> \in UpTo(1)
  BY DEF UpTo, Bytes
-----------------------------------------------------------------------------
(***************************************************************************)
(* What fits four bytes is read back, before anything and alone.           *)
(***************************************************************************)
LEMMA FirstReadsBack ==
    ASSUME NEW tag \in Byte, NEW n \in Nat, n < Base4, NEW value \in UpTo(n),
           NEW rest \in Bytes
    PROVE  ReadTlvWithRemainder(EncodeTlv(tag, value) \o rest, tag)
             = <<value, rest>>
  <1>1. value \in Bytes /\ Len(value) < Base4
    <2>1. value \in Bytes /\ Len(value) \in Nat /\ Len(value) <= n
      BY DEF UpTo, Bytes
    <2>2. Base4 \in Nat
      BY Powers
    <2> QED
      BY <2>1, <2>2
  <1> QED
    BY <1>1, TlvReadsBack, Zenon

LEMMA AloneReadsBack ==
    ASSUME NEW tag \in Byte, NEW n \in Nat, n < Base4, NEW value \in UpTo(n)
    PROVE  ReadTlv(EncodeTlv(tag, value), tag) = <<value>>
  <1>1. ReadTlvWithRemainder(EncodeTlv(tag, value) \o <<>>, tag)
          = <<value, <<>>>>
    <2>1. <<>> \in Bytes
      BY TagsAreBytes
    <2> QED
      BY <2>1, FirstReadsBack
  <1>2. EncodeTlv(tag, value) \in Seq(Byte)
    BY SizeOfTlv DEF UpTo, Bytes
  <1>3. EncodeTlv(tag, value) \o <<>> = EncodeTlv(tag, value)
    BY <1>2, ConcatEmptySeq
  <1> QED
    BY <1>1, <1>3 DEF ReadTlv, NoResult

LEMMA SequenceReadsBack ==
    ASSUME NEW n \in Nat, n < Base4, NEW value \in UpTo(n)
    PROVE  ReadTlv(InSequence(value), SequenceTag) = <<value>>
  BY TagsAreBytes, AloneReadsBack DEF InSequence

LEMMA FirstSequenceReadsBack ==
    ASSUME NEW n \in Nat, n < Base4, NEW value \in UpTo(n), NEW rest \in Bytes
    PROVE  ReadTlvWithRemainder(InSequence(value) \o rest, SequenceTag)
             = <<value, rest>>
  BY TagsAreBytes, FirstReadsBack DEF InSequence

\* The algorithm, and what comes after its envelope.
AlgorithmContent(oid) ==
    EncodeTlv(ObjectIdTag, oid) \o EncodeTlv(NullTag, <<>>)

LEMMA AlgorithmReadsBack ==
    ASSUME NEW n \in Nat, n + 12 < Base4, NEW oid \in UpTo(n)
    PROVE  /\ AlgorithmIdentifier(oid) \in UpTo(n + 18)
           /\ ReadTlvWithRemainder(AlgorithmContent(oid), ObjectIdTag)[1] = oid
           /\ \A rest \in Bytes :
                 ReadTlvWithRemainder(AlgorithmIdentifier(oid) \o rest,
                                      SequenceTag)
                   = <<AlgorithmContent(oid), rest>>
  <1> DEFINE name == EncodeTlv(ObjectIdTag, oid)
             null == EncodeTlv(NullTag, <<>>)
  <1>1. n < Base4 /\ n + 6 \in Nat /\ n + 12 \in Nat
    BY Powers
  <1>2. name \in UpTo(n + 6)
    BY SizeOfTlv, TagsAreBytes
  <1>3. null \in UpTo(6) /\ null \in Bytes
    <2>1. <<>> \in UpTo(0)
      BY TagsAreBytes DEF UpTo
    <2>2. null \in UpTo(0 + 6)
      BY <2>1, SizeOfTlv, TagsAreBytes
    <2> QED
      BY <2>2 DEF UpTo
  <1>4. ReadTlvWithRemainder(name \o null, ObjectIdTag) = <<oid, null>>
    BY <1>1, <1>3, FirstReadsBack, TagsAreBytes
  <1>5. /\ AlgorithmContent(oid) = name \o null
        /\ AlgorithmIdentifier(oid) = InSequence(name \o null)
    BY DEF AlgorithmIdentifier, AlgorithmContent
  <1> HIDE DEF name, null
  <1>6. name \o null \in UpTo(n + 12)
    <2>1. name \o null \in UpTo((n + 6) + 6)
      BY <1>1, <1>2, <1>3, SizeOfJoined
    <2> QED
      BY <2>1
  <1>7. InSequence(name \o null) \in UpTo(n + 18)
    <2>1. InSequence(name \o null) \in UpTo((n + 12) + 6)
      BY <1>1, <1>6, SizeOfSequence
    <2> QED
      BY <2>1
  <1>8. ASSUME NEW rest \in Bytes
        PROVE  ReadTlvWithRemainder(InSequence(name \o null) \o rest,
                                    SequenceTag)
                 = <<name \o null, rest>>
    BY <1>1, <1>6, FirstSequenceReadsBack
  <1> QED
    BY <1>4, <1>5, <1>7, <1>8
-----------------------------------------------------------------------------
(***************************************************************************)
(* The two requests, for a digest d.                                       *)
(***************************************************************************)
LEMMA Room ==
    ASSUME RequestsFit, NEW d \in Bytes, Len(d) \in 0..MaxDigest
    PROVE  /\ d \in UpTo(MaxDigest) /\ MaxDigest \in Nat
           /\ Sha256Oid \in UpTo(Len(Sha256Oid)) /\ Len(Sha256Oid) \in Nat
           /\ Sha1Oid \in UpTo(Len(Sha1Oid)) /\ Len(Sha1Oid) \in Nat
           /\ MaxDigest + Len(Sha256Oid) + 100 < Base4
           /\ 2 * MaxDigest + Len(Sha1Oid) + 100 < Base4
           /\ 10 < Base4 /\ Base4 \in Nat
  <1>1. Sha256Oid \in Bytes /\ Sha1Oid \in Bytes
    BY PkiAssumption
  <1>2. Len(Sha256Oid) \in Nat /\ Len(Sha1Oid) \in Nat
    BY <1>1 DEF Bytes
  <1>3. Base4 \in Nat /\ 10 < Base4
    BY Powers
  <1>4. MaxDigest \in Nat
    BY BodiesAssumption
  <1>5. d \in UpTo(MaxDigest)
    BY <1>4 DEF UpTo
  <1>6. Sha256Oid \in UpTo(Len(Sha256Oid)) /\ Sha1Oid \in UpTo(Len(Sha1Oid))
    BY <1>1, <1>2 DEF UpTo
  <1>7. /\ MaxDigest + Len(Sha256Oid) + 100 < Base4
        /\ 2 * MaxDigest + Len(Sha1Oid) + 100 < Base4
    BY <1>2, <1>3, <1>4 DEF RequestsFit
  <1> QED
    BY <1>2, <1>3, <1>4, <1>5, <1>6, <1>7

LEMMA TimestampRequestReadsBack ==
    ASSUME RequestsFit, NEW d \in Bytes, Len(d) \in 0..MaxDigest
    PROVE  LET tsa == ReadTlv(BuildTimestampRequest(d), SequenceTag)
               version == ReadTlvWithRemainder(tsa[1], IntegerTag)
               imprint == ReadTlvWithRemainder(version[2], SequenceTag)
               hash == ReadTlvWithRemainder(imprint[1], SequenceTag)
           IN  /\ version[1] = <<1>>
               /\ ReadTlv(hash[2], OctetStringTag) = <<d>>
               /\ ReadTlv(imprint[2], BooleanTag) = <<<<True>>>>
               /\ ReadTlvWithRemainder(hash[1], ObjectIdTag)[1] = Sha256Oid
  <1> DEFINE number == EncodeTlv(IntegerTag, <<1>>)
             algorithm == AlgorithmIdentifier(Sha256Oid)
             value == EncodeTlv(OctetStringTag, d)
             imprint == algorithm \o value
             wrapped == InSequence(imprint)
             cert == EncodeTlv(BooleanTag, <<True>>)
             content == (number \o wrapped) \o cert
             after == wrapped \o cert
             m == MaxDigest
             o == Len(Sha256Oid)
  <1>1. /\ d \in UpTo(m) /\ m \in Nat /\ o \in Nat /\ Sha256Oid \in UpTo(o)
        /\ m + o + 100 < Base4 /\ 10 < Base4 /\ Base4 \in Nat
    BY Room
  <1>2. /\ 1 \in Byte /\ True \in Byte
        /\ IntegerTag \in Byte /\ OctetStringTag \in Byte /\ BooleanTag \in Byte
    BY TagsAreBytes, PkiAssumption
  <1>3. <<1>> \in UpTo(1) /\ <<True>> \in UpTo(1)
    BY <1>2, OneByte
  <1> HIDE DEF m, o
  <1>4. /\ m < Base4 /\ o + 12 < Base4 /\ 1 < Base4
        /\ o + 18 \in Nat /\ m + 6 \in Nat /\ m + o + 24 \in Nat
        /\ m + o + 24 < Base4 /\ m + o + 30 \in Nat /\ m + o + 44 \in Nat
        /\ m + o + 44 < Base4
    BY <1>1
  <1>5. /\ number \in UpTo(7) /\ number \in Bytes
        /\ \A rest \in Bytes :
              ReadTlvWithRemainder(number \o rest, IntegerTag) = <<<<1>>, rest>>
    <2>1. number \in UpTo(1 + 6)
      BY <1>2, <1>3, SizeOfTlv
    <2>2. \A rest \in Bytes :
              ReadTlvWithRemainder(number \o rest, IntegerTag) = <<<<1>>, rest>>
      BY <1>2, <1>3, <1>4, FirstReadsBack
    <2> QED
      BY <2>1, <2>2 DEF UpTo
  <1>6. /\ value \in UpTo(m + 6) /\ value \in Bytes
        /\ ReadTlv(value, OctetStringTag) = <<d>>
    <2>1. value \in UpTo(m + 6)
      BY <1>1, <1>2, SizeOfTlv
    <2>2. ReadTlv(value, OctetStringTag) = <<d>>
      BY <1>1, <1>2, <1>4, AloneReadsBack
    <2> QED
      BY <2>1, <2>2 DEF UpTo
  <1>7. /\ cert \in UpTo(7) /\ cert \in Bytes
        /\ ReadTlv(cert, BooleanTag) = <<<<True>>>>
    <2>1. cert \in UpTo(1 + 6)
      BY <1>2, <1>3, SizeOfTlv
    <2>2. ReadTlv(cert, BooleanTag) = <<<<True>>>>
      BY <1>2, <1>3, <1>4, AloneReadsBack
    <2> QED
      BY <2>1, <2>2 DEF UpTo
  <1> HIDE DEF number, value, cert
  <1>8. /\ algorithm \in UpTo(o + 18)
        /\ ReadTlvWithRemainder(imprint, SequenceTag)
             = <<AlgorithmContent(Sha256Oid), value>>
        /\ ReadTlvWithRemainder(AlgorithmContent(Sha256Oid), ObjectIdTag)[1]
             = Sha256Oid
    BY <1>1, <1>4, <1>6, AlgorithmReadsBack
  <1> HIDE DEF algorithm
  <1>9. imprint \in UpTo(m + o + 24)
    <2>1. imprint \in UpTo((o + 18) + (m + 6))
      BY <1>4, <1>6, <1>8, SizeOfJoined
    <2>2. (o + 18) + (m + 6) = m + o + 24
      BY <1>1
    <2> QED
      BY <2>1, <2>2
  <1> HIDE DEF imprint
  <1>10. wrapped \in UpTo(m + o + 30) /\ wrapped \in Bytes
    <2>1. wrapped \in UpTo((m + o + 24) + 6)
      BY <1>4, <1>9, SizeOfSequence
    <2>2. (m + o + 24) + 6 = m + o + 30
      BY <1>1
    <2> QED
      BY <2>1, <2>2 DEF UpTo
  <1>11. ReadTlvWithRemainder(after, SequenceTag) = <<imprint, cert>>
    BY <1>4, <1>7, <1>9, FirstSequenceReadsBack
  <1> HIDE DEF wrapped
  <1>12. content \in UpTo(m + o + 44)
    <2>1. number \o wrapped \in UpTo(7 + (m + o + 30))
      BY <1>4, <1>5, <1>10, SizeOfJoined
    <2>2. 7 + (m + o + 30) \in Nat
      BY <1>1
    <2>3. content \in UpTo((7 + (m + o + 30)) + 7)
      BY <1>7, <2>1, <2>2, SizeOfJoined
    <2>4. (7 + (m + o + 30)) + 7 = m + o + 44
      BY <1>1
    <2> QED
      BY <2>3, <2>4
  <1>13. content = number \o after /\ after \in Bytes
    <2>1. after \in Bytes
      BY <1>7, <1>10, Joined
    <2>2. content = number \o after
      BY <1>5, <1>7, <1>10, Regrouped
    <2> QED
      BY <2>1, <2>2
  <1> HIDE DEF after
  <1>14. ReadTlvWithRemainder(content, IntegerTag) = <<<<1>>, after>>
    BY <1>5, <1>13
  <1>15. ReadTlv(BuildTimestampRequest(d), SequenceTag) = <<content>>
    <2>1. BuildTimestampRequest(d) = InSequence(content)
      BY DEF BuildTimestampRequest, number, wrapped, imprint, algorithm, value,
             cert
    <2> HIDE DEF content
    <2> QED
      BY <1>4, <1>12, <2>1, SequenceReadsBack
  <1> HIDE DEF content
  <1> QED
    BY <1>6, <1>7, <1>8, <1>11, <1>14, <1>15

(***************************************************************************)
(* A CertID in its four envelopes.                                         *)
(***************************************************************************)
LEMMA FourEnvelopesReadBack ==
    ASSUME NEW n \in Nat, n + 24 < Base4, NEW content \in UpTo(n)
    PROVE  LET id == InSequence(content)
               request == InSequence(id)
               list == InSequence(request)
               tbs == InSequence(list)
           IN  /\ ReadTlv(id, SequenceTag) = <<content>>
               /\ ReadTlv(request, SequenceTag) = <<id>>
               /\ ReadTlv(list, SequenceTag) = <<request>>
               /\ ReadTlv(tbs, SequenceTag) = <<list>>
               /\ ReadTlv(InSequence(tbs), SequenceTag) = <<tbs>>
  <1> DEFINE id == InSequence(content)
             request == InSequence(id)
             list == InSequence(request)
             tbs == InSequence(list)
  <1>1. /\ n < Base4 /\ n + 6 < Base4 /\ n + 12 < Base4 /\ n + 18 < Base4
        /\ n + 6 \in Nat /\ n + 12 \in Nat /\ n + 18 \in Nat /\ n + 24 \in Nat
        /\ (n + 6) + 6 = n + 12 /\ (n + 12) + 6 = n + 18
        /\ (n + 18) + 6 = n + 24
    BY Powers
  <1>2. id \in UpTo(n + 6) /\ ReadTlv(id, SequenceTag) = <<content>>
    BY <1>1, SizeOfSequence, SequenceReadsBack
  <1> HIDE DEF id
  <1>3. request \in UpTo(n + 12) /\ ReadTlv(request, SequenceTag) = <<id>>
    <2>1. request \in UpTo((n + 6) + 6)
      BY <1>1, <1>2, SizeOfSequence
    <2> QED
      BY <1>1, <1>2, <2>1, SequenceReadsBack
  <1> HIDE DEF request
  <1>4. list \in UpTo(n + 18) /\ ReadTlv(list, SequenceTag) = <<request>>
    <2>1. list \in UpTo((n + 12) + 6)
      BY <1>1, <1>3, SizeOfSequence
    <2> QED
      BY <1>1, <1>3, <2>1, SequenceReadsBack
  <1> HIDE DEF list
  <1>5. tbs \in UpTo(n + 24) /\ ReadTlv(tbs, SequenceTag) = <<list>>
    <2>1. tbs \in UpTo((n + 18) + 6)
      BY <1>1, <1>4, SizeOfSequence
    <2> QED
      BY <1>1, <1>4, <2>1, SequenceReadsBack
  <1> HIDE DEF tbs
  <1>6. ReadTlv(InSequence(tbs), SequenceTag) = <<tbs>>
    BY <1>1, <1>5, SequenceReadsBack
  <1> QED
    BY <1>2, <1>3, <1>4, <1>5, <1>6 DEF id, request, list, tbs

LEMMA OcspRequestReadsBack ==
    ASSUME RequestsFit, NEW d \in Bytes, Len(d) \in 0..MaxDigest
    PROVE  LET ocsp == ReadTlv(BuildOcspRequest(d, <<2>>, d), SequenceTag)
               tbs == ReadTlv(ocsp[1], SequenceTag)
               list == ReadTlv(tbs[1], SequenceTag)
               request == ReadTlv(list[1], SequenceTag)
               id == ReadTlv(request[1], SequenceTag)
               name == ReadTlvWithRemainder(id[1], SequenceTag)
               key == ReadTlvWithRemainder(name[2], OctetStringTag)
           IN  /\ ReadTlvWithRemainder(name[1], ObjectIdTag)[1] = Sha1Oid
               /\ key[1] = d
               /\ ReadTlvWithRemainder(key[2], OctetStringTag)
                    = <<<<2>>, EncodeTlv(IntegerTag, d)>>
  <1> DEFINE algorithm == AlgorithmIdentifier(Sha1Oid)
             name == EncodeTlv(OctetStringTag, d)
             key == EncodeTlv(OctetStringTag, <<2>>)
             serial == EncodeTlv(IntegerTag, d)
             after == key \o serial
             hashes == name \o after
             content == ((algorithm \o name) \o key) \o serial
             m == MaxDigest
             o == Len(Sha1Oid)
  <1>1. /\ d \in UpTo(m) /\ m \in Nat /\ o \in Nat /\ Sha1Oid \in UpTo(o)
        /\ 2 * m + o + 100 < Base4 /\ 10 < Base4 /\ Base4 \in Nat
    BY Room
  <1>2. /\ 2 \in Byte /\ IntegerTag \in Byte /\ OctetStringTag \in Byte
        /\ <<2>> \in UpTo(1)
    BY TagsAreBytes, OneByte
  <1> HIDE DEF m, o
  <1>3. /\ m < Base4 /\ o + 12 < Base4 /\ 1 < Base4
        /\ o + 18 \in Nat /\ m + 6 \in Nat
    BY <1>1
  <1>4. /\ name \in UpTo(m + 6) /\ name \in Bytes
        /\ \A rest \in Bytes :
              ReadTlvWithRemainder(name \o rest, OctetStringTag) = <<d, rest>>
    <2>1. name \in UpTo(m + 6)
      BY <1>1, <1>2, SizeOfTlv
    <2>2. \A rest \in Bytes :
              ReadTlvWithRemainder(name \o rest, OctetStringTag) = <<d, rest>>
      BY <1>1, <1>2, <1>3, FirstReadsBack
    <2> QED
      BY <2>1, <2>2 DEF UpTo
  <1>5. serial \in UpTo(m + 6) /\ serial \in Bytes
    <2>1. serial \in UpTo(m + 6)
      BY <1>1, <1>2, SizeOfTlv
    <2> QED
      BY <2>1 DEF UpTo
  <1>6. /\ key \in UpTo(7) /\ key \in Bytes
        /\ ReadTlvWithRemainder(after, OctetStringTag) = <<<<2>>, serial>>
    <2>1. key \in UpTo(1 + 6)
      BY <1>2, SizeOfTlv
    <2>2. ReadTlvWithRemainder(after, OctetStringTag) = <<<<2>>, serial>>
      BY <1>2, <1>3, <1>5, FirstReadsBack
    <2> QED
      BY <2>1, <2>2 DEF UpTo
  <1> HIDE DEF name, key, serial
  <1>7. after \in Bytes /\ hashes \in Bytes
    BY <1>4, <1>5, <1>6, Joined
  <1>8. ReadTlvWithRemainder(hashes, OctetStringTag) = <<d, after>>
    BY <1>4, <1>7
  <1>9. /\ algorithm \in UpTo(o + 18) /\ algorithm \in Bytes
        /\ ReadTlvWithRemainder(algorithm \o hashes, SequenceTag)
             = <<AlgorithmContent(Sha1Oid), hashes>>
        /\ ReadTlvWithRemainder(AlgorithmContent(Sha1Oid), ObjectIdTag)[1]
             = Sha1Oid
    <2> HIDE DEF hashes
    <2>1. algorithm \in UpTo(o + 18)
      BY <1>1, <1>3, AlgorithmReadsBack
    <2>2. /\ ReadTlvWithRemainder(algorithm \o hashes, SequenceTag)
               = <<AlgorithmContent(Sha1Oid), hashes>>
          /\ ReadTlvWithRemainder(AlgorithmContent(Sha1Oid), ObjectIdTag)[1]
               = Sha1Oid
      BY <1>1, <1>3, <1>7, AlgorithmReadsBack
    <2> QED
      BY <2>1, <2>2 DEF UpTo
  <1> HIDE DEF algorithm
  <1>10. content = algorithm \o hashes
    <2>1. algorithm \o name \in Bytes
      BY <1>4, <1>9, Joined
    <2>2. content = (algorithm \o name) \o after
      BY <1>5, <1>6, <2>1, Regrouped
    <2>3. (algorithm \o name) \o after = algorithm \o hashes
      <3>1. algorithm \in Bytes /\ name \in Bytes /\ after \in Bytes
        BY <1>4, <1>7, <1>9
      <3> QED
        BY <3>1, Regrouped, Zenon
    <2> QED
      BY <2>2, <2>3
  <1>11. content \in UpTo(2 * m + o + 37) /\ 2 * m + o + 37 \in Nat
    <2> DEFINE x == (o + 18) + (m + 6)
               y == x + 7
    <2>1. x \in Nat /\ y \in Nat /\ y + (m + 6) = 2 * m + o + 37
      BY <1>1
    <2>2. algorithm \o name \in UpTo(x)
      BY <1>3, <1>4, <1>9, SizeOfJoined
    <2> HIDE DEF x
    <2>3. (algorithm \o name) \o key \in UpTo(y)
      BY <1>6, <2>1, <2>2, SizeOfJoined
    <2> HIDE DEF y
    <2>4. content \in UpTo(y + (m + 6))
      BY <1>3, <1>5, <2>1, <2>3, SizeOfJoined
    <2> QED
      BY <1>1, <2>1, <2>4
  <1>12. BuildOcspRequest(d, <<2>>, d)
           = InSequence(InSequence(InSequence(InSequence(InSequence(content)))))
    BY DEF BuildOcspRequest, CertId, algorithm, name, key, serial
  <1>13. serial = EncodeTlv(IntegerTag, d)
    BY DEF serial
  <1>14. (2 * m + o + 37) + 24 < Base4
    BY <1>1
  <1> DEFINE id == InSequence(content)
             request == InSequence(id)
             list == InSequence(request)
             tbs == InSequence(list)
  <1> HIDE DEF content, hashes, after
  <1>15. /\ ReadTlv(id, SequenceTag) = <<content>>
         /\ ReadTlv(request, SequenceTag) = <<id>>
         /\ ReadTlv(list, SequenceTag) = <<request>>
         /\ ReadTlv(tbs, SequenceTag) = <<list>>
         /\ ReadTlv(InSequence(tbs), SequenceTag) = <<tbs>>
    BY <1>11, <1>14, FourEnvelopesReadBack
  <1> HIDE DEF id, request, list, tbs
  <1>16. BuildOcspRequest(d, <<2>>, d) = InSequence(tbs)
    BY <1>12 DEF id, request, list, tbs
  <1> DEFINE read == ReadTlv(BuildOcspRequest(d, <<2>>, d), SequenceTag)
             readTbs == ReadTlv(read[1], SequenceTag)
             readList == ReadTlv(readTbs[1], SequenceTag)
             readRequest == ReadTlv(readList[1], SequenceTag)
             readId == ReadTlv(readRequest[1], SequenceTag)
             readAlgorithm == ReadTlvWithRemainder(readId[1], SequenceTag)
             readName == ReadTlvWithRemainder(readAlgorithm[2], OctetStringTag)
  <1>17. read[1] = tbs
    BY <1>15, <1>16
  <1> HIDE DEF read
  <1>18. readTbs[1] = list
    BY <1>15, <1>17
  <1> HIDE DEF readTbs
  <1>19. readList[1] = request
    BY <1>15, <1>18
  <1> HIDE DEF readList
  <1>20. readRequest[1] = id
    BY <1>15, <1>19
  <1> HIDE DEF readRequest
  <1>21. readId[1] = content
    BY <1>15, <1>20
  <1> HIDE DEF readId
  <1>22. /\ ReadTlvWithRemainder(readAlgorithm[1], ObjectIdTag)[1] = Sha1Oid
         /\ readAlgorithm[2] = hashes
    BY <1>9, <1>10, <1>21
  <1> HIDE DEF readAlgorithm
  <1>23. /\ readName[1] = d
         /\ ReadTlvWithRemainder(readName[2], OctetStringTag)
              = <<<<2>>, EncodeTlv(IntegerTag, d)>>
    BY <1>6, <1>8, <1>13, <1>22
  <1> HIDE DEF readName
  <1> QED
    BY <1>22, <1>23 DEF read, readTbs, readList, readRequest, readId,
       readAlgorithm, readName

(***************************************************************************)
(* RequestsReadBack: for digests of any length whose envelopes four bytes  *)
(* can count, every field of a request is read back at its place           *)
(* (build_timestamp_request, build_ocsp_request).                          *)
(***************************************************************************)
THEOREM RequestsAreReadBack ==
    ASSUME RequestsFit
    PROVE  BodiesSpec => []RequestsReadBack
  <1>1. BodiesType => RequestsReadBack
    <2> SUFFICES ASSUME BodiesType PROVE RequestsReadBack
      OBVIOUS
    <2>1. digest \in Bytes /\ Len(digest) \in 0..MaxDigest
      BY DEF BodiesType
    <2> QED
      BY <2>1, TimestampRequestReadsBack, OcspRequestReadsBack
         DEF RequestsReadBack
  <1> QED
    BY <1>1, AlwaysBodiesType, PTL
-----------------------------------------------------------------------------
(***************************************************************************)
(* decode_unsigned_int on the numbers that a status can be.                *)
(***************************************************************************)
LEMMA ZerosStandForNothing ==
    \A bytes \in Bytes :
        BigEndian(bytes) = 0 <=> \A k \in 1..Len(bytes) : bytes[k] = 0
  <1> DEFINE AllZero(bytes) == \A k \in 1..Len(bytes) : bytes[k] = 0
             P == {bytes \in Bytes : BigEndian(bytes) = 0 <=> AllZero(bytes)}
  <1>1. <<>> \in P
    <2>1. Len(<<>>) = 0 /\ \A k \in 1..0 : FALSE
      OBVIOUS
    <2> QED
      BY <2>1, BigEndianOfNone
  <1>2. ASSUME NEW bytes \in Seq(Byte), NEW byte \in Byte, bytes \in P
        PROVE  Append(bytes, byte) \in P
    <2> DEFINE more == Append(bytes, byte)
               m == BigEndian(bytes)
    <2>1. /\ bytes \in Bytes /\ more \in Bytes /\ m \in Nat
          /\ BigEndian(more) = Base * m + byte
      BY BigEndianOfAppend, BigEndianType DEF Bytes
    <2>2. AllZero(more) <=> AllZero(bytes) /\ byte = 0
      <3>1. /\ Len(bytes) \in Nat /\ Len(more) = Len(bytes) + 1
            /\ more[Len(bytes) + 1] = byte
            /\ \A k \in 1..Len(bytes) : more[k] = bytes[k]
        OBVIOUS
      <3> HIDE DEF more
      <3>2. \A k \in 1..(Len(bytes) + 1) :
               k \in 1..Len(bytes) \/ k = Len(bytes) + 1
        BY <3>1
      <3>3. \A k \in 1..Len(bytes) : k \in 1..(Len(bytes) + 1)
        BY <3>1
      <3>4. Len(bytes) + 1 \in 1..(Len(bytes) + 1)
        BY <3>1
      <3> QED
        BY <3>1, <3>2, <3>3, <3>4, Zenon
    <2>3. m = 0 <=> AllZero(bytes)
      BY <1>2
    <2> HIDE DEF m, AllZero, more
    <2>4. Base * m + byte = 0 <=> m = 0 /\ byte = 0
      BY <2>1, BaseAssumption DEF Byte
    <2> QED
      BY <2>1, <2>2, <2>3, <2>4 DEF more
  <1> HIDE DEF P
  <1>3. \A bytes \in Seq(Byte) : bytes \in P
    BY <1>1, <1>2, SequenceInduction
  <1> QED
    BY <1>3 DEF P, Bytes

\* The last byte is n, and those before it are leading zeros.
Spells(bytes, n) ==
    bytes[Len(bytes)] = n /\ \A k \in 1..(Len(bytes) - 1) : bytes[k] = 0

LEMMA SmallNumber ==
    ASSUME NEW bytes \in Bytes, bytes # <<>>, NEW n \in {0, 1}
    PROVE  BigEndian(bytes) = n <=> Spells(bytes, n)
  <1>1. PICK s \in Seq(Byte), x \in Byte : bytes = Append(s, x)
    BY SequenceEmptyOrAppend DEF Bytes
  <1> DEFINE m == BigEndian(s)
             AllZero == \A k \in 1..Len(s) : s[k] = 0
  <1>2. s \in Bytes /\ m \in Nat /\ BigEndian(bytes) = Base * m + x
    BY <1>1, BigEndianOfAppend, BigEndianType DEF Bytes
  <1>3. m = 0 <=> AllZero
    BY <1>2, ZerosStandForNothing
  <1>4. Spells(bytes, n) <=> x = n /\ AllZero
    <2>1. /\ Len(s) \in Nat /\ Len(bytes) = Len(s) + 1
          /\ (Len(s) + 1) - 1 = Len(s) /\ bytes[Len(s) + 1] = x
          /\ \A k \in 1..Len(s) : bytes[k] = s[k]
      BY <1>1
    <2> QED
      BY <2>1, Zenon DEF Spells
  <1> HIDE DEF m, AllZero
  <1>5. Base * m + x = n <=> m = 0 /\ x = n
    BY <1>2, BaseAssumption DEF Byte
  <1> QED
    BY <1>2, <1>3, <1>4, <1>5

LEMMA LeadingZero ==
    ASSUME NEW bytes \in Bytes, Len(bytes) > 1, bytes[1] = 0, NEW n
    PROVE  Spells(Tail(bytes), n) <=> Spells(bytes, n)
  <1> DEFINE tail == Tail(bytes)
             l == Len(bytes)
  <1>1. /\ l \in Nat /\ l > 1 /\ Len(tail) = l - 1
        /\ \A k \in 1..(l - 1) : tail[k] = bytes[k + 1]
    BY DEF Bytes
  <1> HIDE DEF tail, l
  <1>2. l - 1 \in 1..(l - 1) /\ (l - 1) + 1 = l
    BY <1>1
  <1>3. tail[Len(tail)] = bytes[l]
    BY <1>1, <1>2
  <1>4. (\A k \in 1..(l - 1) : bytes[k] = 0)
          <=> \A k \in 1..((l - 1) - 1) : tail[k] = 0
    <2>1. ASSUME \A k \in 1..(l - 1) : bytes[k] = 0, NEW k \in 1..((l - 1) - 1)
          PROVE  tail[k] = 0
      <3>1. k + 1 \in 1..(l - 1) /\ k \in 1..(l - 1)
        BY <1>1
      <3> QED
        BY <1>1, <2>1, <3>1
    <2>2. ASSUME \A k \in 1..((l - 1) - 1) : tail[k] = 0, NEW k \in 1..(l - 1)
          PROVE  bytes[k] = 0
      <3>1. CASE k = 1
        BY <3>1
      <3>2. CASE k # 1
        <4>1. k - 1 \in 1..((l - 1) - 1) /\ k - 1 \in 1..(l - 1) /\ (k - 1) + 1 = k
          BY <1>1, <3>2
        <4> QED
          BY <1>1, <2>2, <4>1
      <3> QED
        BY <3>1, <3>2
    <2> QED
      BY <2>1, <2>2, Zenon
  <1> QED
    BY <1>1, <1>3, <1>4, Zenon DEF Spells, tail, l

LEMMA NumeralsAreDecoded ==
    ASSUME NEW bytes \in Bytes, NEW n \in {0, 1}
    PROVE  IsNumeral(bytes, n) <=> DecodeUnsignedInt(bytes) = <<n>>
  <1> DEFINE l == Len(bytes)
             zero == l > 1 /\ bytes[1] = 0
             digits == IF zero THEN Tail(bytes) ELSE bytes
  <1>1. l \in Nat /\ (bytes = <<>> <=> l = 0)
    BY EmptySeq DEF Bytes
  <1>2. CASE l = 0
    <2>1. DecodeUnsignedInt(bytes) = NoResult
      BY <1>1, <1>2 DEF DecodeUnsignedInt
    <2>2. ~ (l \in 1..9)
      BY <1>2
    <2> QED
      BY <2>1, <2>2 DEF IsNumeral, NoResult
  <1>3. CASE l # 0
    <2>1. /\ digits \in Bytes /\ digits # <<>>
          /\ Len(digits) = IF zero THEN l - 1 ELSE l
      <3>1. CASE zero
        <4>1. Tail(bytes) \in Bytes /\ Len(Tail(bytes)) = l - 1
          BY <1>1, <3>1 DEF Bytes
        <4>2. l - 1 # 0
          BY <1>1, <3>1
        <4> QED
          BY <3>1, <4>1, <4>2, EmptySeq
      <3>2. CASE ~ zero
        BY <1>1, <1>3, <3>2
      <3> QED
        BY <3>1, <3>2
    <2>2. Spells(digits, n) <=> Spells(bytes, n)
      <3>1. CASE zero
        BY <3>1, LeadingZero
      <3>2. CASE ~ zero
        BY <3>2
      <3> QED
        BY <3>1, <3>2
    <2>3. BigEndian(digits) = n <=> Spells(bytes, n)
      BY <2>1, <2>2, SmallNumber
    <2>4. DecodeUnsignedInt(bytes)
            = IF l > 9 \/ Len(digits) > 8 THEN NoResult
              ELSE <<BigEndian(digits)>>
      BY <1>1, <1>3 DEF DecodeUnsignedInt
    <2>5. DecodeUnsignedInt(bytes) = <<n>>
            <=> ~ (l > 9 \/ Len(digits) > 8) /\ BigEndian(digits) = n
      BY <2>4 DEF NoResult
    <2>6. IsNumeral(bytes, n) <=> l \in 1..9 /\ Spells(bytes, n)
      BY Zenon DEF IsNumeral, Spells
    <2>7. l = 9 /\ Spells(bytes, n) => zero
      <3>1. 1 \in 1..(9 - 1) /\ 9 > 1
        OBVIOUS
      <3> QED
        BY <3>1 DEF Spells
    <2> HIDE DEF digits
    <2>8. Spells(bytes, n) =>
            (l \in 1..9 <=> ~ (l > 9 \/ Len(digits) > 8))
      <3> SUFFICES ASSUME Spells(bytes, n)
                   PROVE  l \in 1..9 <=> ~ (l > 9 \/ Len(digits) > 8)
        OBVIOUS
      <3>1. l = 9 => zero
        BY <2>7
      <3>2. zero => l > 1
        OBVIOUS
      <3> HIDE DEF l, zero
      <3> QED
        BY <1>1, <1>3, <2>1, <3>1, <3>2
    <2> QED
      BY <2>3, <2>5, <2>6, <2>8
  <1> QED
    BY <1>2, <1>3
-----------------------------------------------------------------------------
(***************************************************************************)
(* The two parts of what is read are bytes, and a reading is one or none.  *)
(***************************************************************************)
LEMMA SizesFit ==
    ASSUME NEW bytes \in Bytes, TlvSizes(bytes) # NoResult
    PROVE  \E h \in Nat, e \in Nat :
              TlvSizes(bytes) = <<h, e>> /\ h <= e /\ e <= Len(bytes)
  <1>1. bytes # <<>> /\ Tail(bytes) \in Bytes /\ Len(bytes) \in Nat
    BY NoFrameOfNone DEF Bytes
  <1>2. ReadLength(Tail(bytes)) # NoResult
    BY <1>1 DEF TlvSizes
  <1>3. PICK n \in Nat, size \in 1..5 : ReadLength(Tail(bytes)) = <<n, size>>
    BY <1>1, <1>2, ReadIsForm
  <1>4. /\ ~ (1 + size + n > Len(bytes))
        /\ TlvSizes(bytes) = <<1 + size, 1 + size + n>>
    BY <1>1, <1>2, <1>3 DEF TlvSizes
  <1>5. 1 + size \in Nat /\ 1 + size + n \in Nat /\ 1 + size <= 1 + size + n
        /\ 1 + size + n <= Len(bytes)
    BY <1>1, <1>4
  <1> QED
    BY <1>4, <1>5

LEMMA PartsAreBytes ==
    ASSUME NEW bytes \in Bytes, NEW tag,
           ReadTlvWithRemainder(bytes, tag) # NoResult
    PROVE  /\ ReadTlvWithRemainder(bytes, tag)[1] \in Bytes
           /\ ReadTlvWithRemainder(bytes, tag)[2] \in Bytes
  <1>1. TlvSizes(bytes) # NoResult
    BY DEF ReadTlvWithRemainder
  <1>2. PICK h \in Nat, e \in Nat :
           TlvSizes(bytes) = <<h, e>> /\ h <= e /\ e <= Len(bytes)
    BY <1>1, SizesFit
  <1>3. ReadTlvWithRemainder(bytes, tag)
          = <<SubSeq(bytes, h + 1, e), SubSeq(bytes, e + 1, Len(bytes))>>
    BY <1>1, <1>2 DEF ReadTlvWithRemainder
  <1>4. bytes \in Seq(Byte) /\ Len(bytes) \in Nat
    BY DEF Bytes
  <1>5. SubSeq(bytes, h + 1, e) \in Seq(Byte)
    <2>1. \A k \in (h + 1)..e : bytes[k] \in Byte
      BY <1>2, <1>4
    <2> QED
      BY <2>1, SubSeqProperties
  <1>6. SubSeq(bytes, e + 1, Len(bytes)) \in Seq(Byte)
    <2>1. \A k \in (e + 1)..Len(bytes) : bytes[k] \in Byte
      BY <1>2, <1>4
    <2> QED
      BY <1>4, <2>1, SubSeqProperties
  <1> QED
    BY <1>3, <1>5, <1>6 DEF Bytes

LEMMA AloneIsRead ==
    ASSUME NEW bytes \in Bytes, NEW tag
    PROVE  /\ Alone(bytes, tag) =
                 IF ReadTlv(bytes, tag) = NoResult THEN {}
                 ELSE {ReadTlv(bytes, tag)[1]}
           /\ ReadTlv(bytes, tag) # NoResult =>
                 /\ ReadTlv(bytes, tag)[1] \in Bytes
                 /\ ReadTlv(bytes, tag) = <<ReadTlv(bytes, tag)[1]>>
  <1> DEFINE read == ReadTlvWithRemainder(bytes, tag)
  <1>1. Alone(bytes, tag)
          = {r[1] : r \in {q \in Readings(bytes, tag) : q[2] = <<>>}}
    BY DEF Alone
  <1>2. Readings(bytes, tag) = IF read = NoResult THEN {} ELSE {read}
    BY ReadingsAreRead
  <1>3. ReadTlv(bytes, tag)
          = IF read = NoResult \/ read[2] # <<>> THEN NoResult ELSE <<read[1]>>
    BY DEF ReadTlv
  <1>4. read # NoResult => read[1] \in Bytes
    BY PartsAreBytes
  <1> HIDE DEF read
  <1>5. CASE read = NoResult
    BY <1>1, <1>2, <1>3, <1>5
  <1>6. CASE read # NoResult /\ read[2] # <<>>
    <2>1. Alone(bytes, tag) = {}
      BY <1>1, <1>2, <1>6
    <2> QED
      BY <1>3, <1>6, <2>1
  <1>7. CASE read # NoResult /\ read[2] = <<>>
    <2>1. Alone(bytes, tag) = {read[1]}
      BY <1>1, <1>2, <1>7
    <2>2. ReadTlv(bytes, tag) = <<read[1]>> /\ <<read[1]>> # NoResult
      BY <1>3, <1>7 DEF NoResult
    <2> QED
      BY <1>4, <1>7, <2>1, <2>2
  <1> QED
    BY <1>5, <1>6, <1>7

\* The first reading of an input, if any, for sets built from all of them.
LEMMA OverOneReading ==
    ASSUME NEW bytes \in Bytes, NEW tag
    PROVE  LET read == ReadTlvWithRemainder(bytes, tag)
           IN  /\ read = NoResult => Readings(bytes, tag) = {}
               /\ read # NoResult => /\ Readings(bytes, tag) = {read}
                                     /\ read[1] \in Bytes /\ read[2] \in Bytes
  BY ReadingsAreRead, PartsAreBytes
-----------------------------------------------------------------------------
(***************************************************************************)
(* What is taken from an answer is what the grammar grants in it.          *)
(***************************************************************************)
LEMMA TokensAreGrants ==
    ASSUME NEW bytes \in Bytes
    PROVE  TsaGrants(bytes) =
             IF ExtractTimestampToken(bytes) = NoResult THEN {}
             ELSE {ExtractTimestampToken(bytes)[1]}
  <1> DEFINE outer == ReadTlvWithRemainder(bytes, SequenceTag)
             info == ReadTlvWithRemainder(outer[1], SequenceTag)
             state == ReadTlvWithRemainder(info[1], IntegerTag)
             number == DecodeUnsignedInt(state[1])
             size == TotalTlvLength(info[2])
             IsGrant(i) ==
                 \E s \in Readings(i[1], IntegerTag) :
                     IsNumeral(s[1], 0) \/ IsNumeral(s[1], 1)
             Tokens(i) ==
                 IF IsGrant(i) THEN {SubSeq(i[2], 1, f[2]) : f \in Frames(i[2])}
                 ELSE {}
             ByInfo(o) == UNION {Tokens(i) : i \in Readings(o[1], SequenceTag)}
  <1>1. TsaGrants(bytes) = UNION {ByInfo(o) : o \in Readings(bytes, SequenceTag)}
    BY DEF TsaGrants
  <1>2. ExtractTimestampToken(bytes) =
          IF /\ outer # NoResult /\ info # NoResult /\ state # NoResult
             /\ number # NoResult /\ number[1] \in {0, 1}
             /\ size # NoResult
          THEN <<SubSeq(info[2], 1, size[1])>>
          ELSE NoResult
    BY DEF ExtractTimestampToken
  <1>3. /\ outer = NoResult => Readings(bytes, SequenceTag) = {}
        /\ outer # NoResult => /\ Readings(bytes, SequenceTag) = {outer}
                               /\ outer[1] \in Bytes
    BY OverOneReading
  <1> HIDE DEF outer
  <1>4. outer # NoResult =>
           /\ info = NoResult => Readings(outer[1], SequenceTag) = {}
           /\ info # NoResult => /\ Readings(outer[1], SequenceTag) = {info}
                                 /\ info[1] \in Bytes /\ info[2] \in Bytes
    BY <1>3, OverOneReading
  <1> HIDE DEF info
  <1>5. CASE outer = NoResult
    <2> HIDE DEF ByInfo
    <2>1. TsaGrants(bytes) = {}
      BY <1>1, <1>3, <1>5
    <2> QED
      BY <1>2, <1>5, <2>1
  <1>6. CASE outer # NoResult
    <2>1. TsaGrants(bytes) = ByInfo(outer)
      <3> HIDE DEF ByInfo
      <3> QED
        BY <1>1, <1>3, <1>6
    <2>2. CASE info = NoResult
      <3> HIDE DEF Tokens
      <3>1. ByInfo(outer) = {}
        BY <1>4, <1>6, <2>2
      <3> QED
        BY <1>2, <2>1, <2>2, <3>1
    <2>3. CASE info # NoResult
      <3>1. ByInfo(outer) = Tokens(info)
        <4> HIDE DEF Tokens
        <4> QED
          BY <1>4, <1>6, <2>3
      <3>2. info[1] \in Bytes /\ info[2] \in Bytes
        BY <1>4, <1>6, <2>3
      <3>3. IsGrant(info) <=> /\ state # NoResult
                              /\ number # NoResult /\ number[1] \in {0, 1}
        <4>1. /\ state = NoResult => Readings(info[1], IntegerTag) = {}
              /\ state # NoResult => /\ Readings(info[1], IntegerTag) = {state}
                                     /\ state[1] \in Bytes
          BY <3>2, OverOneReading
        <4> HIDE DEF state
        <4>2. state # NoResult =>
                (IsNumeral(state[1], 0) \/ IsNumeral(state[1], 1)
                   <=> number # NoResult /\ number[1] \in {0, 1})
          <5> SUFFICES ASSUME state # NoResult
                       PROVE  IsNumeral(state[1], 0) \/ IsNumeral(state[1], 1)
                                <=> number # NoResult /\ number[1] \in {0, 1}
            OBVIOUS
          <5>1. /\ IsNumeral(state[1], 0) <=> number = <<0>>
                /\ IsNumeral(state[1], 1) <=> number = <<1>>
            BY <4>1, NumeralsAreDecoded
          <5>2. number = NoResult \/ number = <<number[1]>>
            BY DEF DecodeUnsignedInt
          <5> HIDE DEF number
          <5>3. number = NoResult => number # <<0>> /\ number # <<1>>
            BY DEF NoResult
          <5>4. /\ number = <<0>> => number # NoResult /\ number[1] = 0
                /\ number = <<1>> => number # NoResult /\ number[1] = 1
            BY DEF NoResult
          <5> QED
            BY <5>1, <5>2, <5>3, <5>4
        <4> HIDE DEF number
        <4>3. CASE state = NoResult
          BY <4>1, <4>3
        <4>4. CASE state # NoResult
          BY <4>1, <4>2, <4>4
        <4> QED
          BY <4>3, <4>4
      <3>4. {SubSeq(info[2], 1, f[2]) : f \in Frames(info[2])}
              = IF size = NoResult THEN {} ELSE {SubSeq(info[2], 1, size[1])}
        <4> DEFINE sizes == TlvSizes(info[2])
        <4>1. Frames(info[2]) = IF sizes = NoResult THEN {} ELSE {sizes}
          <5>1. CASE info[2] = <<>>
            BY <5>1, NoFrameOfNone
          <5>2. CASE info[2] # <<>>
            BY <3>2, <5>2, FramesAreSizes
          <5> QED
            BY <5>1, <5>2
        <4>2. size = IF sizes = NoResult THEN NoResult ELSE <<sizes[2]>>
          BY DEF TotalTlvLength
        <4> HIDE DEF size, sizes
        <4>3. CASE sizes = NoResult
          BY <4>1, <4>2, <4>3
        <4>4. CASE sizes # NoResult
          <5>1. size = <<sizes[2]>> /\ size # NoResult /\ size[1] = sizes[2]
            BY <4>2, <4>4 DEF NoResult
          <5> QED
            BY <4>1, <4>4, <5>1
        <4> QED
          BY <4>3, <4>4
      <3> HIDE DEF IsGrant, state, number, size
      <3>5. CASE IsGrant(info) /\ size # NoResult
        <4>1. ExtractTimestampToken(bytes) = <<SubSeq(info[2], 1, size[1])>>
          BY <1>2, <1>6, <2>3, <3>3, <3>5
        <4>2. TsaGrants(bytes) = {SubSeq(info[2], 1, size[1])}
          BY <2>1, <3>1, <3>4, <3>5
        <4> QED
          BY <4>1, <4>2 DEF NoResult
      <3>6. CASE ~ (IsGrant(info) /\ size # NoResult)
        <4>1. ExtractTimestampToken(bytes) = NoResult
          BY <1>2, <3>3, <3>6
        <4>2. TsaGrants(bytes) = {}
          BY <2>1, <3>1, <3>4, <3>6
        <4> QED
          BY <4>1, <4>2
      <3> QED
        BY <3>5, <3>6
    <2> QED
      BY <2>2, <2>3
  <1> QED
    BY <1>5, <1>6

LEMMA BasicsAreGrants ==
    ASSUME NEW bytes \in Bytes
    PROVE  OcspGrants(bytes) =
             IF ExtractBasicOcspResponse(bytes) = NoResult THEN {}
             ELSE {ExtractBasicOcspResponse(bytes)[1]}
  <1> DEFINE outer == ReadTlvWithRemainder(bytes, SequenceTag)
             state == ReadTlvWithRemainder(outer[1], EnumeratedTag)
             number == DecodeUnsignedInt(state[1])
             explicit == ReadTlv(state[2], Explicit0Tag)
             inner == ReadTlv(explicit[1], SequenceTag)
             type == ReadTlvWithRemainder(inner[1], ObjectIdTag)
             basic == ReadTlv(type[2], OctetStringTag)
             IsGrant(s, t) == IsNumeral(s[1], 0) /\ t[1] = OcspBasicOid
             Basics(s, t) ==
                 IF IsGrant(s, t) THEN Alone(t[2], OctetStringTag) ELSE {}
             ByType(s, i) ==
                 UNION {Basics(s, t) : t \in Readings(i, ObjectIdTag)}
             ByInner(s, e) ==
                 UNION {ByType(s, i) : i \in Alone(e, SequenceTag)}
             ByExplicit(s) ==
                 UNION {ByInner(s, e) : e \in Alone(s[2], Explicit0Tag)}
             ByState(o) ==
                 UNION {ByExplicit(s) : s \in Readings(o[1], EnumeratedTag)}
  <1>1. OcspGrants(bytes)
          = UNION {ByState(o) : o \in Readings(bytes, SequenceTag)}
    BY DEF OcspGrants
  <1>2. ExtractBasicOcspResponse(bytes) =
          IF /\ outer # NoResult /\ state # NoResult
             /\ number # NoResult /\ number[1] = 0
             /\ explicit # NoResult /\ inner # NoResult
             /\ type # NoResult /\ type[1] = OcspBasicOid
             /\ basic # NoResult
          THEN basic
          ELSE NoResult
    BY DEF ExtractBasicOcspResponse
  <1>3. /\ outer = NoResult => Readings(bytes, SequenceTag) = {}
        /\ outer # NoResult => /\ Readings(bytes, SequenceTag) = {outer}
                               /\ outer[1] \in Bytes
    BY OverOneReading
  <1>4. OcspGrants(bytes) = IF outer = NoResult THEN {} ELSE ByState(outer)
    <2> HIDE DEF ByState, outer
    <2> QED
      BY <1>1, <1>3
  <1> HIDE DEF outer
  <1>5. outer # NoResult =>
          /\ state = NoResult => Readings(outer[1], EnumeratedTag) = {}
          /\ state # NoResult => /\ Readings(outer[1], EnumeratedTag) = {state}
                                 /\ state[1] \in Bytes /\ state[2] \in Bytes
    BY <1>3, OverOneReading
  <1>6. outer # NoResult =>
          ByState(outer) = IF state = NoResult THEN {} ELSE ByExplicit(state)
    <2> HIDE DEF ByExplicit, state
    <2> QED
      BY <1>5
  <1>7. outer # NoResult /\ state # NoResult =>
          /\ number = NoResult \/ number = <<number[1]>>
          /\ IsNumeral(state[1], 0) <=> number = <<0>>
    BY <1>5, NumeralsAreDecoded DEF DecodeUnsignedInt
  <1> HIDE DEF state
  <1>8. outer # NoResult /\ state # NoResult =>
          /\ explicit = NoResult => Alone(state[2], Explicit0Tag) = {}
          /\ explicit # NoResult =>
                /\ Alone(state[2], Explicit0Tag) = {explicit[1]}
                /\ explicit[1] \in Bytes
    BY <1>5, AloneIsRead
  <1>9. outer # NoResult /\ state # NoResult =>
          ByExplicit(state) = IF explicit = NoResult THEN {}
                              ELSE ByInner(state, explicit[1])
    <2> HIDE DEF ByInner, explicit
    <2> QED
      BY <1>8
  <1> HIDE DEF explicit
  <1> DEFINE open == /\ outer # NoResult /\ state # NoResult
                     /\ explicit # NoResult
  <1>10. open =>
          /\ inner = NoResult => Alone(explicit[1], SequenceTag) = {}
          /\ inner # NoResult => /\ Alone(explicit[1], SequenceTag) = {inner[1]}
                                 /\ inner[1] \in Bytes
    BY <1>8, AloneIsRead
  <1>11. open => ByInner(state, explicit[1])
                   = IF inner = NoResult THEN {} ELSE ByType(state, inner[1])
    <2> HIDE DEF ByType, inner
    <2> QED
      BY <1>10
  <1> HIDE DEF inner
  <1>12. open /\ inner # NoResult =>
          /\ type = NoResult => Readings(inner[1], ObjectIdTag) = {}
          /\ type # NoResult => /\ Readings(inner[1], ObjectIdTag) = {type}
                                /\ type[2] \in Bytes
    BY <1>10, OverOneReading
  <1>13. open /\ inner # NoResult =>
           ByType(state, inner[1]) = IF type = NoResult THEN {}
                                     ELSE Basics(state, type)
    <2> HIDE DEF Basics, type
    <2> QED
      BY <1>12
  <1> HIDE DEF type
  <1>14. open /\ inner # NoResult /\ type # NoResult =>
           /\ basic = NoResult => Alone(type[2], OctetStringTag) = {}
           /\ basic # NoResult => Alone(type[2], OctetStringTag) = {basic[1]}
    BY <1>12, AloneIsRead
  <1> DEFINE shaped == open /\ inner # NoResult /\ type # NoResult
  <1>15. OcspGrants(bytes) = IF shaped THEN Basics(state, type) ELSE {}
    <2> HIDE DEF Basics, ByType, ByInner, ByExplicit, ByState
    <2> QED
      BY <1>4, <1>6, <1>9, <1>11, <1>13
  <1>16. shaped => (IsNumeral(state[1], 0)
                      <=> number # NoResult /\ number[1] = 0)
    <2> SUFFICES ASSUME shaped
                 PROVE  IsNumeral(state[1], 0)
                          <=> number # NoResult /\ number[1] = 0
      OBVIOUS
    <2>1. /\ number = NoResult \/ number = <<number[1]>>
          /\ IsNumeral(state[1], 0) <=> number = <<0>>
      BY <1>7
    <2> HIDE DEF number
    <2>2. number = NoResult => number # <<0>>
      BY DEF NoResult
    <2>3. number = <<0>> => number # NoResult /\ number[1] = 0
      BY DEF NoResult
    <2> QED
      BY <2>1, <2>2, <2>3
  <1> HIDE DEF basic, number
  <1>17. CASE shaped /\ IsGrant(state, type) /\ basic # NoResult
    <2>1. ExtractBasicOcspResponse(bytes) = basic
      BY <1>2, <1>16, <1>17
    <2>2. OcspGrants(bytes) = {basic[1]}
      BY <1>14, <1>15, <1>17
    <2> QED
      BY <1>17, <2>1, <2>2
  <1>18. CASE ~ (shaped /\ IsGrant(state, type) /\ basic # NoResult)
    <2>1. ExtractBasicOcspResponse(bytes) = NoResult
      BY <1>2, <1>16, <1>18
    <2>2. OcspGrants(bytes) = {}
      BY <1>14, <1>15, <1>18
    <2> QED
      BY <2>1, <2>2
  <1> QED
    BY <1>17, <1>18

(***************************************************************************)
(* What is taken is one string of bytes or nothing.                        *)
(***************************************************************************)
LEMMA OneIsTaken ==
    ASSUME NEW bytes \in Bytes
    PROVE  /\ \/ ExtractTimestampToken(bytes) = NoResult
              \/ Len(ExtractTimestampToken(bytes)) = 1
           /\ \/ ExtractBasicOcspResponse(bytes) = NoResult
              \/ Len(ExtractBasicOcspResponse(bytes)) = 1
  <1>1. \A b, tag : ReadTlv(b, tag) = NoResult \/ Len(ReadTlv(b, tag)) = 1
    BY DEF ReadTlv
  <1>2. \/ ExtractTimestampToken(bytes) = NoResult
        \/ Len(ExtractTimestampToken(bytes)) = 1
    BY DEF ExtractTimestampToken
  <1>3. \/ ExtractBasicOcspResponse(bytes) = NoResult
        \/ Len(ExtractBasicOcspResponse(bytes)) = 1
    BY <1>1 DEF ExtractBasicOcspResponse
  <1> QED
    BY <1>2, <1>3

(***************************************************************************)
(* AnswersFollowGrammar for every body that can arrive: what is taken from *)
(* it is what the grammar grants, by extract_timestamp_token and by        *)
(* extract_basic_ocsp_response.                                            *)
(***************************************************************************)
THEOREM AnswersAreByGrammar == BodiesSpec => []AnswersFollowGrammar
  <1>1. BodiesType => AnswersFollowGrammar
    <2> SUFFICES ASSUME body \in Bytes
                 PROVE  (IF server = "tsa" THEN TsaGrants(body)
                                           ELSE OcspGrants(body))
                          = {Extracted(body)[k] : k \in 1..Len(Extracted(body))}
      BY DEF AnswersFollowGrammar, BodiesType
    <2> DEFINE taken == Extracted(body)
    <2>1. (IF server = "tsa" THEN TsaGrants(body) ELSE OcspGrants(body))
            = IF taken = NoResult THEN {} ELSE {taken[1]}
      BY TokensAreGrants, BasicsAreGrants DEF Extracted
    <2>2. taken = NoResult \/ Len(taken) = 1
      BY OneIsTaken DEF Extracted
    <2> HIDE DEF taken
    <2>3. {taken[k] : k \in 1..Len(taken)}
            = IF taken = NoResult THEN {} ELSE {taken[1]}
      <3>1. CASE taken = NoResult
        <4>1. 1..Len(taken) = {}
          BY <3>1 DEF NoResult
        <4> QED
          BY <3>1, <4>1
      <3>2. CASE taken # NoResult
        <4>1. 1..Len(taken) = 1..1
          BY <2>2, <3>2
        <4>2. 1..1 = {1}
          OBVIOUS
        <4>3. {taken[k] : k \in {1}} = {taken[1]}
          OBVIOUS
        <4> QED
          BY <3>2, <4>1, <4>2, <4>3
      <3> QED
        BY <3>1, <3>2
    <2> QED
      BY <2>1, <2>3 DEF taken
  <1> QED
    BY <1>1, AlwaysBodiesType, PTL
-----------------------------------------------------------------------------
\* Each part of the body reads as it is seen: the values nested in it are such.
PartsReadAsSeen ==
    \A m \in 1..(Len(body) + 1), n \in 0..Len(body), tag \in Byte :
        ReadsAsSeen(SubSeq(body, m, n), tag)

(***************************************************************************)
(* PartsReadAsSeen for every body that can arrive, cut off, altered or     *)
(* extended on its way: whatever part of it read_tlv_with_remainder is     *)
(* given, at any depth of nesting, it finds the one TLV that the reference *)
(* sees there, or nothing where the reference sees none.                   *)
(***************************************************************************)
THEOREM BodiesAreReadExactly == BodiesSpec => []PartsReadAsSeen
  <1>1. BodiesType => PartsReadAsSeen
    <2> SUFFICES ASSUME body \in Bytes, NEW m \in 1..(Len(body) + 1),
                        NEW n \in 0..Len(body), NEW tag \in Byte
                 PROVE  ReadsAsSeen(SubSeq(body, m, n), tag)
      BY DEF PartsReadAsSeen, BodiesType
    <2>1. body \in Seq(Byte) /\ Len(body) \in Nat
      BY DEF Bytes
    <2>2. m \in Int /\ n \in Int
      BY <2>1
    <2>3. \A k \in m..n : body[k] \in Byte
      BY <2>1
    <2>4. SubSeq(body, m, n) \in Bytes
      BY <2>2, <2>3, SubSeqProperties DEF Bytes
    <2> QED
      BY <2>4, ReadingsAreRead DEF ReadsAsSeen
  <1> QED
    BY <1>1, AlwaysBodiesType, PTL
=============================================================================
