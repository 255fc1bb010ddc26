-------------------------- MODULE TagPrefixesProofs --------------------------
(***************************************************************************)
(* strip_tag_prefixes on every document: what the loop has returned is a   *)
(* function of the bytes, the function is taken apart by the pieces of the *)
(* document, and a piece that is not harmless shows in the result.         *)
(***************************************************************************)
EXTENDS TagPrefixes, SequenceInduction

ByteSymbols == {"a", ">", "ds:", "<", "=", "lead", "trail"}
TextSymbols == {"a", ">", "ds:", "<", "=", "wide"}
OutSymbols == {"a", ">", "ds:", "<", "=", "Latin-1 lead", "Latin-1 trail"}

(***************************************************************************)
(* The scan as a function.  inside_tag after n bytes of a text that begins *)
(* with inside_tag = start, and what a byte adds to the result.            *)
(***************************************************************************)
InsideAt(start, text, n) ==
    \/ start /\ \A k \in 1..n : text[k] # ">"
    \/ \E j \in 1..n : text[j] = "<" /\ \A k \in j..n : text[k] # ">"

InsideAfter(start, text) == InsideAt(start, text, Len(text))

Emitted(inside, byte) ==
    IF byte = "ds:" /\ inside THEN <<>> ELSE <<AsChar(byte)>>

Emissions(start, text) ==
    [k \in 1..Len(text) |-> Emitted(InsideAt(start, text, k - 1), text[k])]

Stripped(start, text) == FlattenSeq(Emissions(start, text))

LEMMA EmittedType ==
    ASSUME NEW inside, NEW byte \in ByteSymbols
    PROVE  Emitted(inside, byte) \in Seq(OutSymbols)
  <1>1. AsChar(byte) \in OutSymbols
    BY DEF AsChar, ByteSymbols, OutSymbols
  <1> QED
    BY <1>1 DEF Emitted

LEMMA EmissionsType ==
    ASSUME NEW start, NEW text \in Seq(ByteSymbols)
    PROVE  /\ Emissions(start, text) \in [1..Len(text) -> Seq(OutSymbols)]
           /\ Emissions(start, text) \in Seq(Seq(OutSymbols))
           /\ Stripped(start, text) \in Seq(OutSymbols)
  <1>1. \A k \in 1..Len(text) :
          Emitted(InsideAt(start, text, k - 1), text[k]) \in Seq(OutSymbols)
    <2> SUFFICES ASSUME NEW k \in 1..Len(text)
                 PROVE  Emitted(InsideAt(start, text, k - 1), text[k])
                          \in Seq(OutSymbols)
      OBVIOUS
    <2>1. text[k] \in ByteSymbols
      BY ElementOfSeq
    <2> QED
      BY <2>1, EmittedType
  <1>2. Emissions(start, text) \in [1..Len(text) -> Seq(OutSymbols)]
    BY <1>1 DEF Emissions
  <1>3. Emissions(start, text) \in Seq(Seq(OutSymbols))
    <2>1. Len(text) \in Nat
      OBVIOUS
    <2> QED
      BY <1>2, <2>1
  <1> QED
    BY <1>2, <1>3, FlattenSeqInSeq DEF Stripped

LEMMA ScanOfNone ==
    ASSUME NEW start \in BOOLEAN
    PROVE  Stripped(start, <<>>) = <<>> /\ (InsideAfter(start, <<>>) <=> start)
  <1>1. Len(<<>>) = 0 /\ 1..0 = {}
    OBVIOUS
  <1>2. InsideAfter(start, <<>>) <=> start
    BY <1>1 DEF InsideAfter, InsideAt
  <1>3. Emissions(start, <<>>) = <<>>
    BY <1>1 DEF Emissions
  <1> QED
    BY <1>2, <1>3, FlattenSeqOfNone DEF Stripped

\* inside_tag looks at the bytes before it only.
LEMMA InsideOfBeginning ==
    ASSUME NEW start \in BOOLEAN, NEW text, NEW more, NEW n \in Nat,
           \A k \in 1..n : text[k] = more[k]
    PROVE  InsideAt(start, text, n) = InsideAt(start, more, n)
  <1>1. (\A k \in 1..n : text[k] # ">") <=> (\A k \in 1..n : more[k] # ">")
    OBVIOUS
  <1>2. \A j \in 1..n : (text[j] = "<" /\ \A k \in j..n : text[k] # ">")
                        <=> (more[j] = "<" /\ \A k \in j..n : more[k] # ">")
    <2> SUFFICES ASSUME NEW j \in 1..n
                 PROVE  (text[j] = "<" /\ \A k \in j..n : text[k] # ">")
                        <=> (more[j] = "<" /\ \A k \in j..n : more[k] # ">")
      OBVIOUS
    <2>1. /\ text[j] = more[j]
          /\ \A k \in j..n : text[k] = more[k]
      <3>1. \A k \in j..n : k \in 1..n
        OBVIOUS
      <3> QED
        BY <3>1, Zenon
    <2>2. (\A k \in j..n : text[k] # ">") <=> (\A k \in j..n : more[k] # ">")
      BY <2>1, Zenon
    <2> QED
      BY <2>1, <2>2, Zenon
  <1>3. (\E j \in 1..n : text[j] = "<" /\ \A k \in j..n : text[k] # ">")
          <=> (\E j \in 1..n : more[j] = "<" /\ \A k \in j..n : more[k] # ">")
    BY <1>2, ZenonT(30)
  <1>4. InsideAt(start, text, n) <=> InsideAt(start, more, n)
    BY <1>1, <1>3, ZenonT(30) DEF InsideAt
  <1> QED
    BY <1>4, SMT DEF InsideAt

LEMMA InsideOfAppend ==
    ASSUME NEW start \in BOOLEAN, NEW text \in Seq(ByteSymbols),
           NEW byte \in ByteSymbols
    PROVE  /\ byte = "<" => InsideAfter(start, Append(text, byte))
           /\ byte = ">" => ~ InsideAfter(start, Append(text, byte))
           /\ byte \notin {"<", ">"} =>
                 InsideAfter(start, Append(text, byte)) = InsideAfter(start, text)
  <1> DEFINE more == Append(text, byte)
             n == Len(text)
  <1>1. /\ n \in Nat /\ Len(more) = n + 1 /\ more[n + 1] = byte
        /\ \A k \in 1..n : text[k] = more[k]
    OBVIOUS
  <1>2. n \in Nat /\ n + 1 \in 1..(n + 1) /\ (n + 1)..(n + 1) = {n + 1}
    BY <1>1
  <1> HIDE DEF more, n
  <1>3. ASSUME byte = "<"
        PROVE  InsideAt(start, more, n + 1)
    <2>1. more[n + 1] = "<" /\ \A k \in (n + 1)..(n + 1) : more[k] # ">"
      BY <1>1, <1>2, <1>3
    <2> QED
      BY <1>2, <2>1 DEF InsideAt
  <1>4. ASSUME byte = ">"
        PROVE  ~ InsideAt(start, more, n + 1)
    <2>1. \A j \in 1..(n + 1) : n + 1 \in j..(n + 1)
      BY <1>2
    <2>2. more[n + 1] = ">"
      BY <1>1, <1>4
    <2> QED
      BY <1>2, <2>1, <2>2 DEF InsideAt
  <1>5. ASSUME byte # "<", byte # ">"
        PROVE  InsideAt(start, more, n + 1) = InsideAt(start, text, n)
    <2>1. more[n + 1] # "<" /\ more[n + 1] # ">"
      BY <1>1, <1>5
    <2>2. \A k \in 1..(n + 1) : k \in 1..n \/ k = n + 1
      BY <1>2
    <2>3. (\A k \in 1..(n + 1) : more[k] # ">") <=> (\A k \in 1..n : more[k] # ">")
      BY <1>2, <2>1, <2>2
    <2>4. \A j \in 1..n : (\A k \in j..(n + 1) : more[k] # ">")
                            <=> (\A k \in j..n : more[k] # ">")
      BY <1>2, <2>1
    <2>5. InsideAt(start, more, n + 1) <=> InsideAt(start, more, n)
      BY <1>2, <2>1, <2>2, <2>3, <2>4 DEF InsideAt
    <2>6. InsideAt(start, text, n) = InsideAt(start, more, n)
      <3>1. n \in Nat /\ \A k \in 1..n : text[k] = more[k]
        BY <1>1
      <3> QED
        BY <3>1, InsideOfBeginning
    <2>7. InsideAt(start, more, n + 1) \in BOOLEAN
          /\ InsideAt(start, more, n) \in BOOLEAN
      BY DEF InsideAt
    <2> QED
      BY <2>5, <2>6, <2>7, Zenon
  <1> QED
    BY <1>1, <1>3, <1>4, <1>5 DEF InsideAfter, more, n

LEMMA StrippedOfAppend ==
    ASSUME NEW start \in BOOLEAN, NEW text \in Seq(ByteSymbols),
           NEW byte \in ByteSymbols
    PROVE  Stripped(start, Append(text, byte))
             = Stripped(start, text) \o Emitted(InsideAfter(start, text), byte)
  <1> DEFINE more == Append(text, byte)
             n == Len(text)
             f == Emissions(start, more)
             g == Emissions(start, text)
             e == Emitted(InsideAfter(start, text), byte)
  <1>1. /\ n \in Nat /\ Len(more) = n + 1 /\ more[n + 1] = byte
        /\ \A k \in 1..n : text[k] = more[k]
    OBVIOUS
  <1>2. more \in Seq(ByteSymbols)
    BY AppendProperties
  <1>3. n \in Nat /\ f \in [1..(n + 1) -> Seq(OutSymbols)]
    <2> HIDE DEF more, f
    <2>1. f \in [1..Len(more) -> Seq(OutSymbols)]
      BY <1>2, EmissionsType DEF f
    <2> QED
      BY <1>1, <2>1
  <1>4. \A k \in 1..(n + 1) :
          InsideAt(start, more, k - 1) = InsideAt(start, text, k - 1)
    <2> SUFFICES ASSUME NEW k \in 1..(n + 1)
                 PROVE  InsideAt(start, more, k - 1) = InsideAt(start, text, k - 1)
      OBVIOUS
    <2>1. k - 1 \in Nat /\ \A l \in 1..(k - 1) : l \in 1..n
      BY <1>1
    <2>2. \A l \in 1..(k - 1) : text[l] = more[l]
      BY <1>1, <2>1
    <2> HIDE DEF more
    <2> QED
      BY <2>1, <2>2, InsideOfBeginning
  <1>5. f[n + 1] = e
    <2>1. n + 1 \in 1..Len(more) /\ (n + 1) - 1 = n /\ n + 1 \in 1..(n + 1)
      BY <1>1
    <2>2. f[n + 1] = Emitted(InsideAt(start, more, n), more[n + 1])
      <3> HIDE DEF more
      <3> QED
        BY <2>1 DEF Emissions
    <2>3. InsideAt(start, more, n) = InsideAfter(start, text)
      <3> HIDE DEF more
      <3>1. InsideAt(start, more, n) = InsideAt(start, text, n)
        BY <1>4, <2>1
      <3> QED
        BY <3>1 DEF InsideAfter
    <2> QED
      BY <1>1, <2>2, <2>3
  <1>6. [k \in 1..n |-> f[k]] = g
    <2>1. ASSUME NEW k \in 1..n PROVE f[k] = g[k]
      <3>1. k \in 1..(n + 1) /\ k \in 1..Len(more) /\ more[k] = text[k]
        BY <1>1
      <3> HIDE DEF more
      <3>2. f[k] = Emitted(InsideAt(start, more, k - 1), more[k])
        BY <3>1 DEF Emissions
      <3>3. g[k] = Emitted(InsideAt(start, text, k - 1), text[k])
        BY DEF Emissions
      <3> QED
        BY <1>4, <3>1, <3>2, <3>3
    <2>2. g = [k \in 1..n |-> g[k]]
      BY DEF Emissions
    <2> HIDE DEF f, g, n
    <2> QED
      BY <2>1, <2>2
  <1>7. e \in Seq(OutSymbols) /\ g \in Seq(Seq(OutSymbols))
    BY EmittedType, EmissionsType
  <1> HIDE DEF f, g, e, n
  <1>8. f = Append(g, e)
    BY <1>3, <1>5, <1>6, OneMore
  <1>9. FlattenSeq(f) = FlattenSeq(g) \o e
    BY <1>7, <1>8, FlattenAppend
  <1> QED
    BY <1>9 DEF Stripped, f, g, e

LEMMA ScanOfConcat ==
    ASSUME NEW start \in BOOLEAN, NEW a \in Seq(ByteSymbols)
    PROVE  \A b \in Seq(ByteSymbols) :
              /\ Stripped(start, a \o b)
                   = Stripped(start, a) \o Stripped(InsideAfter(start, a), b)
              /\ InsideAfter(start, a \o b)
                   = InsideAfter(InsideAfter(start, a), b)
  <1> DEFINE mid == InsideAfter(start, a)
             P == {b \in Seq(ByteSymbols) :
                     /\ Stripped(start, a \o b)
                          = Stripped(start, a) \o Stripped(mid, b)
                     /\ InsideAfter(start, a \o b) = InsideAfter(mid, b)}
  <1>1. mid \in BOOLEAN
    BY DEF InsideAfter, InsideAt
  <1>2. <<>> \in P
    <2>1. a \o <<>> = a /\ Stripped(start, a) \o <<>> = Stripped(start, a)
      BY ConcatEmptySeq, EmissionsType
    <2>2. Stripped(mid, <<>>) = <<>> /\ (InsideAfter(mid, <<>>) <=> mid)
      BY <1>1, ScanOfNone
    <2>3. InsideAfter(start, a) = InsideAfter(mid, <<>>)
      BY <2>2, SMT DEF InsideAfter, InsideAt
    <2> HIDE DEF mid
    <2> QED
      BY <2>1, <2>2, <2>3, EmptySeq
  <1>3. ASSUME NEW b \in Seq(ByteSymbols), NEW byte \in ByteSymbols, b \in P
        PROVE  Append(b, byte) \in P
    <2> DEFINE ab == a \o b
    <2>1. /\ ab \in Seq(ByteSymbols)
          /\ Append(b, byte) \in Seq(ByteSymbols)
          /\ a \o Append(b, byte) = Append(ab, byte)
      BY ConcatProperties, AppendProperties, ConcatAppend
    <2>2. /\ Stripped(start, ab) = Stripped(start, a) \o Stripped(mid, b)
          /\ InsideAfter(start, ab) = InsideAfter(mid, b)
      BY <1>3
    <2> DEFINE e == Emitted(InsideAfter(mid, b), byte)
    <2> HIDE DEF ab, mid
    <2>3. Stripped(start, Append(ab, byte)) = Stripped(start, ab) \o e
      BY <2>1, <2>2, StrippedOfAppend
    <2>4. Stripped(mid, Append(b, byte)) = Stripped(mid, b) \o e
      BY <1>1, StrippedOfAppend
    <2>5. /\ Stripped(start, a) \in Seq(OutSymbols)
          /\ Stripped(mid, b) \in Seq(OutSymbols) /\ e \in Seq(OutSymbols)
      BY EmissionsType, EmittedType
    <2> HIDE DEF e
    <2>6. Stripped(start, Append(ab, byte))
            = Stripped(start, a) \o Stripped(mid, Append(b, byte))
      <3>1. (Stripped(start, a) \o Stripped(mid, b)) \o e
              = Stripped(start, a) \o (Stripped(mid, b) \o e)
        BY <2>5, ConcatAssociative
      <3> QED
        BY <2>2, <2>3, <2>4, <3>1, Zenon
    <2>7. InsideAfter(start, Append(ab, byte)) = InsideAfter(mid, Append(b, byte))
      <3>1. /\ byte = "<" => /\ InsideAfter(start, Append(ab, byte))
                             /\ InsideAfter(mid, Append(b, byte))
            /\ byte = ">" => /\ ~ InsideAfter(start, Append(ab, byte))
                             /\ ~ InsideAfter(mid, Append(b, byte))
        BY <1>1, <2>1, InsideOfAppend
      <3>2. CASE byte \in {"<", ">"}
        <4>1. InsideAfter(start, Append(ab, byte))
                <=> InsideAfter(mid, Append(b, byte))
          BY <3>1, <3>2
        <4>2. /\ InsideAfter(start, Append(ab, byte)) \in BOOLEAN
              /\ InsideAfter(mid, Append(b, byte)) \in BOOLEAN
          BY DEF InsideAfter, InsideAt
        <4> QED
          BY <4>1, <4>2, SMT
      <3>3. CASE byte \notin {"<", ">"}
        BY <1>1, <2>1, <2>2, <3>3, InsideOfAppend
      <3> QED
        BY <3>2, <3>3
    <2> QED
      BY <2>1, <2>6, <2>7 DEF ab
  <1> HIDE DEF P
  <1>4. \A b \in Seq(ByteSymbols) : b \in P
    BY <1>2, <1>3, SequenceInduction
  <1> QED
    BY <1>4 DEF P
-----------------------------------------------------------------------------
(***************************************************************************)
(* The bytes of a text.                                                    *)
(***************************************************************************)
Encoded(char) == IF char = "wide" THEN <<"lead", "trail">> ELSE <<char>>

LEMMA EncodedType ==
    ASSUME NEW char \in TextSymbols
    PROVE  Encoded(char) \in Seq(ByteSymbols)
  <1>1. char = "wide" \/ char \in ByteSymbols
    BY DEF TextSymbols, ByteSymbols
  <1>2. "lead" \in ByteSymbols /\ "trail" \in ByteSymbols
    BY DEF ByteSymbols
  <1> QED
    BY <1>1, <1>2 DEF Encoded

LEMMA BytesOfNone == Bytes(<<>>) = <<>>
  <1>1. [k \in 1..Len(<<>>) |-> Encoded(<<>>[k])] = <<>>
    OBVIOUS
  <1> QED
    BY <1>1, FlattenSeqOfNone DEF Bytes, Encoded

LEMMA BytesOfAppend ==
    ASSUME NEW text \in Seq(TextSymbols), NEW char \in TextSymbols
    PROVE  Bytes(Append(text, char)) = Bytes(text) \o Encoded(char)
  <1> DEFINE more == Append(text, char)
             n == Len(text)
             f == [k \in 1..Len(more) |-> Encoded(more[k])]
             g == [k \in 1..Len(text) |-> Encoded(text[k])]
  <1>1. /\ n \in Nat /\ Len(more) = n + 1 /\ more[n + 1] = char
        /\ \A k \in 1..n : text[k] = more[k]
    OBVIOUS
  <1>2. more \in Seq(TextSymbols)
    BY AppendProperties
  <1>3. f \in [1..(n + 1) -> Seq(ByteSymbols)]
    <2> HIDE DEF more
    <2>1. \A k \in 1..Len(more) : more[k] \in TextSymbols
      BY <1>2, ElementOfSeq
    <2>2. \A k \in 1..Len(more) : Encoded(more[k]) \in Seq(ByteSymbols)
      BY <2>1, EncodedType
    <2> QED
      BY <1>1, <2>2
  <1>4. f[n + 1] = Encoded(char) /\ [k \in 1..n |-> f[k]] = g
    <2>1. n + 1 \in 1..Len(more) /\ \A k \in 1..n : k \in 1..Len(more)
      BY <1>1
    <2> HIDE DEF more
    <2> QED
      BY <1>1, <2>1
  <1>5. Bytes(more) = FlattenSeq(f) /\ Bytes(text) = FlattenSeq(g)
    BY DEF Bytes, Encoded
  <1>6. n \in Nat /\ Encoded(char) \in Seq(ByteSymbols)
    BY <1>1, EncodedType
  <1> HIDE DEF more, n, f, g
  <1>7. g \in Seq(Seq(ByteSymbols)) /\ f = Append(g, Encoded(char))
    BY <1>3, <1>4, <1>6, OneMore
  <1>8. FlattenSeq(f) = FlattenSeq(g) \o Encoded(char)
    BY <1>6, <1>7, FlattenAppend
  <1> QED
    BY <1>5, <1>8 DEF more

LEMMA BytesType ==
    \A text \in Seq(TextSymbols) : Bytes(text) \in Seq(ByteSymbols)
  <1> DEFINE P == {text \in Seq(TextSymbols) : Bytes(text) \in Seq(ByteSymbols)}
  <1>1. <<>> \in P
    BY EmptySeq, BytesOfNone
  <1>2. ASSUME NEW text \in Seq(TextSymbols), NEW char \in TextSymbols,
               text \in P
        PROVE  Append(text, char) \in P
    <2>1. Bytes(text) \o Encoded(char) \in Seq(ByteSymbols)
      BY <1>2, EncodedType, ConcatProperties
    <2>2. Append(text, char) \in Seq(TextSymbols)
      BY AppendProperties
    <2> QED
      BY <2>1, <2>2, BytesOfAppend
  <1> HIDE DEF P
  <1>3. \A text \in Seq(TextSymbols) : text \in P
    BY <1>1, <1>2, SequenceInduction
  <1> QED
    BY <1>3 DEF P

LEMMA BytesOfConcat ==
    ASSUME NEW a \in Seq(TextSymbols)
    PROVE  \A b \in Seq(TextSymbols) : Bytes(a \o b) = Bytes(a) \o Bytes(b)
  <1> DEFINE P == {b \in Seq(TextSymbols) : Bytes(a \o b) = Bytes(a) \o Bytes(b)}
  <1>1. <<>> \in P
    <2>1. a \o <<>> = a /\ Bytes(a) \o <<>> = Bytes(a)
      BY ConcatEmptySeq, BytesType
    <2> QED
      BY <2>1, EmptySeq, BytesOfNone
  <1>2. ASSUME NEW b \in Seq(TextSymbols), NEW char \in TextSymbols, b \in P
        PROVE  Append(b, char) \in P
    <2>1. /\ a \o b \in Seq(TextSymbols) /\ Append(b, char) \in Seq(TextSymbols)
          /\ a \o Append(b, char) = Append(a \o b, char)
      BY ConcatProperties, AppendProperties, ConcatAppend
    <2>2. Bytes(Append(a \o b, char)) = Bytes(a \o b) \o Encoded(char)
      BY <2>1, BytesOfAppend
    <2>3. Bytes(Append(b, char)) = Bytes(b) \o Encoded(char)
      BY BytesOfAppend
    <2>4. Bytes(a \o b) = Bytes(a) \o Bytes(b)
      BY <1>2
    <2>5. /\ Bytes(a) \in Seq(ByteSymbols) /\ Bytes(b) \in Seq(ByteSymbols)
          /\ Encoded(char) \in Seq(ByteSymbols)
      BY BytesType, EncodedType
    <2>6. Bytes(Append(a \o b, char)) = Bytes(a) \o Bytes(Append(b, char))
      <3>1. (Bytes(a) \o Bytes(b)) \o Encoded(char)
              = Bytes(a) \o (Bytes(b) \o Encoded(char))
        BY <2>5, ConcatAssociative
      <3> QED
        BY <2>2, <2>3, <2>4, <3>1, Zenon
    <2> QED
      BY <2>1, <2>6
  <1> HIDE DEF P
  <1>3. \A b \in Seq(TextSymbols) : b \in P
    BY <1>1, <1>2, SequenceInduction
  <1> QED
    BY <1>3 DEF P

LEMMA AsciiOfAppend ==
    ASSUME NEW text \in Seq(TextSymbols), NEW char \in TextSymbols
    PROVE  IsAscii(Append(text, char)) <=> IsAscii(text) /\ char # "wide"
  <1> DEFINE more == Append(text, char)
             n == Len(text)
  <1>1. /\ Len(more) = n + 1 /\ more[n + 1] = char
        /\ \A k \in 1..n : text[k] = more[k]
    OBVIOUS
  <1>2. n \in Nat
    OBVIOUS
  <1> HIDE DEF more, n
  <1>3. n + 1 \in 1..(n + 1) /\ \A k \in 1..(n + 1) : k \in 1..n \/ k = n + 1
    BY <1>2
  <1>4. \A k \in 1..n : k \in 1..(n + 1)
    BY <1>2
  <1> QED
    BY <1>1, <1>3, <1>4 DEF IsAscii, more, n

LEMMA AsciiIsItself ==
    \A text \in Seq(TextSymbols) : IsAscii(text) => Bytes(text) = text
  <1> DEFINE P == {text \in Seq(TextSymbols) : IsAscii(text) => Bytes(text) = text}
  <1>1. <<>> \in P
    BY EmptySeq, BytesOfNone
  <1>2. ASSUME NEW text \in Seq(TextSymbols), NEW char \in TextSymbols,
               text \in P
        PROVE  Append(text, char) \in P
    <2> SUFFICES ASSUME IsAscii(Append(text, char))
                 PROVE  Bytes(Append(text, char)) = Append(text, char)
      BY AppendProperties
    <2>1. IsAscii(text) /\ char # "wide"
      BY AsciiOfAppend
    <2>2. Bytes(Append(text, char)) = text \o <<char>>
      BY <1>2, <2>1, BytesOfAppend DEF Encoded
    <2> QED
      BY <2>2, AppendIsConcat
  <1> HIDE DEF P
  <1>3. \A text \in Seq(TextSymbols) : text \in P
    BY <1>1, <1>2, SequenceInduction
  <1> QED
    BY <1>3 DEF P

LEMMA AsciiOfConcat ==
    ASSUME NEW a \in Seq(TextSymbols), NEW b \in Seq(TextSymbols)
    PROVE  IsAscii(a \o b) <=> IsAscii(a) /\ IsAscii(b)
  <1> DEFINE ab == a \o b
             n == Len(a)
             m == Len(b)
  <1>1. /\ Len(ab) = n + m
        /\ \A k \in 1..(n + m) : ab[k] = IF k <= n THEN a[k] ELSE b[k - n]
    BY ConcatProperties
  <1>2. n \in Nat /\ m \in Nat
    OBVIOUS
  <1> HIDE DEF ab, n, m
  <1>3. \A k \in 1..n : k \in 1..(n + m) /\ k <= n
    BY <1>2
  <1>4. \A k \in 1..m : n + k \in 1..(n + m) /\ ~(n + k <= n) /\ (n + k) - n = k
    BY <1>2
  <1>5. \A k \in 1..(n + m) : k \in 1..n \/ (~(k <= n) /\ k - n \in 1..m)
    BY <1>2
  <1>6. ASSUME IsAscii(ab)
        PROVE  IsAscii(a) /\ IsAscii(b)
    <2>1. \A k \in 1..(n + m) : ab[k] # "wide"
      BY <1>1, <1>6 DEF IsAscii
    <2>2. \A k \in 1..n : a[k] # "wide"
      BY <1>1, <1>3, <2>1
    <2>3. \A k \in 1..m : b[k] # "wide"
      <3> SUFFICES ASSUME NEW k \in 1..m PROVE b[k] # "wide"
        OBVIOUS
      <3>1. ab[n + k] = b[k]
        BY <1>1, <1>4
      <3> QED
        BY <1>4, <2>1, <3>1
    <2> QED
      BY <2>2, <2>3 DEF IsAscii, n, m
  <1>7. ASSUME IsAscii(a), IsAscii(b)
        PROVE  IsAscii(ab)
    <2>1. /\ \A k \in 1..n : a[k] # "wide"
          /\ \A k \in 1..m : b[k] # "wide"
      BY <1>7 DEF IsAscii, n, m
    <2>2. ASSUME NEW k \in 1..(n + m) PROVE ab[k] # "wide"
      <3>1. CASE k <= n
        BY <1>1, <1>5, <2>1, <3>1
      <3>2. CASE ~(k <= n)
        BY <1>1, <1>5, <1>3, <2>1, <3>2
      <3> QED
        BY <3>1, <3>2
    <2> QED
      BY <1>1, <2>2 DEF IsAscii
  <1> QED
    BY <1>6, <1>7 DEF ab
-----------------------------------------------------------------------------
(***************************************************************************)
(* Strings: in a text nothing is stripped, in a value what is exposed.     *)
(***************************************************************************)
LEMMA StringIsText ==
    ASSUME NEW string \in Seq(Symbols)
    PROVE  /\ string \in Seq(TextSymbols)
           /\ IsAscii(string) => /\ Bytes(string) = string
                                /\ string \in Seq(ByteSymbols)
  <1>1. string \in Seq(TextSymbols)
    BY SeqMonotonic DEF Symbols, TextSymbols
  <1> QED
    BY <1>1, AsciiIsItself, BytesType

LEMMA CharIsPlain ==
    ASSUME NEW char \in Symbols, char # "wide"
    PROVE  /\ char \in ByteSymbols /\ char \in TextSymbols
           /\ char \notin {"<", "="}
           /\ AsChar(char) = char
           /\ <<char>> \in Seq(Symbols)
  <1>1. char \in {"a", ">", "ds:"}
    BY DEF Symbols
  <1>2. char # "lead" /\ char # "trail" /\ char # "<" /\ char # "="
    BY <1>1
  <1>3. AsChar(char) = char
    BY <1>2 DEF AsChar
  <1> QED
    BY <1>1, <1>2, <1>3 DEF Symbols, ByteSymbols, TextSymbols

LEMMA OutsideOfEncoded ==
    ASSUME NEW char \in Symbols
    PROVE  ~ InsideAfter(FALSE, Encoded(char))
  <1>1. CASE char = "wide"
    BY <1>1 DEF Encoded, InsideAfter, InsideAt
  <1>2. CASE char # "wide"
    <2>1. char # "<"
      BY DEF Symbols
    <2> QED
      BY <1>2, <2>1 DEF Encoded, InsideAfter, InsideAt
  <1> QED
    BY <1>1, <1>2

LEMMA TextKeepsAll ==
    \A string \in Seq(Symbols) :
       /\ ~ InsideAfter(FALSE, Bytes(string))
       /\ IsAscii(string) => Stripped(FALSE, Bytes(string)) = string
  <1> DEFINE P == {string \in Seq(Symbols) :
                     /\ ~ InsideAfter(FALSE, Bytes(string))
                     /\ IsAscii(string) => Stripped(FALSE, Bytes(string)) = string}
  <1>1. <<>> \in P
    BY EmptySeq, BytesOfNone, ScanOfNone
  <1>2. ASSUME NEW string \in Seq(Symbols), NEW char \in Symbols, string \in P
        PROVE  Append(string, char) \in P
    <2>1. /\ string \in Seq(TextSymbols) /\ char \in TextSymbols
          /\ Append(string, char) \in Seq(Symbols)
      BY StringIsText, AppendProperties DEF Symbols, TextSymbols
    <2>2. /\ Bytes(Append(string, char)) = Bytes(string) \o Encoded(char)
          /\ Bytes(string) \in Seq(ByteSymbols)
          /\ Encoded(char) \in Seq(ByteSymbols)
      BY <2>1, BytesOfAppend, BytesType, EncodedType
    <2>3. ~ InsideAfter(FALSE, Bytes(Append(string, char)))
      <3>1. InsideAfter(FALSE, Bytes(string) \o Encoded(char))
              = InsideAfter(InsideAfter(FALSE, Bytes(string)), Encoded(char))
        BY <2>2, ScanOfConcat
      <3>2. InsideAfter(FALSE, Bytes(string)) = FALSE
        BY <1>2, SMT DEF InsideAfter, InsideAt
      <3> QED
        BY <2>2, <3>1, <3>2, OutsideOfEncoded
    <2>4. ASSUME IsAscii(Append(string, char))
          PROVE  Stripped(FALSE, Bytes(Append(string, char)))
                   = Append(string, char)
      <3>1. IsAscii(string) /\ char # "wide"
        BY <2>1, <2>4, AsciiOfAppend
      <3>2. Encoded(char) = <<char>> /\ char \in ByteSymbols /\ AsChar(char) = char
        BY <3>1, CharIsPlain DEF Encoded
      <3>3. Bytes(Append(string, char)) = Append(Bytes(string), char)
        BY <2>2, <3>2, AppendIsConcat
      <3>4. Emitted(InsideAfter(FALSE, Bytes(string)), char) = <<char>>
        BY <1>2, <3>2 DEF Emitted
      <3>5. Stripped(FALSE, Append(Bytes(string), char)) = string \o <<char>>
        BY <1>2, <2>2, <3>1, <3>2, <3>4, StrippedOfAppend
      <3> QED
        BY <3>3, <3>5, AppendIsConcat
    <2> QED
      BY <2>1, <2>3, <2>4
  <1> HIDE DEF P
  <1>3. \A string \in Seq(Symbols) : string \in P
    BY <1>1, <1>2, SequenceInduction
  <1> QED
    BY <1>3 DEF P

EndsNoTag(string) == \A k \in 1..Len(string) : string[k] # ">"

LEMMA ExposedOfAppend ==
    ASSUME NEW string \in Seq(Symbols), NEW char \in Symbols
    PROVE  /\ EndsNoTag(Append(string, char))
                <=> EndsNoTag(string) /\ char # ">"
           /\ ExposesPrefix(Append(string, char))
                <=> \/ ExposesPrefix(string)
                    \/ char = "ds:" /\ EndsNoTag(string)
  <1> DEFINE more == Append(string, char)
             n == Len(string)
  <1>1. /\ Len(more) = n + 1 /\ more[n + 1] = char
        /\ \A k \in 1..n : string[k] = more[k]
    OBVIOUS
  <1>2. n \in Nat
    OBVIOUS
  <1> HIDE DEF more, n
  <1>3. /\ n + 1 \in 1..(n + 1) /\ (n + 1) - 1 = n
        /\ \A k \in 1..(n + 1) : k \in 1..n \/ k = n + 1
        /\ \A k \in 1..n : k \in 1..(n + 1) /\ \A j \in 1..(k - 1) : j \in 1..n
    BY <1>2
  <1>4. EndsNoTag(more) <=> EndsNoTag(string) /\ char # ">"
    BY <1>1, <1>3 DEF EndsNoTag, n
  <1>5. \A k \in 1..n : (\A j \in 1..(k - 1) : more[j] # ">")
                          <=> (\A j \in 1..(k - 1) : string[j] # ">")
    BY <1>1, <1>3
  <1>6. (\A j \in 1..n : more[j] # ">") <=> EndsNoTag(string)
    BY <1>1 DEF EndsNoTag, n
  <1>7. ExposesPrefix(more)
          <=> \/ \E k \in 1..n : more[k] = "ds:"
                                 /\ \A j \in 1..(k - 1) : more[j] # ">"
              \/ more[n + 1] = "ds:" /\ \A j \in 1..n : more[j] # ">"
    BY <1>1, <1>3 DEF ExposesPrefix
  <1>8. ExposesPrefix(string)
          <=> \E k \in 1..n : more[k] = "ds:"
                              /\ \A j \in 1..(k - 1) : more[j] # ">"
    BY <1>1, <1>5 DEF ExposesPrefix, n
  <1> QED
    BY <1>1, <1>4, <1>6, <1>7, <1>8 DEF more

LEMMA ValueLosesExposed ==
    \A string \in Seq(Symbols) : IsAscii(string) =>
       /\ InsideAfter(TRUE, string) <=> EndsNoTag(string)
       /\ Len(Stripped(TRUE, string)) <= Len(string)
       /\ ExposesPrefix(string) => Len(Stripped(TRUE, string)) < Len(string)
       /\ ~ ExposesPrefix(string) => Stripped(TRUE, string) = string
  <1> DEFINE Claim(string) ==
               /\ InsideAfter(TRUE, string) <=> EndsNoTag(string)
               /\ Len(Stripped(TRUE, string)) <= Len(string)
               /\ ExposesPrefix(string) =>
                    Len(Stripped(TRUE, string)) < Len(string)
               /\ ~ ExposesPrefix(string) => Stripped(TRUE, string) = string
             P == {string \in Seq(Symbols) : IsAscii(string) => Claim(string)}
  <1>1. <<>> \in P
    <2>1. EndsNoTag(<<>>) /\ ~ ExposesPrefix(<<>>) /\ Len(<<>>) = 0
      BY DEF EndsNoTag, ExposesPrefix
    <2>2. Stripped(TRUE, <<>>) = <<>> /\ InsideAfter(TRUE, <<>>)
      BY ScanOfNone
    <2>3. /\ InsideAfter(TRUE, <<>>) <=> EndsNoTag(<<>>)
          /\ Len(Stripped(TRUE, <<>>)) <= Len(<<>>)
      <3>1. InsideAfter(TRUE, <<>>) <=> EndsNoTag(<<>>)
        BY <2>1, <2>2, Zenon
      <3>2. Len(Stripped(TRUE, <<>>)) = Len(<<>>) /\ Len(<<>>) = 0
        BY <2>1, <2>2
      <3>3. 0 <= 0
        OBVIOUS
      <3> QED
        BY <3>1, <3>2, <3>3
    <2>4. Claim(<<>>)
      BY <2>1, <2>2, <2>3
    <2> QED
      BY <2>4, EmptySeq
  <1>2. ASSUME NEW string \in Seq(Symbols), NEW char \in Symbols, string \in P
        PROVE  Append(string, char) \in P
    <2> DEFINE more == Append(string, char)
               e == Emitted(InsideAfter(TRUE, string), char)
               r == Stripped(TRUE, string)
    <2> SUFFICES ASSUME IsAscii(more)
                 PROVE  Claim(more)
      BY AppendProperties
    <2>1. /\ string \in Seq(TextSymbols) /\ char \in TextSymbols
          /\ IsAscii(string) /\ char # "wide"
      BY StringIsText, AsciiOfAppend DEF Symbols, TextSymbols
    <2>2. /\ string \in Seq(ByteSymbols) /\ char \in ByteSymbols
          /\ AsChar(char) = char /\ char \notin {"<", "="}
      BY <2>1, StringIsText, CharIsPlain
    <2>3. /\ InsideAfter(TRUE, string) <=> EndsNoTag(string)
          /\ Len(r) <= Len(string)
          /\ ExposesPrefix(string) => Len(r) < Len(string)
          /\ ~ ExposesPrefix(string) => r = string
      BY <1>2, <2>1
    <2>4. /\ Stripped(TRUE, more) = r \o e
          /\ r \in Seq(OutSymbols) /\ Len(more) = Len(string) + 1
          /\ more = string \o <<char>>
      BY <2>2, StrippedOfAppend, EmissionsType, AppendProperties, AppendIsConcat
    <2>5. Len(r) \in Nat /\ Len(string) \in Nat
      <3> HIDE DEF r
      <3> QED
        BY <2>4
    <2>6. e = IF char = "ds:" /\ EndsNoTag(string) THEN <<>> ELSE <<char>>
      BY <2>2, <2>3 DEF Emitted
    <2>7. /\ EndsNoTag(more) <=> EndsNoTag(string) /\ char # ">"
          /\ ExposesPrefix(more)
               <=> \/ ExposesPrefix(string)
                   \/ char = "ds:" /\ EndsNoTag(string)
      BY ExposedOfAppend
    <2>8. InsideAfter(TRUE, more) <=> EndsNoTag(more)
      <3>1. /\ char = ">" => ~ InsideAfter(TRUE, more)
            /\ char # ">" => InsideAfter(TRUE, more) = InsideAfter(TRUE, string)
        BY <2>2, InsideOfAppend
      <3> QED
        BY <2>3, <2>7, <3>1
    <2>9. e \in Seq(OutSymbols)
      BY <2>2, EmittedType
    <2> HIDE DEF r, e, more
    <2>10. CASE char = "ds:" /\ EndsNoTag(string)
      <3>1. Stripped(TRUE, more) = r /\ ExposesPrefix(more)
        BY <2>4, <2>6, <2>7, <2>10, ConcatEmptySeq
      <3>2. Len(r) < Len(more)
        BY <2>3, <2>4, <2>5
      <3>3. Len(r) <= Len(more)
        BY <2>3, <2>4, <2>5
      <3> QED
        BY <2>8, <3>1, <3>2, <3>3
    <2>11. CASE ~(char = "ds:" /\ EndsNoTag(string))
      <3>1. e = <<char>> /\ (ExposesPrefix(more) <=> ExposesPrefix(string))
        BY <2>6, <2>7, <2>11
      <3>2. Len(Stripped(TRUE, more)) = Len(r) + 1
        <4>1. Len(e) = 1
          BY <3>1
        <4>2. Len(r \o e) = Len(r) + Len(e)
          BY <2>4, <2>9, ConcatProperties
        <4> QED
          BY <2>4, <4>1, <4>2
      <3> DEFINE before == Len(r)
                 after == Len(Stripped(TRUE, more))
                 given == Len(string)
                 given2 == Len(more)
      <3>3. /\ before \in Nat /\ given \in Nat
            /\ after = before + 1 /\ given2 = given + 1
        BY <2>4, <2>5, <3>2
      <3>4. before <= given /\ (ExposesPrefix(string) => before < given)
        BY <2>3
      <3> HIDE DEF before, after, given, given2
      <3>5. after <= given2 /\ (ExposesPrefix(string) => after < given2)
        BY <3>3, <3>4
      <3>6. Len(Stripped(TRUE, more)) <= Len(more)
        BY <3>5 DEF after, given2
      <3>7. ExposesPrefix(more) => Len(Stripped(TRUE, more)) < Len(more)
        BY <3>1, <3>5 DEF after, given2
      <3>8. ~ ExposesPrefix(more) => Stripped(TRUE, more) = more
        BY <2>3, <2>4, <3>1
      <3> QED
        BY <2>8, <3>6, <3>7, <3>8
    <2> QED
      BY <2>10, <2>11
  <1> HIDE DEF P
  <1>3. \A string \in Seq(Symbols) : string \in P
    BY <1>1, <1>2, SequenceInduction
  <1> QED
    BY <1>3 DEF P
-----------------------------------------------------------------------------
(***************************************************************************)
(* One piece: what the scan makes of it, and what is expected.             *)
(***************************************************************************)
TagHead(prefixed) == <<"<">> \o Name(prefixed) \o <<"=">>

PieceText(piece) ==
    IF piece.tag THEN TagHead(piece.prefixed) \o piece.string \o <<">">>
                 ELSE piece.string

Unprefixed(piece) == [piece EXCEPT !.prefixed = FALSE]

LEMMA PieceParts ==
    ASSUME NEW piece \in Pieces
    PROVE  /\ piece.tag \in BOOLEAN /\ piece.prefixed \in BOOLEAN
           /\ piece.string \in Seq(Symbols)
           /\ ~ piece.tag => piece.prefixed = FALSE
           /\ Unprefixed(piece) \in Pieces
           /\ Unprefixed(piece).tag = piece.tag
           /\ Unprefixed(piece).prefixed = FALSE
           /\ Unprefixed(piece).string = piece.string
  BY TagPrefixesAssumption DEF Pieces, Unprefixed

LEMMA HeadScan ==
    ASSUME NEW prefixed \in BOOLEAN
    PROVE  /\ TagHead(prefixed) \in Seq(TextSymbols)
           /\ IsAscii(TagHead(prefixed))
           /\ Stripped(FALSE, TagHead(prefixed)) = TagHead(FALSE)
           /\ InsideAfter(FALSE, TagHead(prefixed))
  <1> DEFINE one == Append(<<>>, "<")
             two == Append(one, "ds:")
             name == IF prefixed THEN two ELSE one
             three == Append(name, "a")
             four == Append(three, "=")
             h == TagHead(prefixed)
  <1>1. four = h
    BY DEF TagHead, Name
  <1>2. /\ "<" \in ByteSymbols /\ "ds:" \in ByteSymbols
        /\ "a" \in ByteSymbols /\ "=" \in ByteSymbols
    BY DEF ByteSymbols
  <1>3. /\ AsChar("<") = "<" /\ AsChar("a") = "a" /\ AsChar("=") = "="
    BY DEF AsChar
  <1>4. h \in Seq(TextSymbols) /\ IsAscii(h)
    <2>1. /\ <<"<">> \in Seq(TextSymbols) /\ IsAscii(<<"<">>)
          /\ <<"=">> \in Seq(TextSymbols) /\ IsAscii(<<"=">>)
      BY DEF TextSymbols, IsAscii
    <2>2. Name(prefixed) \in Seq(TextSymbols) /\ IsAscii(Name(prefixed))
      <3>1. CASE prefixed
        BY <3>1 DEF Name, TextSymbols, IsAscii
      <3>2. CASE ~ prefixed
        BY <3>2 DEF Name, TextSymbols, IsAscii
      <3> QED
        BY <3>1, <3>2
    <2>3. /\ <<"<">> \o Name(prefixed) \in Seq(TextSymbols)
          /\ IsAscii(<<"<">> \o Name(prefixed))
      BY <2>1, <2>2, ConcatProperties, AsciiOfConcat
    <2> QED
      BY <2>1, <2>3, ConcatProperties, AsciiOfConcat DEF TagHead
  <1>5. <<>> \in Seq(ByteSymbols) /\ one \in Seq(ByteSymbols)
    BY <1>2
  <1>6. two \in Seq(ByteSymbols)
    BY <1>2
  <1>7. name \in Seq(ByteSymbols) /\ three \in Seq(ByteSymbols)
    BY <1>2
  <1>8. Stripped(FALSE, one) = <<"<">> /\ InsideAfter(FALSE, one)
    <2>1. Stripped(FALSE, one)
            = Stripped(FALSE, <<>>) \o Emitted(InsideAfter(FALSE, <<>>), "<")
      BY <1>2, <1>5, StrippedOfAppend
    <2>2. Emitted(InsideAfter(FALSE, <<>>), "<") = <<"<">>
      BY <1>3 DEF Emitted
    <2>3. Stripped(FALSE, one) = <<>> \o <<"<">>
      BY <2>1, <2>2, ScanOfNone
    <2>4. InsideAfter(FALSE, one)
      BY <1>2, <1>5, InsideOfAppend
    <2>5. <<>> \o <<"<">> = <<"<">>
      BY <1>2, ConcatEmptySeq
    <2> QED
      BY <2>3, <2>4, <2>5
  <1> HIDE DEF one
  <1>9. Stripped(FALSE, two) = <<"<">> /\ InsideAfter(FALSE, two)
    <2>1. Stripped(FALSE, two)
            = Stripped(FALSE, one) \o Emitted(InsideAfter(FALSE, one), "ds:")
      BY <1>2, <1>5, StrippedOfAppend
    <2>2. Emitted(InsideAfter(FALSE, one), "ds:") = <<>>
      BY <1>8 DEF Emitted
    <2>3. InsideAfter(FALSE, two)
      BY <1>2, <1>5, <1>8, InsideOfAppend
    <2>4. <<"<">> \o <<>> = <<"<">>
      BY <1>2, ConcatEmptySeq
    <2> QED
      BY <1>8, <2>1, <2>2, <2>3, <2>4
  <1> HIDE DEF two
  <1>10. Stripped(FALSE, name) = <<"<">> /\ InsideAfter(FALSE, name)
    BY <1>8, <1>9
  <1> HIDE DEF name
  <1>11. Stripped(FALSE, three) = <<"<">> \o <<"a">> /\ InsideAfter(FALSE, three)
    <2>1. Stripped(FALSE, three)
            = Stripped(FALSE, name) \o Emitted(InsideAfter(FALSE, name), "a")
      BY <1>2, <1>7, StrippedOfAppend
    <2>2. Emitted(InsideAfter(FALSE, name), "a") = <<"a">>
      BY <1>3 DEF Emitted
    <2>3. InsideAfter(FALSE, three)
      BY <1>2, <1>7, <1>10, InsideOfAppend
    <2> QED
      BY <1>10, <2>1, <2>2, <2>3
  <1> HIDE DEF three
  <1>12. /\ Stripped(FALSE, four) = (<<"<">> \o <<"a">>) \o <<"=">>
         /\ InsideAfter(FALSE, four)
    <2>1. Stripped(FALSE, four)
            = Stripped(FALSE, three) \o Emitted(InsideAfter(FALSE, three), "=")
      BY <1>2, <1>7, StrippedOfAppend
    <2>2. Emitted(InsideAfter(FALSE, three), "=") = <<"=">>
      BY <1>3 DEF Emitted
    <2>3. InsideAfter(FALSE, four)
      BY <1>2, <1>7, <1>11, InsideOfAppend
    <2> QED
      BY <1>11, <2>1, <2>2, <2>3
  <1>13. (<<"<">> \o <<"a">>) \o <<"=">> = TagHead(FALSE)
    BY DEF TagHead, Name
  <1> HIDE DEF four, h
  <1>14. Stripped(FALSE, h) = TagHead(FALSE) /\ InsideAfter(FALSE, h)
    BY <1>1, <1>12, <1>13
  <1> QED
    BY <1>4, <1>14 DEF h

LEMMA PieceTextType ==
    ASSUME NEW piece \in Pieces
    PROVE  /\ PieceText(piece) \in Seq(TextSymbols)
           /\ IsAscii(PieceText(piece)) <=> IsAscii(piece.string)
  <1> DEFINE head == TagHead(piece.prefixed)
             string == piece.string
  <1>1. /\ head \in Seq(TextSymbols) /\ IsAscii(head)
        /\ string \in Seq(TextSymbols)
    BY PieceParts, HeadScan, StringIsText
  <1>2. <<">">> \in Seq(TextSymbols) /\ IsAscii(<<">">>)
    BY DEF TextSymbols, IsAscii
  <1> HIDE DEF head, string
  <1>3. head \o string \in Seq(TextSymbols)
    BY <1>1, ConcatProperties
  <1>4. (head \o string) \o <<">">> \in Seq(TextSymbols)
    BY <1>2, <1>3, ConcatProperties
  <1>5. IsAscii((head \o string) \o <<">">>) <=> IsAscii(string)
    BY <1>1, <1>2, <1>3, AsciiOfConcat
  <1> QED
    BY <1>1, <1>4, <1>5 DEF PieceText, head, string

\* After a piece the scan is outside of tags again.
LEMMA PieceEndsOutside ==
    ASSUME NEW piece \in Pieces
    PROVE  InsideAfter(FALSE, Bytes(PieceText(piece))) = FALSE
  <1> DEFINE head == TagHead(piece.prefixed)
             string == piece.string
  <1> SUFFICES ~ InsideAfter(FALSE, Bytes(PieceText(piece)))
    BY SMT DEF InsideAfter, InsideAt
  <1>1. CASE ~ piece.tag
    BY <1>1, PieceParts, TextKeepsAll DEF PieceText
  <1>2. CASE piece.tag
    <2>1. head \in Seq(TextSymbols) /\ string \in Seq(TextSymbols)
      BY PieceParts, HeadScan, StringIsText
    <2>2. PieceText(piece) = (head \o string) \o <<">">>
      BY <1>2 DEF PieceText
    <2> HIDE DEF head, string
    <2>3. head \o string \in Seq(TextSymbols) /\ ">" \in TextSymbols
      BY <2>1, ConcatProperties DEF TextSymbols
    <2>4. PieceText(piece) = Append(head \o string, ">")
      BY <2>2, <2>3, AppendIsConcat
    <2>5. /\ Bytes(head \o string) \in Seq(ByteSymbols) /\ ">" \in ByteSymbols
          /\ Bytes(PieceText(piece)) = Bytes(head \o string) \o <<">">>
      BY <2>3, <2>4, BytesType, BytesOfAppend DEF Encoded, ByteSymbols
    <2>6. Bytes(PieceText(piece)) = Append(Bytes(head \o string), ">")
      BY <2>5, AppendIsConcat
    <2>7. ~ InsideAfter(FALSE, Append(Bytes(head \o string), ">"))
      BY <2>5, InsideOfAppend, Zenon
    <2> QED
      BY <2>6, <2>7, Zenon
  <1> QED
    BY <1>1, <1>2, PieceParts

LEMMA PieceIsHarmless ==
    ASSUME NEW piece \in Pieces, IsAscii(piece.string)
    PROVE  LET result == Stripped(FALSE, Bytes(PieceText(piece)))
               expected == PieceText(Unprefixed(piece))
           IN  /\ IsHarmless(piece) => result = expected
               /\ ~ IsHarmless(piece) => Len(result) < Len(expected)
  <1> DEFINE head == TagHead(piece.prefixed)
             plain == TagHead(FALSE)
             string == piece.string
             kept == Stripped(TRUE, string)
             result == Stripped(FALSE, Bytes(PieceText(piece)))
             expected == PieceText(Unprefixed(piece))
  <1>1. string \in Seq(Symbols) /\ piece.tag \in BOOLEAN
    BY PieceParts
  <1>2. CASE ~ piece.tag
    <2>1. IsHarmless(piece) /\ PieceText(piece) = string /\ expected = string
      BY <1>2, PieceParts DEF IsHarmless, PieceText
    <2>2. result = string
      BY <1>1, <2>1, TextKeepsAll
    <2> QED
      BY <2>1, <2>2
  <1>3. CASE piece.tag
    <2>1. /\ head \in Seq(TextSymbols) /\ IsAscii(head)
          /\ plain \in Seq(TextSymbols) /\ Len(plain) = 3
          /\ Stripped(FALSE, head) = plain /\ InsideAfter(FALSE, head)
      <3>1. Len(plain) = 3
        BY DEF TagHead, Name
      <3> QED
        BY <3>1, PieceParts, HeadScan
    <2>2. string \in Seq(TextSymbols) /\ string \in Seq(ByteSymbols)
      BY <1>1, StringIsText
    <2>3. /\ PieceText(piece) = (head \o string) \o <<">">>
          /\ expected = (plain \o string) \o <<">">>
      BY <1>3, PieceParts DEF PieceText
    <2>4. Bytes(PieceText(piece)) = PieceText(piece)
      BY PieceTextType, AsciiIsItself
    <2>5. /\ head \in Seq(ByteSymbols) /\ ">" \in ByteSymbols
          /\ AsChar(">") = ">"
      BY <2>1, AsciiIsItself, BytesType DEF ByteSymbols, AsChar
    <2>6. /\ kept \in Seq(OutSymbols) /\ plain \in Seq(OutSymbols)
          /\ string \in Seq(OutSymbols) \cup Seq(Symbols)
      BY <1>1, <2>1, <2>2, <2>5, EmissionsType
    <2>7. IsHarmless(piece) <=> ~ ExposesPrefix(string)
      BY <1>3 DEF IsHarmless
    <2>8. /\ ExposesPrefix(string) => Len(kept) < Len(string)
          /\ ~ ExposesPrefix(string) => kept = string
      BY <1>1, ValueLosesExposed
    <2> HIDE DEF head, plain, string, expected
    <2>9. Stripped(FALSE, head \o string) = plain \o kept
      <3>1. InsideAfter(FALSE, head) = TRUE
        BY <2>1, SMT DEF InsideAfter, InsideAt
      <3> QED
        BY <2>1, <2>2, <2>5, <3>1, ScanOfConcat
    <2>10. result = (plain \o kept) \o <<">">>
      <3>1. head \o string \in Seq(ByteSymbols)
        BY <2>2, <2>5, ConcatProperties
      <3>2. PieceText(piece) = Append(head \o string, ">")
        BY <2>3, <2>5, <3>1, AppendIsConcat
      <3>3. Emitted(InsideAfter(FALSE, head \o string), ">") = <<">">>
        BY <2>5 DEF Emitted
      <3>4. Stripped(FALSE, Append(head \o string, ">"))
              = Stripped(FALSE, head \o string)
                  \o Emitted(InsideAfter(FALSE, head \o string), ">")
        <4>1. FALSE \in BOOLEAN
          OBVIOUS
        <4> QED
          BY <2>5, <3>1, <4>1, StrippedOfAppend, Zenon
      <3> QED
        BY <2>4, <2>9, <3>2, <3>3, <3>4, Zenon
    <2> HIDE DEF kept, result
    <2>11. ASSUME ExposesPrefix(string)
           PROVE  Len(result) < Len(expected)
      <3>1. Len(result) = (3 + Len(kept)) + 1 /\ Len(kept) \in Nat
        <4>1. plain \o kept \in Seq(OutSymbols) /\ Len(plain \o kept) = 3 + Len(kept)
          <5>1. plain \in Seq(OutSymbols) /\ kept \in Seq(OutSymbols)
            BY <2>6
          <5>2. /\ plain \o kept \in Seq(OutSymbols)
                /\ Len(plain \o kept) = Len(plain) + Len(kept)
            BY <5>1, ConcatProperties
          <5> QED
            BY <2>1, <5>2
        <4>2. <<">">> \in Seq(OutSymbols) /\ Len(<<">">>) = 1
          BY DEF OutSymbols
        <4>3. Len(result) = Len(plain \o kept) + 1
          BY <2>10, <4>1, <4>2, ConcatProperties
        <4> QED
          BY <2>6, <4>1, <4>3
      <3>2. Len(expected) = (3 + Len(string)) + 1 /\ Len(string) \in Nat
        <4>1. /\ plain \o string \in Seq(TextSymbols)
              /\ Len(plain \o string) = 3 + Len(string)
          <5>1. plain \in Seq(TextSymbols) /\ string \in Seq(TextSymbols)
            BY <2>1, <2>2
          <5>2. /\ plain \o string \in Seq(TextSymbols)
                /\ Len(plain \o string) = Len(plain) + Len(string)
            BY <5>1, ConcatProperties
          <5> QED
            BY <2>1, <5>2
        <4>2. <<">">> \in Seq(TextSymbols) /\ Len(<<">">>) = 1
          BY DEF TextSymbols
        <4>3. Len(expected) = Len(plain \o string) + 1
          BY <2>3, <4>1, <4>2, ConcatProperties
        <4> QED
          BY <2>2, <4>1, <4>3
      <3>3. Len(kept) < Len(string)
        BY <2>8, <2>11
      <3> QED
        BY <3>1, <3>2, <3>3
    <2>12. ASSUME ~ ExposesPrefix(string)
           PROVE  result = expected
      BY <2>3, <2>8, <2>10, <2>12
    <2> QED
      BY <2>7, <2>11, <2>12 DEF result, expected
  <1> QED
    BY <1>1, <1>2, <1>3
-----------------------------------------------------------------------------
(***************************************************************************)
(* Documents, piece by piece.                                              *)
(***************************************************************************)
Texts(pieces) == [k \in 1..Len(pieces) |-> PieceText(pieces[k])]

AllPlain(pieces) == [k \in 1..Len(pieces) |-> Unprefixed(pieces[k])]

AllHarmless(pieces) == \A k \in 1..Len(pieces) : IsHarmless(pieces[k])

LEMMA WholeIsFlat ==
    ASSUME NEW pieces
    PROVE  Whole(pieces) = FlattenSeq(Texts(pieces))
  BY DEF Whole, Texts, PieceText, TagHead

LEMMA WholeOfAppend ==
    ASSUME NEW pieces \in Seq(Pieces), NEW piece \in Pieces
    PROVE  /\ Whole(Append(pieces, piece)) = Whole(pieces) \o PieceText(piece)
           /\ Whole(pieces) \in Seq(TextSymbols)
  <1> DEFINE more == Append(pieces, piece)
             n == Len(pieces)
             f == Texts(more)
             g == Texts(pieces)
  <1>1. /\ n \in Nat /\ Len(more) = n + 1 /\ more[n + 1] = piece
        /\ \A k \in 1..n : pieces[k] = more[k]
    OBVIOUS
  <1>2. more \in Seq(Pieces) /\ n \in Nat
    BY AppendProperties
  <1> HIDE DEF more, n
  <1>3. f \in [1..(n + 1) -> Seq(TextSymbols)]
    <2>1. \A k \in 1..Len(more) : more[k] \in Pieces
      BY <1>2, ElementOfSeq
    <2>2. \A k \in 1..Len(more) : PieceText(more[k]) \in Seq(TextSymbols)
      BY <2>1, PieceTextType
    <2> QED
      BY <1>1, <2>2 DEF Texts
  <1>4. f[n + 1] = PieceText(piece) /\ [k \in 1..n |-> f[k]] = g
    <2>1. n + 1 \in 1..Len(more) /\ \A k \in 1..n : k \in 1..Len(more)
      BY <1>1, <1>2
    <2> QED
      BY <1>1, <2>1 DEF Texts, n
  <1>5. PieceText(piece) \in Seq(TextSymbols)
    BY PieceTextType
  <1> HIDE DEF f, g
  <1>6. g \in Seq(Seq(TextSymbols)) /\ f = Append(g, PieceText(piece))
    BY <1>2, <1>3, <1>4, OneMore
  <1>7. /\ FlattenSeq(f) = FlattenSeq(g) \o PieceText(piece)
        /\ FlattenSeq(g) \in Seq(TextSymbols)
    BY <1>5, <1>6, FlattenAppend, FlattenSeqInSeq
  <1> QED
    BY <1>7, WholeIsFlat DEF f, g, more

LEMMA PlainOfAppend ==
    ASSUME NEW pieces \in Seq(Pieces), NEW piece \in Pieces
    PROVE  /\ AllPlain(pieces) \in Seq(Pieces)
           /\ AllPlain(Append(pieces, piece))
                = Append(AllPlain(pieces), Unprefixed(piece))
           /\ AllHarmless(Append(pieces, piece))
                <=> AllHarmless(pieces) /\ IsHarmless(piece)
  <1> DEFINE more == Append(pieces, piece)
             n == Len(pieces)
             f == AllPlain(more)
             g == AllPlain(pieces)
  <1>1. /\ n \in Nat /\ Len(more) = n + 1 /\ more[n + 1] = piece
        /\ \A k \in 1..n : pieces[k] = more[k]
    OBVIOUS
  <1>2. more \in Seq(Pieces) /\ n \in Nat
    BY AppendProperties
  <1> HIDE DEF more, n
  <1>3. f \in [1..(n + 1) -> Pieces]
    <2>1. \A k \in 1..Len(more) : more[k] \in Pieces
      BY <1>2, ElementOfSeq
    <2>2. \A k \in 1..Len(more) : Unprefixed(more[k]) \in Pieces
      BY <2>1, PieceParts
    <2> QED
      BY <1>1, <2>2 DEF AllPlain
  <1>4. f[n + 1] = Unprefixed(piece) /\ [k \in 1..n |-> f[k]] = g
    <2>1. n + 1 \in 1..Len(more) /\ \A k \in 1..n : k \in 1..Len(more)
      BY <1>1, <1>2
    <2> QED
      BY <1>1, <2>1 DEF AllPlain, n
  <1>5. AllHarmless(more) <=> AllHarmless(pieces) /\ IsHarmless(piece)
    <2>1. \A k \in 1..(n + 1) : k \in 1..n \/ k = n + 1
      BY <1>2
    <2>2. n + 1 \in 1..(n + 1) /\ \A k \in 1..n : k \in 1..(n + 1)
      BY <1>2
    <2> QED
      BY <1>1, <2>1, <2>2 DEF AllHarmless, n
  <1> HIDE DEF f, g
  <1>6. g \in Seq(Pieces) /\ f = Append(g, Unprefixed(piece))
    BY <1>2, <1>3, <1>4, OneMore
  <1> QED
    BY <1>5, <1>6 DEF f, g, more

(***************************************************************************)
(* The claim for a whole document.  A wide character shows in what is      *)
(* expected and never in the result; without one, an exposed prefix makes  *)
(* the result shorter than what is expected.                               *)
(***************************************************************************)
Result(pieces) == Stripped(FALSE, Bytes(Whole(pieces)))
Plain(pieces) == Whole(AllPlain(pieces))

DocumentClaim(pieces) ==
    /\ InsideAfter(FALSE, Bytes(Whole(pieces))) = FALSE
    /\ AllHarmless(pieces) => /\ Result(pieces) = Plain(pieces)
                              /\ IsAscii(Plain(pieces))
    /\ (~ AllHarmless(pieces) /\ IsAscii(Plain(pieces)))
         => Len(Result(pieces)) < Len(Plain(pieces))

LEMMA DocumentStep ==
    ASSUME NEW pieces \in Seq(Pieces), NEW piece \in Pieces,
           DocumentClaim(pieces)
    PROVE  DocumentClaim(Append(pieces, piece))
  <1> DEFINE more == Append(pieces, piece)
             w == Whole(pieces)
             t == PieceText(piece)
             r == Result(pieces)
             p == Plain(pieces)
             rt == Stripped(FALSE, Bytes(t))
             pt == PieceText(Unprefixed(piece))
  <1>1. /\ w \in Seq(TextSymbols) /\ t \in Seq(TextSymbols)
        /\ Whole(more) = w \o t
    BY WholeOfAppend, PieceTextType
  <1>2. /\ p \in Seq(TextSymbols) /\ pt \in Seq(TextSymbols)
        /\ Plain(more) = p \o pt
        /\ IsAscii(pt) <=> IsAscii(piece.string)
    <2>1. Unprefixed(piece) \in Pieces /\ Unprefixed(piece).string = piece.string
      BY PieceParts
    <2>2. /\ AllPlain(pieces) \in Seq(Pieces)
          /\ AllPlain(more) = Append(AllPlain(pieces), Unprefixed(piece))
      BY PlainOfAppend
    <2> HIDE DEF more
    <2> QED
      BY <2>1, <2>2, WholeOfAppend, PieceTextType DEF Plain
  <1>3. /\ Bytes(w) \in Seq(ByteSymbols) /\ Bytes(t) \in Seq(ByteSymbols)
        /\ Bytes(Whole(more)) = Bytes(w) \o Bytes(t)
    BY <1>1, BytesType, BytesOfConcat
  <1>4. /\ InsideAfter(FALSE, Bytes(w)) = FALSE
        /\ InsideAfter(FALSE, Bytes(t)) = FALSE
    BY PieceEndsOutside DEF DocumentClaim
  <1>5. /\ InsideAfter(FALSE, Bytes(Whole(more))) = FALSE
        /\ Result(more) = r \o rt
    <2> HIDE DEF more, w, t
    <2>1. /\ Stripped(FALSE, Bytes(w) \o Bytes(t))
               = Stripped(FALSE, Bytes(w)) \o Stripped(FALSE, Bytes(t))
          /\ InsideAfter(FALSE, Bytes(w) \o Bytes(t)) = FALSE
      BY <1>3, <1>4, ScanOfConcat
    <2> QED
      BY <1>3, <2>1 DEF Result, w
  <1>6. r \in Seq(OutSymbols) /\ rt \in Seq(OutSymbols)
    <2> HIDE DEF w, t
    <2> QED
      BY <1>3, EmissionsType DEF Result, w
  <1>7. /\ AllHarmless(more) <=> AllHarmless(pieces) /\ IsHarmless(piece)
        /\ IsAscii(Plain(more)) <=> IsAscii(p) /\ IsAscii(pt)
    BY <1>2, PlainOfAppend, AsciiOfConcat
  <1>8. /\ IsHarmless(piece) => rt = pt /\ IsAscii(pt)
        /\ (~ IsHarmless(piece) /\ IsAscii(pt)) => Len(rt) < Len(pt)
    <2>1. IsHarmless(piece) => IsAscii(piece.string)
      BY DEF IsHarmless
    <2> QED
      BY <1>2, <2>1, PieceIsHarmless
  <1>9. /\ AllHarmless(pieces) => r = p /\ IsAscii(p)
        /\ (~ AllHarmless(pieces) /\ IsAscii(p)) => Len(r) < Len(p)
    BY DEF DocumentClaim
  <1> HIDE DEF more, w, t, r, p, rt, pt
  <1>10. ASSUME AllHarmless(more)
         PROVE  Result(more) = Plain(more) /\ IsAscii(Plain(more))
    BY <1>2, <1>5, <1>7, <1>8, <1>9, <1>10
  <1>11. ASSUME ~ AllHarmless(more), IsAscii(Plain(more))
         PROVE  Len(Result(more)) < Len(Plain(more))
    <2>1. Len(Result(more)) = Len(r) + Len(rt)
      BY <1>5, <1>6, ConcatProperties
    <2>2. Len(Plain(more)) = Len(p) + Len(pt)
      BY <1>2, ConcatProperties
    <2>3. /\ Len(r) \in Nat /\ Len(rt) \in Nat
          /\ Len(p) \in Nat /\ Len(pt) \in Nat
      BY <1>2, <1>6, LenProperties
    <2>4. Len(r) <= Len(p) /\ Len(rt) <= Len(pt)
      BY <1>7, <1>8, <1>9, <1>11, <2>3
    <2>5. Len(r) < Len(p) \/ Len(rt) < Len(pt)
      BY <1>7, <1>8, <1>9, <1>11
    <2> QED
      BY <2>1, <2>2, <2>3, <2>4, <2>5
  <1> QED
    BY <1>5, <1>10, <1>11 DEF DocumentClaim, more

LEMMA DocumentsFollowClaim == \A pieces \in Seq(Pieces) : DocumentClaim(pieces)
  <1> DEFINE P == {pieces \in Seq(Pieces) : DocumentClaim(pieces)}
  <1>1. <<>> \in P
    <2>1. Texts(<<>>) = <<>> /\ AllPlain(<<>>) = <<>> /\ AllHarmless(<<>>)
      BY DEF Texts, AllPlain, AllHarmless
    <2>2. Whole(<<>>) = <<>>
      BY <2>1, WholeIsFlat, FlattenSeqOfNone
    <2>3. Result(<<>>) = <<>> /\ Plain(<<>>) = <<>>
      BY <2>1, <2>2, BytesOfNone, ScanOfNone DEF Result, Plain
    <2>4. InsideAfter(FALSE, Bytes(Whole(<<>>))) = FALSE
      BY <2>2, BytesOfNone, SMT DEF InsideAfter, InsideAt
    <2>5. IsAscii(<<>>)
      BY DEF IsAscii
    <2>6. DocumentClaim(<<>>)
      BY <2>1, <2>3, <2>4, <2>5 DEF DocumentClaim
    <2> QED
      BY <2>6, EmptySeq
  <1>2. ASSUME NEW pieces \in Seq(Pieces), NEW piece \in Pieces, pieces \in P
        PROVE  Append(pieces, piece) \in P
    BY <1>2, DocumentStep, AppendProperties
  <1> HIDE DEF P
  <1>3. \A pieces \in Seq(Pieces) : pieces \in P
    BY <1>1, <1>2, SequenceInduction
  <1> QED
    BY <1>3 DEF P

LEMMA ExactlyTheHarmless ==
    ASSUME NEW pieces \in Seq(Pieces)
    PROVE  Result(pieces) = Plain(pieces) <=> AllHarmless(pieces)
  <1> SUFFICES ASSUME ~ AllHarmless(pieces), Result(pieces) = Plain(pieces)
               PROVE  FALSE
    BY DocumentsFollowClaim DEF DocumentClaim
  <1>1. Result(pieces) \in Seq(OutSymbols)
    <2>1. Whole(pieces) \in Seq(TextSymbols)
      <3>1. PICK piece \in Pieces : TRUE
        <4>1. Len(pieces) \in Nat /\ ~(1..Len(pieces) = {})
          BY DEF AllHarmless
        <4>2. 1 \in 1..Len(pieces)
          BY <4>1
        <4> QED
          BY <4>2, ElementOfSeq
      <3> QED
        BY WholeOfAppend
    <2> QED
      BY <2>1, BytesType, EmissionsType DEF Result
  <1>2. IsAscii(Result(pieces))
    <2> SUFFICES ASSUME NEW k \in 1..Len(Result(pieces)),
                        Result(pieces)[k] = "wide"
                 PROVE  FALSE
      BY DEF IsAscii
    <2>1. Result(pieces)[k] \in OutSymbols
      BY <1>1, ElementOfSeq
    <2> QED
      BY <2>1 DEF OutSymbols
  <1>3. Len(Result(pieces)) < Len(Plain(pieces))
    BY <1>2, DocumentsFollowClaim DEF DocumentClaim
  <1>4. Len(Result(pieces)) \in Nat
    BY <1>1, LenProperties
  <1> QED
    BY <1>3, <1>4
-----------------------------------------------------------------------------
(***************************************************************************)
(* The invariant of the loop: its variables are the functions above of the *)
(* bytes that it has consumed.                                             *)
(***************************************************************************)
ScanInv ==
    /\ document \in Seq(Pieces)
    /\ ~ scanning => /\ bytes = <<>> /\ i = 0 /\ out = <<>>
                     /\ insideTag = FALSE
    /\ scanning =>
          /\ bytes = Bytes(Source) /\ bytes \in Seq(ByteSymbols)
          /\ i \in 0..Len(bytes)
          /\ insideTag = InsideAfter(FALSE, SubSeq(bytes, 1, i))
          /\ out = Stripped(FALSE, SubSeq(bytes, 1, i))

LEMMA SourceIsText ==
    ASSUME NEW pieces \in Seq(Pieces)
    PROVE  Whole(pieces) \in Seq(TextSymbols)
  <1>1. CASE pieces = <<>>
    <2>1. Texts(<<>>) = <<>>
      BY DEF Texts
    <2> QED
      BY <1>1, <2>1, WholeIsFlat, FlattenSeqOfNone, EmptySeq
  <1>2. CASE pieces # <<>>
    <2>1. PICK s \in Seq(Pieces), piece \in Pieces : pieces = Append(s, piece)
      BY <1>2, SequenceEmptyOrAppend
    <2> QED
      BY WholeOfAppend, <2>1
  <1> QED
    BY <1>1, <1>2

\* What consuming the next byte makes of the two functions.
Extends(seen, byte, next) ==
    /\ byte \in ByteSymbols
    /\ Stripped(FALSE, next)
         = Stripped(FALSE, seen) \o Emitted(InsideAfter(FALSE, seen), byte)
    /\ byte = "<" => InsideAfter(FALSE, next) = TRUE
    /\ byte = ">" => InsideAfter(FALSE, next) = FALSE
    /\ byte \notin {"<", ">"} =>
          InsideAfter(FALSE, next) = InsideAfter(FALSE, seen)

LEMMA NextByte ==
    ASSUME NEW text \in Seq(ByteSymbols), NEW n \in 0..(Len(text) - 1)
    PROVE  Extends(SubSeq(text, 1, n), text[n + 1], SubSeq(text, 1, n + 1))
  <1> DEFINE seen == SubSeq(text, 1, n)
             byte == text[n + 1]
             next == SubSeq(text, 1, n + 1)
  <1>1. Len(text) \in Nat /\ n + 1 \in 1..Len(text) /\ n \in 0..Len(text)
        /\ (n + 1) - 1 = n /\ n + 1 \in 0..Len(text)
    OBVIOUS
  <1>2. byte \in ByteSymbols
    BY <1>1, ElementOfSeq
  <1>3. seen \in Seq(ByteSymbols)
    <2>1. \A k \in 1..n : text[k] \in ByteSymbols
      BY <1>1, ElementOfSeq
    <2> QED
      BY <2>1, SubSeqProperties
  <1>4. next = Append(seen, byte)
    <2>1. 1 \in 1..Len(text) /\ n + 1 \in 1..Len(text)
      BY <1>1
    <2>2. next = SubSeq(text, 1, (n + 1) - 1) \o <<text[n + 1]>>
      BY <2>1, SubSeqRecursiveSecond
    <2> QED
      BY <1>1, <1>2, <1>3, <2>2, AppendIsConcat
  <1> HIDE DEF seen, byte, next
  <1>5. Stripped(FALSE, next)
          = Stripped(FALSE, seen) \o Emitted(InsideAfter(FALSE, seen), byte)
    BY <1>2, <1>3, <1>4, StrippedOfAppend
  <1>6. /\ byte = "<" => InsideAfter(FALSE, next)
        /\ byte = ">" => ~ InsideAfter(FALSE, next)
        /\ byte \notin {"<", ">"} =>
              InsideAfter(FALSE, next) = InsideAfter(FALSE, seen)
    <2>1. FALSE \in BOOLEAN
      OBVIOUS
    <2>2. /\ byte = "<" => InsideAfter(FALSE, Append(seen, byte))
          /\ byte = ">" => ~ InsideAfter(FALSE, Append(seen, byte))
          /\ byte \notin {"<", ">"} =>
                InsideAfter(FALSE, Append(seen, byte)) = InsideAfter(FALSE, seen)
      BY <1>2, <1>3, <2>1, InsideOfAppend, Zenon
    <2> QED
      BY <1>4, <2>2, Zenon
  <1>7. InsideAfter(FALSE, next) \in BOOLEAN
    BY DEF InsideAfter, InsideAt
  <1>8. /\ byte = "<" => InsideAfter(FALSE, next) = TRUE
        /\ byte = ">" => InsideAfter(FALSE, next) = FALSE
    BY <1>6, <1>7
  <1> QED
    BY <1>2, <1>5, <1>6, <1>8, Zenon DEF Extends, seen, byte, next

LEMMA AlwaysScanInv == ScanSpec => []ScanInv
  <1>1. ScanInit => ScanInv
    BY EmptySeq DEF ScanInit, ScanInv
  <1>2. ScanInv /\ [ScanNext]_scanVars => ScanInv'
    <2> SUFFICES ASSUME ScanInv, [ScanNext]_scanVars
                 PROVE  ScanInv'
      OBVIOUS
    <2>1. ASSUME NEW piece \in Pieces, Write(piece)
          PROVE  ScanInv'
      <3>1. document' \in Seq(Pieces)
        BY <2>1, AppendProperties DEF Write, ScanInv
      <3> QED
        BY <2>1, <3>1 DEF Write, ScanInv
    <2>2. CASE Call
      <3>1. Source \in Seq(TextSymbols)
        BY SourceIsText DEF Source, ScanInv
      <3>2. bytes' = Bytes(Source) /\ bytes' \in Seq(ByteSymbols)
        BY <2>2, <3>1, BytesType DEF Call
      <3>3. /\ document' = document /\ scanning' = TRUE
            /\ i' = 0 /\ out' = <<>> /\ insideTag' = FALSE
        BY <2>2 DEF Call, ScanInv
      <3>4. Source' = Source
        BY <3>3 DEF Source
      <3>5. Len(bytes') \in Nat /\ SubSeq(bytes', 1, 0) = <<>>
        BY <3>2, SubSeqEmpty, LenProperties
      <3>6. Stripped(FALSE, <<>>) = <<>> /\ InsideAfter(FALSE, <<>>) = FALSE
        <4>1. Stripped(FALSE, <<>>) = <<>> /\ ~ InsideAfter(FALSE, <<>>)
          BY ScanOfNone
        <4>2. InsideAfter(FALSE, <<>>) \in BOOLEAN
          BY DEF InsideAfter, InsideAt
        <4> QED
          BY <4>1, <4>2
      <3>7. /\ out' = Stripped(FALSE, SubSeq(bytes', 1, i'))
            /\ insideTag' = InsideAfter(FALSE, SubSeq(bytes', 1, i'))
        BY <3>3, <3>5, <3>6, Zenon
      <3>8. i' \in 0..Len(bytes')
        BY <3>3, <3>5
      <3>9. bytes' = Bytes(Source')
        BY <3>2, <3>4
      <3>10. document' \in Seq(Pieces)
        BY <3>3 DEF ScanInv
      <3> QED
        BY <3>2, <3>3, <3>7, <3>8, <3>9, <3>10 DEF ScanInv
    <2>3. CASE Scan
      <3> DEFINE seen == SubSeq(bytes, 1, i)
                 next == SubSeq(bytes, 1, i + 1)
                 byte == bytes[i + 1]
                 inside == InsideAfter(FALSE, seen)
      <3>1. MoreBytes /\ UNCHANGED <<document, bytes, scanning>> /\ i' = i + 1
        BY <2>3 DEF Scan, OpenTag, CloseTag, StripPrefix, CopyByte, Meets, Consume
      <3>2. /\ scanning /\ bytes = Bytes(Source) /\ bytes \in Seq(ByteSymbols)
            /\ i \in 0..(Len(bytes) - 1)
            /\ insideTag = inside /\ out = Stripped(FALSE, seen)
            /\ document \in Seq(Pieces)
        BY <3>1 DEF ScanInv, MoreBytes
      <3>3. /\ byte \in ByteSymbols /\ i + 1 \in 0..Len(bytes)
            /\ Stripped(FALSE, next) = out \o Emitted(insideTag, byte)
            /\ byte = "<" => InsideAfter(FALSE, next) = TRUE
            /\ byte = ">" => InsideAfter(FALSE, next) = FALSE
            /\ byte \notin {"<", ">"} => InsideAfter(FALSE, next) = insideTag
        <4>1. i + 1 \in 0..Len(bytes)
          BY <3>2
        <4>2. Extends(seen, byte, next)
          BY <3>2, NextByte
        <4>3. insideTag = InsideAfter(FALSE, seen) /\ out = Stripped(FALSE, seen)
          BY <3>2
        <4> HIDE DEF seen, next, byte, inside
        <4> QED
          BY <4>1, <4>2, <4>3, Zenon DEF Extends
      <3>4. Source' = Source
        BY <3>1 DEF Source
      <3>5. /\ out' = out \o Emitted(insideTag, byte)
            /\ byte = "<" => insideTag' = TRUE
            /\ byte = ">" => insideTag' = FALSE
            /\ byte \notin {"<", ">"} => insideTag' = insideTag
        <4>1. CASE OpenTag
          BY <4>1 DEF OpenTag, Meets, Consume, Emitted, AsChar
        <4>2. CASE CloseTag
          BY <4>2 DEF CloseTag, Meets, Consume, Emitted, AsChar
        <4>3. CASE StripPrefix
          BY <4>3 DEF StripPrefix, Meets, Consume, Emitted
        <4>4. CASE CopyByte
          BY <4>4 DEF CopyByte, Consume, Emitted
        <4> QED
          BY <2>3, <4>1, <4>2, <4>3, <4>4 DEF Scan
      <3>6. /\ insideTag' = InsideAfter(FALSE, next)
            /\ out' = Stripped(FALSE, next)
        BY <3>3, <3>5
      <3>7. /\ scanning' /\ bytes' = bytes /\ i' = i + 1 /\ document' = document
            /\ SubSeq(bytes', 1, i') = next
        BY <3>1, <3>2
      <3> HIDE DEF next, byte, seen, inside
      <3> QED
        BY <3>2, <3>3, <3>4, <3>6, <3>7 DEF ScanInv
    <2>4. CASE UNCHANGED scanVars
      BY <2>4 DEF ScanInv, scanVars, Source
    <2> QED
      BY <2>1, <2>2, <2>3, <2>4 DEF ScanNext
  <1> QED
    BY <1>1, <1>2, PTL DEF ScanSpec

(***************************************************************************)
(* StripsExactlyNames: for every document, of any length and with strings  *)
(* of any length, strip_tag_prefixes returns the document with its names   *)
(* unprefixed, and nothing else changed, exactly when every character is   *)
(* ASCII and no attribute value has a prefix before its first ">".         *)
(***************************************************************************)
THEOREM StripsExactlyNames == ScanSpec => []StripsNamesOnly
  <1>1. ScanInv => StripsNamesOnly
    <2> SUFFICES ASSUME ScanInv, Returned
                 PROVE  out = Expected
                          <=> \A k \in 1..Len(document) : IsHarmless(document[k])
      BY DEF StripsNamesOnly
    <2>1. /\ scanning /\ document \in Seq(Pieces)
          /\ bytes = Bytes(Source) /\ bytes \in Seq(ByteSymbols)
          /\ i = Len(bytes) /\ out = Stripped(FALSE, SubSeq(bytes, 1, i))
      BY DEF ScanInv, Returned, MoreBytes
    <2>2. SubSeq(bytes, 1, i) = bytes
      BY <2>1, SubSeqFull
    <2>3. out = Result(document)
      BY <2>1, <2>2 DEF Result, Source
    <2>4. Expected = Plain(document)
      BY DEF Expected, Plain, AllPlain, Unprefixed
    <2> QED
      BY <2>1, <2>3, <2>4, ExactlyTheHarmless DEF AllHarmless
  <1> QED
    BY <1>1, AlwaysScanInv, PTL
=============================================================================
