---------------------------- MODULE XmlTextProofs ---------------------------
(***************************************************************************)
(* Proofs about texts, whatever they are made of: where the tags of a text *)
(* end, what is a child of what, how positions, Ids and the fields that a  *)
(* reader looks for add up when texts are joined and wrapped in elements,  *)
(* what is parsed and what its canonical form is; what changes leave of a  *)
(* text, and where a verifier looks in it.  XmlSigningProofs builds the    *)
(* documents of the signature code from them.                              *)
(***************************************************************************)
EXTENDS XmlSigning, SequenceTheorems, FiniteSetTheorems, TLAPS

Induct == INSTANCE SequenceInduction

-----------------------------------------------------------------------------
(***************************************************************************)
(* Texts, whatever their tokens are, and how they are joined.              *)
(***************************************************************************)
(* A sequence of something, whatever it is. *)
IsText(s) == \E T : s \in Seq(T)

(* Three texts are sequences over one set. *)
LEMMA OneSet ==
    ASSUME NEW a, IsText(a), NEW b, IsText(b), NEW c, IsText(c)
    PROVE  \E T : a \in Seq(T) /\ b \in Seq(T) /\ c \in Seq(T)
  <1>1. PICK A : a \in Seq(A)
    BY DEF IsText
  <1>2. PICK B : b \in Seq(B)
    BY DEF IsText
  <1>3. PICK C : c \in Seq(C)
    BY DEF IsText
  <1> DEFINE T == (A \cup B) \cup C
  <1>4. A \subseteq T /\ B \subseteq T /\ C \subseteq T
    OBVIOUS
  <1> HIDE DEF T
  <1>5. a \in Seq(T) /\ b \in Seq(T) /\ c \in Seq(T)
    BY <1>1, <1>2, <1>3, <1>4, SeqMonotonic
  <1> QED
    BY <1>5

(* What a text has as a sequence. *)
LEMMA TextIsSequence ==
    ASSUME NEW s, IsText(s)
    PROVE  Len(s) \in Nat /\ (Len(s) = 0 => s = <<>>)
  <1>1. PICK T : s \in Seq(T)
    BY DEF IsText
  <1> QED
    BY <1>1, EmptySeq

(* The empty text and the text of one token. *)
LEMMA ShortTexts ==
    /\ IsText(<<>>) /\ Len(<<>>) = 0
    /\ \A x : IsText(<<x>>) /\ Len(<<x>>) = 1 /\ <<x>>[1] = x
  <1>1. <<>> \in Seq({})
    BY EmptySeq
  <1>2. \A x : <<x>> \in Seq({x})
    OBVIOUS
  <1> QED
    BY <1>1, <1>2 DEF IsText

(* Joining, kept apart from \o so that the provers leave it alone. *)
Then(a, b) == a \o b

(* A text between two others. *)
Within(a, s, b) == Then(a, Then(s, b))

(* The tokens of a text that is joined of two. *)
LEMMA Join ==
    ASSUME NEW a, IsText(a), NEW b, IsText(b)
    PROVE  /\ IsText(Then(a, b)) /\ Len(Then(a, b)) = Len(a) + Len(b)
           /\ \A k \in 1..Len(a) : Then(a, b)[k] = a[k]
           /\ \A k \in 1..Len(b) : Then(a, b)[Len(a) + k] = b[k]
  <1> DEFINE all == a \o b
  <1>1. PICK T : a \in Seq(T) /\ b \in Seq(T)
    BY OneSet
  <1>2. /\ all \in Seq(T) /\ Len(all) = Len(a) + Len(b)
        /\ \A i \in 1..(Len(a) + Len(b)) :
              all[i] = IF i <= Len(a) THEN a[i] ELSE b[i - Len(a)]
    BY <1>1, ConcatProperties
  <1>3. Len(a) \in Nat /\ Len(b) \in Nat
    BY TextIsSequence
  <1>4. all = Then(a, b)
    BY DEF Then
  <1> HIDE DEF all
  <1>5. \A k \in 1..Len(a) : all[k] = a[k]
    BY <1>2, <1>3
  <1>6. ASSUME NEW k \in 1..Len(b)
        PROVE  all[Len(a) + k] = b[k]
    <2>1. /\ Len(a) + k \in 1..(Len(a) + Len(b)) /\ ~ (Len(a) + k <= Len(a))
          /\ (Len(a) + k) - Len(a) = k
      BY <1>3
    <2> QED
      BY <1>2, <2>1
  <1> QED
    BY <1>2, <1>4, <1>5, <1>6 DEF IsText

(* Joining is associative. *)
LEMMA Regroup ==
    ASSUME NEW a, IsText(a), NEW b, IsText(b), NEW c, IsText(c)
    PROVE  Then(Then(a, b), c) = Then(a, Then(b, c))
  <1>1. PICK T : a \in Seq(T) /\ b \in Seq(T) /\ c \in Seq(T)
    BY OneSet
  <1>2. (a \o b) \o c = a \o (b \o c)
    BY <1>1, ConcatAssociative
  <1> QED
    BY <1>2, Zenon DEF Then

(* Joining the empty text changes nothing. *)
LEMMA JoinNone ==
    ASSUME NEW a, IsText(a)
    PROVE  Then(a, <<>>) = a /\ Then(<<>>, a) = a
  <1>1. PICK T : a \in Seq(T)
    BY DEF IsText
  <1> QED
    BY <1>1, ConcatEmptySeq DEF Then

(* The tokens of a text between two others. *)
LEMMA WithinIs ==
    ASSUME NEW a, IsText(a), NEW s, IsText(s), NEW b, IsText(b)
    PROVE  /\ IsText(Within(a, s, b))
           /\ Len(Within(a, s, b)) = Len(a) + Len(s) + Len(b)
           /\ \A k \in 1..Len(a) : Within(a, s, b)[k] = a[k]
           /\ \A k \in 1..Len(s) : Within(a, s, b)[Len(a) + k] = s[k]
           /\ \A k \in 1..Len(b) : Within(a, s, b)[Len(a) + Len(s) + k] = b[k]
  <1> DEFINE t == Then(s, b)
             all == Then(a, t)
  <1>1. /\ IsText(t) /\ Len(t) = Len(s) + Len(b)
        /\ \A k \in 1..Len(s) : t[k] = s[k]
        /\ \A k \in 1..Len(b) : t[Len(s) + k] = b[k]
    BY Join
  <1>2. /\ IsText(all) /\ Len(all) = Len(a) + Len(t)
        /\ \A k \in 1..Len(a) : all[k] = a[k]
        /\ \A k \in 1..Len(t) : all[Len(a) + k] = t[k]
    <2>1. IsText(t)
      BY <1>1
    <2> HIDE DEF t
    <2> QED
      BY <2>1, Join
  <1>3. Within(a, s, b) = all
    BY DEF Within
  <1> HIDE DEF all, t
  <1>4. Len(a) \in Nat /\ Len(s) \in Nat /\ Len(b) \in Nat
    BY TextIsSequence
  <1>5. ASSUME NEW k \in 1..Len(s)
        PROVE  all[Len(a) + k] = s[k]
    <2>1. k \in 1..Len(t)
      BY <1>1, <1>4
    <2> QED
      BY <1>1, <1>2, <2>1
  <1>6. ASSUME NEW k \in 1..Len(b)
        PROVE  all[Len(a) + Len(s) + k] = b[k]
    <2>1. /\ Len(s) + k \in 1..Len(t)
          /\ Len(a) + (Len(s) + k) = Len(a) + Len(s) + k
      BY <1>1, <1>4
    <2> QED
      BY <1>1, <1>2, <2>1
  <1>7. Len(all) = Len(a) + Len(s) + Len(b)
    BY <1>1, <1>2, <1>4
  <1> QED
    BY <1>2, <1>3, <1>5, <1>6, <1>7

-----------------------------------------------------------------------------
(***************************************************************************)
(* The function that EndTag counts tags with.                              *)
(***************************************************************************)
(* One step of the count: from token j on, with depth elements open. *)
ScanStep(f, text, j, depth) ==
    IF j > Len(text) THEN 0
    ELSE IF text[j].kind = "text" THEN f[j + 1][depth]
    ELSE IF text[j].kind = "open" THEN f[j + 1][depth + 1]
    ELSE IF depth <= 1 THEN j
    ELSE f[j + 1][depth - 1]

(* f is the count that EndTag makes in text. *)
IsScan(f, text) ==
    f = [j \in Nat |-> [depth \in Nat |-> ScanStep(f, text, j, depth)]]

(* The count of EndTag, as a function of its own. *)
Scan(text) == CHOOSE f : IsScan(f, text)

(* EndTag is the count from its element on, with nothing open. *)
LEMMA EndTagScans ==
    ASSUME NEW text, NEW k
    PROVE  EndTag(text, k) = Scan(text)[k][0]
  BY DEF EndTag, Scan, IsScan, ScanStep

(* There is such a function for every text. *)
LEMMA ScanExists ==
    ASSUME NEW text, Len(text) \in Nat
    PROVE  \E f : IsScan(f, text)
  <1> DEFINE l == Len(text)
             Right(f, j) == /\ f[j] = [depth \in Nat |->
                                          ScanStep(f, text, j, depth)]
             S == {n \in Nat : \E f : /\ f = [j \in Nat |-> f[j]]
                                      /\ \A j \in Nat : j + n > l => Right(f, j)}
  <1>1. 0 \in S
    <2> DEFINE f == [j \in Nat |-> [depth \in Nat |-> 0]]
    <2>1. f = [j \in Nat |-> f[j]]
      OBVIOUS
    <2>2. ASSUME NEW j \in Nat, j + 0 > l
          PROVE  Right(f, j)
      <3>1. \A depth : ScanStep(f, text, j, depth) = 0
        BY <2>2 DEF ScanStep
      <3>2. f[j] = [depth \in Nat |-> 0]
        OBVIOUS
      <3> HIDE DEF f
      <3> QED
        BY <3>1, <3>2
    <2> HIDE DEF f, Right
    <2> QED
      BY <2>1, <2>2
  <1>2. ASSUME NEW n \in Nat, n \in S
        PROVE  n + 1 \in S
    <2>1. PICK f : /\ f = [j \in Nat |-> f[j]]
                   /\ \A j \in Nat : j + n > l => Right(f, j)
      BY <1>2
    <2> DEFINE row(j) == [depth \in Nat |-> ScanStep(f, text, j, depth)]
               g == [j \in Nat |-> IF j + (n + 1) > l THEN row(j) ELSE f[j]]
    <2>2. g = [j \in Nat |-> g[j]]
      OBVIOUS
    <2>3. ASSUME NEW j \in Nat, j + (n + 1) > l
          PROVE  Right(g, j)
      <3>1. g[j] = row(j)
        BY <2>3
      <3>2. j > l \/ g[j + 1] = f[j + 1]
        <4> SUFFICES ASSUME ~ (j > l)
                     PROVE  g[j + 1] = f[j + 1]
          OBVIOUS
        <4>1. j + 1 \in Nat /\ (j + 1) + n > l /\ (j + 1) + (n + 1) > l
          BY <2>3
        <4>2. f[j + 1] = row(j + 1)
          BY <2>1, <4>1
        <4>3. g[j + 1] = row(j + 1)
          BY <4>1
        <4> QED
          BY <4>2, <4>3
      <3> HIDE DEF g
      <3>3. \A depth \in Nat :
               ScanStep(g, text, j, depth) = ScanStep(f, text, j, depth)
        BY <3>2 DEF ScanStep
      <3> QED
        BY <3>1, <3>3
    <2> HIDE DEF g, Right
    <2>4. n + 1 \in Nat
      OBVIOUS
    <2> QED
      BY <2>2, <2>3, <2>4
  <1> HIDE DEF S
  <1>3. l + 1 \in S
    <2>1. \A n \in Nat : n \in S
      BY <1>1, <1>2, Induct!Induction
    <2> QED
      BY <2>1
  <1>4. PICK f : /\ f = [j \in Nat |-> f[j]]
                 /\ \A j \in Nat : j + (l + 1) > l => Right(f, j)
    BY <1>3 DEF S
  <1>5. \A j \in Nat : j + (l + 1) > l
    OBVIOUS
  <1>6. \A j \in Nat : f[j] = [depth \in Nat |-> ScanStep(f, text, j, depth)]
    BY <1>4, <1>5
  <1>7. [j \in Nat |-> f[j]]
          = [j \in Nat |-> [depth \in Nat |-> ScanStep(f, text, j, depth)]]
    BY <1>6
  <1>8. IsScan(f, text)
    BY <1>4, <1>7, Zenon DEF IsScan
  <1> QED
    BY <1>8

(* It does a step at every token. *)
LEMMA ScanIs ==
    ASSUME NEW text, NEW j \in Nat, NEW d \in Nat
    PROVE  Scan(text)[j][d] = ScanStep(Scan(text), text, j, d)
  <1> DEFINE f == Scan(text)
             g == [i \in Nat |-> [depth \in Nat |-> ScanStep(f, text, i, depth)]]
  <1>1. IsScan(f, text)
    BY ScanExists DEF Scan
  <1> HIDE DEF f
  <1>2. g[j][d] = ScanStep(f, text, j, d)
    OBVIOUS
  <1>3. f = g
    BY <1>1, Zenon DEF IsScan
  <1> HIDE DEF g
  <1> QED
    BY <1>2, <1>3, Zenon DEF f

(* Behind the text there is no end. *)
LEMMA ScanPast ==
    ASSUME NEW text, Len(text) \in Nat, NEW j \in Nat, NEW d \in Nat,
           j > Len(text)
    PROVE  Scan(text)[j][d] = 0
  <1>1. \A f : ScanStep(f, text, j, d) = 0
    BY DEF ScanStep
  <1> QED
    BY <1>1, ScanIs

(* A piece of text does not change the depth. *)
LEMMA ScanText ==
    ASSUME NEW text, Len(text) \in Nat, NEW j \in Nat, NEW d \in Nat,
           j <= Len(text), text[j].kind = "text", NEW i, i = j + 1
    PROVE  Scan(text)[j][d] = Scan(text)[i][d]
  <1>1. \A f : ScanStep(f, text, j, d) = f[i][d]
    BY DEF ScanStep
  <1> QED
    BY <1>1, ScanIs

(* A start tag makes the depth one more. *)
Deepens(f, j, d) == f[j][d] = f[j + 1][d + 1]

(* A start tag makes the depth one more. *)
LEMMA ScanOpen ==
    ASSUME NEW text, Len(text) \in Nat, NEW j \in Nat, NEW d \in Nat,
           j <= Len(text), text[j].kind = "open"
    PROVE  Deepens(Scan(text), j, d)
  <1>1. \A f : ScanStep(f, text, j, d) = f[j + 1][d + 1]
    BY DEF ScanStep
  <1>2. Scan(text)[j][d] = Scan(text)[j + 1][d + 1]
    BY <1>1, ScanIs
  <1> QED
    BY <1>2 DEF Deepens

(* An end tag makes it one less, and ends the count if it was one. *)
LEMMA ScanClose ==
    ASSUME NEW text, Len(text) \in Nat, NEW j \in Nat, NEW d \in Nat,
           j <= Len(text), text[j].kind \notin {"text", "open"},
           NEW i, i = j + 1
    PROVE  Scan(text)[j][d] = IF d <= 1 THEN j ELSE Scan(text)[i][d - 1]
  <1>1. \A f : ScanStep(f, text, j, d) = IF d <= 1 THEN j ELSE f[i][d - 1]
    BY DEF ScanStep
  <1> QED
    BY <1>1, ScanIs

(* A count finds an end tag behind where it begins, or nothing. *)
LEMMA ScanFindsEnds ==
    ASSUME NEW text, Len(text) \in Nat, NEW j \in Nat, NEW d \in Nat
    PROVE  \/ Scan(text)[j][d] = 0
           \/ /\ Scan(text)[j][d] \in j..Len(text)
              /\ text[Scan(text)[j][d]].kind \notin {"text", "open"}
  <1> DEFINE l == Len(text)
             Found(i, e) == /\ Scan(text)[i][e] \in i..l
                            /\ text[Scan(text)[i][e]].kind \notin {"text", "open"}
             S == {n \in Nat : \A i, e \in Nat :
                      i + n > l => Scan(text)[i][e] = 0 \/ Found(i, e)}
  <1>1. 0 \in S
    BY ScanPast
  <1>2. ASSUME NEW n \in Nat, n \in S
        PROVE  n + 1 \in S
    <2> SUFFICES ASSUME NEW i \in Nat, NEW e \in Nat, i + (n + 1) > l
                 PROVE  Scan(text)[i][e] = 0 \/ Found(i, e)
      OBVIOUS
    <2> SUFFICES ASSUME i <= l
                 PROVE  Scan(text)[i][e] = 0 \/ Found(i, e)
      <3>1. i > l => Scan(text)[i][e] = 0
        BY ScanPast
      <3> QED
        BY <3>1
    <2>1. i + 1 \in Nat /\ (i + 1) + n > l
      OBVIOUS
    <2>2. ASSUME NEW e2 \in Nat, Scan(text)[i][e] = Scan(text)[i + 1][e2]
          PROVE  Scan(text)[i][e] = 0 \/ Found(i, e)
      <3>1. Scan(text)[i + 1][e2] = 0 \/ Found(i + 1, e2)
        BY <1>2, <2>1
      <3>2. Found(i + 1, e2) => Found(i, e)
        <4>1. \A m \in (i + 1)..l : m \in i..l
          OBVIOUS
        <4> QED
          BY <2>2, <4>1
      <3> QED
        BY <2>2, <3>1, <3>2
    <2>3. CASE text[i].kind = "text"
      BY <2>2, <2>3, ScanText
    <2>4. CASE text[i].kind = "open"
      <3>1. i + 1 \in Nat /\ e + 1 \in Nat
        OBVIOUS
      <3>2. Deepens(Scan(text), i, e)
        BY <2>4, ScanOpen
      <3>3. Scan(text)[i][e] = Scan(text)[i + 1][e + 1]
        BY <3>2 DEF Deepens
      <3> QED
        BY <2>2, <3>1, <3>3
    <2>5. CASE text[i].kind \notin {"text", "open"}
      <3>1. CASE e <= 1
        <4>1. Scan(text)[i][e] = i
          BY <2>5, <3>1, ScanClose
        <4> QED
          BY <2>5, <4>1
      <3>2. CASE ~ (e <= 1)
        <4>1. e - 1 \in Nat /\ Scan(text)[i][e] = Scan(text)[i + 1][e - 1]
          BY <2>5, <3>2, ScanClose
        <4> QED
          BY <2>2, <4>1
      <3> QED
        BY <3>1, <3>2
    <2> QED
      BY <2>3, <2>4, <2>5
  <1> HIDE DEF S
  <1>3. l + 1 \in S
    <2>1. \A n \in Nat : n \in S
      BY <1>1, <1>2, Induct!Induction
    <2> QED
      BY <2>1
  <1>4. j + (l + 1) > l
    OBVIOUS
  <1> QED
    BY <1>3, <1>4 DEF S

(* An element ends behind its start tag, at an end tag, or nowhere. *)
LEMMA EndTagOfOpen ==
    ASSUME NEW text, Len(text) \in Nat, NEW k \in Elements(text)
    PROVE  /\ EndTag(text, k) = Scan(text)[k + 1][1]
           /\ EndTag(text, k) = 0 \/
                 /\ EndTag(text, k) \in (k + 1)..Len(text)
                 /\ text[EndTag(text, k)].kind \notin {"text", "open"}
  <1>1. /\ k \in Nat /\ k <= Len(text) /\ text[k].kind = "open"
        /\ k + 1 \in Nat /\ 0 \in Nat /\ 1 \in Nat
    BY DEF Elements, Opens
  <1>2. Scan(text)[k][0] = Scan(text)[k + 1][1]
    <2>1. Deepens(Scan(text), k, 0) /\ 0 + 1 = 1
      BY <1>1, ScanOpen
    <2> QED
      BY <2>1 DEF Deepens
  <1>3. EndTag(text, k) = Scan(text)[k + 1][1]
    BY <1>2, EndTagScans
  <1>4. \/ Scan(text)[k + 1][1] = 0
        \/ /\ Scan(text)[k + 1][1] \in (k + 1)..Len(text)
           /\ text[Scan(text)[k + 1][1]].kind \notin {"text", "open"}
    BY <1>1, ScanFindsEnds
  <1> QED
    BY <1>3, <1>4

-----------------------------------------------------------------------------
(***************************************************************************)
(* Nested: start and end tags of a text pair up within it, and wherever it *)
(* stands in a larger text its elements end where they do when it is alone *)
(* and a count of the depth is after it what it was before.                *)
(***************************************************************************)
(* There is an end tag at e. *)
IsEnd(text, e) == e \in 1..Len(text) /\ text[e].kind \notin {"text", "open"}

(* Every element ends within s, at its own end tag, and every end tag of s  *)
(* ends an element of s.                                                    *)
EndsInside(s) ==
    /\ \A k \in Elements(s) :
          /\ EndTag(s, k) \in (k + 1)..Len(s)
          /\ s[EndTag(s, k)] = Close(s[k].name)
    /\ \A e \in 1..Len(s) :
          IsEnd(s, e) => \E k \in Elements(s) : EndTag(s, k) = e

(* At n of all, the elements of s end as they do in s, and the count passes *)
(* s with the depth it came with.                                           *)
EndsMove(s, all, n) ==
    /\ \A k \in Elements(s) : EndTag(all, n + k) = n + EndTag(s, k)
    /\ \A d \in Nat \ {0} : Scan(all)[n + 1][d] = Scan(all)[n + Len(s) + 1][d]

(* Start and end tags pair up, wherever the text stands. *)
Nested(s) ==
    /\ IsText(s)
    /\ EndsInside(s)
    /\ \A a, b : IsText(a) /\ IsText(b) => EndsMove(s, Within(a, s, b), Len(a))

(* Elements, by its members. *)
LEMMA ElementsOf ==
    ASSUME NEW text
    PROVE  /\ \A k : k \in Elements(text)
                       <=> k \in 1..Len(text) /\ text[k].kind = "open"
           /\ \A k \in Elements(text) : k \in Nat \ {0}
  BY DEF Elements, Opens

(* The empty text is nested. *)
LEMMA NestedNone == Nested(<<>>)
  <1>1. Elements(<<>>) = {} /\ IsText(<<>>) /\ Len(<<>>) = 0
    BY ShortTexts DEF Elements
  <1>2. EndsInside(<<>>)
    BY <1>1 DEF EndsInside
  <1>3. ASSUME NEW a, IsText(a), NEW b, IsText(b)
        PROVE  EndsMove(<<>>, Within(a, <<>>, b), Len(a))
    <2>1. Len(a) \in Nat
      BY <1>3, TextIsSequence
    <2>2. Len(a) + 1 = Len(a) + Len(<<>>) + 1
      BY <1>1, <2>1
    <2> QED
      BY <1>1, <2>2, Zenon DEF EndsMove
  <1> QED
    BY <1>1, <1>2, <1>3 DEF Nested

(* So is a piece of text. *)
LEMMA NestedText ==
    ASSUME NEW x
    PROVE  Nested(<<Text(x)>>)
  <1> DEFINE s == <<Text(x)>>
  <1>1. IsText(s) /\ Len(s) = 1 /\ s[1].kind = "text"
    BY ShortTexts DEF Text
  <1> HIDE DEF s
  <1>2. Elements(s) = {} /\ \A e : ~ IsEnd(s, e)
    <2>1. \A k \in 1..Len(s) : s[k].kind = "text"
      BY <1>1
    <2> QED
      BY <2>1, ElementsOf DEF IsEnd
  <1>3. EndsInside(s)
    BY <1>2 DEF EndsInside
  <1>4. ASSUME NEW a, IsText(a), NEW b, IsText(b)
        PROVE  EndsMove(s, Within(a, s, b), Len(a))
    <2> DEFINE all == Within(a, s, b)
    <2>1. /\ Len(all) = Len(a) + Len(s) + Len(b)
          /\ \A k \in 1..Len(s) : all[Len(a) + k] = s[k]
      <3>1. IsText(a) /\ IsText(s) /\ IsText(b)
        BY <1>1, <1>4
      <3> QED
        BY <3>1, WithinIs
    <2>2. Len(a) \in Nat /\ Len(b) \in Nat
      BY <1>4, TextIsSequence
    <2> HIDE DEF all
    <2> DEFINE n == Len(a) + 1
    <2>3. /\ n \in Nat /\ n <= Len(all) /\ Len(all) \in Nat
          /\ all[n].kind = "text" /\ Len(a) + Len(s) + 1 = n + 1
      BY <1>1, <2>1, <2>2
    <2> HIDE DEF n
    <2>4. \A d \in Nat \ {0} : Scan(all)[n][d] = Scan(all)[n + 1][d]
      BY <2>3, ScanText
    <2>5. \A d \in Nat \ {0} :
             Scan(all)[Len(a) + 1][d] = Scan(all)[Len(a) + Len(s) + 1][d]
      BY <2>3, <2>4, Zenon DEF n
    <2> QED
      BY <1>2, <2>5, Zenon DEF EndsMove, all
  <1> QED
    BY <1>1, <1>3, <1>4 DEF Nested, s

(* What stands between two texts may be cut anywhere. *)
LEMMA WithinParts ==
    ASSUME NEW a, IsText(a), NEW s, IsText(s), NEW t, IsText(t), NEW b, IsText(b)
    PROVE  /\ Within(a, Then(s, t), b) = Within(a, s, Then(t, b))
           /\ Within(a, Then(s, t), b) = Within(Then(a, s), t, b)
  <1>1. Then(Then(s, t), b) = Then(s, Then(t, b))
    BY Regroup
  <1>2. IsText(Then(t, b))
    BY Join
  <1>3. Then(Then(a, s), Then(t, b)) = Then(a, Then(s, Then(t, b)))
    BY <1>2, Regroup
  <1> QED
    BY <1>1, <1>3, Zenon DEF Within

(* With nothing around it, a text stands alone. *)
LEMMA WithinNothing ==
    ASSUME NEW s, IsText(s), NEW t, IsText(t)
    PROVE  /\ Within(<<>>, s, <<>>) = s
           /\ Within(<<>>, s, t) = Then(s, t)
           /\ Within(s, t, <<>>) = Then(s, t)
  <1>1. Then(s, <<>>) = s /\ Then(<<>>, s) = s /\ Then(t, <<>>) = t
    BY JoinNone
  <1>2. IsText(Then(s, t))
    BY Join
  <1>3. Then(<<>>, Then(s, t)) = Then(s, t)
    BY <1>2, JoinNone
  <1> QED
    BY <1>1, <1>3, Zenon DEF Within

(* What Nested says of a place, by itself. *)
LEMMA NestedMoves ==
    ASSUME NEW s, Nested(s), NEW a, IsText(a), NEW b, IsText(b)
    PROVE  EndsMove(s, Within(a, s, b), Len(a))
  BY DEF Nested

(* The elements of two texts joined are those of the one and of the other. *)
LEMMA ElementsJoin ==
    ASSUME NEW s, IsText(s), NEW t, IsText(t)
    PROVE  /\ \A k \in 1..Len(s) : k \in Elements(Then(s, t)) <=> k \in Elements(s)
           /\ \A k \in 1..Len(t) :
                 Len(s) + k \in Elements(Then(s, t)) <=> k \in Elements(t)
           /\ \A k \in Elements(Then(s, t)) :
                 \/ k \in Elements(s)
                 \/ \E m \in Elements(t) : k = Len(s) + m
  <1> DEFINE all == Then(s, t)
  <1>1. /\ Len(all) = Len(s) + Len(t)
        /\ \A k \in 1..Len(s) : all[k] = s[k]
        /\ \A k \in 1..Len(t) : all[Len(s) + k] = t[k]
    BY Join
  <1>2. Len(s) \in Nat /\ Len(t) \in Nat
    BY TextIsSequence
  <1> HIDE DEF all
  <1>3. ASSUME NEW k \in 1..Len(s)
        PROVE  k \in Elements(all) <=> k \in Elements(s)
    <2>1. k \in 1..Len(all) /\ all[k] = s[k]
      BY <1>1, <1>2
    <2> QED
      BY <2>1, ElementsOf
  <1>4. ASSUME NEW k \in 1..Len(t)
        PROVE  Len(s) + k \in Elements(all) <=> k \in Elements(t)
    <2>1. Len(s) + k \in 1..Len(all) /\ all[Len(s) + k] = t[k]
      BY <1>1, <1>2
    <2> QED
      BY <2>1, ElementsOf
  <1>5. ASSUME NEW k \in Elements(all)
        PROVE  k \in Elements(s) \/ \E m \in Elements(t) : k = Len(s) + m
    <2>1. k \in 1..(Len(s) + Len(t))
      BY <1>1, ElementsOf
    <2>2. CASE k \in 1..Len(s)
      BY <1>3, <2>2
    <2>3. CASE k \notin 1..Len(s)
      <3>1. k - Len(s) \in 1..Len(t) /\ k = Len(s) + (k - Len(s))
        BY <1>2, <2>1, <2>3
      <3> QED
        BY <1>4, <3>1
    <2> QED
      BY <2>2, <2>3
  <1> QED
    BY <1>3, <1>4, <1>5 DEF all

(* Joined to another, nested texts keep their ends. *)
LEMMA EndsJoin ==
    ASSUME NEW s, Nested(s), NEW t, Nested(t)
    PROVE  /\ \A k \in Elements(s) : EndTag(Then(s, t), k) = EndTag(s, k)
           /\ \A k \in Elements(t) :
                 EndTag(Then(s, t), Len(s) + k) = Len(s) + EndTag(t, k)
  <1>1. IsText(s) /\ IsText(t) /\ IsText(<<>>) /\ Len(<<>>) = 0
    BY ShortTexts DEF Nested
  <1>2. EndsMove(s, Within(<<>>, s, t), 0)
    BY <1>1, NestedMoves
  <1>3. EndsMove(t, Within(s, t, <<>>), Len(s))
    BY <1>1, NestedMoves
  <1>4. Within(<<>>, s, t) = Then(s, t) /\ Within(s, t, <<>>) = Then(s, t)
    BY <1>1, WithinNothing
  <1>5. \A k \in Elements(t) :
           EndTag(Then(s, t), Len(s) + k) = Len(s) + EndTag(t, k)
    BY <1>3, <1>4 DEF EndsMove
  <1>6. ASSUME NEW k \in Elements(s)
        PROVE  EndTag(Then(s, t), k) = EndTag(s, k)
    <2>1. EndTag(Then(s, t), 0 + k) = 0 + EndTag(s, k)
      BY <1>2, <1>4 DEF EndsMove
    <2>2. k \in Nat /\ EndTag(s, k) \in Nat
      <3>1. EndTag(s, k) \in (k + 1)..Len(s)
        BY DEF Nested, EndsInside
      <3> QED
        BY <3>1, ElementsOf
    <2> QED
      BY <2>1, <2>2
  <1> QED
    BY <1>5, <1>6

(* Nested texts joined are nested. *)
LEMMA NestedJoin ==
    ASSUME NEW s, Nested(s), NEW t, Nested(t)
    PROVE  Nested(Then(s, t))
  <1> DEFINE all == Then(s, t)
  <1>1. IsText(s) /\ IsText(t)
    BY DEF Nested
  <1>2. /\ IsText(all) /\ Len(all) = Len(s) + Len(t)
        /\ \A k \in 1..Len(s) : all[k] = s[k]
        /\ \A k \in 1..Len(t) : all[Len(s) + k] = t[k]
    BY <1>1, Join
  <1>3. Len(s) \in Nat /\ Len(t) \in Nat
    BY <1>1, TextIsSequence
  <1>4. /\ \A k \in 1..Len(s) : k \in Elements(all) <=> k \in Elements(s)
        /\ \A k \in 1..Len(t) : Len(s) + k \in Elements(all) <=> k \in Elements(t)
        /\ \A k \in Elements(all) :
              k \in Elements(s) \/ \E m \in Elements(t) : k = Len(s) + m
    BY <1>1, ElementsJoin
  <1>5. /\ \A k \in Elements(s) : EndTag(all, k) = EndTag(s, k)
        /\ \A k \in Elements(t) : EndTag(all, Len(s) + k) = Len(s) + EndTag(t, k)
    BY EndsJoin
  <1>6. EndsInside(s) /\ EndsInside(t)
    BY DEF Nested
  <1> HIDE DEF all
  <1>7. ASSUME NEW k \in Elements(all)
        PROVE  /\ EndTag(all, k) \in (k + 1)..Len(all)
               /\ all[EndTag(all, k)] = Close(all[k].name)
    <2>1. CASE k \in Elements(s)
      <3>1. /\ EndTag(s, k) \in (k + 1)..Len(s) /\ k \in 1..Len(s)
            /\ s[EndTag(s, k)] = Close(s[k].name)
        BY <1>6, <2>1, ElementsOf DEF EndsInside
      <3>2. EndTag(s, k) \in 1..Len(s) /\ EndTag(s, k) \in (k + 1)..Len(all)
        BY <1>2, <1>3, <3>1
      <3> QED
        BY <1>2, <1>5, <2>1, <3>1, <3>2
    <2>2. ASSUME NEW m \in Elements(t), k = Len(s) + m
          PROVE  /\ EndTag(all, k) \in (k + 1)..Len(all)
                 /\ all[EndTag(all, k)] = Close(all[k].name)
      <3>1. /\ EndTag(t, m) \in (m + 1)..Len(t) /\ m \in 1..Len(t)
            /\ t[EndTag(t, m)] = Close(t[m].name)
        BY <1>6, ElementsOf DEF EndsInside
      <3>2. /\ EndTag(t, m) \in 1..Len(t)
            /\ Len(s) + EndTag(t, m) \in (k + 1)..Len(all)
        BY <1>2, <1>3, <2>2, <3>1
      <3>3. EndTag(all, k) = Len(s) + EndTag(t, m)
        BY <1>5, <2>2
      <3>4. /\ all[Len(s) + m] = t[m]
            /\ all[Len(s) + EndTag(t, m)] = t[EndTag(t, m)]
        BY <1>2, <3>1, <3>2
      <3> QED
        BY <2>2, <3>1, <3>2, <3>3, <3>4
    <2> QED
      BY <1>4, <2>1, <2>2
  <1>8. ASSUME NEW e \in 1..Len(all), IsEnd(all, e)
        PROVE  \E k \in Elements(all) : EndTag(all, k) = e
    <2>1. CASE e \in 1..Len(s)
      <3>1. IsEnd(s, e)
        BY <1>2, <1>8, <2>1 DEF IsEnd
      <3>2. PICK k \in Elements(s) : EndTag(s, k) = e
        BY <1>6, <2>1, <3>1 DEF EndsInside
      <3>3. k \in Elements(all)
        BY <1>4, ElementsOf
      <3> QED
        BY <1>5, <3>2, <3>3
    <2>2. CASE e \notin 1..Len(s)
      <3> DEFINE m == e - Len(s)
      <3>1. m \in 1..Len(t) /\ e = Len(s) + m
        BY <1>2, <1>3, <2>2
      <3> HIDE DEF m
      <3>2. IsEnd(t, m)
        BY <1>2, <1>8, <3>1 DEF IsEnd
      <3>3. PICK k \in Elements(t) : EndTag(t, k) = m
        BY <1>6, <3>1, <3>2 DEF EndsInside
      <3>4. Len(s) + k \in Elements(all)
        BY <1>4, ElementsOf
      <3> QED
        BY <1>5, <3>1, <3>3, <3>4
    <2> QED
      BY <2>1, <2>2
  <1>9. ASSUME NEW a, IsText(a), NEW b, IsText(b)
        PROVE  EndsMove(all, Within(a, all, b), Len(a))
    <2> DEFINE u == Within(a, all, b)
    <2>1. u = Within(a, s, Then(t, b)) /\ u = Within(Then(a, s), t, b)
      BY <1>1, <1>9, WithinParts DEF all
    <2>2. /\ IsText(Then(t, b)) /\ IsText(Then(a, s))
          /\ Len(Then(a, s)) = Len(a) + Len(s)
      BY <1>1, <1>9, Join
    <2>3. EndsMove(s, u, Len(a))
      BY <1>9, <2>1, <2>2, NestedMoves
    <2>4. EndsMove(t, u, Len(a) + Len(s))
      BY <1>9, <2>1, <2>2, NestedMoves
    <2>5. Len(a) \in Nat
      BY <1>9, TextIsSequence
    <2> HIDE DEF u
    <2>6. ASSUME NEW k \in Elements(all)
          PROVE  EndTag(u, Len(a) + k) = Len(a) + EndTag(all, k)
      <3>1. CASE k \in Elements(s)
        BY <1>5, <2>3, <3>1 DEF EndsMove
      <3>2. ASSUME NEW m \in Elements(t), k = Len(s) + m
            PROVE  EndTag(u, Len(a) + k) = Len(a) + EndTag(all, k)
        <4>1. m \in Nat /\ EndTag(t, m) \in Nat
          <5>1. EndTag(t, m) \in (m + 1)..Len(t)
            BY <1>6 DEF EndsInside
          <5> QED
            BY <5>1, ElementsOf
        <4>2. /\ Len(a) + k = (Len(a) + Len(s)) + m
              /\ Len(a) + (Len(s) + EndTag(t, m)) = (Len(a) + Len(s)) + EndTag(t, m)
          BY <1>3, <2>5, <3>2, <4>1
        <4>3. EndTag(u, (Len(a) + Len(s)) + m) = (Len(a) + Len(s)) + EndTag(t, m)
          BY <2>4 DEF EndsMove
        <4> QED
          BY <1>5, <3>2, <4>2, <4>3
      <3> QED
        BY <1>4, <3>1, <3>2
    <2>7. ASSUME NEW d \in Nat \ {0}
          PROVE  Scan(u)[Len(a) + 1][d] = Scan(u)[Len(a) + Len(all) + 1][d]
      <3>1. Scan(u)[Len(a) + 1][d] = Scan(u)[Len(a) + Len(s) + 1][d]
        BY <2>3 DEF EndsMove
      <3>2. Scan(u)[(Len(a) + Len(s)) + 1][d]
              = Scan(u)[(Len(a) + Len(s)) + Len(t) + 1][d]
        BY <2>4 DEF EndsMove
      <3>3. (Len(a) + Len(s)) + Len(t) + 1 = Len(a) + Len(all) + 1
        BY <1>2, <1>3, <2>5
      <3> QED
        BY <3>1, <3>2, <3>3
    <2> QED
      BY <2>6, <2>7, Zenon DEF EndsMove, u
  <1> QED
    BY <1>2, <1>7, <1>8, <1>9, Zenon DEF Nested, EndsInside, all

(* An element is its content between its tags. *)
LEMMA ElementParts ==
    ASSUME NEW name, NEW id, NEW attr, NEW ns, NEW c, IsText(c)
    PROVE  Element(name, id, attr, ns, c)
             = Within(<<Open(name, id, attr, ns)>>, c, <<Close(name)>>)
  <1> DEFINE head == <<Open(name, id, attr, ns)>>
             tail == <<Close(name)>>
  <1>1. IsText(head) /\ IsText(tail)
    BY ShortTexts
  <1>2. Element(name, id, attr, ns, c) = Then(Then(head, c), tail)
    BY DEF Element, Then
  <1> HIDE DEF head, tail
  <1>3. Then(Then(head, c), tail) = Then(head, Then(c, tail))
    BY <1>1, Regroup
  <1>4. Element(name, id, attr, ns, c) = Within(head, c, tail)
    BY <1>2, <1>3, Zenon DEF Within
  <1> QED
    BY <1>4, Zenon DEF head, tail

(* The tokens of an element. *)
LEMMA ElementIs ==
    ASSUME NEW name, NEW id, NEW attr, NEW ns, NEW c, IsText(c)
    PROVE  LET all == Element(name, id, attr, ns, c)
               n == Len(c)
           IN  /\ IsText(all) /\ Len(all) = n + 2
               /\ all[1] = Open(name, id, attr, ns) /\ all[n + 2] = Close(name)
               /\ \A k \in 1..n : all[k + 1] = c[k]
  <1> DEFINE head == <<Open(name, id, attr, ns)>>
             tail == <<Close(name)>>
             all == Within(head, c, tail)
             n == Len(c)
  <1>1. /\ IsText(head) /\ Len(head) = 1 /\ head[1] = Open(name, id, attr, ns)
        /\ IsText(tail) /\ Len(tail) = 1 /\ tail[1] = Close(name)
    BY ShortTexts
  <1>2. Element(name, id, attr, ns, c) = all
    BY ElementParts
  <1> HIDE DEF head, tail
  <1>3. /\ IsText(all) /\ Len(all) = Len(head) + n + Len(tail)
        /\ \A k \in 1..Len(head) : all[k] = head[k]
        /\ \A k \in 1..n : all[Len(head) + k] = c[k]
        /\ \A k \in 1..Len(tail) : all[Len(head) + n + k] = tail[k]
    <2>1. IsText(head) /\ IsText(tail)
      BY <1>1
    <2> QED
      BY <2>1, WithinIs
  <1>4. n \in Nat
    BY TextIsSequence
  <1> HIDE DEF all, n
  <1>5. Len(all) = n + 2
    BY <1>1, <1>3, <1>4
  <1>6. all[1] = Open(name, id, attr, ns) /\ all[n + 2] = Close(name)
    <2>1. 1 \in 1..1 /\ 1 + n + 1 = n + 2
      BY <1>4
    <2> QED
      BY <1>1, <1>3, <2>1
  <1>7. \A k \in 1..n : all[k + 1] = c[k]
    <2>1. \A k \in 1..n : 1 + k = k + 1
      BY <1>4
    <2> QED
      BY <1>1, <1>3, <2>1
  <1> QED
    BY <1>2, <1>3, <1>5, <1>6, <1>7 DEF n

(* The elements of an element: itself and those of its content. *)
LEMMA ElementHolds ==
    ASSUME NEW name, NEW id, NEW attr, NEW ns, NEW c, IsText(c)
    PROVE  LET all == Element(name, id, attr, ns, c)
           IN  /\ 1 \in Elements(all)
               /\ \A k \in Elements(c) : k + 1 \in Elements(all)
               /\ \A k \in Elements(all) :
                     k = 1 \/ \E m \in Elements(c) : k = m + 1
  <1> DEFINE all == Element(name, id, attr, ns, c)
             n == Len(c)
  <1>1. /\ Len(all) = n + 2
        /\ all[1] = Open(name, id, attr, ns) /\ all[n + 2] = Close(name)
        /\ \A k \in 1..n : all[k + 1] = c[k]
    BY ElementIs
  <1>2. n \in Nat
    BY TextIsSequence
  <1> HIDE DEF all, n
  <1>3. all[1].kind = "open" /\ all[n + 2].kind = "close"
    BY <1>1 DEF Open, Close
  <1>4. 1 \in Elements(all)
    <2>1. 1 \in 1..Len(all)
      BY <1>1, <1>2
    <2> QED
      BY <1>3, <2>1, ElementsOf
  <1>5. ASSUME NEW k \in 1..n
        PROVE  k + 1 \in Elements(all) <=> k \in Elements(c)
    <2>1. k + 1 \in 1..Len(all) /\ all[k + 1] = c[k]
      BY <1>1, <1>2
    <2> QED
      BY <2>1, ElementsOf DEF n
  <1>6. ASSUME NEW k \in Elements(all), k # 1
        PROVE  \E m \in Elements(c) : k = m + 1
    <2>1. k \in 1..(n + 2) /\ k # n + 2
      BY <1>1, <1>3, ElementsOf
    <2>2. k - 1 \in 1..n /\ k = (k - 1) + 1
      BY <1>2, <1>6, <2>1
    <2> QED
      BY <1>5, <2>2
  <1>7. \A k \in Elements(c) : k \in 1..n
    BY ElementsOf DEF n
  <1> QED
    BY <1>4, <1>5, <1>6, <1>7 DEF all

(* What stands around an element stands, with its tags, around its content. *)
LEMMA WithinElement ==
    ASSUME NEW name, NEW id, NEW attr, NEW ns, NEW c, IsText(c),
           NEW a, IsText(a), NEW b, IsText(b)
    PROVE  Within(a, Element(name, id, attr, ns, c), b)
             = Within(Then(a, <<Open(name, id, attr, ns)>>), c,
                      Then(<<Close(name)>>, b))
  <1> DEFINE head == <<Open(name, id, attr, ns)>>
             tail == <<Close(name)>>
  <1>1. IsText(head) /\ IsText(tail)
    BY ShortTexts
  <1>2. Element(name, id, attr, ns, c) = Within(head, c, tail)
    BY ElementParts
  <1> HIDE DEF head, tail
  <1>3. IsText(Then(c, tail)) /\ IsText(Then(a, head))
    BY <1>1, Join
  <1>4. Within(a, Within(head, c, tail), b)
          = Within(Then(a, head), Then(c, tail), b)
    BY <1>1, <1>3, WithinParts DEF Within
  <1>5. Within(Then(a, head), Then(c, tail), b)
          = Within(Then(a, head), c, Then(tail, b))
    BY <1>1, <1>3, WithinParts
  <1> QED
    BY <1>2, <1>4, <1>5, Zenon DEF head, tail

(* An element whose start tag is at p holds the content: it ends behind it, *)
(* and the content stands behind p.                                         *)
IsElementAt(text, p, content) ==
    LET n == Len(content)
    IN  /\ EndTag(text, p) = p + n + 1
        /\ \A k \in Elements(content) : EndTag(text, p + k) = p + EndTag(content, k)
        /\ \A d \in Nat \ {0} : Scan(text)[p][d] = Scan(text)[p + n + 2][d]

(* An element of nested content stands anywhere as it does alone. *)
LEMMA ElementMoves ==
    ASSUME NEW name, NEW id, NEW attr, NEW ns, NEW c, Nested(c),
           NEW a, IsText(a), NEW b, IsText(b)
    PROVE  IsElementAt(Within(a, Element(name, id, attr, ns, c), b), Len(a) + 1, c)
  <1> DEFINE head == <<Open(name, id, attr, ns)>>
             tail == <<Close(name)>>
             u == Within(a, Element(name, id, attr, ns, c), b)
             before == Then(a, head)
             after == Then(tail, b)
             p == Len(a) + 1
             q == p + Len(c) + 1
  <1>1. /\ IsText(head) /\ Len(head) = 1 /\ head[1] = Open(name, id, attr, ns)
        /\ IsText(tail) /\ Len(tail) = 1 /\ tail[1] = Close(name)
        /\ IsText(c)
    BY ShortTexts DEF Nested
  <1>2. u = Within(before, c, after)
    BY <1>1, WithinElement
  <1> HIDE DEF u, head, tail
  <1>3. /\ IsText(before) /\ Len(before) = p /\ before[p] = head[1]
        /\ IsText(after) /\ Len(after) = 1 + Len(b) /\ after[1] = tail[1]
    <2>1. /\ IsText(before) /\ Len(before) = Len(a) + Len(head)
          /\ \A k \in 1..Len(head) : before[Len(a) + k] = head[k]
      <3>1. IsText(head)
        BY <1>1
      <3> QED
        BY <3>1, Join
    <2>2. /\ IsText(after) /\ Len(after) = Len(tail) + Len(b)
          /\ \A k \in 1..Len(tail) : after[k] = tail[k]
      BY <1>1, Join
    <2> HIDE DEF before, after
    <2>3. 1 \in 1..1
      OBVIOUS
    <2> QED
      BY <1>1, <2>1, <2>2, <2>3
  <1>4. Len(a) \in Nat /\ Len(b) \in Nat /\ Len(c) \in Nat
    BY <1>1, TextIsSequence
  <1>5. EndsMove(c, u, p)
    <2>1. IsText(before) /\ IsText(after) /\ Len(before) = p
      BY <1>3
    <2> HIDE DEF before, after, p
    <2> QED
      BY <1>2, <2>1, NestedMoves
  <1>6. /\ Len(u) = p + Len(c) + (1 + Len(b))
        /\ u[p] = Open(name, id, attr, ns) /\ u[q] = Close(name)
    <2>1. IsText(before) /\ IsText(after)
      BY <1>3
    <2> HIDE DEF before, after
    <2>2. /\ Len(u) = Len(before) + Len(c) + Len(after)
          /\ \A k \in 1..Len(before) : u[k] = before[k]
          /\ \A k \in 1..Len(after) : u[Len(before) + Len(c) + k] = after[k]
      <3>1. IsText(c)
        BY <1>1
      <3>2. LET all == Within(before, c, after)
            IN  /\ Len(all) = Len(before) + Len(c) + Len(after)
                /\ \A k \in 1..Len(before) : all[k] = before[k]
                /\ \A k \in 1..Len(after) :
                      all[Len(before) + Len(c) + k] = after[k]
        BY <2>1, <3>1, WithinIs
      <3> QED
        BY <1>2, <3>2, Zenon
    <2>3. p \in 1..p /\ 1 \in 1..(1 + Len(b))
      BY <1>4
    <2> QED
      BY <1>1, <1>3, <2>2, <2>3
  <1>7. /\ p \in Nat \ {0} /\ q \in Nat \ {0} /\ p + Len(c) + 1 = q
        /\ Len(u) \in Nat /\ p <= Len(u) /\ q <= Len(u)
        /\ u[p].kind = "open" /\ u[q].kind \notin {"text", "open"}
    BY <1>4, <1>6 DEF Open, Close
  <1> HIDE DEF q
  <1>8. \A d \in Nat :
           Scan(u)[p][d] = IF d = 0 THEN q ELSE Scan(u)[q + 1][d]
    <2> SUFFICES ASSUME NEW d \in Nat
                 PROVE  Scan(u)[p][d] = IF d = 0 THEN q ELSE Scan(u)[q + 1][d]
      OBVIOUS
    <2>1. Scan(u)[p][d] = Scan(u)[p + 1][d + 1]
      <3>1. Len(u) \in Nat /\ p \in Nat /\ p <= Len(u) /\ u[p].kind = "open"
        BY <1>7
      <3>2. Deepens(Scan(u), p, d)
        BY <3>1, ScanOpen
      <3> QED
        BY <3>2 DEF Deepens
    <2>2. Scan(u)[p + 1][d + 1] = Scan(u)[q][d + 1]
      <3>1. d + 1 \in Nat \ {0}
        OBVIOUS
      <3> QED
        BY <1>5, <1>7, <3>1 DEF EndsMove
    <2>3. Scan(u)[q][d + 1] = IF d + 1 <= 1 THEN q ELSE Scan(u)[q + 1][d + 1 - 1]
      <3>1. d + 1 \in Nat
        OBVIOUS
      <3> QED
        BY <1>7, <3>1, ScanClose
    <2>4. d + 1 - 1 = d /\ (d + 1 <= 1 <=> d = 0)
      OBVIOUS
    <2> QED
      BY <2>1, <2>2, <2>3, <2>4
  <1>9. EndTag(u, p) = q
    BY <1>8, EndTagScans
  <1>10. \A k \in Elements(c) : EndTag(u, p + k) = p + EndTag(c, k)
    BY <1>5 DEF EndsMove
  <1>11. \A d \in Nat \ {0} : Scan(u)[p][d] = Scan(u)[p + Len(c) + 2][d]
    <2>1. q + 1 = p + Len(c) + 2
      BY <1>4 DEF q
    <2> QED
      BY <1>8, <2>1
  <1> QED
    BY <1>9, <1>10, <1>11 DEF q, u, IsElementAt

(* Where an element and those that it holds end. *)
LEMMA ElementEnds ==
    ASSUME NEW name, NEW id, NEW attr, NEW ns, NEW c, Nested(c)
    PROVE  LET all == Element(name, id, attr, ns, c)
           IN  /\ EndTag(all, 1) = Len(c) + 2
               /\ \A k \in Elements(c) : EndTag(all, k + 1) = EndTag(c, k) + 1
  <1> DEFINE all == Element(name, id, attr, ns, c)
  <1>1. IsText(<<>>) /\ Len(<<>>) = 0 /\ IsText(c)
    BY ShortTexts DEF Nested
  <1>2. IsText(all)
    BY <1>1, ElementIs
  <1>3. Within(<<>>, all, <<>>) = all
    BY <1>1, <1>2, WithinNothing
  <1>4. IsElementAt(Within(<<>>, all, <<>>), Len(<<>>) + 1, c)
    BY <1>1, ElementMoves
  <1> HIDE DEF all
  <1>5. /\ EndTag(all, 0 + 1) = 0 + 1 + Len(c) + 1
        /\ \A k \in Elements(c) : EndTag(all, 0 + 1 + k) = 0 + 1 + EndTag(c, k)
    <2>1. IsElementAt(all, 0 + 1, c)
      BY <1>1, <1>3, <1>4, Zenon
    <2> QED
      BY <2>1 DEF IsElementAt
  <1>6. Len(c) \in Nat
    BY <1>1, TextIsSequence
  <1>7. EndTag(all, 1) = Len(c) + 2
    BY <1>5, <1>6
  <1>8. ASSUME NEW k \in Elements(c)
        PROVE  EndTag(all, k + 1) = EndTag(c, k) + 1
    <2>1. EndTag(c, k) \in (k + 1)..Len(c) /\ k \in Nat
      BY ElementsOf DEF Nested, EndsInside
    <2>2. /\ 0 + 1 + k = k + 1 /\ 0 + 1 + EndTag(c, k) = EndTag(c, k) + 1
      BY <2>1
    <2> QED
      BY <1>5, <2>2
  <1> QED
    BY <1>7, <1>8 DEF all

(* An element of nested content is nested. *)
LEMMA NestedElement ==
    ASSUME NEW name, NEW id, NEW attr, NEW ns, NEW c, Nested(c)
    PROVE  Nested(Element(name, id, attr, ns, c))
  <1> DEFINE all == Element(name, id, attr, ns, c)
             n == Len(c)
  <1>1. IsText(c) /\ EndsInside(c)
    BY DEF Nested
  <1>2. /\ IsText(all) /\ Len(all) = n + 2
        /\ all[1] = Open(name, id, attr, ns) /\ all[n + 2] = Close(name)
        /\ \A k \in 1..n : all[k + 1] = c[k]
        /\ 1 \in Elements(all)
        /\ \A k \in Elements(c) : k + 1 \in Elements(all)
        /\ \A k \in Elements(all) : k = 1 \/ \E m \in Elements(c) : k = m + 1
    <2>1. IsText(c)
      BY <1>1
    <2>2. /\ IsText(all) /\ Len(all) = n + 2
          /\ all[1] = Open(name, id, attr, ns) /\ all[n + 2] = Close(name)
          /\ \A k \in 1..n : all[k + 1] = c[k]
      BY <2>1, ElementIs
    <2>3. /\ 1 \in Elements(all)
          /\ \A k \in Elements(c) : k + 1 \in Elements(all)
          /\ \A k \in Elements(all) : k = 1 \/ \E m \in Elements(c) : k = m + 1
      BY <2>1, ElementHolds
    <2> QED
      BY <2>2, <2>3
  <1>3. /\ EndTag(all, 1) = n + 2
        /\ \A k \in Elements(c) : EndTag(all, k + 1) = EndTag(c, k) + 1
    BY ElementEnds
  <1>4. n \in Nat
    BY <1>1, TextIsSequence
  <1>5. ASSUME NEW a, IsText(a), NEW b, IsText(b)
        PROVE  EndsMove(all, Within(a, all, b), Len(a))
    <2> DEFINE u == Within(a, all, b)
               p == Len(a) + 1
    <2>1. /\ EndTag(u, p) = p + n + 1
          /\ \A k \in Elements(c) : EndTag(u, p + k) = p + EndTag(c, k)
          /\ \A d \in Nat \ {0} : Scan(u)[p][d] = Scan(u)[p + n + 2][d]
      <3>1. IsText(a) /\ IsText(b)
        BY <1>5
      <3>2. IsElementAt(u, p, c)
        BY <3>1, ElementMoves
      <3> HIDE DEF u, p
      <3> QED
        BY <3>2 DEF IsElementAt
    <2>2. Len(a) \in Nat
      BY <1>5, TextIsSequence
    <2> HIDE DEF u, all, n
    <2>3. ASSUME NEW k \in Elements(all)
          PROVE  EndTag(u, Len(a) + k) = Len(a) + EndTag(all, k)
      <3>1. CASE k = 1
        <4>1. Len(a) + 1 + n + 1 = Len(a) + (n + 2)
          BY <1>4, <2>2
        <4> QED
          BY <1>3, <2>1, <3>1, <4>1
      <3>2. ASSUME NEW m \in Elements(c), k = m + 1
            PROVE  EndTag(u, Len(a) + k) = Len(a) + EndTag(all, k)
        <4>1. m \in Nat /\ EndTag(c, m) \in Nat
          <5>1. EndTag(c, m) \in (m + 1)..Len(c)
            BY <1>1 DEF EndsInside
          <5> QED
            BY <5>1, ElementsOf
        <4>2. /\ Len(a) + (m + 1) = p + m
              /\ p + EndTag(c, m) = Len(a) + (EndTag(c, m) + 1)
          BY <2>2, <4>1
        <4> QED
          BY <1>3, <2>1, <3>2, <4>2
      <3> QED
        BY <1>2, <3>1, <3>2
    <2>4. \A d \in Nat \ {0} :
             Scan(u)[Len(a) + 1][d] = Scan(u)[Len(a) + Len(all) + 1][d]
      <3>1. p + n + 2 = Len(a) + Len(all) + 1
        BY <1>2, <1>4, <2>2
      <3> QED
        BY <2>1, <3>1
    <2> QED
      BY <2>3, <2>4, Zenon DEF EndsMove, u
  <1> HIDE DEF all
  <1>6. ASSUME NEW k \in Elements(all)
        PROVE  /\ EndTag(all, k) \in (k + 1)..Len(all)
               /\ all[EndTag(all, k)] = Close(all[k].name)
    <2>1. CASE k = 1
      <3>1. all[1].name = name
        BY <1>2 DEF Open
      <3> QED
        BY <1>2, <1>3, <1>4, <2>1, <3>1
    <2>2. ASSUME NEW m \in Elements(c), k = m + 1
          PROVE  /\ EndTag(all, k) \in (k + 1)..Len(all)
                 /\ all[EndTag(all, k)] = Close(all[k].name)
      <3>1. /\ EndTag(c, m) \in (m + 1)..n /\ m \in 1..n
            /\ c[EndTag(c, m)] = Close(c[m].name)
        BY <1>1, ElementsOf DEF EndsInside
      <3>2. EndTag(all, k) = EndTag(c, m) + 1
        BY <1>3, <2>2
      <3>3. EndTag(c, m) \in 1..n /\ EndTag(all, k) \in (k + 1)..Len(all)
        BY <1>2, <1>4, <2>2, <3>1, <3>2
      <3>4. all[m + 1] = c[m] /\ all[EndTag(c, m) + 1] = c[EndTag(c, m)]
        BY <1>2, <3>1, <3>3
      <3> QED
        BY <2>2, <3>1, <3>2, <3>3, <3>4
    <2> QED
      BY <1>2, <2>1, <2>2
  <1>7. ASSUME NEW e \in 1..Len(all), IsEnd(all, e)
        PROVE  \E k \in Elements(all) : EndTag(all, k) = e
    <2>1. CASE e = n + 2
      BY <1>2, <1>3, <2>1
    <2>2. CASE e # n + 2
      <3>1. e # 1
        BY <1>2, <1>7 DEF IsEnd, Open
      <3>2. e - 1 \in 1..n /\ (e - 1) + 1 = e
        BY <1>2, <1>4, <2>2, <3>1
      <3>3. IsEnd(c, e - 1)
        <4>1. all[(e - 1) + 1] = c[e - 1]
          BY <1>2, <3>2
        <4> QED
          BY <1>7, <3>2, <4>1 DEF IsEnd
      <3>4. PICK k \in Elements(c) : EndTag(c, k) = e - 1
        BY <1>1, <3>2, <3>3 DEF EndsInside
      <3> QED
        BY <1>2, <1>3, <3>2, <3>4
    <2> QED
      BY <2>1, <2>2
  <1> QED
    BY <1>2, <1>5, <1>6, <1>7, Zenon DEF Nested, EndsInside, all

-----------------------------------------------------------------------------
(***************************************************************************)
(* A count of the depth in a text, in one that is longer at its front, in  *)
(* one that ends earlier, and in one into which something nested is        *)
(* pasted.                                                                 *)
(***************************************************************************)
(* A position n further on; no position stays none. *)
Shifted(e, n) == IF e = 0 THEN 0 ELSE e + n

(* A text put in front only shifts what a count finds. *)
LEMMA ScanSuffix ==
    ASSUME NEW a, IsText(a), NEW b, IsText(b),
           NEW j \in Nat \ {0}, NEW d \in Nat
    PROVE  Scan(Then(a, b))[Len(a) + j][d] = Shifted(Scan(b)[j][d], Len(a))
  <1> DEFINE t == Then(a, b)
             n == Len(a)
             l == Len(b)
             Same(i, e) == Scan(t)[n + i][e] = Shifted(Scan(b)[i][e], n)
             S == {m \in Nat : \A i \in Nat \ {0}, e \in Nat : i + m > l => Same(i, e)}
  <1>1. Len(t) = n + l /\ \A k \in 1..l : t[n + k] = b[k]
    BY Join
  <1>2. n \in Nat /\ l \in Nat /\ Len(t) \in Nat
    BY <1>1, TextIsSequence
  <1> HIDE DEF t, n
  <1>3. ASSUME NEW i \in Nat \ {0}, NEW e \in Nat, i > l
        PROVE  Same(i, e)
    <2>1. n + i \in Nat /\ n + i > Len(t)
      BY <1>1, <1>2, <1>3
    <2>2. Scan(t)[n + i][e] = 0
      BY <1>2, <2>1, ScanPast
    <2>3. Scan(b)[i][e] = 0
      BY <1>2, <1>3, ScanPast
    <2> QED
      BY <2>2, <2>3 DEF Shifted
  <1>4. 0 \in S
    BY <1>3
  <1>5. ASSUME NEW m \in Nat, m \in S
        PROVE  m + 1 \in S
    <2> SUFFICES ASSUME NEW i \in Nat \ {0}, NEW e \in Nat, i + (m + 1) > l
                 PROVE  Same(i, e)
      OBVIOUS
    <2> SUFFICES ASSUME i <= l
                 PROVE  Same(i, e)
      BY <1>2, <1>3
    <2>1. /\ n + i \in Nat /\ n + i <= Len(t) /\ t[n + i] = b[i]
          /\ i + 1 \in Nat \ {0} /\ (i + 1) + m > l /\ n + (i + 1) = n + i + 1
      BY <1>1, <1>2
    <2>2. \A e2 \in Nat : Scan(t)[n + i + 1][e2] = Shifted(Scan(b)[i + 1][e2], n)
      BY <1>5, <2>1
    <2>3. CASE b[i].kind = "text"
      <3>1. Scan(b)[i][e] = Scan(b)[i + 1][e]
        BY <1>2, <2>3, ScanText
      <3>2. Scan(t)[n + i][e] = Scan(t)[n + i + 1][e]
        BY <1>2, <2>1, <2>3, ScanText
      <3> QED
        BY <2>2, <3>1, <3>2
    <2>4. CASE b[i].kind = "open"
      <3>1. Scan(b)[i][e] = Scan(b)[i + 1][e + 1]
        <4>1. /\ Len(b) \in Nat /\ i \in Nat /\ i <= Len(b)
              /\ i + 1 \in Nat /\ e + 1 \in Nat
          BY <1>2
        <4>2. Deepens(Scan(b), i, e)
          BY <2>4, <4>1, ScanOpen
        <4> QED
          BY <4>2 DEF Deepens
      <3>2. Scan(t)[n + i][e] = Scan(t)[n + i + 1][e + 1]
        <4>1. /\ Len(t) \in Nat /\ n + i \in Nat /\ n + i <= Len(t)
              /\ t[n + i].kind = "open"
          BY <1>2, <2>1, <2>4
        <4>2. Deepens(Scan(t), n + i, e)
          BY <4>1, ScanOpen
        <4> QED
          BY <4>2 DEF Deepens
      <3> QED
        BY <2>2, <3>1, <3>2
    <2>5. CASE b[i].kind \notin {"text", "open"}
      <3>1. Scan(b)[i][e] = IF e <= 1 THEN i ELSE Scan(b)[i + 1][e - 1]
        BY <1>2, <2>5, ScanClose
      <3>2. Scan(t)[n + i][e]
              = IF e <= 1 THEN n + i ELSE Scan(t)[n + i + 1][e - 1]
        BY <1>2, <2>1, <2>5, ScanClose
      <3>3. CASE e <= 1
        BY <1>2, <3>1, <3>2, <3>3 DEF Shifted
      <3>4. CASE ~ (e <= 1)
        <4>1. e - 1 \in Nat
          BY <3>4
        <4> QED
          BY <2>2, <3>1, <3>2, <3>4, <4>1
      <3> QED
        BY <3>3, <3>4
    <2> QED
      BY <2>3, <2>4, <2>5
  <1> HIDE DEF S
  <1>6. l + 1 \in S
    <2>1. \A m \in Nat : m \in S
      BY <1>4, <1>5, Induct!Induction
    <2> QED
      BY <1>2, <2>1
  <1>7. j + (l + 1) > l
    BY <1>2
  <1> QED
    BY <1>6, <1>7 DEF S, t, n

(* A text that ends earlier loses the ends behind its own. *)
LEMMA ScanCut ==
    ASSUME NEW a, IsText(a), NEW b, IsText(b),
           NEW j \in Nat \ {0}, NEW d \in Nat
    PROVE  Scan(a)[j][d] = LET e == Scan(Then(a, b))[j][d]
                           IN  IF e <= Len(a) THEN e ELSE 0
  <1> DEFINE t == Then(a, b)
             n == Len(a)
             Cut(x) == IF x <= n THEN x ELSE 0
             Same(i, e) == Scan(a)[i][e] = Cut(Scan(t)[i][e])
             S == {m \in Nat : \A i \in Nat \ {0}, e \in Nat : i + m > n => Same(i, e)}
  <1>1. Len(t) = n + Len(b) /\ \A k \in 1..n : t[k] = a[k]
    BY Join
  <1>2. n \in Nat /\ Len(b) \in Nat /\ Len(t) \in Nat
    BY <1>1, TextIsSequence
  <1> HIDE DEF t, n
  <1>3. ASSUME NEW i \in Nat \ {0}, NEW e \in Nat, i > n
        PROVE  Same(i, e)
    <2>1. Scan(a)[i][e] = 0
      BY <1>2, <1>3, ScanPast DEF n
    <2>2. Scan(t)[i][e] = 0 \/ Scan(t)[i][e] \in i..Len(t)
      BY <1>2, ScanFindsEnds
    <2> QED
      BY <1>2, <1>3, <2>1, <2>2
  <1>4. 0 \in S
    BY <1>3
  <1>5. ASSUME NEW m \in Nat, m \in S
        PROVE  m + 1 \in S
    <2> SUFFICES ASSUME NEW i \in Nat \ {0}, NEW e \in Nat, i + (m + 1) > n
                 PROVE  Same(i, e)
      OBVIOUS
    <2> SUFFICES ASSUME i <= n
                 PROVE  Same(i, e)
      BY <1>2, <1>3
    <2>1. /\ i <= Len(t) /\ i <= Len(a) /\ t[i] = a[i]
          /\ i + 1 \in Nat \ {0} /\ (i + 1) + m > n
      BY <1>1, <1>2 DEF n
    <2>2. \A e2 \in Nat : Scan(a)[i + 1][e2] = Cut(Scan(t)[i + 1][e2])
      BY <1>5, <2>1
    <2>3. CASE a[i].kind = "text"
      <3>1. Scan(a)[i][e] = Scan(a)[i + 1][e]
        BY <1>2, <2>1, <2>3, ScanText DEF n
      <3>2. Scan(t)[i][e] = Scan(t)[i + 1][e]
        BY <1>2, <2>1, <2>3, ScanText
      <3> QED
        BY <2>2, <3>1, <3>2
    <2>4. CASE a[i].kind = "open"
      <3>1. Scan(a)[i][e] = Scan(a)[i + 1][e + 1]
        <4>1. Len(a) \in Nat /\ i \in Nat /\ i <= Len(a)
          BY <1>2, <2>1 DEF n
        <4>2. Deepens(Scan(a), i, e)
          BY <2>4, <4>1, ScanOpen
        <4> QED
          BY <4>2 DEF Deepens
      <3>2. Scan(t)[i][e] = Scan(t)[i + 1][e + 1]
        <4>1. Len(t) \in Nat /\ i \in Nat /\ i <= Len(t) /\ t[i].kind = "open"
          BY <1>2, <2>1, <2>4
        <4>2. Deepens(Scan(t), i, e)
          BY <4>1, ScanOpen
        <4> QED
          BY <4>2 DEF Deepens
      <3> QED
        BY <2>2, <3>1, <3>2
    <2>5. CASE a[i].kind \notin {"text", "open"}
      <3>1. Scan(a)[i][e] = IF e <= 1 THEN i ELSE Scan(a)[i + 1][e - 1]
        BY <1>2, <2>1, <2>5, ScanClose DEF n
      <3>2. Scan(t)[i][e] = IF e <= 1 THEN i ELSE Scan(t)[i + 1][e - 1]
        BY <1>2, <2>1, <2>5, ScanClose
      <3>3. CASE e <= 1
        BY <1>2, <3>1, <3>2, <3>3
      <3>4. CASE ~ (e <= 1)
        <4>1. e - 1 \in Nat
          BY <3>4
        <4> QED
          BY <2>2, <3>1, <3>2, <3>4, <4>1
      <3> QED
        BY <3>3, <3>4
    <2> QED
      BY <2>3, <2>4, <2>5
  <1> HIDE DEF S
  <1>6. n + 1 \in S
    <2>1. \A m \in Nat : m \in S
      BY <1>4, <1>5, Induct!Induction
    <2> QED
      BY <1>2, <2>1
  <1>7. j + (n + 1) > n
    BY <1>2
  <1> QED
    BY <1>6, <1>7 DEF S, t, n

(* Something nested put between shifts the ends that lie behind it. *)
LEMMA ScanInserted ==
    ASSUME NEW a, IsText(a), NEW s, Nested(s), NEW b, IsText(b),
           NEW j \in 1..(Len(a) + 1), NEW d \in Nat \ {0}
    PROVE  Scan(Within(a, s, b))[j][d]
             = LET e == Scan(Then(a, b))[j][d]
               IN  IF e <= Len(a) THEN e ELSE e + Len(s)
  <1> DEFINE t == Then(a, b)
             u == Within(a, s, b)
             n == Len(a)
             l == Len(s)
             Moved(x) == IF x <= n THEN x ELSE x + l
             Same(i, e) == Scan(u)[i][e] = Moved(Scan(t)[i][e])
             S == {m \in Nat : \A i \in 1..(n + 1), e \in Nat \ {0} :
                                  i + m > n => Same(i, e)}
  <1>1. IsText(s)
    BY DEF Nested
  <1>2. Len(t) = n + Len(b) /\ \A k \in 1..n : t[k] = a[k]
    BY Join
  <1>3. Len(u) = n + l + Len(b) /\ \A k \in 1..n : u[k] = a[k]
    BY <1>1, WithinIs
  <1>4. n \in Nat /\ l \in Nat /\ Len(b) \in Nat /\ Len(t) \in Nat /\ Len(u) \in Nat
    BY <1>1, <1>2, <1>3, TextIsSequence
  <1>5. ASSUME NEW e \in Nat \ {0}
        PROVE  Scan(u)[n + 1][e] = Moved(Scan(t)[n + 1][e])
    <2>1. Scan(u)[n + 1][e] = Scan(u)[n + l + 1][e]
      <3>1. EndsMove(s, u, n)
        BY NestedMoves
      <3> QED
        BY <3>1 DEF EndsMove
    <2> DEFINE x == Scan(b)[1][e]
    <2>2. x = 0 \/ x \in 1..Len(b)
      BY <1>4, ScanFindsEnds
    <2>3. Scan(t)[n + 1][e] = Shifted(x, n)
      BY ScanSuffix
    <2>4. Scan(u)[n + l + 1][e] = Shifted(x, n + l)
      <3> DEFINE w == Then(a, s)
      <3>1. IsText(w) /\ Len(w) = n + l
        BY <1>1, Join
      <3>2. u = Then(w, b)
        BY <1>1, Regroup DEF Within
      <3> HIDE DEF w
      <3>3. Scan(Then(w, b))[Len(w) + 1][e] = Shifted(Scan(b)[1][e], Len(w))
        <4>1. IsText(w) /\ 1 \in Nat \ {0} /\ e \in Nat
          BY <3>1
        <4> QED
          BY <4>1, ScanSuffix
      <3> QED
        BY <3>1, <3>2, <3>3
    <2> HIDE DEF x, u, t, n, l
    <2> QED
      BY <1>4, <2>1, <2>2, <2>3, <2>4 DEF Shifted
  <1> HIDE DEF t, u, n, l
  <1>6. 0 \in S
    <2> SUFFICES ASSUME NEW i \in 1..(n + 1), NEW e \in Nat \ {0}, i + 0 > n
                 PROVE  Same(i, e)
      OBVIOUS
    <2>1. i = n + 1
      BY <1>4
    <2> QED
      BY <1>5, <2>1
  <1>7. ASSUME NEW m \in Nat, m \in S
        PROVE  m + 1 \in S
    <2> SUFFICES ASSUME NEW i \in 1..(n + 1), NEW e \in Nat \ {0}, i + (m + 1) > n
                 PROVE  Same(i, e)
      OBVIOUS
    <2> SUFFICES ASSUME i <= n
                 PROVE  Same(i, e)
      <3>1. i <= n \/ i = n + 1
        BY <1>4
      <3> QED
        BY <1>5, <3>1
    <2>1. /\ i <= Len(t) /\ i <= Len(u) /\ t[i] = a[i] /\ u[i] = a[i]
          /\ i \in Nat /\ i + 1 \in 1..(n + 1) /\ (i + 1) + m > n
      BY <1>2, <1>3, <1>4
    <2>2. \A e2 \in Nat \ {0} : Scan(u)[i + 1][e2] = Moved(Scan(t)[i + 1][e2])
      BY <1>7, <2>1
    <2>3. CASE a[i].kind = "text"
      <3>1. Scan(u)[i][e] = Scan(u)[i + 1][e]
        BY <1>4, <2>1, <2>3, ScanText
      <3>2. Scan(t)[i][e] = Scan(t)[i + 1][e]
        BY <1>4, <2>1, <2>3, ScanText
      <3> QED
        BY <2>2, <3>1, <3>2
    <2>4. CASE a[i].kind = "open"
      <3> e \in Nat /\ t[i].kind = "open" /\ u[i].kind = "open"
        BY <2>1, <2>4
      <3>1. Scan(u)[i][e] = Scan(u)[i + 1][e + 1]
        <4>1. Len(u) \in Nat /\ i \in Nat /\ i <= Len(u)
          BY <1>4, <2>1
        <4>2. Deepens(Scan(u), i, e)
          BY <4>1, ScanOpen
        <4> QED
          BY <4>2 DEF Deepens
      <3>2. Scan(t)[i][e] = Scan(t)[i + 1][e + 1]
        <4>1. Len(t) \in Nat /\ i \in Nat /\ i <= Len(t)
          BY <1>4, <2>1
        <4>2. Deepens(Scan(t), i, e)
          BY <4>1, ScanOpen
        <4> QED
          BY <4>2 DEF Deepens
      <3>3. e + 1 \in Nat \ {0}
        OBVIOUS
      <3> QED
        BY <2>2, <3>1, <3>2, <3>3
    <2>5. CASE a[i].kind \notin {"text", "open"}
      <3>1. Scan(u)[i][e] = IF e <= 1 THEN i ELSE Scan(u)[i + 1][e - 1]
        BY <1>4, <2>1, <2>5, ScanClose
      <3>2. Scan(t)[i][e] = IF e <= 1 THEN i ELSE Scan(t)[i + 1][e - 1]
        BY <1>4, <2>1, <2>5, ScanClose
      <3>3. CASE e <= 1
        BY <1>4, <3>1, <3>2, <3>3
      <3>4. CASE ~ (e <= 1)
        <4>1. e - 1 \in Nat \ {0}
          BY <3>4
        <4> QED
          BY <2>2, <3>1, <3>2, <3>4, <4>1
      <3> QED
        BY <3>3, <3>4
    <2> QED
      BY <2>3, <2>4, <2>5
  <1> HIDE DEF S
  <1>8. n \in S
    BY <1>4, <1>6, <1>7, Induct!Induction
  <1>9. j \in 1..(n + 1) /\ j + n > n
    BY <1>4 DEF n
  <1> QED
    BY <1>8, <1>9 DEF S, t, u, n, l

-----------------------------------------------------------------------------
(***************************************************************************)
(* How the texts of the signature code are made: out of elements, with     *)
(* given names and declarations, whose tags pair up.                       *)
(***************************************************************************)
(* Nested, with elements of these names that declare these prefixes. *)
Made(s, names, ns) ==
    /\ Nested(s)
    /\ \A k \in Elements(s) : s[k].name \in names /\ s[k].ns \subseteq ns

(* The empty text is made of anything. *)
LEMMA MadeNone ==
    ASSUME NEW names, NEW ns
    PROVE  Made(<<>>, names, ns)
  <1>1. Elements(<<>>) = {}
    BY ShortTexts DEF Elements
  <1> QED
    BY <1>1, NestedNone DEF Made

(* So is a piece of text. *)
LEMMA MadeText ==
    ASSUME NEW x, NEW names, NEW ns
    PROVE  Made(<<Text(x)>>, names, ns)
  <1> DEFINE s == <<Text(x)>>
  <1>1. Len(s) = 1 /\ s[1].kind = "text"
    BY ShortTexts DEF Text
  <1> HIDE DEF s
  <1>2. \A k \in 1..Len(s) : s[k].kind = "text"
    BY <1>1
  <1>3. \A k \in Elements(s) : FALSE
    BY <1>2, ElementsOf
  <1>4. Nested(s)
    BY NestedText DEF s
  <1>5. Made(s, names, ns)
    BY <1>3, <1>4 DEF Made
  <1> QED
    BY <1>5 DEF s

(* Texts joined are made of what both are. *)
LEMMA MadeJoin ==
    ASSUME NEW names, NEW ns,
           NEW s, Made(s, names, ns), NEW t, Made(t, names, ns)
    PROVE  Made(Then(s, t), names, ns)
  <1> DEFINE all == Then(s, t)
  <1>1. Nested(s) /\ Nested(t) /\ IsText(s) /\ IsText(t)
    BY DEF Made, Nested
  <1>2. Nested(all)
    BY <1>1, NestedJoin
  <1>3. /\ IsText(all) /\ Len(all) = Len(s) + Len(t)
        /\ \A k \in 1..Len(s) : all[k] = s[k]
        /\ \A k \in 1..Len(t) : all[Len(s) + k] = t[k]
    <2>1. IsText(s) /\ IsText(t)
      BY <1>1
    <2> QED
      BY <2>1, Join
  <1>4. \A k \in Elements(all) :
           k \in Elements(s) \/ \E m \in Elements(t) : k = Len(s) + m
    BY <1>1, ElementsJoin
  <1> HIDE DEF all
  <1>5. ASSUME NEW k \in Elements(all)
        PROVE  all[k].name \in names /\ all[k].ns \subseteq ns
    <2>1. CASE k \in Elements(s)
      <3>1. all[k] = s[k]
        BY <1>3, <2>1, ElementsOf
      <3> QED
        BY <2>1, <3>1 DEF Made
    <2>2. ASSUME NEW m \in Elements(t), k = Len(s) + m
          PROVE  all[k].name \in names /\ all[k].ns \subseteq ns
      <3>1. all[k] = t[m]
        BY <1>3, <2>2, ElementsOf
      <3> QED
        BY <3>1 DEF Made
    <2> QED
      BY <1>4, <2>1, <2>2
  <1>6. Made(all, names, ns)
    BY <1>2, <1>5 DEF Made
  <1> QED
    BY <1>6 DEF all

(* An element is made of its name and of what its content is. *)
LEMMA MadeElement ==
    ASSUME NEW names, NEW ns, NEW c, Made(c, names, ns),
           NEW name \in names, NEW id, NEW attr, NEW ns2, ns2 \subseteq ns
    PROVE  Made(Element(name, id, attr, ns2, c), names, ns)
  <1> DEFINE all == Element(name, id, attr, ns2, c)
  <1>1. Nested(c) /\ IsText(c)
    BY DEF Made, Nested
  <1>2. Nested(all)
    BY <1>1, NestedElement
  <1>3. /\ all[1] = Open(name, id, attr, ns2)
        /\ \A k \in 1..Len(c) : all[k + 1] = c[k]
    BY <1>1, ElementIs
  <1>4. \A k \in Elements(all) : k = 1 \/ \E m \in Elements(c) : k = m + 1
    BY <1>1, ElementHolds
  <1> HIDE DEF all
  <1>5. ASSUME NEW k \in Elements(all)
        PROVE  all[k].name \in names /\ all[k].ns \subseteq ns
    <2>1. CASE k = 1
      BY <1>3, <2>1 DEF Open
    <2>2. ASSUME NEW m \in Elements(c), k = m + 1
          PROVE  all[k].name \in names /\ all[k].ns \subseteq ns
      <3>1. all[k] = c[m]
        BY <1>3, <2>2, ElementsOf
      <3> QED
        BY <3>1 DEF Made
    <2> QED
      BY <1>4, <2>1, <2>2
  <1>6. Made(all, names, ns)
    BY <1>2, <1>5 DEF Made
  <1> QED
    BY <1>6 DEF all

(* A leaf is made of its name. *)
LEMMA MadeLeaf ==
    ASSUME NEW names, NEW ns, NEW name \in names, NEW x
    PROVE  Made(Leaf(name, x), names, ns)
  <1> DEFINE c == <<Text(x)>>
  <1>1. Made(c, names, ns)
    BY MadeText
  <1> DEFINE none == {}
  <1>2. Leaf(name, x) = Element(name, NoId, NoAttr, none, c)
    BY DEF Leaf
  <1>3. none \subseteq ns
    OBVIOUS
  <1> HIDE DEF c, none
  <1>4. Made(Element(name, NoId, NoAttr, none, c), names, ns)
    BY <1>1, <1>3, MadeElement
  <1> QED
    BY <1>2, <1>4

(* One more text at the end of a list is joined last. *)
LEMMA FlattenMore ==
    ASSUME NEW T, NEW seqs \in Seq(Seq(T)), NEW s \in Seq(T)
    PROVE  Seqs!FlattenSeq(Append(seqs, s)) = Then(Seqs!FlattenSeq(seqs), s)
  BY Induct!FlattenAppend, Zenon DEF Seqs!FlattenSeq, Induct!FlattenSeq, Then

(* A list of texts is made of what each of them is. *)
LEMMA MadeFlatten ==
    ASSUME NEW names, NEW ns, NEW n \in Nat, NEW f, f = [k \in 1..n |-> f[k]],
           \A k \in 1..n : Made(f[k], names, ns)
    PROVE  Made(Seqs!FlattenSeq(f), names, ns)
  <1> DEFINE T == UNION {{f[k][j] : j \in 1..Len(f[k])} : k \in 1..n}
             Front(m) == [k \in 1..m |-> f[k]]
             S == {m \in Nat : m <= n => Made(Seqs!FlattenSeq(Front(m)), names, ns)}
  <1>1. ASSUME NEW k \in 1..n
        PROVE  f[k] \in Seq(T)
    <2> DEFINE s == f[k]
    <2>1. PICK U : s \in Seq(U)
      BY DEF Made, Nested, IsText
    <2>2. s \in [1..Len(s) -> U] /\ Len(s) \in Nat
      BY <2>1
    <2>3. \A j \in 1..Len(s) : s[j] \in T
      OBVIOUS
    <2> HIDE DEF s, T
    <2>4. s \in [1..Len(s) -> T]
      BY <2>2, <2>3
    <2>5. s \in Seq(T)
      BY <2>2, <2>4
    <2> QED
      BY <2>5 DEF s
  <1> HIDE DEF T
  <1>2. ASSUME NEW m \in 0..n
        PROVE  Front(m) \in Seq(Seq(T)) /\ Len(Front(m)) = m
    <2> DEFINE U == Seq(T)
               g == Front(m)
    <2>1. \A k \in 1..m : f[k] \in U
      BY <1>1
    <2> HIDE DEF U
    <2>2. g \in [1..m -> U] /\ m \in Nat
      BY <2>1
    <2> HIDE DEF Front, g
    <2>3. g \in Seq(U) /\ Len(g) = m
      BY <2>2
    <2> QED
      BY <2>3 DEF g, U
  <1>3. 0 \in S
    <2>1. Front(0) = <<>>
      BY <1>2, EmptySeq
    <2>2. Seqs!FlattenSeq(<<>>) = <<>>
      BY Induct!FlattenSeqOfNone DEF Seqs!FlattenSeq, Induct!FlattenSeq
    <2> QED
      BY <2>1, <2>2, MadeNone
  <1>4. ASSUME NEW m \in Nat, m \in S
        PROVE  m + 1 \in S
    <2> SUFFICES ASSUME m + 1 <= n
                 PROVE  Made(Seqs!FlattenSeq(Front(m + 1)), names, ns)
      OBVIOUS
    <2>1. m \in 0..n /\ m + 1 \in 1..n /\ m <= n
      OBVIOUS
    <2> DEFINE g == Front(m)
               s == f[m + 1]
               h == Front(m + 1)
    <2>2. h = Append(g, s)
      <3>1. h \in [1..(m + 1) -> Seq(T)] /\ h[m + 1] = s
        BY <1>1, <2>1
      <3>2. g = [k \in 1..m |-> h[k]]
        BY <2>1
      <3> HIDE DEF h, g, s
      <3>3. h = Append([k \in 1..m |-> h[k]], h[m + 1])
        BY <3>1, Induct!OneMore
      <3> QED
        BY <3>1, <3>2, <3>3, Zenon
    <2>3. g \in Seq(Seq(T)) /\ s \in Seq(T)
      BY <1>1, <1>2, <2>1
    <2>4. Seqs!FlattenSeq(Append(g, s)) = Then(Seqs!FlattenSeq(g), s)
      <3> HIDE DEF g, s
      <3> QED
        BY <2>3, FlattenMore
    <2>5. Made(Seqs!FlattenSeq(g), names, ns) /\ Made(s, names, ns)
      BY <1>4, <2>1
    <2> HIDE DEF g, s
    <2>6. Made(Then(Seqs!FlattenSeq(g), s), names, ns)
      BY <2>5, MadeJoin
    <2> QED
      BY <2>2, <2>4, <2>6, Zenon
  <1> HIDE DEF S
  <1>5. n \in S
    BY <1>3, <1>4, Induct!Induction
  <1>6. Front(n) = f
    OBVIOUS
  <1>7. n <= n
    OBVIOUS
  <1> HIDE DEF Front
  <1> QED
    BY <1>5, <1>6, <1>7 DEF S

-----------------------------------------------------------------------------
(***************************************************************************)
(* The first and the last of some positions, and what is pasted there.     *)
(***************************************************************************)
(* The least position is a position, and the least. *)
LEMMA FirstIs ==
    ASSUME NEW S, S \subseteq Nat, S # {}
    PROVE  First(S) \in S /\ \A i \in S : First(S) <= i
  <1>1. \E j \in S : \A i \in S : j <= i
    BY Induct!LeastNumber
  <1> QED
    BY <1>1 DEF First

(* The greatest position is a position, and the greatest. *)
LEMMA LastIs ==
    ASSUME NEW n \in Nat, NEW S, S \subseteq 1..n, S # {}
    PROVE  Last(S) \in S /\ \A i \in S : i <= Last(S)
  <1> DEFINE T == {m \in Nat : n - m \in S}
  <1>1. T # {}
    <2>1. PICK i \in S : TRUE
      OBVIOUS
    <2>2. n - i \in Nat /\ n - (n - i) = i
      BY <2>1
    <2> QED
      BY <2>1, <2>2
  <1>2. T \subseteq Nat
    OBVIOUS
  <1>3. PICK x \in T : \A y \in T : x <= y
    BY <1>1, <1>2, Induct!LeastNumber
  <1>4. ASSUME NEW i \in S
        PROVE  i <= n - x
    <2>1. n - i \in Nat /\ n - (n - i) = i
      OBVIOUS
    <2>2. n - i \in T
      BY <2>1
    <2>3. x <= n - i /\ x \in Nat /\ i \in Nat
      BY <1>2, <1>3, <2>2
    <2> HIDE DEF T
    <2> QED
      BY <2>3
  <1>5. \E j \in S : \A i \in S : i <= j
    BY <1>3, <1>4
  <1> QED
    BY <1>5 DEF Last

(* A text may be cut before any of its tokens. *)
LEMMA CutAt ==
    ASSUME NEW text, IsText(text), NEW p \in 1..Len(text)
    PROVE  LET a == SubSeq(text, 1, p - 1)
               b == SubSeq(text, p, Len(text))
           IN  /\ IsText(a) /\ IsText(b)
               /\ Len(a) = p - 1 /\ text = Then(a, b)
  <1> DEFINE a == SubSeq(text, 1, p - 1)
             b == SubSeq(text, p, Len(text))
             l == Len(text)
  <1>1. PICK T : text \in Seq(T)
    BY DEF IsText
  <1>2. l \in Nat
    BY TextIsSequence
  <1>3. a \in Seq(T) /\ Len(a) = p - 1
    BY <1>1, <1>2, SubSeqProperties
  <1>4. b \in Seq(T)
    BY <1>1, <1>2, SubSeqProperties
  <1>5. a \o b = text
    <2> DEFINE q == p - 1
    <2>1. SubSeq(text, 1, q) \o SubSeq(text, q + 1, l) = SubSeq(text, 1, l)
      <3>1. 1 \in 1..(Len(text) + 1) /\ q \in (1 - 1)..Len(text) /\ l \in q..Len(text)
        BY <1>2
      <3> HIDE DEF q, l
      <3> QED
        BY <1>1, <3>1, ConcatAdjacentSubSeq
    <2>2. q + 1 = p
      BY <1>2
    <2>3. SubSeq(text, 1, l) = text
      BY <1>1, SubSeqFull
    <2> QED
      BY <2>1, <2>2, <2>3
  <1> QED
    BY <1>3, <1>4, <1>5 DEF IsText, Then

(* What Pasted makes is the text with the block in between. *)
LEMMA PastedIs ==
    ASSUME NEW text, IsText(text), NEW p \in 1..Len(text), NEW block, IsText(block)
    PROVE  \E a, b : /\ IsText(a) /\ IsText(b) /\ Len(a) = p - 1
                     /\ text = Then(a, b)
                     /\ Pasted(text, p, block) = Within(a, block, b)
  <1> DEFINE a == SubSeq(text, 1, p - 1)
             b == SubSeq(text, p, Len(text))
  <1>1. /\ IsText(a) /\ IsText(b)
        /\ Len(a) = p - 1 /\ text = Then(a, b)
    BY CutAt
  <1>2. Pasted(text, p, block) = Then(Then(a, block), b)
    BY DEF Pasted, Then
  <1> HIDE DEF a, b
  <1>3. Then(Then(a, block), b) = Within(a, block, b)
    BY <1>1, Regroup DEF Within
  <1> QED
    BY <1>1, <1>2, <1>3

-----------------------------------------------------------------------------
(***************************************************************************)
(* Documents: one root, and the prefixes that it declares for all of them. *)
(***************************************************************************)
(* One element from end to end, which declares the prefixes of ns; those    *)
(* within declare no others.                                                *)
OneRoot(text, ns) ==
    /\ IsText(text) /\ 1 \in Elements(text)
    /\ text[1].ns = ns /\ EndTag(text, 1) = Len(text)
    /\ \A j \in Elements(text) : text[j].ns \subseteq ns

-----------------------------------------------------------------------------
(***************************************************************************)
(* What is parsed, and the canonical form of an element with a text.       *)
(***************************************************************************)
(* What the tree of a text holds. *)
LEMMA ParseIs ==
    ASSUME NEW text
    PROVE  LET tree == Parse(text)
           IN  /\ tree.text = text /\ Nodes(tree) = Elements(text)
               /\ \A k \in Elements(text) :
                     /\ tree.end[k] = EndTag(text, k)
                     /\ tree.around[k]
                          = {j \in Elements(text) : j < k /\ EndTag(text, j) > k}
  <1> DEFINE end == [k \in Elements(text) |-> EndTag(text, k)]
             around == [k \in Elements(text) |->
                          {j \in Elements(text) : j < k /\ end[j] > k}]
             tree == Parse(text)
  <1>1. tree.text = text /\ tree.end = end /\ tree.around = around
    BY DEF Parse
  <1>2. Nodes(tree) = Elements(text)
    BY <1>1 DEF Nodes
  <1>3. \A k \in Elements(text) : end[k] = EndTag(text, k)
    OBVIOUS
  <1>4. ASSUME NEW k \in Elements(text)
        PROVE  around[k] = {j \in Elements(text) : j < k /\ EndTag(text, j) > k}
    <2>1. around[k] = {j \in Elements(text) : j < k /\ end[j] > k}
      OBVIOUS
    <2> HIDE DEF end, around
    <2> QED
      BY <1>3, <2>1
  <1> QED
    BY <1>1, <1>2, <1>3, <1>4

(* In such a document every element sees what the root declares. *)
LEMMA RootInScope ==
    ASSUME NEW text, NEW ns, OneRoot(text, ns), NEW k \in Elements(text),
           k < Len(text)
    PROVE  InScope(Parse(text), k) = ns
  <1> DEFINE tree == Parse(text)
  <1>1. /\ tree.text = text
        /\ tree.around[k] = {j \in Elements(text) : j < k /\ EndTag(text, j) > k}
    BY ParseIs
  <1> HIDE DEF tree
  <1>2. 1 \in {k} \cup tree.around[k]
    <2>1. k = 1 \/ 1 < k
      BY ElementsOf
    <2> QED
      BY <1>1, <2>1 DEF OneRoot
  <1>3. \A j \in {k} \cup tree.around[k] : text[j].ns \subseteq ns
    BY <1>1 DEF OneRoot
  <1>4. text[1].ns = ns
    BY DEF OneRoot
  <1> HIDE DEF OneRoot
  <1>5. UNION {text[j].ns : j \in {k} \cup tree.around[k]} = ns
    BY <1>2, <1>3, <1>4
  <1> QED
    BY <1>1, <1>5 DEF InScope, tree

(* The canonical form of an element with a piece of text. *)
LEMMA CanonicalOfThree ==
    ASSUME NEW text, NEW k \in Elements(text), EndTag(text, k) = k + 2,
           text[k].kind = "open", text[k + 1].kind = "text",
           text[k + 2].kind = "close"
    PROVE  LET tree == Parse(text)
           IN  Canonical(tree, k)
                 = [j \in 1..3 |->
                      IF j = 1
                      THEN [text[k] EXCEPT !.ns = InScope(tree, k)]
                      ELSE IF j = 2 THEN text[k + 1] ELSE text[k + 2]]
  <1> DEFINE tree == Parse(text)
             head == [text[k] EXCEPT !.ns = InScope(tree, k)]
             f == [j \in 1..3 |-> IF j = 1 THEN head
                                  ELSE IF j = 2 THEN text[k + 1] ELSE text[k + 2]]
  <1>1. tree.text = text /\ tree.end[k] = k + 2
    BY ParseIs
  <1>2. k \in Nat
    BY ElementsOf
  <1> HIDE DEF tree
  <1>3. tree.end[k] + 1 - k = 3
    BY <1>1, <1>2
  <1>4. NewlyVisible(tree, k, k) = InScope(tree, k)
    BY DEF NewlyVisible
  <1> DEFINE part(j) == LET i == k + j - 1
                        IN  IF Opens(tree.text, i)
                            THEN [tree.text[i] EXCEPT !.ns = NewlyVisible(tree, k, i)]
                            ELSE tree.text[i]
             g == [j \in 1..3 |-> part(j)]
  <1>5. Canonical(tree, k) = g
    BY <1>3 DEF Canonical
  <1>6. part(1) = head
    <2>1. k + 1 - 1 = k
      BY <1>2
    <2>2. Opens(text, k)
      BY DEF Opens
    <2> QED
      BY <1>1, <1>4, <2>1, <2>2
  <1>7. part(2) = text[k + 1]
    <2>1. k + 2 - 1 = k + 1
      BY <1>2
    <2> QED
      BY <1>1, <2>1 DEF Opens
  <1>8. part(3) = text[k + 2]
    <2>1. k + 3 - 1 = k + 2
      BY <1>2
    <2> QED
      BY <1>1, <2>1 DEF Opens
  <1> HIDE DEF part, head
  <1>9. g = f
    <2>1. \A j \in 1..3 : j = 1 \/ j = 2 \/ j = 3
      OBVIOUS
    <2>2. \A j \in 1..3 : g[j] = f[j]
      BY <1>6, <1>7, <1>8, <2>1
    <2> QED
      BY <2>2
  <1> QED
    BY <1>5, <1>9 DEF head, tree

-----------------------------------------------------------------------------
(***************************************************************************)
(* The names in a SignedInfo and in a XAdES document.                      *)
(***************************************************************************)
(* The names in a SignedInfo. *)
InfoNames ==
    {Ds("SignedInfo"), Ds("CanonicalizationMethod"), Ds("SignatureMethod"),
     Ds("Reference")}

(* The names in a XAdES document. *)
XadesNames ==
    {<<"asic", "XAdESSignatures">>, Ds("Signature"), Ds("SignatureValue"),
     Ds("KeyInfo"), Ds("Object"), Xa("QualifyingProperties"),
     Xa("SignedProperties"), Xa("SignedSignatureProperties"),
     Xa("SignedDataObjectProperties"), Xa("DataObjectFormat"),
     Xa("UnsignedProperties"), Xa("UnsignedSignatureProperties"),
     Xa("SignatureTimeStamp"), Xa("CertificateValues"), Xa("RevocationValues")}
      \cup InfoNames

-----------------------------------------------------------------------------
(***************************************************************************)
(* Texts made of more names, and of one element.                           *)
(***************************************************************************)
(* What is made of some names is made of more. *)
LEMMA MadeMore ==
    ASSUME NEW names, NEW ns, NEW s, Made(s, names, ns),
           NEW more, names \subseteq more, NEW ns2, ns \subseteq ns2
    PROVE  Made(s, more, ns2)
  BY DEF Made

(* An empty element is made of its name. *)
LEMMA MadeEmpty ==
    ASSUME NEW names, NEW ns, NEW name \in names, NEW id, NEW attr
    PROVE  Made(Element(name, id, attr, {}, <<>>), names, ns)
  <1>1. Made(<<>>, names, ns) /\ {} \subseteq ns
    BY MadeNone
  <1> QED
    BY <1>1, MadeElement

-----------------------------------------------------------------------------
(***************************************************************************)
(* Texts without Ids.                                                      *)
(***************************************************************************)
(* No element of a text has an Id. *)
NoIds(s) == \A k \in Elements(s) : s[k].id = NoId

-----------------------------------------------------------------------------
(***************************************************************************)
(* No element of a payload has an Id.                                      *)
(***************************************************************************)
(* None of two texts joined, when none of either has. *)
LEMMA NoIdsJoin ==
    ASSUME NEW s, IsText(s), NoIds(s), NEW t, IsText(t), NoIds(t)
    PROVE  NoIds(Then(s, t))
  <1> DEFINE all == Then(s, t)
  <1>1. /\ IsText(all) /\ Len(all) = Len(s) + Len(t)
        /\ \A k \in 1..Len(s) : all[k] = s[k]
        /\ \A k \in 1..Len(t) : all[Len(s) + k] = t[k]
    <2>1. IsText(s) /\ IsText(t)
      OBVIOUS
    <2> QED
      BY <2>1, Join
  <1>2. \A k \in Elements(all) :
           k \in Elements(s) \/ \E m \in Elements(t) : k = Len(s) + m
    BY ElementsJoin
  <1> HIDE DEF all
  <1>3. ASSUME NEW k \in Elements(all)
        PROVE  all[k].id = NoId
    <2>1. CASE k \in Elements(s)
      <3>1. all[k] = s[k]
        BY <1>1, <2>1, ElementsOf
      <3> QED
        BY <2>1, <3>1 DEF NoIds
    <2>2. ASSUME NEW m \in Elements(t), k = Len(s) + m
          PROVE  all[k].id = NoId
      <3>1. all[k] = t[m]
        BY <1>1, <2>2, ElementsOf
      <3> QED
        BY <3>1 DEF NoIds
    <2> QED
      BY <1>2, <2>1, <2>2
  <1>4. NoIds(all)
    BY <1>3 DEF NoIds
  <1> QED
    BY <1>4 DEF all

(* None of an element without one, when none of its content has. *)
LEMMA NoIdsElement ==
    ASSUME NEW name, NEW attr, NEW ns, NEW c, IsText(c), NoIds(c)
    PROVE  NoIds(Element(name, NoId, attr, ns, c))
  <1> DEFINE all == Element(name, NoId, attr, ns, c)
  <1>1. /\ all[1] = Open(name, NoId, attr, ns)
        /\ \A k \in 1..Len(c) : all[k + 1] = c[k]
    BY ElementIs
  <1>2. \A k \in Elements(all) : k = 1 \/ \E m \in Elements(c) : k = m + 1
    BY ElementHolds
  <1> HIDE DEF all
  <1>3. ASSUME NEW k \in Elements(all)
        PROVE  all[k].id = NoId
    <2>1. CASE k = 1
      BY <1>1, <2>1 DEF Open
    <2>2. ASSUME NEW m \in Elements(c), k = m + 1
          PROVE  all[k].id = NoId
      <3>1. all[k] = c[m]
        BY <1>1, <2>2, ElementsOf
      <3> QED
        BY <3>1 DEF NoIds
    <2> QED
      BY <1>2, <2>1, <2>2
  <1>4. NoIds(all)
    BY <1>3 DEF NoIds
  <1> QED
    BY <1>4 DEF all

(* A leaf has none. *)
LEMMA NoIdsLeaf ==
    ASSUME NEW name, NEW x
    PROVE  NoIds(Leaf(name, x))
  <1> DEFINE c == <<Text(x)>>
  <1>1. IsText(c) /\ Len(c) = 1 /\ c[1].kind = "text"
    BY ShortTexts DEF Text
  <1>2. Leaf(name, x) = Element(name, NoId, NoAttr, {}, c)
    BY DEF Leaf
  <1> HIDE DEF c
  <1>3. \A k \in Elements(c) : FALSE
    <2>1. \A k \in 1..Len(c) : c[k].kind = "text"
      BY <1>1
    <2> QED
      BY <2>1, ElementsOf
  <1>4. NoIds(c)
    BY <1>3 DEF NoIds
  <1> QED
    BY <1>1, <1>2, <1>4, NoIdsElement

-----------------------------------------------------------------------------
(***************************************************************************)
(* What lies in what.  Around an element are those that begin before it    *)
(* and end behind it; the tops of a text lie in none, and inside an        *)
(* element are its children, those that lie in it and in what is around it *)
(* only.                                                                   *)
(***************************************************************************)
(* The elements that begin before k and end behind it. *)
Around(s, k) == {j \in Elements(s) : j < k /\ EndTag(s, j) > k}

(* The elements that lie in no other. *)
Tops(s) == {k \in Elements(s) : Around(s, k) = {}}

(* The children of k: what is around them is k and what is around k. *)
Inside(s, k) == {j \in Elements(s) : Around(s, j) = {k} \cup Around(s, k)}

(* Positions n further on. *)
Moved(S, n) == {n + k : k \in S}

(* Children, of the tree, and Inside, of the text, are the same. *)
LEMMA ChildrenAreInside ==
    ASSUME NEW s, NEW k \in Elements(s)
    PROVE  Children(Parse(s), k) = Inside(s, k)
  <1> DEFINE tree == Parse(s)
  <1>1. /\ tree.text = s /\ Nodes(tree) = Elements(s)
        /\ \A j \in Elements(s) : tree.around[j] = Around(s, j)
    BY ParseIs DEF Around
  <1> HIDE DEF tree
  <1> QED
    BY <1>1 DEF Children, Inside, tree

(* Elements are finitely many positions of their text. *)
LEMMA ElementNumbers ==
    ASSUME NEW s, IsText(s)
    PROVE  /\ Elements(s) \subseteq 1..Len(s) /\ IsFiniteSet(Elements(s))
           /\ Len(s) \in Nat
  <1>1. Len(s) \in Nat
    BY TextIsSequence
  <1>2. Elements(s) \subseteq 1..Len(s)
    BY DEF Elements
  <1>3. IsFiniteSet(1..Len(s))
    BY <1>1, FS_Interval
  <1> QED
    BY <1>1, <1>2, <1>3, FS_Subset

(* An element of a nested text ends within it, at its own end tag. *)
LEMMA NestedEnds ==
    ASSUME NEW s, Nested(s), NEW k \in Elements(s)
    PROVE  /\ EndTag(s, k) \in Nat /\ k < EndTag(s, k) /\ EndTag(s, k) <= Len(s)
           /\ s[EndTag(s, k)] = Close(s[k].name)
  <1>1. EndTag(s, k) \in (k + 1)..Len(s) /\ s[EndTag(s, k)] = Close(s[k].name)
    BY DEF Nested, EndsInside
  <1>2. Len(s) \in Nat /\ k \in Nat
    BY ElementNumbers DEF Nested
  <1> QED
    BY <1>1, <1>2

(* Two texts joined: around an element is what was around it. *)
LEMMA AroundJoin ==
    ASSUME NEW s, Nested(s), NEW t, Nested(t)
    PROVE  /\ \A k \in Elements(s) : Around(Then(s, t), k) = Around(s, k)
           /\ \A k \in Elements(t) :
                 Around(Then(s, t), Len(s) + k) = Moved(Around(t, k), Len(s))
  <1> DEFINE n == Len(s)
             st == Then(s, t)
  <1>1. IsText(s) /\ IsText(t)
    BY DEF Nested
  <1>2. /\ n \in Nat /\ Elements(s) \subseteq 1..n
        /\ Elements(t) \subseteq 1..Len(t) /\ Len(t) \in Nat
    BY <1>1, ElementNumbers
  <1>3. /\ \A k \in 1..n : k \in Elements(st) <=> k \in Elements(s)
        /\ \A k \in 1..Len(t) : n + k \in Elements(st) <=> k \in Elements(t)
        /\ \A k \in Elements(st) :
              k \in Elements(s) \/ \E m \in Elements(t) : k = n + m
    BY <1>1, ElementsJoin
  <1>4. /\ \A k \in Elements(s) : EndTag(st, k) = EndTag(s, k)
        /\ \A k \in Elements(t) : EndTag(st, n + k) = n + EndTag(t, k)
    BY EndsJoin
  <1>5. \A k \in Elements(s) : EndTag(s, k) \in Nat /\ EndTag(s, k) <= n
    BY NestedEnds
  <1>6. \A k \in Elements(t) : EndTag(t, k) \in Nat
    BY NestedEnds
  <1> HIDE DEF st
  <1>7. ASSUME NEW k \in Elements(s)
        PROVE  Around(st, k) = Around(s, k)
    <2>1. ASSUME NEW j \in Around(st, k) PROVE j \in Around(s, k)
      <3>1. j \in Elements(st) /\ j < k /\ EndTag(st, j) > k
        BY <2>1 DEF Around
      <3>2. j \in Elements(s)
        BY <1>2, <1>3, <3>1
      <3> QED
        BY <1>4, <3>1, <3>2 DEF Around
    <2>2. ASSUME NEW j \in Around(s, k) PROVE j \in Around(st, k)
      BY <1>2, <1>3, <1>4 DEF Around
    <2> QED
      BY <2>1, <2>2
  <1>8. ASSUME NEW k \in Elements(t)
        PROVE  Around(st, n + k) = Moved(Around(t, k), n)
    <2>1. ASSUME NEW j \in Around(st, n + k) PROVE j \in Moved(Around(t, k), n)
      <3>1. j \in Elements(st) /\ j < n + k /\ EndTag(st, j) > n + k
        BY <2>1 DEF Around
      <3>2. j \notin Elements(s)
        BY <1>2, <1>4, <1>5, <3>1
      <3>3. PICK m \in Elements(t) : j = n + m
        BY <1>3, <3>1, <3>2
      <3>4. m < k /\ EndTag(t, m) > k
        BY <1>2, <1>4, <1>6, <3>1, <3>3
      <3>5. m \in Around(t, k)
        BY <3>4 DEF Around
      <3> QED
        BY <3>3, <3>5 DEF Moved
    <2>2. ASSUME NEW j \in Moved(Around(t, k), n) PROVE j \in Around(st, n + k)
      <3>1. PICK m \in Around(t, k) : j = n + m
        BY <2>2 DEF Moved
      <3>2. m \in Elements(t) /\ m < k /\ EndTag(t, m) > k
        BY DEF Around
      <3>3. j \in Elements(st)
        BY <1>2, <1>3, <3>1, <3>2
      <3>4. j < n + k /\ EndTag(st, j) > n + k
        BY <1>2, <1>4, <1>6, <3>1, <3>2
      <3> QED
        BY <3>3, <3>4 DEF Around
    <2> QED
      BY <2>1, <2>2
  <1> QED
    BY <1>7, <1>8 DEF st

(* Around an element of the content is the element too. *)
LEMMA AroundElement ==
    ASSUME NEW name, NEW id, NEW attr, NEW ns, NEW c, Nested(c)
    PROVE  LET all == Element(name, id, attr, ns, c)
           IN  /\ Around(all, 1) = {}
               /\ \A k \in Elements(c) :
                     Around(all, k + 1) = {1} \cup Moved(Around(c, k), 1)
  <1> DEFINE all == Element(name, id, attr, ns, c)
  <1>1. IsText(c)
    BY DEF Nested
  <1>2. Len(c) \in Nat /\ Elements(c) \subseteq 1..Len(c)
    BY <1>1, ElementNumbers
  <1>3. /\ 1 \in Elements(all)
        /\ \A k \in Elements(c) : k + 1 \in Elements(all)
        /\ \A k \in Elements(all) : k = 1 \/ \E m \in Elements(c) : k = m + 1
    BY <1>1, ElementHolds
  <1>4. /\ EndTag(all, 1) = Len(c) + 2
        /\ \A k \in Elements(c) : EndTag(all, k + 1) = EndTag(c, k) + 1
    BY ElementEnds
  <1>5. \A k \in Elements(c) : EndTag(c, k) \in Nat
    BY NestedEnds
  <1> HIDE DEF all
  <1>6. Around(all, 1) = {}
    BY <1>2, <1>3 DEF Around
  <1>7. ASSUME NEW k \in Elements(c)
        PROVE  Around(all, k + 1) = {1} \cup Moved(Around(c, k), 1)
    <2>1. ASSUME NEW j \in Around(all, k + 1), j # 1
          PROVE  j \in Moved(Around(c, k), 1)
      <3>1. j \in Elements(all) /\ j < k + 1 /\ EndTag(all, j) > k + 1
        BY <2>1 DEF Around
      <3>2. PICK m \in Elements(c) : j = m + 1
        BY <1>3, <2>1, <3>1
      <3>3. m \in Around(c, k)
        BY <1>2, <1>4, <1>5, <3>1, <3>2 DEF Around
      <3>4. j = 1 + m
        BY <1>2, <3>2
      <3> QED
        BY <3>3, <3>4 DEF Moved
    <2>2. 1 \in Around(all, k + 1)
      BY <1>2, <1>3, <1>4 DEF Around
    <2>3. ASSUME NEW j \in Moved(Around(c, k), 1) PROVE j \in Around(all, k + 1)
      <3>1. PICK m \in Around(c, k) : j = 1 + m
        BY <2>3 DEF Moved
      <3>2. m \in Elements(c) /\ m < k /\ EndTag(c, m) > k
        BY DEF Around
      <3>3. j = m + 1
        BY <1>2, <3>1, <3>2
      <3>4. j \in Elements(all) /\ EndTag(all, j) = EndTag(c, m) + 1
        BY <1>3, <1>4, <3>2, <3>3
      <3> QED
        BY <1>2, <1>5, <3>2, <3>3, <3>4 DEF Around
    <2> QED
      BY <2>1, <2>2, <2>3
  <1> QED
    BY <1>6, <1>7 DEF all

(* What is in a set of moved positions. *)
LEMMA MovedIs ==
    ASSUME NEW S, S \subseteq Nat, NEW n \in Nat
    PROVE  /\ Moved(S, n) \subseteq Nat /\ Moved({}, n) = {}
           /\ \A k \in Nat : n + k \in Moved(S, n) <=> k \in S
           /\ Moved(S, n) = {} <=> S = {}
           /\ \A j \in Moved(S, n) : \E k \in S : j = n + k
  <1>1. \A k \in Nat : n + k \in Moved(S, n) <=> k \in S
    <2> SUFFICES ASSUME NEW k \in Nat, n + k \in Moved(S, n) PROVE k \in S
      BY DEF Moved
    <2>1. PICK m \in S : n + k = n + m
      BY DEF Moved
    <2> QED
      BY <2>1
  <1>2. Moved(S, n) \subseteq Nat
    BY DEF Moved
  <1>3. Moved({}, n) = {}
    BY Zenon DEF Moved
  <1>4. \A j \in Moved(S, n) : \E k \in S : j = n + k
    BY DEF Moved
  <1>5. Moved(S, n) = {} <=> S = {}
    BY <1>1, <1>4
  <1> QED
    BY <1>1, <1>2, <1>3, <1>4, <1>5

(* Moving tells sets of positions apart. *)
LEMMA MovedSame ==
    ASSUME NEW S, S \subseteq Nat, NEW T, T \subseteq Nat, NEW n \in Nat
    PROVE  Moved(S, n) = Moved(T, n) <=> S = T
  <1>1. \A k \in Nat : n + k \in Moved(S, n) <=> k \in S
    BY MovedIs
  <1>2. \A k \in Nat : n + k \in Moved(T, n) <=> k \in T
    BY MovedIs
  <1> QED
    BY <1>1, <1>2

(* One position more, moved. *)
LEMMA MovedWith ==
    ASSUME NEW S, NEW n, NEW k
    PROVE  Moved({k} \cup S, n) = {n + k} \cup Moved(S, n)
  BY DEF Moved

(* What is around an element are elements. *)
LEMMA AroundIsBefore ==
    ASSUME NEW s, IsText(s), NEW k
    PROVE  Around(s, k) \subseteq Nat /\ Around(s, k) \subseteq Elements(s)
  BY ElementNumbers DEF Around

(* The tops of two texts joined are those of both. *)
LEMMA TopsJoin ==
    ASSUME NEW s, Nested(s), NEW t, Nested(t)
    PROVE  Tops(Then(s, t)) = Tops(s) \cup Moved(Tops(t), Len(s))
  <1> DEFINE n == Len(s)
             st == Then(s, t)
  <1>1. IsText(s) /\ IsText(t)
    BY DEF Nested
  <1>2. /\ n \in Nat /\ Elements(s) \subseteq 1..n
        /\ Elements(t) \subseteq 1..Len(t) /\ Len(t) \in Nat
    BY <1>1, ElementNumbers
  <1>3. /\ \A k \in 1..n : k \in Elements(st) <=> k \in Elements(s)
        /\ \A k \in 1..Len(t) : n + k \in Elements(st) <=> k \in Elements(t)
        /\ \A k \in Elements(st) :
              k \in Elements(s) \/ \E m \in Elements(t) : k = n + m
    BY <1>1, ElementsJoin
  <1>4. /\ \A k \in Elements(s) : Around(st, k) = Around(s, k)
        /\ \A k \in Elements(t) : Around(st, n + k) = Moved(Around(t, k), n)
    BY AroundJoin
  <1>5. \A k \in Elements(t) : Moved(Around(t, k), n) = {} <=> Around(t, k) = {}
    BY <1>1, <1>2, AroundIsBefore, MovedIs
  <1> HIDE DEF st
  <1>6. ASSUME NEW j \in Tops(st) PROVE j \in Tops(s) \cup Moved(Tops(t), n)
    <2>1. j \in Elements(st) /\ Around(st, j) = {}
      BY DEF Tops
    <2>2. CASE j \in Elements(s)
      BY <1>4, <2>1, <2>2 DEF Tops
    <2>3. ASSUME NEW m \in Elements(t), j = n + m PROVE j \in Moved(Tops(t), n)
      BY <1>4, <1>5, <2>1, <2>3 DEF Tops, Moved
    <2> QED
      BY <1>3, <2>1, <2>2, <2>3
  <1>7. ASSUME NEW j \in Tops(s) PROVE j \in Tops(st)
    BY <1>2, <1>3, <1>4 DEF Tops
  <1>8. ASSUME NEW j \in Moved(Tops(t), n) PROVE j \in Tops(st)
    <2>1. PICK m \in Tops(t) : j = n + m
      BY <1>8 DEF Moved
    <2>2. m \in Elements(t) /\ Around(t, m) = {}
      BY DEF Tops
    <2> QED
      BY <1>2, <1>3, <1>4, <1>5, <2>1, <2>2 DEF Tops
  <1> QED
    BY <1>6, <1>7, <1>8 DEF st

(* Two texts joined: the children of an element are what they were. *)
LEMMA InsideJoin ==
    ASSUME NEW s, Nested(s), NEW t, Nested(t)
    PROVE  /\ \A k \in Elements(s) : Inside(Then(s, t), k) = Inside(s, k)
           /\ \A k \in Elements(t) :
                 Inside(Then(s, t), Len(s) + k) = Moved(Inside(t, k), Len(s))
  <1> DEFINE n == Len(s)
             st == Then(s, t)
  <1>1. IsText(s) /\ IsText(t)
    BY DEF Nested
  <1>2. /\ n \in Nat /\ Elements(s) \subseteq 1..n
        /\ Elements(t) \subseteq 1..Len(t) /\ Len(t) \in Nat
    BY <1>1, ElementNumbers
  <1>3. /\ \A k \in 1..n : k \in Elements(st) <=> k \in Elements(s)
        /\ \A k \in 1..Len(t) : n + k \in Elements(st) <=> k \in Elements(t)
        /\ \A k \in Elements(st) :
              k \in Elements(s) \/ \E m \in Elements(t) : k = n + m
    BY <1>1, ElementsJoin
  <1>4. /\ \A k \in Elements(s) : Around(st, k) = Around(s, k)
        /\ \A k \in Elements(t) : Around(st, n + k) = Moved(Around(t, k), n)
    BY AroundJoin
  <1>5. /\ \A k \in Elements(s) : Around(s, k) \subseteq 1..n
        /\ \A k \in Elements(t) : Around(t, k) \subseteq 1..Len(t)
    BY <1>2 DEF Around
  <1>6. \A k \in Elements(t) : \A j \in Moved(Around(t, k), n) : j > n
    BY <1>2, <1>5 DEF Moved
  <1>7. \A j, k \in Elements(t) :
           Around(st, n + j) = {n + k} \cup Around(st, n + k)
             <=> Around(t, j) = {k} \cup Around(t, k)
    <2> SUFFICES ASSUME NEW j \in Elements(t), NEW k \in Elements(t)
                 PROVE  Moved(Around(t, j), n) = {n + k} \cup Moved(Around(t, k), n)
                          <=> Around(t, j) = {k} \cup Around(t, k)
      BY <1>4
    <2>1. /\ Around(t, j) \subseteq Nat /\ Around(t, k) \subseteq Nat /\ k \in Nat
          /\ {k} \cup Around(t, k) \subseteq Nat
      BY <1>2, <1>5
    <2>2. Moved({k} \cup Around(t, k), n) = {n + k} \cup Moved(Around(t, k), n)
      BY MovedWith
    <2>3. Moved(Around(t, j), n) = Moved({k} \cup Around(t, k), n)
            <=> Around(t, j) = {k} \cup Around(t, k)
      BY <1>2, <2>1, MovedSame
    <2> QED
      BY <2>2, <2>3
  <1> HIDE DEF st
  <1>8. ASSUME NEW k \in Elements(s)
        PROVE  Inside(st, k) = Inside(s, k)
    <2>1. ASSUME NEW j \in Inside(st, k) PROVE j \in Inside(s, k)
      <3>1. j \in Elements(st) /\ Around(st, j) = {k} \cup Around(st, k)
        BY <2>1 DEF Inside
      <3>2. ASSUME NEW m \in Elements(t), j = n + m PROVE FALSE
        <4>1. k \in Moved(Around(t, m), n)
          BY <1>4, <3>1, <3>2
        <4>2. k > n
          BY <1>6, <4>1
        <4> QED
          BY <1>2, <4>2
      <3>3. j \in Elements(s)
        BY <1>3, <3>1, <3>2
      <3> QED
        BY <1>4, <3>1, <3>3 DEF Inside
    <2>2. ASSUME NEW j \in Inside(s, k) PROVE j \in Inside(st, k)
      BY <1>2, <1>3, <1>4 DEF Inside
    <2> QED
      BY <2>1, <2>2
  <1>9. ASSUME NEW k \in Elements(t)
        PROVE  Inside(st, n + k) = Moved(Inside(t, k), n)
    <2>1. ASSUME NEW j \in Inside(st, n + k) PROVE j \in Moved(Inside(t, k), n)
      <3>1. j \in Elements(st) /\ Around(st, j) = {n + k} \cup Around(st, n + k)
        BY <2>1 DEF Inside
      <3>2. j \notin Elements(s)
        <4> SUFFICES ASSUME j \in Elements(s) PROVE FALSE
          OBVIOUS
        <4>1. n + k \in Around(s, j)
          BY <1>4, <3>1
        <4> QED
          BY <1>2, <1>5, <4>1
      <3>3. PICK m \in Elements(t) : j = n + m
        BY <1>3, <3>1, <3>2
      <3>4. m \in Inside(t, k)
        BY <1>7, <3>1, <3>3 DEF Inside
      <3> QED
        BY <3>3, <3>4 DEF Moved
    <2>2. ASSUME NEW j \in Moved(Inside(t, k), n) PROVE j \in Inside(st, n + k)
      <3>1. PICK m \in Inside(t, k) : j = n + m
        BY <2>2 DEF Moved
      <3>2. m \in Elements(t) /\ Around(t, m) = {k} \cup Around(t, k)
        BY DEF Inside
      <3>3. j \in Elements(st)
        BY <1>2, <1>3, <3>1, <3>2
      <3> QED
        BY <1>7, <3>1, <3>2, <3>3 DEF Inside
    <2> QED
      BY <2>1, <2>2
  <1> QED
    BY <1>8, <1>9 DEF st

(* The one top of an element is itself. *)
LEMMA TopsOfElement ==
    ASSUME NEW name, NEW id, NEW attr, NEW ns, NEW c, Nested(c)
    PROVE  Tops(Element(name, id, attr, ns, c)) = {1}
  <1> DEFINE all == Element(name, id, attr, ns, c)
  <1>1. IsText(c)
    BY DEF Nested
  <1>2. /\ 1 \in Elements(all)
        /\ \A k \in Elements(all) : k = 1 \/ \E m \in Elements(c) : k = m + 1
    BY <1>1, ElementHolds
  <1>3. /\ Around(all, 1) = {}
        /\ \A k \in Elements(c) : Around(all, k + 1) = {1} \cup Moved(Around(c, k), 1)
    BY AroundElement
  <1> HIDE DEF all
  <1> QED
    BY <1>2, <1>3 DEF Tops, all

(* The children of an element are the tops of its content. *)
LEMMA InsideElement ==
    ASSUME NEW name, NEW id, NEW attr, NEW ns, NEW c, Nested(c)
    PROVE  LET all == Element(name, id, attr, ns, c)
           IN  /\ Inside(all, 1) = Moved(Tops(c), 1)
               /\ \A k \in Elements(c) : Inside(all, k + 1) = Moved(Inside(c, k), 1)
  <1> DEFINE all == Element(name, id, attr, ns, c)
             M(k) == Moved(Around(c, k), 1)
  <1>1. IsText(c)
    BY DEF Nested
  <1>2. Len(c) \in Nat /\ Elements(c) \subseteq 1..Len(c)
    BY <1>1, ElementNumbers
  <1>3. /\ 1 \in Elements(all)
        /\ \A k \in Elements(c) : k + 1 \in Elements(all)
        /\ \A k \in Elements(all) : k = 1 \/ \E m \in Elements(c) : k = m + 1
    BY <1>1, ElementHolds
  <1>4. /\ Around(all, 1) = {}
        /\ \A k \in Elements(c) : Around(all, k + 1) = {1} \cup M(k)
    BY AroundElement
  <1>5. \A k \in Elements(c) : Around(c, k) \subseteq 1..Len(c)
    BY <1>2 DEF Around
  <1>6. \A k \in Elements(c) : \A j \in M(k) : j > 1
    BY <1>2, <1>5 DEF Moved
  <1>7. \A j, k \in Elements(c) :
           Around(all, j + 1) = {k + 1} \cup Around(all, k + 1)
             <=> Around(c, j) = {k} \cup Around(c, k)
    <2> SUFFICES ASSUME NEW j \in Elements(c), NEW k \in Elements(c)
                 PROVE  {1} \cup M(j) = {k + 1} \cup ({1} \cup M(k))
                          <=> Around(c, j) = {k} \cup Around(c, k)
      BY <1>4
    <2>1. /\ Around(c, j) \subseteq Nat /\ Around(c, k) \subseteq Nat /\ k \in Nat
          /\ {k} \cup Around(c, k) \subseteq Nat /\ 1 \in Nat
      BY <1>2, <1>5
    <2>2. Moved({k} \cup Around(c, k), 1) = {1 + k} \cup M(k)
      BY MovedWith
    <2>3. M(j) = Moved({k} \cup Around(c, k), 1)
            <=> Around(c, j) = {k} \cup Around(c, k)
      BY <2>1, MovedSame
    <2>4. 1 + k = k + 1 /\ k + 1 # 1 /\ 1 \notin M(j) /\ 1 \notin M(k)
      BY <1>2, <1>6
    <2> HIDE DEF M
    <2>5. {1} \cup M(j) = {k + 1} \cup ({1} \cup M(k)) <=> M(j) = {k + 1} \cup M(k)
      BY <2>4
    <2> QED
      BY <2>2, <2>3, <2>4, <2>5
  <1>8. \A k \in Elements(c) : M(k) = {} <=> Around(c, k) = {}
    BY <1>1, <1>2, AroundIsBefore, MovedIs
  <1> HIDE DEF all
  <1>9. Inside(all, 1) = Moved(Tops(c), 1)
    <2>1. ASSUME NEW j \in Inside(all, 1) PROVE j \in Moved(Tops(c), 1)
      <3>1. j \in Elements(all) /\ Around(all, j) = {1}
        BY <1>4, <2>1 DEF Inside
      <3>2. j # 1
        BY <1>4, <3>1
      <3>3. PICK m \in Elements(c) : j = m + 1
        BY <1>3, <3>1, <3>2
      <3>4. {1} \cup M(m) = {1}
        BY <1>4, <3>1, <3>3
      <3>5. M(m) = {}
        BY <1>6, <3>4
      <3>6. m \in Tops(c)
        BY <1>8, <3>5 DEF Tops
      <3>7. j = 1 + m
        BY <1>2, <3>3
      <3> QED
        BY <3>6, <3>7 DEF Moved
    <2>2. ASSUME NEW j \in Moved(Tops(c), 1) PROVE j \in Inside(all, 1)
      <3>1. PICK m \in Tops(c) : j = 1 + m
        BY <2>2 DEF Moved
      <3>2. m \in Elements(c) /\ Around(c, m) = {}
        BY DEF Tops
      <3>3. j = m + 1
        BY <1>2, <3>1, <3>2
      <3>4. Around(all, j) = {1} \cup M(m) /\ M(m) = {}
        BY <1>4, <1>8, <3>2, <3>3
      <3> QED
        BY <1>3, <1>4, <3>2, <3>3, <3>4 DEF Inside
    <2> QED
      BY <2>1, <2>2
  <1>10. ASSUME NEW k \in Elements(c)
         PROVE  Inside(all, k + 1) = Moved(Inside(c, k), 1)
    <2>1. ASSUME NEW j \in Inside(all, k + 1) PROVE j \in Moved(Inside(c, k), 1)
      <3>1. j \in Elements(all) /\ Around(all, j) = {k + 1} \cup Around(all, k + 1)
        BY <2>1 DEF Inside
      <3>2. j # 1
        BY <1>4, <3>1
      <3>3. PICK m \in Elements(c) : j = m + 1
        BY <1>3, <3>1, <3>2
      <3>4. m \in Inside(c, k)
        BY <1>7, <3>1, <3>3 DEF Inside
      <3>5. j = 1 + m
        BY <1>2, <3>3
      <3> QED
        BY <3>4, <3>5 DEF Moved
    <2>2. ASSUME NEW j \in Moved(Inside(c, k), 1) PROVE j \in Inside(all, k + 1)
      <3>1. PICK m \in Inside(c, k) : j = 1 + m
        BY <2>2 DEF Moved
      <3>2. m \in Elements(c) /\ Around(c, m) = {k} \cup Around(c, k)
        BY DEF Inside
      <3>3. j = m + 1
        BY <1>2, <3>1, <3>2
      <3> QED
        BY <1>3, <1>7, <3>2, <3>3 DEF Inside
    <2> QED
      BY <2>1, <2>2
  <1> QED
    BY <1>9, <1>10 DEF all

-----------------------------------------------------------------------------
(***************************************************************************)
(* The structs of the reader, for a text by its parts.                     *)
(***************************************************************************)
(* Those of some positions whose element has this local name. *)
Named(s, S, local) == {j \in S : s[j].name[2] = local}

(* Finitely many positions. *)
ArePositions(S) == S \subseteq Nat /\ IsFiniteSet(S)

(* Moving does not change how many there are. *)
LEMMA CardinalityMoved ==
    ASSUME NEW S, ArePositions(S), NEW n \in Nat
    PROVE  IsFiniteSet(Moved(S, n)) /\ Cardinality(Moved(S, n)) = Cardinality(S)
  <1> DEFINE T == Moved(S, n)
             f == [k \in S |-> n + k]
  <1>1. f \in [S -> T]
    BY DEF Moved
  <1>2. \A j \in T : \E k \in S : f[k] = j
    BY DEF Moved
  <1>3. \A j, k \in S : f[j] = f[k] => j = k
    BY DEF ArePositions
  <1> HIDE DEF T, f
  <1>4. f \in Bijection(S, T)
    BY <1>1, <1>2, <1>3 DEF Bijection, Injection, Surjection, IsInjective
  <1>5. ExistsBijection(S, T)
    BY <1>4 DEF ExistsBijection
  <1> QED
    BY <1>5, FS_Bijection DEF T, ArePositions

(* A token of the first of two texts joined. *)
LEMMA JoinFirst ==
    ASSUME NEW a, IsText(a), NEW b, IsText(b), NEW k \in 1..Len(a)
    PROVE  Then(a, b)[k] = a[k]
  BY Join

(* A token of the second. *)
LEMMA JoinSecond ==
    ASSUME NEW a, IsText(a), NEW b, IsText(b), NEW k \in 1..Len(b)
    PROVE  Then(a, b)[Len(a) + k] = b[k]
  BY Join

(* Of the positions S of s, the names are the same at n + S of t. *)
SameNames(s, t, S, n) == \A j \in S : t[n + j].name = s[j].name

(* Then there are as many of each name. *)
LEMMA NamedMoved ==
    ASSUME NEW s, NEW t, NEW S, ArePositions(S), NEW n \in Nat,
           SameNames(s, t, S, n), NEW local
    PROVE  Cardinality(Named(t, Moved(S, n), local)) = Cardinality(Named(s, S, local))
  <1>1. Named(t, Moved(S, n), local) = Moved(Named(s, S, local), n)
    BY DEF Named, Moved, SameNames
  <1>2. ArePositions(Named(s, S, local))
    BY FS_Subset DEF Named, ArePositions
  <1> QED
    BY <1>1, <1>2, CardinalityMoved

(* The children S of an element of this local name are what the struct of   *)
(* the reader takes (reader.rs, the serde attributes).                      *)
Holds(local, s, S) ==
    local \in DOMAIN RequiredFields =>
        /\ \A field \in RequiredFields[local] : Cardinality(Named(s, S, field)) = 1
        /\ \A field \in OptionalFields : Cardinality(Named(s, S, field)) <= 1
        /\ local = "SignedInfo" => Cardinality(Named(s, S, "Reference")) > 0

(* They are so for every element of the text. *)
Fills(s) == \A k \in Elements(s) : Holds(s[k].name[2], s, Inside(s, k))

(* This is FillsTheStructs, said of the text and not of its tree. *)
LEMMA FillsByText ==
    ASSUME NEW s
    PROVE  FillsTheStructs(Parse(s)) <=> Fills(s)
  <1> DEFINE tree == Parse(s)
  <1>1. tree.text = s /\ Nodes(tree) = Elements(s)
    BY ParseIs
  <1>2. \A k \in Elements(s) : Children(tree, k) = Inside(s, k)
    BY ChildrenAreInside
  <1> HIDE DEF tree
  <1>3. \A k \in Elements(s) : \A local :
           ChildrenNamed(tree, k, local) = Named(s, Inside(s, k), local)
    BY <1>1, <1>2 DEF ChildrenNamed, Named
  <1> QED
    BY <1>1, <1>3 DEF FillsTheStructs, Fills, Holds, tree

(* It does not matter where the children stand. *)
LEMMA HoldsMoved ==
    ASSUME NEW s, NEW t, NEW S, ArePositions(S), NEW n \in Nat,
           SameNames(s, t, S, n), NEW local
    PROVE  Holds(local, t, Moved(S, n)) <=> Holds(local, s, S)
  <1>1. ASSUME NEW field
        PROVE  Cardinality(Named(t, Moved(S, n), field))
                 = Cardinality(Named(s, S, field))
    BY NamedMoved
  <1> QED
    BY <1>1 DEF Holds

(* Children and tops are finitely many elements. *)
LEMMA InsideIsFinite ==
    ASSUME NEW s, IsText(s), NEW k
    PROVE  /\ Inside(s, k) \subseteq Elements(s) /\ ArePositions(Inside(s, k))
           /\ Tops(s) \subseteq Elements(s) /\ ArePositions(Tops(s))
  <1>1. /\ Elements(s) \subseteq 1..Len(s) /\ IsFiniteSet(Elements(s))
        /\ Len(s) \in Nat
    BY ElementNumbers
  <1>2. Inside(s, k) \subseteq Elements(s) /\ Tops(s) \subseteq Elements(s)
    BY DEF Inside, Tops
  <1>3. 1..Len(s) \subseteq Nat
    BY <1>1
  <1> QED
    BY <1>1, <1>2, <1>3, FS_Subset DEF ArePositions

(* Two texts joined fill the structs when each does. *)
LEMMA FillsJoin ==
    ASSUME NEW s, Nested(s), NEW t, Nested(t)
    PROVE  Fills(Then(s, t)) <=> Fills(s) /\ Fills(t)
  <1> DEFINE n == Len(s)
             st == Then(s, t)
  <1>1. IsText(s) /\ IsText(t)
    BY DEF Nested
  <1>2. /\ n \in Nat /\ Elements(s) \subseteq 1..n
        /\ Elements(t) \subseteq 1..Len(t) /\ Len(t) \in Nat
    BY <1>1, ElementNumbers
  <1>3. /\ \A k \in 1..n : k \in Elements(st) <=> k \in Elements(s)
        /\ \A k \in 1..Len(t) : n + k \in Elements(st) <=> k \in Elements(t)
        /\ \A k \in Elements(st) :
              k \in Elements(s) \/ \E m \in Elements(t) : k = n + m
    BY <1>1, ElementsJoin
  <1>4. /\ \A k \in 1..n : st[k] = s[k]
        /\ \A k \in 1..Len(t) : st[n + k] = t[k]
    BY <1>1, JoinFirst, JoinSecond
  <1>5. /\ \A k \in Elements(s) : Inside(st, k) = Inside(s, k)
        /\ \A k \in Elements(t) : Inside(st, n + k) = Moved(Inside(t, k), n)
    BY InsideJoin
  <1> HIDE DEF st
  <1>6. ASSUME NEW k \in Elements(s)
        PROVE  Holds(st[k].name[2], st, Inside(st, k))
                 <=> Holds(s[k].name[2], s, Inside(s, k))
    <2>1. st[k] = s[k] /\ Inside(st, k) = Inside(s, k)
      BY <1>2, <1>4, <1>5
    <2>2. \A j \in Inside(s, k) : st[j] = s[j]
      BY <1>1, <1>2, <1>4, InsideIsFinite
    <2>3. \A field : Named(st, Inside(s, k), field) = Named(s, Inside(s, k), field)
      BY <2>2 DEF Named
    <2> QED
      BY <2>1, <2>3 DEF Holds
  <1>7. ASSUME NEW k \in Elements(t)
        PROVE  Holds(st[n + k].name[2], st, Inside(st, n + k))
                 <=> Holds(t[k].name[2], t, Inside(t, k))
    <2>1. st[n + k] = t[k] /\ Inside(st, n + k) = Moved(Inside(t, k), n)
      BY <1>2, <1>4, <1>5
    <2>2. SameNames(t, st, Inside(t, k), n)
      BY <1>1, <1>2, <1>4, InsideIsFinite DEF SameNames
    <2>3. ArePositions(Inside(t, k))
      BY <1>1, InsideIsFinite
    <2>4. Holds(t[k].name[2], st, Moved(Inside(t, k), n))
            <=> Holds(t[k].name[2], t, Inside(t, k))
      BY <1>2, <2>2, <2>3, HoldsMoved
    <2> QED
      BY <2>1, <2>4
  <1>8. ASSUME Fills(st) PROVE Fills(s) /\ Fills(t)
    <2>1. \A k \in Elements(s) : k \in Elements(st)
      BY <1>2, <1>3
    <2>2. \A k \in Elements(t) : n + k \in Elements(st)
      BY <1>2, <1>3
    <2> QED
      BY <1>6, <1>7, <1>8, <2>1, <2>2 DEF Fills
  <1>9. ASSUME Fills(s), Fills(t) PROVE Fills(st)
    BY <1>3, <1>6, <1>7, <1>9 DEF Fills
  <1> QED
    BY <1>8, <1>9 DEF st

(* An element fills them when its content does and is right for it. *)
LEMMA FillsElement ==
    ASSUME NEW name, NEW id, NEW attr, NEW ns, NEW c, Nested(c)
    PROVE  Fills(Element(name, id, attr, ns, c))
             <=> Fills(c) /\ Holds(name[2], c, Tops(c))
  <1> DEFINE all == Element(name, id, attr, ns, c)
  <1>1. IsText(c)
    BY DEF Nested
  <1>2. Len(c) \in Nat /\ Elements(c) \subseteq 1..Len(c)
    BY <1>1, ElementNumbers
  <1>3. /\ 1 \in Elements(all)
        /\ \A k \in Elements(c) : k + 1 \in Elements(all)
        /\ \A k \in Elements(all) : k = 1 \/ \E m \in Elements(c) : k = m + 1
    BY <1>1, ElementHolds
  <1>4. /\ Inside(all, 1) = Moved(Tops(c), 1)
        /\ \A k \in Elements(c) : Inside(all, k + 1) = Moved(Inside(c, k), 1)
    BY InsideElement
  <1>5. all[1] = Open(name, id, attr, ns) /\ \A k \in 1..Len(c) : all[k + 1] = c[k]
    BY <1>1, ElementIs
  <1> HIDE DEF all
  <1>6. all[1].name = name
    BY <1>5 DEF Open
  <1>7. \A k \in Elements(c) : all[k + 1] = c[k] /\ all[1 + k].name = c[k].name
    <2>1. \A k \in Elements(c) : 1 + k = k + 1 /\ k \in 1..Len(c)
      BY <1>2
    <2> QED
      BY <1>5, <2>1
  <1>8. Holds(all[1].name[2], all, Inside(all, 1)) <=> Holds(name[2], c, Tops(c))
    <2>1. ArePositions(Tops(c)) /\ Tops(c) \subseteq Elements(c)
      BY <1>1, InsideIsFinite
    <2>2. SameNames(c, all, Tops(c), 1)
      BY <1>7, <2>1 DEF SameNames
    <2>3. Holds(name[2], all, Moved(Tops(c), 1)) <=> Holds(name[2], c, Tops(c))
      BY <2>1, <2>2, HoldsMoved
    <2> QED
      BY <1>4, <1>6, <2>3
  <1>9. ASSUME NEW k \in Elements(c)
        PROVE  Holds(all[k + 1].name[2], all, Inside(all, k + 1))
                 <=> Holds(c[k].name[2], c, Inside(c, k))
    <2>1. ArePositions(Inside(c, k)) /\ Inside(c, k) \subseteq Elements(c)
      BY <1>1, InsideIsFinite
    <2>2. SameNames(c, all, Inside(c, k), 1)
      BY <1>7, <2>1 DEF SameNames
    <2>3. Holds(c[k].name[2], all, Moved(Inside(c, k), 1))
            <=> Holds(c[k].name[2], c, Inside(c, k))
      BY <2>1, <2>2, HoldsMoved
    <2> QED
      BY <1>4, <1>7, <2>3
  <1>10. ASSUME Fills(all) PROVE Fills(c) /\ Holds(name[2], c, Tops(c))
    BY <1>3, <1>8, <1>9, <1>10 DEF Fills
  <1>11. ASSUME Fills(c), Holds(name[2], c, Tops(c)) PROVE Fills(all)
    BY <1>3, <1>8, <1>9, <1>11 DEF Fills
  <1> QED
    BY <1>10, <1>11 DEF all

(* How many tops have this local name. *)
Tally(s, local) == Cardinality(Named(s, Tops(s), local))

(* How many there are in two sets that are apart. *)
LEMMA CardinalityApart ==
    ASSUME NEW S, IsFiniteSet(S), NEW T, IsFiniteSet(T), S \cap T = {}
    PROVE  Cardinality(S \cup T) = Cardinality(S) + Cardinality(T)
  <1>1. Cardinality(S \cup T)
          = Cardinality(S) + Cardinality(T) - Cardinality(S \cap T)
    BY FS_Union
  <1>2. Cardinality(S \cap T) = 0
    BY FS_EmptySet
  <1>3. Cardinality(S) \in Nat /\ Cardinality(T) \in Nat
    BY FS_CardinalityType
  <1> QED
    BY <1>1, <1>2, <1>3

(* Tallies of texts joined add up. *)
LEMMA TallyJoin ==
    ASSUME NEW s, Nested(s), NEW t, Nested(t), NEW local
    PROVE  /\ Tally(Then(s, t), local) = Tally(s, local) + Tally(t, local)
           /\ Tally(s, local) \in Nat
  <1> DEFINE n == Len(s)
             st == Then(s, t)
  <1>1. IsText(s) /\ IsText(t)
    BY DEF Nested
  <1>2. /\ n \in Nat /\ Elements(s) \subseteq 1..n
        /\ Elements(t) \subseteq 1..Len(t) /\ Len(t) \in Nat
    BY <1>1, ElementNumbers
  <1>3. /\ \A k \in 1..n : st[k] = s[k]
        /\ \A k \in 1..Len(t) : st[n + k] = t[k]
    BY <1>1, JoinFirst, JoinSecond
  <1>4. Tops(st) = Tops(s) \cup Moved(Tops(t), n)
    BY TopsJoin
  <1>5. /\ Tops(s) \subseteq Elements(s) /\ ArePositions(Tops(s))
        /\ Tops(t) \subseteq Elements(t) /\ ArePositions(Tops(t))
    BY <1>1, InsideIsFinite
  <1> HIDE DEF st
  <1> DEFINE S == Named(s, Tops(s), local)
             T == Named(st, Moved(Tops(t), n), local)
  <1>6. Named(st, Tops(st), local) = S \cup T
    <2>1. \A j \in Tops(s) : st[j] = s[j]
      BY <1>2, <1>3, <1>5
    <2> QED
      BY <1>4, <2>1 DEF Named
  <1>7. S \cap T = {}
    <2>1. \A j \in S : j <= n
      BY <1>2, <1>5 DEF Named
    <2>2. \A j \in T : j > n
      BY <1>2, <1>5 DEF Named, Moved
    <2>3. \A j \in S : j \in Nat
      BY <1>2, <1>5 DEF Named
    <2> HIDE DEF S, T
    <2> QED
      BY <1>2, <2>1, <2>2, <2>3
  <1>8. IsFiniteSet(S) /\ IsFiniteSet(T)
    <2>1. IsFiniteSet(Moved(Tops(t), n))
      BY <1>2, <1>5, CardinalityMoved
    <2> QED
      BY <1>5, <2>1, FS_Subset DEF Named, ArePositions
  <1>9. Cardinality(T) = Tally(t, local)
    <2>1. SameNames(t, st, Tops(t), n)
      BY <1>2, <1>3, <1>5 DEF SameNames
    <2>2. Cardinality(Named(st, Moved(Tops(t), n), local))
            = Cardinality(Named(t, Tops(t), local))
      BY <1>2, <1>5, <2>1, NamedMoved
    <2> QED
      BY <2>2 DEF Tally
  <1> HIDE DEF S, T
  <1>10. Cardinality(S \cup T) = Cardinality(S) + Cardinality(T)
    BY <1>7, <1>8, CardinalityApart
  <1>11. Cardinality(S) = Tally(s, local) /\ Cardinality(S) \in Nat
    BY <1>8, FS_CardinalityType DEF Tally, S
  <1> QED
    BY <1>6, <1>9, <1>10, <1>11 DEF Tally, st

(* The tally of an element is that of its name. *)
LEMMA TallyElement ==
    ASSUME NEW name, NEW id, NEW attr, NEW ns, NEW c, Nested(c), NEW local
    PROVE  Tally(Element(name, id, attr, ns, c), local)
             = IF name[2] = local THEN 1 ELSE 0
  <1> DEFINE all == Element(name, id, attr, ns, c)
  <1>1. Tops(all) = {1}
    BY TopsOfElement
  <1>2. all[1].name = name
    <2>1. IsText(c)
      BY DEF Nested
    <2>2. all[1] = Open(name, id, attr, ns)
      BY <2>1, ElementIs
    <2> HIDE DEF all
    <2> QED
      BY <2>2 DEF Open
  <1> HIDE DEF all
  <1>3. Named(all, Tops(all), local) = IF name[2] = local THEN {1} ELSE {}
    BY <1>1, <1>2 DEF Named
  <1> QED
    BY <1>3, FS_Singleton, FS_EmptySet DEF Tally, all

(* A text without elements fills the structs and tallies nothing. *)
LEMMA NoElements ==
    ASSUME NEW x
    PROVE  /\ Elements(<<>>) = {} /\ Elements(<<Text(x)>>) = {}
           /\ Fills(<<>>) /\ Fills(<<Text(x)>>)
           /\ \A local : Tally(<<>>, local) = 0 /\ Tally(<<Text(x)>>, local) = 0
  <1>1. Elements(<<>>) = {} /\ Elements(<<Text(x)>>) = {}
    BY DEF Elements, Opens, Text
  <1>2. Tops(<<>>) = {} /\ Tops(<<Text(x)>>) = {}
    BY <1>1 DEF Tops
  <1>3. \A local : /\ Named(<<>>, Tops(<<>>), local) = {}
                   /\ Named(<<Text(x)>>, Tops(<<Text(x)>>), local) = {}
    BY <1>2 DEF Named
  <1> QED
    BY <1>1, <1>3, FS_EmptySet DEF Fills, Tally

-----------------------------------------------------------------------------
(***************************************************************************)
(* A part of a text stands at p of it: what begins, what ends and what     *)
(* lies inside is there what it is in the part alone.                      *)
(***************************************************************************)
(* The part s of a nested text stands behind its token p. *)
StandsAt(all, p, s) ==
    /\ Nested(all) /\ Nested(s)
    /\ p \in Nat /\ p + Len(s) <= Len(all)
    /\ \A k \in 1..Len(s) :
          all[p + k] = s[k] /\ (p + k \in Elements(all) <=> k \in Elements(s))
    /\ \A k \in Elements(s) :
          /\ EndTag(all, p + k) = p + EndTag(s, k)
          /\ Inside(all, p + k) = Moved(Inside(s, k), p)

(* Moving by nothing. *)
LEMMA MovedByNone ==
    ASSUME NEW S, ArePositions(S)
    PROVE  Moved(S, 0) = S
  <1>1. \A k \in S : 0 + k = k
    BY DEF ArePositions
  <1> QED
    BY <1>1 DEF Moved

(* Moving twice. *)
LEMMA MovedTwice ==
    ASSUME NEW S, ArePositions(S), NEW n \in Nat, NEW m \in Nat
    PROVE  Moved(Moved(S, m), n) = Moved(S, n + m)
  <1>1. \A k \in S : n + (m + k) = (n + m) + k
    BY DEF ArePositions
  <1>2. ASSUME NEW j \in Moved(Moved(S, m), n) PROVE j \in Moved(S, n + m)
    BY <1>1, <1>2 DEF Moved
  <1>3. ASSUME NEW j \in Moved(S, n + m) PROVE j \in Moved(Moved(S, m), n)
    BY <1>1, <1>3 DEF Moved
  <1> QED
    BY <1>2, <1>3

(* The first of two texts joined stands at the front. *)
LEMMA StandsFirst ==
    ASSUME NEW s, Nested(s), NEW t, Nested(t)
    PROVE  StandsAt(Then(s, t), 0, s)
  <1> DEFINE all == Then(s, t)
  <1>1. IsText(s) /\ IsText(t)
    BY DEF Nested
  <1>2. /\ Len(s) \in Nat /\ Elements(s) \subseteq 1..Len(s) /\ Len(t) \in Nat
    BY <1>1, ElementNumbers
  <1>3. \A k \in 1..Len(s) : k \in Elements(all) <=> k \in Elements(s)
    BY <1>1, ElementsJoin
  <1>4. \A k \in 1..Len(s) : all[k] = s[k]
    BY <1>1, JoinFirst
  <1>5. Len(all) = Len(s) + Len(t)
    BY <1>1, Join
  <1>6. \A k \in Elements(s) : EndTag(all, k) = EndTag(s, k)
    BY EndsJoin
  <1>7. \A k \in Elements(s) : Inside(all, k) = Inside(s, k)
    BY InsideJoin
  <1>8. Nested(all)
    BY NestedJoin
  <1> HIDE DEF all
  <1>9. ASSUME NEW k \in 1..Len(s)
        PROVE  0 + k = k
    BY <1>2
  <1>10. ASSUME NEW k \in Elements(s)
         PROVE  /\ EndTag(all, 0 + k) = 0 + EndTag(s, k)
                /\ Inside(all, 0 + k) = Moved(Inside(s, k), 0)
    <2>1. 0 + k = k
      BY <1>2
    <2>2. 0 + EndTag(s, k) = EndTag(s, k)
      BY NestedEnds
    <2>3. Moved(Inside(s, k), 0) = Inside(s, k)
      BY <1>1, InsideIsFinite, MovedByNone
    <2> QED
      BY <1>6, <1>7, <2>1, <2>2, <2>3
  <1>11. 0 + Len(s) <= Len(all)
    BY <1>2, <1>5
  <1> QED
    BY <1>3, <1>4, <1>8, <1>9, <1>10, <1>11 DEF StandsAt, all

(* The second stands behind the first. *)
LEMMA StandsSecond ==
    ASSUME NEW s, Nested(s), NEW t, Nested(t)
    PROVE  StandsAt(Then(s, t), Len(s), t)
  <1> DEFINE all == Then(s, t)
  <1>1. IsText(s) /\ IsText(t)
    BY DEF Nested
  <1>2. Len(s) \in Nat /\ Len(t) \in Nat
    BY <1>1, ElementNumbers
  <1>3. \A k \in 1..Len(t) : Len(s) + k \in Elements(all) <=> k \in Elements(t)
    BY <1>1, ElementsJoin
  <1>4. \A k \in 1..Len(t) : all[Len(s) + k] = t[k]
    BY <1>1, JoinSecond
  <1>5. Len(all) = Len(s) + Len(t)
    BY <1>1, Join
  <1>6. \A k \in Elements(t) : EndTag(all, Len(s) + k) = Len(s) + EndTag(t, k)
    BY EndsJoin
  <1>7. \A k \in Elements(t) : Inside(all, Len(s) + k) = Moved(Inside(t, k), Len(s))
    BY InsideJoin
  <1>8. Nested(all)
    BY NestedJoin
  <1> HIDE DEF all
  <1>9. Len(s) + Len(t) <= Len(all)
    BY <1>2, <1>5
  <1> QED
    BY <1>2, <1>3, <1>4, <1>6, <1>7, <1>8, <1>9 DEF StandsAt, all

(* The content of an element stands behind its start tag. *)
LEMMA StandsInElement ==
    ASSUME NEW name, NEW id, NEW attr, NEW ns, NEW c, Nested(c)
    PROVE  StandsAt(Element(name, id, attr, ns, c), 1, c)
  <1> DEFINE all == Element(name, id, attr, ns, c)
  <1>1. IsText(c)
    BY DEF Nested
  <1>2. Len(c) \in Nat /\ Elements(c) \subseteq 1..Len(c)
    BY <1>1, ElementNumbers
  <1>3. /\ Len(all) = Len(c) + 2
        /\ \A k \in 1..Len(c) : all[k + 1] = c[k]
    BY <1>1, ElementIs
  <1>4. \A k \in Elements(all) : k = 1 \/ \E m \in Elements(c) : k = m + 1
    BY <1>1, ElementHolds
  <1>5. \A k \in Elements(c) : k + 1 \in Elements(all)
    BY <1>1, ElementHolds
  <1>6. \A k \in Elements(c) : EndTag(all, k + 1) = EndTag(c, k) + 1
    BY ElementEnds
  <1>7. \A k \in Elements(c) : Inside(all, k + 1) = Moved(Inside(c, k), 1)
    BY InsideElement
  <1>8. Nested(all)
    BY NestedElement
  <1> HIDE DEF all
  <1>9. \A k \in 1..Len(c) : 1 + k = k + 1 /\ k \in Nat
    BY <1>2
  <1>10. ASSUME NEW k \in 1..Len(c)
         PROVE  all[1 + k] = c[k] /\ (1 + k \in Elements(all) <=> k \in Elements(c))
    <2>1. ASSUME k + 1 \in Elements(all) PROVE k \in Elements(c)
      <3>1. PICK m \in Elements(c) : k + 1 = m + 1
        BY <1>4, <1>9, <2>1
      <3>2. k = m
        BY <1>2, <3>1
      <3> QED
        BY <3>2
    <2> QED
      BY <1>3, <1>5, <1>9, <2>1
  <1>11. ASSUME NEW k \in Elements(c)
         PROVE  /\ EndTag(all, 1 + k) = 1 + EndTag(c, k)
                /\ Inside(all, 1 + k) = Moved(Inside(c, k), 1)
    <2>1. 1 + k = k + 1
      BY <1>2
    <2>2. 1 + EndTag(c, k) = EndTag(c, k) + 1
      BY NestedEnds
    <2> QED
      BY <1>6, <1>7, <2>1, <2>2
  <1>12. 1 + Len(c) <= Len(all)
    BY <1>2, <1>3
  <1> QED
    BY <1>8, <1>10, <1>11, <1>12 DEF StandsAt, all

(* A part of a part is a part. *)
LEMMA StandsDeeper ==
    ASSUME NEW all, NEW p, NEW s, StandsAt(all, p, s),
           NEW q, NEW t, StandsAt(s, q, t)
    PROVE  StandsAt(all, p + q, t)
  <1>1. /\ Nested(all) /\ Nested(s) /\ Nested(t) /\ p \in Nat /\ q \in Nat
        /\ p + Len(s) <= Len(all) /\ q + Len(t) <= Len(s)
    BY DEF StandsAt
  <1>2. /\ Len(all) \in Nat /\ Len(s) \in Nat /\ Len(t) \in Nat
        /\ Elements(t) \subseteq 1..Len(t) /\ IsText(t)
    BY <1>1, ElementNumbers DEF Nested
  <1>3. \A k \in 1..Len(t) : q + k \in 1..Len(s) /\ p + (q + k) = p + q + k
    BY <1>1, <1>2
  <1>4. ASSUME NEW k \in 1..Len(t)
        PROVE  /\ all[p + q + k] = t[k]
               /\ p + q + k \in Elements(all) <=> k \in Elements(t)
    BY <1>3 DEF StandsAt
  <1>5. ASSUME NEW k \in Elements(t)
        PROVE  /\ EndTag(all, p + q + k) = p + q + EndTag(t, k)
               /\ Inside(all, p + q + k) = Moved(Inside(t, k), p + q)
    <2>1. q + k \in Elements(s)
      BY <1>2 DEF StandsAt
    <2>2. /\ EndTag(all, p + (q + k)) = p + EndTag(s, q + k)
          /\ Inside(all, p + (q + k)) = Moved(Inside(s, q + k), p)
      BY <2>1 DEF StandsAt
    <2>3. /\ EndTag(s, q + k) = q + EndTag(t, k)
          /\ Inside(s, q + k) = Moved(Inside(t, k), q)
      BY DEF StandsAt
    <2>4. p + (q + k) = p + q + k
      BY <1>2, <1>3
    <2>5. EndTag(t, k) \in Nat
      BY <1>1, NestedEnds
    <2>6. p + (q + EndTag(t, k)) = p + q + EndTag(t, k)
      BY <1>1, <2>5
    <2>7. Moved(Moved(Inside(t, k), q), p) = Moved(Inside(t, k), p + q)
      BY <1>1, <1>2, InsideIsFinite, MovedTwice
    <2> QED
      BY <2>2, <2>3, <2>4, <2>6, <2>7
  <1>6. p + q \in Nat /\ p + q + Len(t) <= Len(all)
    BY <1>1, <1>2
  <1> QED
    BY <1>1, <1>4, <1>5, <1>6 DEF StandsAt

(* An element that stands somewhere, and what it holds there. *)
LEMMA InsideStanding ==
    ASSUME NEW all, NEW p, NEW name, NEW id, NEW attr, NEW ns, NEW c, Nested(c),
           StandsAt(all, p, Element(name, id, attr, ns, c))
    PROVE  /\ Inside(all, p + 1) = Moved(Tops(c), p + 1)
           /\ p + 1 \in Elements(all) /\ all[p + 1] = Open(name, id, attr, ns)
           /\ EndTag(all, p + 1) = p + Len(c) + 2
           /\ StandsAt(all, p + 1, c)
  <1> DEFINE e == Element(name, id, attr, ns, c)
  <1>1. IsText(c)
    BY DEF Nested
  <1>2. Len(c) \in Nat /\ p \in Nat
    BY <1>1, ElementNumbers DEF StandsAt
  <1>3. Len(e) = Len(c) + 2 /\ e[1] = Open(name, id, attr, ns)
    BY <1>1, ElementIs
  <1>4. 1 \in Elements(e)
    BY <1>1, ElementHolds
  <1>5. EndTag(e, 1) = Len(c) + 2
    BY ElementEnds
  <1>6. Inside(e, 1) = Moved(Tops(c), 1)
    BY InsideElement
  <1>7. StandsAt(e, 1, c)
    BY StandsInElement
  <1> HIDE DEF e
  <1>8. StandsAt(all, p, e)
    BY DEF e
  <1>9. 1 \in 1..Len(e)
    BY <1>2, <1>3
  <1>10. /\ p + 1 \in Elements(all) /\ all[p + 1] = e[1]
         /\ EndTag(all, p + 1) = p + EndTag(e, 1)
         /\ Inside(all, p + 1) = Moved(Inside(e, 1), p)
    BY <1>4, <1>8, <1>9 DEF StandsAt
  <1>11. Moved(Moved(Tops(c), 1), p) = Moved(Tops(c), p + 1)
    BY <1>1, <1>2, InsideIsFinite, MovedTwice
  <1>12. p + (Len(c) + 2) = p + Len(c) + 2
    BY <1>2
  <1> QED
    BY <1>3, <1>5, <1>6, <1>7, <1>8, <1>10, <1>11, <1>12, StandsDeeper

-----------------------------------------------------------------------------
(***************************************************************************)
(* Texts one after the other, step by step.                                *)
(***************************************************************************)
(* g holds the texts of the list f put together, one by one. *)
Builds(g, f, n) ==
    /\ g[0] = <<>> /\ g[n] = Seqs!FlattenSeq(f)
    /\ \A m \in Nat : m < n => g[m + 1] = Then(g[m], f[m + 1])

(* A list of texts can be put together one by one. *)
LEMMA FlattenBySteps ==
    ASSUME NEW n \in Nat, NEW f, f = [k \in 1..n |-> f[k]],
           \A k \in 1..n : IsText(f[k])
    PROVE  \E g : Builds(g, f, n)
  <1> DEFINE T == UNION {{f[k][j] : j \in 1..Len(f[k])} : k \in 1..n}
             Front(m) == [k \in 1..m |-> f[k]]
             g == [m \in Nat |-> Seqs!FlattenSeq(Front(m))]
  <1>1. ASSUME NEW k \in 1..n
        PROVE  f[k] \in Seq(T)
    <2> DEFINE s == f[k]
    <2>1. PICK U : s \in Seq(U)
      BY DEF IsText
    <2>2. s \in [1..Len(s) -> U] /\ Len(s) \in Nat
      BY <2>1
    <2>3. \A j \in 1..Len(s) : s[j] \in T
      OBVIOUS
    <2> HIDE DEF s, T
    <2>4. s \in [1..Len(s) -> T]
      BY <2>2, <2>3
    <2>5. s \in Seq(T)
      BY <2>2, <2>4
    <2> QED
      BY <2>5 DEF s
  <1> HIDE DEF T
  <1>2. ASSUME NEW m \in 0..n
        PROVE  Front(m) \in Seq(Seq(T)) /\ Len(Front(m)) = m
    <2> DEFINE U == Seq(T)
               h == Front(m)
    <2>1. \A k \in 1..m : f[k] \in U
      BY <1>1
    <2> HIDE DEF U
    <2>2. h \in [1..m -> U]
      BY <2>1, Zenon
    <2>3. m \in Nat
      OBVIOUS
    <2> HIDE DEF Front, h
    <2>4. h \in Seq(U) /\ Len(h) = m
      BY <2>2, <2>3
    <2> QED
      BY <2>4 DEF h, U
  <1>3. Seqs!FlattenSeq(Front(0)) = <<>>
    <2>1. Front(0) = <<>>
      BY <1>2, EmptySeq
    <2>2. Seqs!FlattenSeq(<<>>) = <<>>
      BY Induct!FlattenSeqOfNone DEF Seqs!FlattenSeq, Induct!FlattenSeq
    <2> QED
      BY <2>1, <2>2
  <1>4. ASSUME NEW m \in Nat, m < n
        PROVE  Seqs!FlattenSeq(Front(m + 1)) = Then(Seqs!FlattenSeq(Front(m)), f[m + 1])
    <2>1. m \in 0..n /\ m + 1 \in 1..n /\ m <= n
      BY <1>4
    <2> DEFINE a == Front(m)
               s == f[m + 1]
               h == Front(m + 1)
    <2>2. h = Append(a, s)
      <3>1. h \in [1..(m + 1) -> Seq(T)] /\ h[m + 1] = s
        BY <1>1, <2>1
      <3>2. a = [k \in 1..m |-> h[k]]
        BY <2>1
      <3> HIDE DEF h, a, s
      <3>3. h = Append([k \in 1..m |-> h[k]], h[m + 1])
        BY <3>1, Induct!OneMore
      <3> QED
        BY <3>1, <3>2, <3>3, Zenon
    <2>3. a \in Seq(Seq(T)) /\ s \in Seq(T)
      BY <1>1, <1>2, <2>1
    <2> HIDE DEF a, s, h
    <2>4. Seqs!FlattenSeq(Append(a, s)) = Then(Seqs!FlattenSeq(a), s)
      BY <2>3, FlattenMore
    <2>5. Seqs!FlattenSeq(h) = Then(Seqs!FlattenSeq(a), s)
      BY <2>2, <2>4
    <2> QED
      BY <2>5 DEF a, s, h
  <1>5. Front(n) = f
    OBVIOUS
  <1> HIDE DEF Front
  <1>6. g[0] = <<>> /\ g[n] = Seqs!FlattenSeq(f)
    BY <1>3, <1>5
  <1>7. \A m \in Nat : m < n => g[m + 1] = Then(g[m], f[m + 1])
    <2> SUFFICES ASSUME NEW m \in Nat, m < n
                 PROVE  g[m + 1] = Then(g[m], f[m + 1])
      OBVIOUS
    <2>1. g[m] = Seqs!FlattenSeq(Front(m)) /\ g[m + 1] = Seqs!FlattenSeq(Front(m + 1))
      OBVIOUS
    <2> QED
      BY <1>4, <2>1
  <1> HIDE DEF g
  <1>8. Builds(g, f, n)
    BY <1>6, <1>7 DEF Builds
  <1> QED
    BY <1>8

(* Nested texts stay nested at each step. *)
LEMMA BuildsNested ==
    ASSUME NEW n \in Nat, NEW f, NEW g, Builds(g, f, n),
           \A k \in 1..n : Nested(f[k])
    PROVE  \A m \in 0..n : Nested(g[m])
  <1> DEFINE S == {m \in Nat : m <= n => Nested(g[m])}
  <1>1. 0 \in S
    BY NestedNone DEF Builds
  <1>2. ASSUME NEW m \in Nat, m \in S
        PROVE  m + 1 \in S
    <2> SUFFICES ASSUME m + 1 <= n PROVE Nested(g[m + 1])
      OBVIOUS
    <2>1. m + 1 \in 1..n /\ m < n /\ m <= n
      OBVIOUS
    <2>2. g[m + 1] = Then(g[m], f[m + 1])
      BY <2>1 DEF Builds
    <2>3. Nested(g[m]) /\ Nested(f[m + 1])
      BY <1>2, <2>1
    <2> QED
      BY <2>2, <2>3, NestedJoin
  <1> HIDE DEF S
  <1>3. \A m \in Nat : m \in S
    BY <1>1, <1>2, Induct!Induction
  <1> QED
    BY <1>3 DEF S

(* n texts that fill the structs and tally x each. *)
FillAlike(f, n, local, x) ==
    \A k \in 1..n : Nested(f[k]) /\ Fills(f[k]) /\ Tally(f[k], local) = x

(* Put together, they fill the structs and tally n times as much. *)
LEMMA BuildsFills ==
    ASSUME NEW n \in Nat, NEW f, NEW g, Builds(g, f, n),
           NEW local, NEW x \in Nat, FillAlike(f, n, local, x)
    PROVE  Fills(g[n]) /\ Tally(g[n], local) = n * x
  <1> DEFINE S == {m \in Nat : m <= n => Fills(g[m]) /\ Tally(g[m], local) = m * x}
  <1>1. 0 \in S
    <2>1. g[0] = <<>> /\ 0 * x = 0
      BY DEF Builds
    <2> QED
      BY <2>1, NoElements
  <1>2. ASSUME NEW m \in Nat, m \in S
        PROVE  m + 1 \in S
    <2> SUFFICES ASSUME m + 1 <= n
                 PROVE  Fills(g[m + 1]) /\ Tally(g[m + 1], local) = (m + 1) * x
      OBVIOUS
    <2>1. m + 1 \in 1..n /\ m < n /\ m <= n /\ m \in 0..n
      OBVIOUS
    <2>2. g[m + 1] = Then(g[m], f[m + 1])
      BY <2>1 DEF Builds
    <2>3. /\ Nested(g[m]) /\ Nested(f[m + 1]) /\ Fills(f[m + 1])
          /\ Tally(f[m + 1], local) = x
      BY <2>1, BuildsNested DEF FillAlike
    <2>4. Fills(g[m]) /\ Tally(g[m], local) = m * x
      BY <1>2, <2>1
    <2>5. Fills(Then(g[m], f[m + 1]))
      BY <2>3, <2>4, FillsJoin
    <2>6. Tally(Then(g[m], f[m + 1]), local) = m * x + x
      BY <2>3, <2>4, TallyJoin
    <2>7. m * x + x = (m + 1) * x
      OBVIOUS
    <2> QED
      BY <2>2, <2>5, <2>6, <2>7
  <1> HIDE DEF S
  <1>3. \A m \in Nat : m \in S
    BY <1>1, <1>2, Induct!Induction
  <1> QED
    BY <1>3 DEF S

-----------------------------------------------------------------------------
(***************************************************************************)
(* Texts whose elements hold no others.                                    *)
(***************************************************************************)
(* No element lies in another. *)
Flat(s) == Nested(s) /\ Elements(s) = Tops(s)

(* Flat texts joined are flat. *)
LEMMA FlatJoin ==
    ASSUME NEW s, Flat(s), NEW t, Flat(t)
    PROVE  Flat(Then(s, t))
  <1> DEFINE st == Then(s, t)
  <1>1. Nested(s) /\ Nested(t) /\ IsText(s) /\ IsText(t)
    BY DEF Flat, Nested
  <1>2. Nested(st)
    BY <1>1, NestedJoin
  <1>3. Tops(st) = Tops(s) \cup Moved(Tops(t), Len(s))
    BY <1>1, TopsJoin
  <1>4. \A k \in Elements(st) : k \in Elements(s) \/ \E m \in Elements(t) : k = Len(s) + m
    BY <1>1, ElementsJoin
  <1> HIDE DEF st
  <1>5. \A k \in Elements(st) : k \in Tops(st)
    BY <1>3, <1>4 DEF Flat, Moved
  <1>6. Tops(st) \subseteq Elements(st)
    BY DEF Tops
  <1> QED
    BY <1>2, <1>5, <1>6 DEF Flat, st

(* An element without elements is flat. *)
LEMMA FlatElement ==
    ASSUME NEW name, NEW id, NEW attr, NEW ns, NEW x,
           NEW c \in {<<>>, <<Text(x)>>}
    PROVE  Flat(Element(name, id, attr, ns, c))
  <1> DEFINE all == Element(name, id, attr, ns, c)
  <1>1. Nested(c)
    BY NestedNone, NestedText
  <1>2. Elements(c) = {}
    BY NoElements
  <1>3. IsText(c)
    BY <1>1 DEF Nested
  <1>4. 1 \in Elements(all) /\ \A k \in Elements(all) : k = 1
    BY <1>2, <1>3, ElementHolds
  <1>5. Tops(all) = {1}
    BY <1>1, TopsOfElement
  <1>6. Nested(all)
    BY <1>1, NestedElement
  <1> HIDE DEF all
  <1> QED
    BY <1>4, <1>5, <1>6 DEF Flat, all

(* So is the empty text. *)
LEMMA FlatNone == Flat(<<>>)
  <1>1. Elements(<<>>) = {}
    BY NoElements
  <1> QED
    BY <1>1, NestedNone DEF Flat, Tops

(* Flat texts put together are flat. *)
LEMMA BuildsFlat ==
    ASSUME NEW n \in Nat, NEW f, NEW g, Builds(g, f, n),
           \A k \in 1..n : Flat(f[k])
    PROVE  Flat(g[n])
  <1> DEFINE S == {m \in Nat : m <= n => Flat(g[m])}
  <1>1. 0 \in S
    BY FlatNone DEF Builds
  <1>2. ASSUME NEW m \in Nat, m \in S
        PROVE  m + 1 \in S
    <2> SUFFICES ASSUME m + 1 <= n PROVE Flat(g[m + 1])
      OBVIOUS
    <2>1. m + 1 \in 1..n /\ m < n /\ m <= n
      OBVIOUS
    <2>2. g[m + 1] = Then(g[m], f[m + 1])
      BY <2>1 DEF Builds
    <2>3. Flat(g[m]) /\ Flat(f[m + 1])
      BY <1>2, <2>1
    <2> QED
      BY <2>2, <2>3, FlatJoin
  <1> HIDE DEF S
  <1>3. \A m \in Nat : m \in S
    BY <1>1, <1>2, Induct!Induction
  <1> QED
    BY <1>3 DEF S

-----------------------------------------------------------------------------
(***************************************************************************)
(* Ids.                                                                    *)
(***************************************************************************)
(* The Ids of a text, NoId among them where an element has none. *)
Ids(s) == {s[k].id : k \in Elements(s)}

(* Texts that share no Ids, joined, have each Id once. *)
LEMMA IdsJoin ==
    ASSUME NEW s, IsText(s), NEW t, IsText(t), IdsAreUnique(s), IdsAreUnique(t),
           Ids(s) \cap Ids(t) \subseteq {NoId}
    PROVE  IdsAreUnique(Then(s, t)) /\ Ids(Then(s, t)) = Ids(s) \cup Ids(t)
  <1> DEFINE all == Then(s, t)
             n == Len(s)
  <1>1. /\ n \in Nat /\ Elements(s) \subseteq 1..n
        /\ Elements(t) \subseteq 1..Len(t) /\ Len(t) \in Nat
    BY ElementNumbers
  <1>2. /\ \A k \in Elements(s) : k \in Elements(all) /\ all[k] = s[k]
        /\ \A k \in Elements(t) : n + k \in Elements(all) /\ all[n + k] = t[k]
    BY <1>1, ElementsJoin, JoinFirst, JoinSecond
  <1>3. \A k \in Elements(all) : k \in Elements(s) \/ \E m \in Elements(t) : k = n + m
    BY ElementsJoin
  <1> HIDE DEF all
  <1>4. ASSUME NEW j \in Elements(all), NEW k \in Elements(all), all[j].id = all[k].id
        PROVE  j = k \/ all[j].id = NoId
    <2>1. CASE j \in Elements(s) /\ k \in Elements(s)
      BY <1>2, <1>4, <2>1 DEF IdsAreUnique
    <2>2. ASSUME NEW i \in Elements(t), NEW m \in Elements(t), j = n + i, k = n + m
          PROVE  j = k \/ all[j].id = NoId
      BY <1>2, <1>4, <2>2 DEF IdsAreUnique
    <2>3. ASSUME j \in Elements(s), NEW m \in Elements(t), k = n + m
          PROVE  all[j].id = NoId
      BY <1>2, <1>4, <2>3 DEF Ids
    <2>4. ASSUME k \in Elements(s), NEW m \in Elements(t), j = n + m
          PROVE  all[j].id = NoId
      BY <1>2, <1>4, <2>4 DEF Ids
    <2> QED
      BY <1>3, <2>1, <2>2, <2>3, <2>4
  <1>5. Ids(all) = Ids(s) \cup Ids(t)
    <2>1. ASSUME NEW x \in Ids(all) PROVE x \in Ids(s) \cup Ids(t)
      BY <1>2, <1>3, <2>1 DEF Ids
    <2>2. ASSUME NEW x \in Ids(s) PROVE x \in Ids(all)
      BY <1>2, <2>2 DEF Ids
    <2>3. ASSUME NEW x \in Ids(t) PROVE x \in Ids(all)
      BY <1>2, <2>3 DEF Ids
    <2> QED
      BY <2>1, <2>2, <2>3
  <1> QED
    BY <1>4, <1>5 DEF IdsAreUnique, all

(* So has an element whose Id is not in its content. *)
LEMMA IdsElement ==
    ASSUME NEW name, NEW id, NEW attr, NEW ns, NEW c, IsText(c), IdsAreUnique(c),
           id = NoId \/ id \notin Ids(c)
    PROVE  LET all == Element(name, id, attr, ns, c)
           IN  IdsAreUnique(all) /\ Ids(all) = {id} \cup Ids(c)
  <1> DEFINE all == Element(name, id, attr, ns, c)
  <1>1. /\ all[1] = Open(name, id, attr, ns)
        /\ \A k \in 1..Len(c) : all[k + 1] = c[k]
    BY ElementIs
  <1>2. /\ 1 \in Elements(all)
        /\ \A k \in Elements(c) : k + 1 \in Elements(all)
        /\ \A k \in Elements(all) : k = 1 \/ \E m \in Elements(c) : k = m + 1
    BY ElementHolds
  <1>3. Elements(c) \subseteq 1..Len(c)
    BY ElementNumbers
  <1> HIDE DEF all
  <1>4. all[1].id = id
    BY <1>1 DEF Open
  <1>5. \A k \in Elements(c) : all[k + 1] = c[k]
    BY <1>1, <1>3
  <1>6. ASSUME NEW j \in Elements(all), NEW k \in Elements(all), all[j].id = all[k].id
        PROVE  j = k \/ all[j].id = NoId
    <2>1. ASSUME NEW i \in Elements(c), NEW m \in Elements(c), j = i + 1, k = m + 1
          PROVE  j = k \/ all[j].id = NoId
      BY <1>5, <1>6, <2>1 DEF IdsAreUnique
    <2>2. ASSUME j = 1, NEW m \in Elements(c), k = m + 1
          PROVE  all[j].id = NoId
      BY <1>4, <1>5, <1>6, <2>2 DEF Ids
    <2>3. ASSUME k = 1, NEW m \in Elements(c), j = m + 1
          PROVE  all[j].id = NoId
      BY <1>4, <1>5, <1>6, <2>3 DEF Ids
    <2> QED
      BY <1>2, <2>1, <2>2, <2>3
  <1>7. Ids(all) = {id} \cup Ids(c)
    <2>1. ASSUME NEW x \in Ids(all) PROVE x \in {id} \cup Ids(c)
      BY <1>2, <1>4, <1>5, <2>1 DEF Ids
    <2>2. id \in Ids(all)
      BY <1>2, <1>4 DEF Ids
    <2>3. ASSUME NEW x \in Ids(c) PROVE x \in Ids(all)
      BY <1>2, <1>5, <2>3 DEF Ids
    <2> QED
      BY <2>1, <2>2, <2>3
  <1> QED
    BY <1>6, <1>7 DEF IdsAreUnique, all

(* Texts without elements have none. *)
LEMMA IdsNone ==
    ASSUME NEW x
    PROVE  /\ IdsAreUnique(<<>>) /\ Ids(<<>>) = {}
           /\ IdsAreUnique(<<Text(x)>>) /\ Ids(<<Text(x)>>) = {}
  BY NoElements DEF IdsAreUnique, Ids

(* n texts with an Id each, all of them different. *)
HaveIds(f, n, id) ==
    /\ \A k \in 1..n : Nested(f[k]) /\ IdsAreUnique(f[k]) /\ Ids(f[k]) = {id[k]}
    /\ \A j, k \in 1..n : id[j] = id[k] => j = k \/ id[j] = NoId

(* The first n of some Ids. *)
AllIds(id, n) == {id[k] : k \in 1..n}

(* Put together, they have each Id once, and all of them. *)
LEMMA BuildsIds ==
    ASSUME NEW n \in Nat, NEW f, NEW g, Builds(g, f, n), NEW id,
           HaveIds(f, n, id)
    PROVE  IdsAreUnique(g[n]) /\ Ids(g[n]) = AllIds(id, n)
  <1> DEFINE Front(m) == {id[k] : k \in 1..m}
             S == {m \in Nat : m <= n => IdsAreUnique(g[m]) /\ Ids(g[m]) = Front(m)}
  <1>1. 0 \in S
    <2>1. g[0] = <<>>
      BY DEF Builds
    <2>2. Front(0) = {}
      <3>1. 1..0 = {}
        OBVIOUS
      <3> QED
        BY <3>1
    <2> QED
      BY <2>1, <2>2, IdsNone
  <1>2. ASSUME NEW m \in Nat, m \in S
        PROVE  m + 1 \in S
    <2> SUFFICES ASSUME m + 1 <= n
                 PROVE  IdsAreUnique(g[m + 1]) /\ Ids(g[m + 1]) = Front(m + 1)
      OBVIOUS
    <2>1. m + 1 \in 1..n /\ m < n /\ m <= n /\ m \in 0..n
      OBVIOUS
    <2>2. g[m + 1] = Then(g[m], f[m + 1])
      BY <2>1 DEF Builds
    <2>3. IsText(g[m]) /\ IsText(f[m + 1])
      BY <2>1, BuildsNested DEF Nested, HaveIds
    <2>4. IdsAreUnique(g[m]) /\ Ids(g[m]) = Front(m)
      BY <1>2, <2>1
    <2>5. IdsAreUnique(f[m + 1]) /\ Ids(f[m + 1]) = {id[m + 1]}
      BY <2>1 DEF HaveIds
    <2>6. Front(m) \cap {id[m + 1]} \subseteq {NoId}
      <3>1. \A k \in 1..m : k \in 1..n /\ k # m + 1
        BY <2>1
      <3> QED
        BY <2>1, <3>1 DEF HaveIds
    <2>7. Front(m + 1) = Front(m) \cup {id[m + 1]}
      <3>1. 1..(m + 1) = 1..m \cup {m + 1}
        OBVIOUS
      <3> QED
        BY <3>1
    <2> HIDE DEF Front
    <2>8. /\ IdsAreUnique(Then(g[m], f[m + 1]))
          /\ Ids(Then(g[m], f[m + 1])) = Ids(g[m]) \cup Ids(f[m + 1])
      BY <2>3, <2>4, <2>5, <2>6, IdsJoin
    <2> QED
      BY <2>2, <2>4, <2>5, <2>7, <2>8
  <1> HIDE DEF S
  <1>3. \A m \in Nat : m \in S
    BY <1>1, <1>2, Induct!Induction
  <1>4. n \in S
    BY <1>3
  <1> HIDE DEF Front
  <1>5. IdsAreUnique(g[n]) /\ Ids(g[n]) = Front(n)
    BY <1>4 DEF S
  <1> QED
    BY <1>5 DEF Front, AllIds

-----------------------------------------------------------------------------
(***************************************************************************)
(* Pasting before the last end tag of a name.                              *)
(***************************************************************************)
(* Texts with the same tokens are the same. *)
LEMMA SameText ==
    ASSUME NEW a, IsText(a), NEW b, IsText(b), Len(a) = Len(b),
           \A k \in 1..Len(a) : a[k] = b[k]
    PROVE  a = b
  <1>1. PICK T : a \in Seq(T) /\ b \in Seq(T)
    BY OneSet
  <1> QED
    BY <1>1

(* Texts joined determine each other, once it is known where they meet. *)
LEMMA Cancel ==
    ASSUME NEW a, IsText(a), NEW b, IsText(b), NEW c, IsText(c), NEW d, IsText(d),
           Then(a, b) = Then(c, d), Len(a) = Len(c)
    PROVE  a = c /\ b = d
  <1>1. Len(a) \in Nat /\ Len(b) \in Nat /\ Len(d) \in Nat
    BY TextIsSequence
  <1>2. Len(a) + Len(b) = Len(c) + Len(d)
    BY Join
  <1>3. Len(b) = Len(d)
    BY <1>1, <1>2
  <1>4. ASSUME NEW k \in 1..Len(a) PROVE a[k] = c[k]
    <2>1. Then(a, b)[k] = a[k] /\ Then(c, d)[k] = c[k]
      BY JoinFirst
    <2> QED
      BY <2>1
  <1>5. ASSUME NEW k \in 1..Len(b) PROVE b[k] = d[k]
    <2>1. Then(a, b)[Len(a) + k] = b[k]
      BY JoinSecond
    <2>2. Then(c, d)[Len(c) + k] = d[k]
      BY <1>3, JoinSecond
    <2> QED
      BY <2>1, <2>2
  <1> QED
    BY <1>3, <1>4, <1>5, SameText

(* The block goes before the last end tag of this name, the first one of a  *)
(* rest that has it nowhere else.                                           *)
LEMMA PastedLast ==
    ASSUME NEW a, IsText(a), NEW b, IsText(b), NEW name, NEW block, IsText(block),
           \A k \in 1..Len(b) : b[k] # Close(name)
    PROVE  LET rest == Then(<<Close(name)>>, b)
           IN  PastedInto(Then(a, rest), name, block)
                 = Done(Then(a, Then(block, rest)))
  <1> DEFINE rest == Then(<<Close(name)>>, b)
             text == Then(a, rest)
             ends == Occurrences(text, 1, Close(name))
             n == Len(a)
  <1>1. /\ IsText(<<Close(name)>>) /\ Len(<<Close(name)>>) = 1
        /\ <<Close(name)>>[1] = Close(name)
    BY ShortTexts
  <1>2. IsText(rest) /\ Len(rest) = 1 + Len(b) /\ rest[1] = Close(name)
    <2> DEFINE c == <<Close(name)>>
    <2>1. IsText(c) /\ rest = Then(c, b)
      BY <1>1
    <2>2. Len(c) = 1 /\ c[1] = Close(name)
      BY <1>1
    <2> HIDE DEF c, rest
    <2>3. IsText(Then(c, b)) /\ Len(Then(c, b)) = Len(c) + Len(b)
      BY <2>1, Join
    <2>4. 1 \in 1..Len(c)
      BY <2>2
    <2>5. Then(c, b)[1] = c[1]
      BY <2>1, <2>4, JoinFirst
    <2> QED
      BY <2>1, <2>2, <2>3, <2>5
  <1>3. ASSUME NEW k \in 1..Len(b) PROVE rest[1 + k] = b[k]
    <2> DEFINE c == <<Close(name)>>
    <2>1. Len(c) = 1 /\ rest = Then(c, b)
      BY <1>1
    <2>2. IsText(c)
      BY <1>1
    <2> HIDE DEF c, rest
    <2>3. Then(c, b)[Len(c) + k] = b[k]
      BY <2>2, JoinSecond
    <2> QED
      BY <2>1, <2>3
  <1>4. n \in Nat /\ Len(b) \in Nat
    BY TextIsSequence
  <1> HIDE DEF rest
  <1>5. IsText(text) /\ Len(text) = n + 1 + Len(b)
    <2>1. IsText(text) /\ Len(text) = Len(a) + Len(rest)
      BY <1>2, Join
    <2> QED
      BY <1>2, <1>4, <2>1
  <1>6. \A k \in 1..Len(rest) : text[n + k] = rest[k]
    BY <1>2, JoinSecond
  <1>7. text[n + 1] = Close(name)
    BY <1>2, <1>4, <1>6
  <1>8. ASSUME NEW j \in 1..Len(text), j > n + 1
        PROVE  text[j] # Close(name)
    <2> DEFINE k == j - n - 1
    <2>1. k \in 1..Len(b) /\ j = n + (1 + k) /\ 1 + k \in 1..Len(rest)
      BY <1>2, <1>4, <1>5, <1>8
    <2> HIDE DEF k
    <2>2. text[j] = rest[1 + k]
      BY <1>6, <2>1
    <2> QED
      BY <1>3, <2>1, <2>2
  <1> HIDE DEF text
  <1>9. n + 1 \in ends /\ ends \subseteq 1..Len(text) /\ Len(text) \in Nat
    BY <1>4, <1>5, <1>7 DEF Occurrences
  <1>10. \A j \in ends : j <= n + 1
    BY <1>4, <1>8 DEF Occurrences
  <1> HIDE DEF ends
  <1>11. Last(ends) = n + 1 /\ ends # {}
    <2>1. ends # {}
      BY <1>9
    <2>2. PICK m \in Nat : ends \subseteq 1..m
      BY <1>9
    <2>3. Last(ends) \in ends /\ \A i \in ends : i <= Last(ends)
      BY <2>1, <2>2, LastIs
    <2>4. Last(ends) \in 1..m /\ n + 1 <= Last(ends) /\ Last(ends) <= n + 1
      BY <1>9, <1>10, <2>2, <2>3
    <2> QED
      BY <1>4, <2>1, <2>4
  <1>12. n + 1 \in 1..Len(text)
    BY <1>4, <1>5
  <1>13. PICK c, d : /\ IsText(c) /\ IsText(d) /\ Len(c) = n
                     /\ text = Then(c, d)
                     /\ Pasted(text, n + 1, block) = Within(c, block, d)
    <2>1. \E c, d : /\ IsText(c) /\ IsText(d) /\ Len(c) = (n + 1) - 1
                    /\ text = Then(c, d)
                    /\ Pasted(text, n + 1, block) = Within(c, block, d)
      BY <1>5, <1>12, PastedIs
    <2>2. (n + 1) - 1 = n
      BY <1>4
    <2> QED
      BY <2>1, <2>2
  <1>14. c = a /\ d = rest
    BY <1>2, <1>13, Cancel DEF text
  <1>15. Pasted(text, Last(ends), block) = Then(a, Then(block, rest))
    BY <1>11, <1>13, <1>14 DEF Within
  <1> QED
    BY <1>11, <1>15 DEF PastedInto, ends, text, rest

(* An element whose content is three texts, cut around the second. *)
LEMMA ElementSplit ==
    ASSUME NEW name, NEW id, NEW attr, NEW ns,
           NEW h, IsText(h), NEW u, IsText(u), NEW t, IsText(t)
    PROVE  Element(name, id, attr, ns, Then(h, Then(u, t)))
             = Then(Then(<<Open(name, id, attr, ns)>>, h),
                    Then(u, Then(t, <<Close(name)>>)))
  <1> DEFINE o == <<Open(name, id, attr, ns)>>
             c == <<Close(name)>>
             ut == Then(u, t)
  <1>1. IsText(o) /\ IsText(c)
    BY ShortTexts
  <1>2. IsText(ut) /\ IsText(Then(h, ut)) /\ IsText(Then(t, c))
        /\ IsText(Then(u, Then(t, c)))
    BY <1>1, Join
  <1>3. Element(name, id, attr, ns, Then(h, ut)) = Then(o, Then(Then(h, ut), c))
    BY <1>2, ElementParts DEF Within
  <1> HIDE DEF o, c, ut
  <1>4. Then(Then(h, ut), c) = Then(h, Then(ut, c))
    BY <1>1, <1>2, Regroup
  <1>5. Then(ut, c) = Then(u, Then(t, c))
    BY <1>1, Regroup DEF ut
  <1>6. Then(o, Then(h, Then(u, Then(t, c)))) = Then(Then(o, h), Then(u, Then(t, c)))
    BY <1>1, <1>2, Regroup
  <1> QED
    BY <1>3, <1>4, <1>5, <1>6 DEF o, c, ut

(* A text joined to three, cut around the second of them. *)
LEMMA JoinSplit ==
    ASSUME NEW a, IsText(a), NEW h, IsText(h), NEW u, IsText(u), NEW t, IsText(t)
    PROVE  Then(a, Then(h, Then(u, t))) = Then(Then(a, h), Then(u, t))
  <1>1. IsText(Then(u, t))
    BY Join
  <1> QED
    BY <1>1, Regroup

-----------------------------------------------------------------------------
(***************************************************************************)
(* Tokens that a text does not have.                                       *)
(***************************************************************************)
(* A token that a text does not have. *)
Lacks(s, token) == \A k \in 1..Len(s) : s[k] # token

(* Two texts joined lack what both lack. *)
LEMMA LacksJoin ==
    ASSUME NEW s, IsText(s), NEW t, IsText(t), NEW token,
           Lacks(s, token), Lacks(t, token)
    PROVE  Lacks(Then(s, t), token)
  <1> SUFFICES ASSUME NEW k \in 1..Len(Then(s, t)) PROVE Then(s, t)[k] # token
    BY DEF Lacks
  <1>1. Len(Then(s, t)) = Len(s) + Len(t) /\ Len(s) \in Nat /\ Len(t) \in Nat
    BY Join, TextIsSequence
  <1>2. CASE k \in 1..Len(s)
    <2>1. Then(s, t)[k] = s[k]
      BY <1>2, JoinFirst
    <2> QED
      BY <1>2, <2>1 DEF Lacks
  <1>3. CASE k > Len(s)
    <2> DEFINE j == k - Len(s)
    <2>1. j \in 1..Len(t) /\ k = Len(s) + j
      BY <1>1, <1>3
    <2> HIDE DEF j
    <2>2. Then(s, t)[Len(s) + j] = t[j]
      BY <2>1, JoinSecond
    <2> QED
      BY <2>1, <2>2 DEF Lacks
  <1> QED
    BY <1>1, <1>2, <1>3

(* An end tag lacks those of other names. *)
LEMMA LacksOther ==
    ASSUME NEW n1, NEW n2, n1 # n2
    PROVE  Lacks(<<Close(n1)>>, Close(n2))
  <1>1. Close(n1) # Close(n2)
    <2>1. Close(n1).name = n1 /\ Close(n2).name = n2
      BY DEF Close
    <2> QED
      BY <2>1
  <1> DEFINE s == <<Close(n1)>>
  <1>2. Len(s) = 1 /\ s[1] = Close(n1)
    BY ShortTexts
  <1> HIDE DEF s
  <1>3. \A k \in 1..Len(s) : k = 1
    BY <1>2
  <1> QED
    BY <1>1, <1>2, <1>3 DEF Lacks, s

-----------------------------------------------------------------------------
(***************************************************************************)
(* Positions that are three apart, as those of elements that hold a piece  *)
(* of text each.                                                           *)
(***************************************************************************)
(* The first of each of n threes of tokens, behind token b. *)
Spaced(b, n) == {b + 3 * k - 2 : k \in 1..n}

(* One three more. *)
LEMMA SpacedMore ==
    ASSUME NEW b \in Nat, NEW n \in Nat
    PROVE  /\ Spaced(b, 0) = {}
           /\ Spaced(b, n + 1) = Spaced(b, n) \cup {b + 3 * n + 1}
           /\ b + 3 * n + 1 \notin Spaced(b, n)
           /\ Spaced(b, n) \subseteq Nat
  <1>1. Spaced(b, 0) = {}
    <2>1. 1..0 = {}
      OBVIOUS
    <2> QED
      BY <2>1 DEF Spaced
  <1>2. b + 3 * (n + 1) - 2 = b + 3 * n + 1
    OBVIOUS
  <1>3. 1..(n + 1) = 1..n \cup {n + 1}
    OBVIOUS
  <1>4. ASSUME NEW x PROVE x \in Spaced(b, n + 1) <=> x \in Spaced(b, n) \cup {b + 3 * n + 1}
    BY <1>2, <1>3 DEF Spaced
  <1>5. b + 3 * n + 1 \notin Spaced(b, n)
    BY DEF Spaced
  <1>6. Spaced(b, n) \subseteq Nat
    BY DEF Spaced
  <1> QED
    BY <1>1, <1>4, <1>5, <1>6

(* There are n of them. *)
LEMMA SpacedCount ==
    ASSUME NEW b \in Nat
    PROVE  \A n \in Nat : ArePositions(Spaced(b, n)) /\ Cardinality(Spaced(b, n)) = n
  <1> DEFINE S == {n \in Nat : ArePositions(Spaced(b, n)) /\ Cardinality(Spaced(b, n)) = n}
  <1>1. 0 \in S
    <2>1. Spaced(b, 0) = {}
      BY SpacedMore
    <2> QED
      BY <2>1, FS_EmptySet DEF ArePositions
  <1>2. ASSUME NEW n \in Nat, n \in S PROVE n + 1 \in S
    <2> DEFINE T == Spaced(b, n)
               x == b + 3 * n + 1
    <2>1. /\ Spaced(b, n + 1) = T \cup {x} /\ x \notin T /\ T \subseteq Nat
      BY SpacedMore
    <2>2. IsFiniteSet(T) /\ Cardinality(T) = n
      BY <1>2 DEF ArePositions
    <2>3. x \in Nat
      OBVIOUS
    <2> HIDE DEF T, x
    <2>4. IsFiniteSet(T \cup {x}) /\ Cardinality(T \cup {x}) = n + 1
      BY <2>1, <2>2, FS_AddElement
    <2>5. ArePositions(Spaced(b, n + 1))
      BY <2>1, <2>3, <2>4 DEF ArePositions
    <2>6. Cardinality(Spaced(b, n + 1)) = n + 1
      BY <2>1, <2>4
    <2> QED
      BY <2>5, <2>6
  <1> HIDE DEF S
  <1>3. \A n \in Nat : n \in S
    BY <1>1, <1>2, Induct!Induction
  <1> QED
    BY <1>3 DEF S

(* The k-th of them. *)
LEMMA SpacedNth ==
    ASSUME NEW b \in Nat, NEW n \in Nat, NEW k \in 1..n
    PROVE  Nth(Spaced(b, n), k) = b + 3 * k - 2
  <1> DEFINE S == Spaced(b, n)
             Upto(p) == {q \in S : q <= p}
             At(j) == b + 3 * j - 2
  <1>1. ASSUME NEW j \in 1..n
        PROVE  Upto(At(j)) = Spaced(b, j)
    <2>1. ASSUME NEW q \in Upto(At(j)) PROVE q \in Spaced(b, j)
      <3>1. PICK i \in 1..n : q = b + 3 * i - 2
        BY <2>1 DEF Spaced
      <3>2. i \in 1..j
        BY <2>1, <3>1
      <3> QED
        BY <3>1, <3>2 DEF Spaced
    <2>2. ASSUME NEW q \in Spaced(b, j) PROVE q \in Upto(At(j))
      <3>1. PICK i \in 1..j : q = b + 3 * i - 2
        BY <2>2 DEF Spaced
      <3>2. i \in 1..n /\ q <= At(j)
        BY <3>1
      <3> QED
        BY <3>1, <3>2 DEF Spaced
    <2> QED
      BY <2>1, <2>2
  <1>2. ASSUME NEW j \in 1..n
        PROVE  Cardinality(Upto(At(j))) = j
    <2> HIDE DEF Upto, At
    <2>1. j \in Nat
      OBVIOUS
    <2> QED
      BY <1>1, <2>1, SpacedCount
  <1>3. \A p \in S : \E j \in 1..n : p = At(j)
    BY DEF Spaced
  <1>4. At(k) \in S
    BY DEF Spaced
  <1> HIDE DEF S, At, Upto
  <1>5. \A p \in S : Cardinality(Upto(p)) = k => p = At(k)
    BY <1>2, <1>3
  <1>6. Nth(S, k) = CHOOSE p \in S : Cardinality(Upto(p)) = k
    BY DEF Nth, Upto
  <1>7. Nth(S, k) \in S /\ Cardinality(Upto(Nth(S, k))) = k
    BY <1>2, <1>4, <1>6
  <1> QED
    BY <1>5, <1>7 DEF S, At

(* Further on, they are so too. *)
LEMMA SpacedMoved ==
    ASSUME NEW b \in Nat, NEW n \in Nat, NEW m \in Nat
    PROVE  Moved(Spaced(b, n), m) = Spaced(m + b, n)
  <1>1. ASSUME NEW x \in Moved(Spaced(b, n), m)
        PROVE  x \in Spaced(m + b, n)
    <2>1. PICK k \in 1..n : x = m + (b + 3 * k - 2)
      BY <1>1 DEF Moved, Spaced
    <2>2. x = (m + b) + 3 * k - 2
      BY <2>1
    <2> QED
      BY <2>2 DEF Spaced
  <1>2. ASSUME NEW x \in Spaced(m + b, n)
        PROVE  x \in Moved(Spaced(b, n), m)
    <2>1. PICK k \in 1..n : x = (m + b) + 3 * k - 2
      BY <1>2 DEF Spaced
    <2>2. x = m + (b + 3 * k - 2)
      BY <2>1
    <2> QED
      BY <2>2 DEF Moved, Spaced
  <1> QED
    BY <1>1, <1>2

-----------------------------------------------------------------------------
(***************************************************************************)
(* A list of elements, each with a piece of text.                          *)
(***************************************************************************)
(* An element with a piece of text, from its record. *)
Item(x) == Element(x.name, x.id, x.attr, {}, <<Text(x.data)>>)

(* Its three tokens. *)
IsItem(x, open, text, close) ==
    /\ open = Open(x.name, x.id, x.attr, {})
    /\ text = Text(x.data)
    /\ close = Close(x.name)

(* s has n such elements, those of list, and nothing else. *)
Listed(s, n, list) ==
    /\ Flat(s) /\ Len(s) = 3 * n /\ Elements(s) = Spaced(0, n)
    /\ \A k \in 1..n : IsItem(list[k], s[3 * k - 2], s[3 * k - 1], s[3 * k])

(* What an Item is. *)
LEMMA ItemIs ==
    ASSUME NEW x
    PROVE  /\ Flat(Item(x)) /\ IsText(Item(x)) /\ Len(Item(x)) = 3
           /\ Elements(Item(x)) = {1}
           /\ IsItem(x, Item(x)[1], Item(x)[2], Item(x)[3])
  <1> DEFINE c == <<Text(x.data)>>
             s == Element(x.name, x.id, x.attr, {}, c)
  <1>1. IsText(c) /\ Len(c) = 1 /\ c[1] = Text(x.data) /\ Nested(c)
    BY ShortTexts, NestedText
  <1>2. Flat(s)
    BY FlatElement
  <1>3. Elements(c) = {}
    BY NoElements
  <1> HIDE DEF c
  <1>4. /\ IsText(s) /\ Len(s) = 3
        /\ s[1] = Open(x.name, x.id, x.attr, {}) /\ s[3] = Close(x.name)
        /\ s[2] = c[1]
    <2>1. /\ IsText(s) /\ Len(s) = Len(c) + 2
          /\ s[1] = Open(x.name, x.id, x.attr, {}) /\ s[Len(c) + 2] = Close(x.name)
          /\ \A k \in 1..Len(c) : s[k + 1] = c[k]
      <3> DEFINE a == x.name
                 i == x.id
                 r == x.attr
                 d == {}
      <3>1. s = Element(a, i, r, d, c)
        OBVIOUS
      <3> HIDE DEF a, i, r, d, s
      <3>2. IsText(c)
        BY <1>1
      <3>3. /\ IsText(s) /\ Len(s) = Len(c) + 2
            /\ s[1] = Open(a, i, r, d) /\ s[Len(c) + 2] = Close(a)
            /\ \A k \in 1..Len(c) : s[k + 1] = c[k]
        BY <3>1, <3>2, ElementIs
      <3> QED
        BY <3>3 DEF a, i, r, d
    <2> HIDE DEF s
    <2> QED
      BY <1>1, <2>1
  <1>5. Elements(s) = {1}
    <2>1. 1 \in Elements(s) /\ \A k \in Elements(s) : k = 1
      BY <1>1, <1>3, ElementHolds
    <2> QED
      BY <2>1
  <1>6. Item(x) = s
    BY DEF Item, c
  <1> HIDE DEF s
  <1> QED
    BY <1>1, <1>2, <1>4, <1>5, <1>6 DEF IsItem

(* None of them make the empty text. *)
LEMMA ListedNone ==
    ASSUME NEW list
    PROVE  Listed(<<>>, 0, list)
  <1>1. Elements(<<>>) = {} /\ Spaced(0, 0) = {}
    BY NoElements, SpacedMore
  <1>2. Len(<<>>) = 3 * 0
    OBVIOUS
  <1> QED
    BY <1>1, <1>2, FlatNone DEF Listed

(* One more of them. *)
LEMMA ListedMore ==
    ASSUME NEW s, NEW n \in Nat, NEW list, Listed(s, n, list)
    PROVE  Listed(Then(s, Item(list[n + 1])), n + 1, list)
  <1> DEFINE x == list[n + 1]
             t == Item(x)
             all == Then(s, t)
  <1>1. Flat(s) /\ IsText(s) /\ Len(s) = 3 * n /\ Elements(s) = Spaced(0, n)
    BY DEF Listed, Flat, Nested
  <1>2. /\ Flat(t) /\ IsText(t) /\ Len(t) = 3 /\ Elements(t) = {1}
        /\ IsItem(x, t[1], t[2], t[3])
    BY ItemIs
  <1> HIDE DEF t
  <1>3. Flat(all)
    BY <1>1, <1>2, FlatJoin
  <1>4. Len(all) = 3 * (n + 1)
    <2>1. Len(all) = Len(s) + Len(t)
      BY <1>1, <1>2, Join
    <2> QED
      BY <1>1, <1>2, <2>1
  <1>5. Elements(all) = Spaced(0, n + 1)
    <2>1. /\ \A k \in 1..Len(s) : k \in Elements(all) <=> k \in Elements(s)
          /\ \A k \in 1..Len(t) : Len(s) + k \in Elements(all) <=> k \in Elements(t)
          /\ \A k \in Elements(all) :
                k \in Elements(s) \/ \E m \in Elements(t) : k = Len(s) + m
      BY <1>1, <1>2, ElementsJoin
    <2>2. Elements(s) \subseteq 1..Len(s)
      BY <1>1, ElementNumbers
    <2>3. Elements(all) = Elements(s) \cup {3 * n + 1}
      BY <1>1, <1>2, <2>1, <2>2
    <2>4. Spaced(0, n + 1) = Spaced(0, n) \cup {0 + 3 * n + 1}
      BY SpacedMore
    <2>5. 0 + 3 * n + 1 = 3 * n + 1
      OBVIOUS
    <2> QED
      BY <1>1, <2>3, <2>4, <2>5
  <1>6. ASSUME NEW j \in 1..Len(t) PROVE all[Len(s) + j] = t[j]
    <2>1. IsText(s) /\ IsText(t)
      BY <1>1, <1>2
    <2> QED
      BY <2>1, JoinSecond
  <1>7. ASSUME NEW k \in 1..(n + 1)
        PROVE  IsItem(list[k], all[3 * k - 2], all[3 * k - 1], all[3 * k])
    <2>1. CASE k \in 1..n
      <3>1. 3 * k - 2 \in 1..Len(s) /\ 3 * k - 1 \in 1..Len(s) /\ 3 * k \in 1..Len(s)
        BY <1>1, <2>1
      <3>2. ASSUME NEW j \in 1..Len(s) PROVE all[j] = s[j]
        BY <1>1, <1>2, JoinFirst
      <3>3. IsItem(list[k], s[3 * k - 2], s[3 * k - 1], s[3 * k])
        BY <2>1 DEF Listed
      <3> HIDE DEF all
      <3> QED
        BY <3>1, <3>2, <3>3
    <2>2. CASE k = n + 1
      <3>1. /\ 3 * k - 2 = Len(s) + 1 /\ 3 * k - 1 = Len(s) + 2 /\ 3 * k = Len(s) + 3
            /\ 1 \in 1..Len(t) /\ 2 \in 1..Len(t) /\ 3 \in 1..Len(t)
        BY <1>1, <1>2, <2>2
      <3> HIDE DEF all
      <3> QED
        BY <1>2, <1>6, <2>2, <3>1
    <2> QED
      BY <2>1, <2>2
  <1> HIDE DEF all
  <1> QED
    BY <1>3, <1>4, <1>5, <1>7 DEF Listed, all, t

(* A list of items put together. *)
LEMMA ListedBuilds ==
    ASSUME NEW n \in Nat, NEW f, NEW g, Builds(g, f, n), NEW list,
           \A k \in 1..n : f[k] = Item(list[k])
    PROVE  Listed(g[n], n, list)
  <1> DEFINE S == {m \in Nat : m <= n => Listed(g[m], m, list)}
  <1>1. 0 \in S
    BY ListedNone DEF Builds
  <1>2. ASSUME NEW m \in Nat, m \in S
        PROVE  m + 1 \in S
    <2> SUFFICES ASSUME m + 1 <= n PROVE Listed(g[m + 1], m + 1, list)
      OBVIOUS
    <2>1. m + 1 \in 1..n /\ m < n /\ m <= n
      OBVIOUS
    <2>2. g[m + 1] = Then(g[m], Item(list[m + 1]))
      BY <2>1 DEF Builds
    <2>3. Listed(g[m], m, list)
      BY <1>2, <2>1
    <2> QED
      BY <2>2, <2>3, ListedMore
  <1> HIDE DEF S
  <1>3. \A m \in Nat : m \in S
    BY <1>1, <1>2, Induct!Induction
  <1> QED
    BY <1>3 DEF S

-----------------------------------------------------------------------------
(***************************************************************************)
(* Where the elements of a name are.                                       *)
(***************************************************************************)
(* The positions of a name are elements, and finitely many. *)
LEMMA PositionsIn ==
    ASSUME NEW s, IsText(s), NEW local
    PROVE  ArePositions(Positions(s, local)) /\ Positions(s, local) \subseteq Elements(s)
  <1>1. Elements(s) \subseteq 1..Len(s) /\ IsFiniteSet(Elements(s))
    BY ElementNumbers
  <1>2. Positions(s, local) \subseteq Elements(s)
    BY DEF Positions
  <1>3. IsFiniteSet(Positions(s, local))
    BY <1>1, <1>2, FS_Subset
  <1> QED
    BY <1>1, <1>2, <1>3 DEF ArePositions

(* Those of two texts joined are those of both. *)
LEMMA PositionsJoin ==
    ASSUME NEW s, IsText(s), NEW t, IsText(t), NEW local
    PROVE  Positions(Then(s, t), local)
             = Positions(s, local) \cup Moved(Positions(t, local), Len(s))
  <1> DEFINE all == Then(s, t)
             n == Len(s)
  <1>1. /\ \A k \in 1..Len(s) : k \in Elements(all) <=> k \in Elements(s)
        /\ \A k \in 1..Len(t) : n + k \in Elements(all) <=> k \in Elements(t)
        /\ \A k \in Elements(all) :
              k \in Elements(s) \/ \E m \in Elements(t) : k = n + m
    BY ElementsJoin
  <1>2. Elements(s) \subseteq 1..Len(s) /\ Elements(t) \subseteq 1..Len(t)
    BY ElementNumbers
  <1>3. ASSUME NEW k \in 1..Len(s) PROVE all[k] = s[k]
    BY JoinFirst
  <1>4. ASSUME NEW k \in 1..Len(t) PROVE all[n + k] = t[k]
    BY JoinSecond
  <1> HIDE DEF all, n
  <1>5. ASSUME NEW j \in Positions(all, local)
        PROVE  j \in Positions(s, local) \cup Moved(Positions(t, local), n)
    <2>1. j \in Elements(all) /\ all[j].name[2] = local
      BY <1>5 DEF Positions
    <2>2. CASE j \in Elements(s)
      BY <1>2, <1>3, <2>1, <2>2 DEF Positions
    <2>3. ASSUME NEW m \in Elements(t), j = n + m
          PROVE  j \in Moved(Positions(t, local), n)
      <3>1. t[m].name[2] = local
        BY <1>2, <1>4, <2>1, <2>3
      <3> QED
        BY <2>3, <3>1 DEF Positions, Moved
    <2> QED
      BY <1>1, <2>1, <2>2, <2>3
  <1>6. ASSUME NEW j \in Positions(s, local)
        PROVE  j \in Positions(all, local)
    BY <1>1, <1>2, <1>3, <1>6 DEF Positions
  <1>7. ASSUME NEW j \in Moved(Positions(t, local), n)
        PROVE  j \in Positions(all, local)
    <2>1. PICK m \in Elements(t) : j = n + m /\ t[m].name[2] = local
      BY <1>7 DEF Positions, Moved
    <2>2. n + m \in Elements(all) /\ all[n + m] = t[m]
      BY <1>1, <1>2, <1>4
    <2> QED
      BY <2>1, <2>2 DEF Positions
  <1>8. Positions(all, local) = Positions(s, local) \cup Moved(Positions(t, local), n)
    BY <1>5, <1>6, <1>7
  <1> QED
    BY <1>8 DEF all, n

(* The position of an element itself, when it has the name. *)
Own(name, local) == IF name[2] = local THEN {1} ELSE {}

(* Those of an element are its own and those of its content. *)
LEMMA PositionsElement ==
    ASSUME NEW name, NEW id, NEW attr, NEW ns, NEW c, IsText(c), NEW local
    PROVE  Positions(Element(name, id, attr, ns, c), local)
             = Own(name, local) \cup Moved(Positions(c, local), 1)
  <1> DEFINE all == Element(name, id, attr, ns, c)
  <1>1. /\ all[1] = Open(name, id, attr, ns)
        /\ \A k \in 1..Len(c) : all[k + 1] = c[k]
    BY ElementIs
  <1>2. /\ 1 \in Elements(all)
        /\ \A k \in Elements(c) : k + 1 \in Elements(all)
        /\ \A k \in Elements(all) : k = 1 \/ \E m \in Elements(c) : k = m + 1
    BY ElementHolds
  <1>3. Elements(c) \subseteq 1..Len(c)
    BY ElementNumbers
  <1> HIDE DEF all
  <1>4. all[1].name = name
    BY <1>1 DEF Open
  <1>5. \A k \in Elements(c) : k + 1 = 1 + k /\ all[1 + k] = c[k]
    BY <1>1, <1>3
  <1> DEFINE S == Own(name, local) \cup Moved(Positions(c, local), 1)
  <1>6. ASSUME NEW j \in Positions(all, local) PROVE j \in S
    <2>1. CASE j = 1
      BY <1>4, <1>6, <2>1 DEF Positions, Own
    <2>2. ASSUME NEW m \in Elements(c), j = m + 1
          PROVE  j \in Moved(Positions(c, local), 1)
      <3>1. j = 1 + m /\ c[m].name[2] = local
        BY <1>5, <1>6, <2>2 DEF Positions
      <3> QED
        BY <3>1 DEF Positions, Moved
    <2> QED
      BY <1>2, <1>6, <2>1, <2>2 DEF Positions
  <1>7. ASSUME NEW j \in S PROVE j \in Positions(all, local)
    <2>1. CASE j = 1 /\ name[2] = local
      BY <1>2, <1>4, <2>1 DEF Positions
    <2>2. ASSUME NEW m \in Elements(c), j = 1 + m, c[m].name[2] = local
          PROVE  j \in Positions(all, local)
      BY <1>2, <1>5, <2>2 DEF Positions
    <2> QED
      BY <1>7, <2>1, <2>2 DEF Positions, Moved, Own
  <1>8. Positions(all, local) = S
    BY <1>6, <1>7
  <1> QED
    BY <1>8 DEF all

(* A name that a text is not made of is nowhere in it. *)
LEMMA PositionsAbsent ==
    ASSUME NEW names, NEW ns, NEW s, Made(s, names, ns), NEW local,
           \A name \in names : name[2] # local
    PROVE  Positions(s, local) = {}
  BY DEF Positions, Made

(* Nor is any in a text without elements. *)
LEMMA PositionsNone ==
    ASSUME NEW x, NEW local
    PROVE  Positions(<<>>, local) = {} /\ Positions(<<Text(x)>>, local) = {}
  BY NoElements DEF Positions

(* In a list of elements of the name, it is all of them. *)
LEMMA PositionsListed ==
    ASSUME NEW s, NEW n \in Nat, NEW list, Listed(s, n, list), NEW local,
           \A k \in 1..n : list[k].name[2] = local
    PROVE  Positions(s, local) = Spaced(0, n)
  <1>1. ASSUME NEW k \in Spaced(0, n) PROVE s[k].name[2] = local
    <2>1. PICK m \in 1..n : k = 3 * m - 2
      BY <1>1 DEF Spaced
    <2>2. IsItem(list[m], s[3 * m - 2], s[3 * m - 1], s[3 * m])
      BY DEF Listed
    <2>3. s[k].name = list[m].name
      BY <2>1, <2>2 DEF IsItem, Open
    <2> QED
      BY <2>3
  <1> QED
    BY <1>1 DEF Positions, Listed

(* In one of elements of other names, it is none. *)
LEMMA PositionsOther ==
    ASSUME NEW s, NEW n \in Nat, NEW list, Listed(s, n, list), NEW local,
           \A k \in 1..n : list[k].name[2] # local
    PROVE  Positions(s, local) = {}
  <1>1. ASSUME NEW k \in Spaced(0, n) PROVE s[k].name[2] # local
    <2>1. PICK m \in 1..n : k = 3 * m - 2
      BY <1>1 DEF Spaced
    <2>2. IsItem(list[m], s[3 * m - 2], s[3 * m - 1], s[3 * m])
      BY DEF Listed
    <2>3. s[k].name = list[m].name
      BY <2>1, <2>2 DEF IsItem, Open
    <2> QED
      BY <2>3
  <1> QED
    BY <1>1 DEF Positions, Listed

-----------------------------------------------------------------------------
(***************************************************************************)
(* Elements that the reader has no struct with required fields for.        *)
(***************************************************************************)
(* The reader has no struct with required fields for this name. *)
Simple(name) == name[2] \notin DOMAIN RequiredFields

(* Simple elements without elements fill the structs. *)
LEMMA SimpleFills ==
    ASSUME NEW name, Simple(name), NEW id, NEW attr, NEW ns, NEW x,
           NEW c \in {<<>>, <<Text(x)>>}
    PROVE  Fills(Element(name, id, attr, ns, c))
  <1>1. Nested(c) /\ Fills(c)
    BY NestedNone, NestedText, NoElements
  <1> QED
    BY <1>1, FillsElement DEF Holds, Simple

-----------------------------------------------------------------------------
(***************************************************************************)
(* How many elements of a name a text has, at any depth.                   *)
(***************************************************************************)
(* How many elements have this local name, at any depth. *)
Count(s, local) == Cardinality(Positions(s, local))

(* What the element itself adds to the count. *)
One(name, local) == IF name[2] = local THEN 1 ELSE 0

(* Counts of texts joined add up. *)
LEMMA CountJoin ==
    ASSUME NEW s, IsText(s), NEW t, IsText(t), NEW local
    PROVE  /\ Count(Then(s, t), local) = Count(s, local) + Count(t, local)
           /\ Count(s, local) \in Nat
  <1> DEFINE S == Positions(s, local)
             P == Positions(t, local)
             n == Len(s)
             T == Moved(P, n)
  <1>1. ArePositions(S) /\ ArePositions(P) /\ S \subseteq 1..n /\ P \subseteq 1..Len(t)
        /\ n \in Nat
    BY PositionsIn, ElementNumbers
  <1>2. Positions(Then(s, t), local) = S \cup T
    BY PositionsJoin
  <1>3. IsFiniteSet(T) /\ Cardinality(T) = Cardinality(P)
    BY <1>1, CardinalityMoved
  <1>4. S \cap T = {}
    <2>1. \A j \in T : j > n
      BY <1>1 DEF Moved
    <2>2. \A j \in S : j <= n
      BY <1>1
    <2>3. S \subseteq Nat
      BY <1>1 DEF ArePositions
    <2>4. ASSUME NEW j \in S, j \in T PROVE FALSE
      <3>1. j \in Nat /\ j > n /\ j <= n /\ n \in Nat
        BY <1>1, <2>1, <2>2, <2>3, <2>4
      <3> HIDE DEF n
      <3> QED
        BY <3>1
    <2> HIDE DEF S, T
    <2> QED
      BY <2>4
  <1>5. IsFiniteSet(S) /\ Cardinality(S) \in Nat
    BY <1>1, FS_CardinalityType DEF ArePositions
  <1> HIDE DEF S, T, P, n
  <1>6. Cardinality(S \cup T) = Cardinality(S) + Cardinality(T)
    BY <1>3, <1>4, <1>5, CardinalityApart
  <1> QED
    BY <1>2, <1>3, <1>5, <1>6 DEF Count, S, P

(* The count of an element is its own and that of its content. *)
LEMMA CountElement ==
    ASSUME NEW name, NEW id, NEW attr, NEW ns, NEW c, IsText(c), NEW local
    PROVE  Count(Element(name, id, attr, ns, c), local)
             = One(name, local) + Count(c, local)
  <1> DEFINE P == Positions(c, local)
             T == Moved(P, 1)
             S == Own(name, local)
  <1>1. ArePositions(P) /\ P \subseteq 1..Len(c)
    BY PositionsIn, ElementNumbers
  <1>2. Positions(Element(name, id, attr, ns, c), local) = S \cup T
    BY PositionsElement
  <1>3. IsFiniteSet(T) /\ Cardinality(T) = Cardinality(P)
    BY <1>1, CardinalityMoved
  <1>4. S \cap T = {}
    BY <1>1 DEF Moved, Own
  <1>5. IsFiniteSet(S) /\ Cardinality(S) = One(name, local)
    BY FS_Singleton, FS_EmptySet DEF Own, One
  <1> HIDE DEF S, T, P
  <1>6. Cardinality(S \cup T) = Cardinality(S) + Cardinality(T)
    BY <1>3, <1>4, <1>5, CardinalityApart
  <1> QED
    BY <1>2, <1>3, <1>5, <1>6 DEF Count, P

(* A text without elements counts nothing. *)
LEMMA CountNone ==
    ASSUME NEW x, NEW local
    PROVE  Count(<<>>, local) = 0 /\ Count(<<Text(x)>>, local) = 0
  BY PositionsNone, FS_EmptySet DEF Count

(* Nothing is counted where there is nothing, and where one is counted      *)
(* there is one.                                                            *)
LEMMA CountIs ==
    ASSUME NEW s, IsText(s), NEW local
    PROVE  /\ Count(s, local) = 0 <=> Positions(s, local) = {}
           /\ \A k \in Positions(s, local) :
                 Count(s, local) = 1 => Positions(s, local) = {k}
  <1>1. IsFiniteSet(Positions(s, local))
    BY PositionsIn DEF ArePositions
  <1>2. Count(s, local) = 0 <=> Positions(s, local) = {}
    BY <1>1, FS_EmptySet DEF Count
  <1>3. ASSUME NEW k \in Positions(s, local), Count(s, local) = 1
        PROVE  Positions(s, local) = {k}
    <2>1. \E x : Positions(s, local) = {x}
      BY <1>1, <1>3, FS_Singleton DEF Count
    <2> QED
      BY <2>1
  <1> QED
    BY <1>2, <1>3

(* The count of an element without elements. *)
LEMMA CountSimple ==
    ASSUME NEW name, NEW id, NEW attr, NEW ns, NEW x,
           NEW c \in {<<>>, <<Text(x)>>}, NEW local
    PROVE  Count(Element(name, id, attr, ns, c), local) = One(name, local)
  <1>1. IsText(c)
    BY ShortTexts
  <1>2. Count(c, local) = 0
    BY CountNone
  <1>3. Count(Element(name, id, attr, ns, c), local)
          = One(name, local) + Count(c, local)
    BY <1>1, CountElement
  <1> QED
    BY <1>2, <1>3 DEF One

-----------------------------------------------------------------------------
(***************************************************************************)
(* What is true of a list by its items.                                    *)
(***************************************************************************)
(* Which element of the list is at k. *)
LEMMA ListedAt ==
    ASSUME NEW s, NEW n \in Nat, NEW list, Listed(s, n, list),
           NEW k \in Elements(s)
    PROVE  \E m \in 1..n : /\ k = 3 * m - 2
                           /\ s[k] = Open(list[m].name, list[m].id, list[m].attr, {})
  <1>1. PICK m \in 1..n : k = 3 * m - 2
    BY DEF Listed, Spaced
  <1>2. IsItem(list[m], s[3 * m - 2], s[3 * m - 1], s[3 * m])
    BY DEF Listed
  <1> QED
    BY <1>1, <1>2 DEF IsItem

(* The list is made of its names. *)
LEMMA ListedMade ==
    ASSUME NEW s, NEW n \in Nat, NEW list, Listed(s, n, list), NEW names,
           \A k \in 1..n : list[k].name \in names
    PROVE  Made(s, names, {})
  <1>1. ASSUME NEW k \in Elements(s)
        PROVE  s[k].name \in names /\ s[k].ns \subseteq {}
    <2>1. PICK m \in 1..n :
              s[k] = Open(list[m].name, list[m].id, list[m].attr, {})
      BY ListedAt
    <2> QED
      BY <2>1 DEF Open
  <1> QED
    BY <1>1 DEF Made, Listed, Flat

(* A list of simple elements fills the structs. *)
LEMMA ListedFills ==
    ASSUME NEW s, NEW n \in Nat, NEW list, Listed(s, n, list),
           \A k \in 1..n : Simple(list[k].name)
    PROVE  Fills(s)
  <1>1. ASSUME NEW k \in Elements(s)
        PROVE  Holds(s[k].name[2], s, Inside(s, k))
    <2>1. PICK m \in 1..n :
              s[k] = Open(list[m].name, list[m].id, list[m].attr, {})
      BY ListedAt
    <2>2. Simple(s[k].name)
      BY <2>1 DEF Open
    <2> QED
      BY <2>2 DEF Simple, Holds
  <1> QED
    BY <1>1 DEF Fills

(* A list of different Ids has each of them once. *)
LEMMA ListedIds ==
    ASSUME NEW s, NEW n \in Nat, NEW list, Listed(s, n, list),
           \A j, k \in 1..n : list[j].id = list[k].id => j = k
    PROVE  IdsAreUnique(s) /\ Ids(s) \subseteq {list[k].id : k \in 1..n}
  <1>1. ASSUME NEW k \in Elements(s)
        PROVE  \E m \in 1..n : k = 3 * m - 2 /\ s[k].id = list[m].id
    <2>1. PICK m \in 1..n :
              k = 3 * m - 2 /\ s[k] = Open(list[m].name, list[m].id, list[m].attr, {})
      BY ListedAt
    <2> QED
      BY <2>1 DEF Open
  <1>2. IdsAreUnique(s)
    <2> SUFFICES ASSUME NEW j \in Elements(s), NEW k \in Elements(s), s[j].id = s[k].id
                 PROVE  j = k
      BY DEF IdsAreUnique
    <2>1. PICK i \in 1..n : j = 3 * i - 2 /\ s[j].id = list[i].id
      BY <1>1
    <2>2. PICK m \in 1..n : k = 3 * m - 2 /\ s[k].id = list[m].id
      BY <1>1
    <2>3. i = m
      BY <2>1, <2>2
    <2> QED
      BY <2>1, <2>2, <2>3
  <1>3. Ids(s) \subseteq {list[k].id : k \in 1..n}
    BY <1>1 DEF Ids
  <1> QED
    BY <1>2, <1>3

(* A name that is in the list once is tallied once. *)
LEMMA ListedOnce ==
    ASSUME NEW s, NEW n \in Nat, NEW list, Listed(s, n, list), NEW local,
           \A j, k \in 1..n :
              list[j].name[2] = local /\ list[k].name[2] = local => j = k
    PROVE  Tally(s, local) <= 1 /\ Tally(s, local) \in Nat
  <1> DEFINE S == Named(s, Tops(s), local)
  <1>1. ASSUME NEW j \in S, NEW k \in S PROVE j = k
    <2>1. j \in Elements(s) /\ k \in Elements(s)
      BY DEF Named, Tops
    <2>2. PICK i \in 1..n :
              j = 3 * i - 2 /\ s[j] = Open(list[i].name, list[i].id, list[i].attr, {})
      BY <2>1, ListedAt
    <2>3. PICK m \in 1..n :
              k = 3 * m - 2 /\ s[k] = Open(list[m].name, list[m].id, list[m].attr, {})
      BY <2>1, ListedAt
    <2>4. list[i].name[2] = local /\ list[m].name[2] = local
      BY <2>2, <2>3 DEF Named, Open
    <2>5. i = m
      BY <2>4
    <2> QED
      BY <2>2, <2>3, <2>5
  <1> HIDE DEF S
  <1>2. S = {} \/ \E x : S = {x}
    BY <1>1
  <1>3. Cardinality(S) \in {0, 1}
    BY <1>2, FS_EmptySet, FS_Singleton
  <1> QED
    BY <1>3 DEF Tally, S

-----------------------------------------------------------------------------
(***************************************************************************)
(* The names and prefixes of a XAdES document.                             *)
(***************************************************************************)
(* The names in its unsigned text. *)
UnsignedNames ==
    {Xa("UnsignedProperties"), Xa("UnsignedSignatureProperties"),
     Xa("SignatureTimeStamp"), Xa("CertificateValues"), Xa("RevocationValues")}

(* The name of the root. *)
ContainerTag == <<"asic", "XAdESSignatures">>

(* The names of the parts are names of a document, and have declared        *)
(* prefixes.                                                                *)
LEMMA NamesIn ==
    /\ {Xa("DataObjectFormat")} \subseteq XadesNames
    /\ UnsignedNames \subseteq XadesNames /\ InfoNames \subseteq XadesNames
    /\ ContainerTag \in XadesNames /\ Ds("Signature") \in XadesNames
    /\ Ds("SignatureValue") \in XadesNames /\ Ds("KeyInfo") \in XadesNames
    /\ Ds("Object") \in XadesNames /\ Xa("QualifyingProperties") \in XadesNames
    /\ \A name \in XadesNames : name[1] \in AllPrefixes
  BY DEF XadesNames, UnsignedNames, InfoNames, ContainerTag, Ds, Xa, AllPrefixes

-----------------------------------------------------------------------------
(***************************************************************************)
(* Documents parse when their prefixes are declared.                       *)
(***************************************************************************)
(* The prefixes of the names are those declared. *)
Declared(names, ns) == \A name \in names : name[1] \in {""} \cup ns

(* A document with its prefixes declared at its root parses. *)
LEMMA NestedParses ==
    ASSUME NEW text, NEW names, NEW ns, Made(text, names, ns), OneRoot(text, ns),
           Declared(names, ns)
    PROVE  IsWellFormed(Parse(text))
  <1> DEFINE tree == Parse(text)
  <1>1. /\ Nested(text) /\ IsText(text)
        /\ \A k \in Elements(text) : text[k].name \in names
    BY DEF Made, Nested
  <1>2. 1 \in Elements(text) /\ EndTag(text, 1) = Len(text)
    BY DEF OneRoot
  <1>3. tree.text = text /\ Nodes(tree) = Elements(text)
        /\ \A k \in Elements(text) : tree.end[k] = EndTag(text, k)
    BY ParseIs
  <1> HIDE DEF tree
  <1>4. ASSUME NEW k \in Nodes(tree)
        PROVE  /\ tree.end[k] # 0
               /\ tree.text[tree.end[k]].name = tree.text[k].name
               /\ tree.text[k].name[1] \in {""} \cup InScope(tree, k)
    <2>1. k \in Elements(text)
      BY <1>3
    <2>2. /\ EndTag(text, k) \in Nat /\ k < EndTag(text, k)
          /\ EndTag(text, k) <= Len(text)
          /\ text[EndTag(text, k)] = Close(text[k].name)
      BY <1>1, <2>1, NestedEnds
    <2>3. text[k].name \in names
      BY <1>1, <2>1
    <2>4. k \in Nat /\ 1 <= k /\ Len(text) \in Nat
      <3>1. IsText(text)
        BY <1>1
      <3>2. Elements(text) \subseteq 1..Len(text) /\ Len(text) \in Nat
        BY <3>1, ElementNumbers
      <3> QED
        BY <3>2, <2>1
    <2>5. tree.end[k] = EndTag(text, k) /\ tree.text = text
      BY <1>3, <2>1
    <2>6. tree.end[k] # 0
      BY <2>2, <2>4, <2>5
    <2>7. text[EndTag(text, k)].name = text[k].name
      BY <2>2 DEF Close
    <2>8. InScope(tree, k) = ns
      <3>1. k < Len(text)
        BY <2>2, <2>4
      <3> QED
        BY <2>1, <3>1, RootInScope DEF tree
    <2>9. text[k].name[1] \in {""} \cup ns
      BY <2>3 DEF Declared
    <2> QED
      BY <2>5, <2>6, <2>7, <2>8, <2>9
  <1>5. 1 \in Nodes(tree) /\ tree.end[1] = Len(tree.text)
    BY <1>2, <1>3
  <1>6. IsWellFormed(tree)
    BY <1>4, <1>5 DEF IsWellFormed
  <1> QED
    BY <1>6 DEF tree

(* So does one that is put together as an element. *)
LEMMA DocumentParses ==
    ASSUME NEW name, NEW id, NEW attr, NEW ns, NEW c, Nested(c), NEW names,
           Made(Element(name, id, attr, ns, c), names, ns),
           Declared(names, ns)
    PROVE  LET text == Element(name, id, attr, ns, c)
           IN  IsWellFormed(Parse(text)) /\ OneRoot(text, ns)
  <1> DEFINE text == Element(name, id, attr, ns, c)
  <1>1. /\ IsText(text) /\ IsText(c) /\ Made(text, names, ns)
        /\ \A k \in Elements(text) : text[k].ns \subseteq ns
    BY DEF Made, Nested
  <1>2. Len(text) = Len(c) + 2 /\ text[1] = Open(name, id, attr, ns)
    BY <1>1, ElementIs
  <1>3. EndTag(text, 1) = Len(c) + 2
    BY ElementEnds
  <1>4. 1 \in Elements(text)
    BY <1>1, ElementHolds
  <1> HIDE DEF text
  <1>5. OneRoot(text, ns)
    BY <1>1, <1>2, <1>3, <1>4 DEF OneRoot, Open
  <1>6. IsWellFormed(Parse(text))
    BY <1>1, <1>5, NestedParses
  <1> QED
    BY <1>5, <1>6 DEF text

-----------------------------------------------------------------------------
(***************************************************************************)
(* The Ids of a text and the set that they are of.                         *)
(***************************************************************************)
(* Each Id once, and all of them in S. *)
IdsWithin(s, S) == IsText(s) /\ IdsAreUnique(s) /\ Ids(s) \subseteq S

(* Two texts joined, with Ids of sets that are apart. *)
LEMMA WithinJoin ==
    ASSUME NEW s, NEW S, IdsWithin(s, S), NEW t, NEW T, IdsWithin(t, T),
           S \cap T \subseteq {NoId}
    PROVE  IdsWithin(Then(s, t), S \cup T)
  <1>1. IdsAreUnique(Then(s, t)) /\ Ids(Then(s, t)) = Ids(s) \cup Ids(t)
    BY IdsJoin DEF IdsWithin
  <1>2. IsText(Then(s, t))
    BY Join DEF IdsWithin
  <1> QED
    BY <1>1, <1>2 DEF IdsWithin

(* An element without an Id. *)
LEMMA WithinPlain ==
    ASSUME NEW name, NEW attr, NEW ns, NEW c, NEW S, IdsWithin(c, S), NoId \in S
    PROVE  IdsWithin(Element(name, NoId, attr, ns, c), S)
  <1> DEFINE all == Element(name, NoId, attr, ns, c)
  <1>1. IdsAreUnique(all) /\ Ids(all) = {NoId} \cup Ids(c)
    BY IdsElement DEF IdsWithin
  <1>2. IsText(all)
    BY ElementIs DEF IdsWithin
  <1> HIDE DEF all
  <1> QED
    BY <1>1, <1>2 DEF IdsWithin, all

(* An element with one that its content has not. *)
LEMMA WithinNamed ==
    ASSUME NEW name, NEW id, NEW attr, NEW ns, NEW c, NEW S, IdsWithin(c, S),
           id \notin S, NEW T, S \subseteq T, id \in T
    PROVE  IdsWithin(Element(name, id, attr, ns, c), T)
  <1> DEFINE all == Element(name, id, attr, ns, c)
  <1>1. id \notin Ids(c) /\ IsText(c) /\ IdsAreUnique(c)
    BY DEF IdsWithin
  <1>2. IdsAreUnique(all) /\ Ids(all) = {id} \cup Ids(c)
    BY <1>1, IdsElement
  <1>3. IsText(all)
    BY <1>1, ElementIs
  <1> HIDE DEF all
  <1> QED
    BY <1>2, <1>3 DEF IdsWithin, all

(* An element without elements. *)
LEMMA WithinSimple ==
    ASSUME NEW name, NEW id, NEW attr, NEW ns, NEW x,
           NEW c \in {<<>>, <<Text(x)>>}
    PROVE  IdsWithin(Element(name, id, attr, ns, c), {id})
  <1> DEFINE S == {}
             T == {id}
  <1>1. IdsWithin(c, S)
    BY IdsNone, ShortTexts DEF IdsWithin
  <1>2. id \notin S /\ S \subseteq T /\ id \in T
    OBVIOUS
  <1> HIDE DEF S, T
  <1>3. IdsWithin(Element(name, id, attr, ns, c), T)
    BY <1>1, <1>2, WithinNamed
  <1> QED
    BY <1>3 DEF T

-----------------------------------------------------------------------------
(***************************************************************************)
(* The fields of a struct, by how often each of them is there.             *)
(***************************************************************************)
(* The tally of an element, in the words of Count. *)
LEMMA TallyOne ==
    ASSUME NEW name, NEW id, NEW attr, NEW ns, NEW c, Nested(c), NEW local
    PROVE  Tally(Element(name, id, attr, ns, c), local) = One(name, local)
  BY TallyElement DEF One

(* No field that may be left out is there twice. *)
AtMostOnce(s) == \A field \in OptionalFields : Tally(s, field) <= 1

(* Each of these fields is there once. *)
Once(s, fields) == \A field \in fields : Tally(s, field) = 1

(* An element is right for its struct when its required fields are there    *)
(* once.                                                                    *)
LEMMA HoldsByTally ==
    ASSUME NEW s, NEW local, local \in DOMAIN RequiredFields, AtMostOnce(s),
           local = "SignedInfo" => Tally(s, "Reference") > 0
    PROVE  Holds(local, s, Tops(s)) <=> Once(s, RequiredFields[local])
  BY DEF Holds, Tally, AtMostOnce, Once

-----------------------------------------------------------------------------
(***************************************************************************)
(* Where the elements of a name are, when a part has all of them.          *)
(***************************************************************************)
(* A part that has all elements of a name: where they are. *)
LEMMA StandsPositions ==
    ASSUME NEW all, NEW p, NEW s, StandsAt(all, p, s), NEW local,
           Count(all, local) = Count(s, local)
    PROVE  Positions(all, local) = Moved(Positions(s, local), p)
  <1> DEFINE S == Positions(s, local)
             A == Positions(all, local)
             M == Moved(S, p)
  <1>1. IsText(s) /\ IsText(all) /\ p \in Nat
    BY DEF StandsAt, Nested
  <1>2. ArePositions(S) /\ S \subseteq Elements(s) /\ ArePositions(A)
    BY <1>1, PositionsIn
  <1>3. Elements(s) \subseteq 1..Len(s)
    BY <1>1, ElementNumbers
  <1>4. M \subseteq A
    <2> SUFFICES ASSUME NEW k \in S
                 PROVE  p + k \in A
      BY DEF Moved
    <2>1. k \in Elements(s) /\ s[k].name[2] = local
      BY DEF Positions
    <2>2. all[p + k] = s[k] /\ p + k \in Elements(all)
      BY <1>3, <2>1 DEF StandsAt
    <2> QED
      BY <2>1, <2>2 DEF Positions
  <1>5. IsFiniteSet(M) /\ Cardinality(M) = Cardinality(S)
    BY <1>1, <1>2, CardinalityMoved
  <1>6. Cardinality(A) = Cardinality(S)
    BY DEF Count
  <1> HIDE DEF S, A, M
  <1>7. M = A
    BY <1>2, <1>4, <1>5, <1>6, FS_Subset DEF ArePositions
  <1> QED
    BY <1>7 DEF M, A, S

-----------------------------------------------------------------------------
(***************************************************************************)
(* The canonical form of a part is that of the part alone, when the part   *)
(* declares what the document does.                                        *)
(***************************************************************************)
(* The canonical form of an element whose prefixes are declared around it:  *)
(* its start tag declares them, those within declare none.                  *)
FormIn(s, ns) ==
    [j \in 1..Len(s) |->
        IF Opens(s, j) THEN [s[j] EXCEPT !.ns = IF j = 1 THEN ns ELSE {}] ELSE s[j]]

(* This is the canonical form of a part of a document, which is visibly     *)
(* rendered by the root's prefixes,                                         *)
LEMMA CanonicalStanding ==
    ASSUME NEW all, NEW ns, OneRoot(all, ns), NEW p, NEW s, StandsAt(all, p, s),
           1 \in Elements(s), EndTag(s, 1) = Len(s)
    PROVE  Canonical(Parse(all), p + 1) = FormIn(s, ns)
  <1> DEFINE tree == Parse(all)
             n == Len(s)
             top == p + 1
  <1>1. /\ Nested(all) /\ Nested(s) /\ p \in Nat /\ p + n <= Len(all)
        /\ \A k \in 1..n : all[p + k] = s[k] /\ (p + k \in Elements(all) <=> k \in Elements(s))
        /\ \A k \in Elements(s) : EndTag(all, p + k) = p + EndTag(s, k)
    BY DEF StandsAt
  <1>2. /\ tree.text = all /\ Nodes(tree) = Elements(all)
        /\ \A k \in Elements(all) :
              /\ tree.end[k] = EndTag(all, k)
              /\ tree.around[k] = {j \in Elements(all) : j < k /\ EndTag(all, j) > k}
    BY ParseIs
  <1>3. n \in Nat /\ Len(all) \in Nat
    BY <1>1, TextIsSequence DEF Nested
  <1>4. top \in Elements(all) /\ EndTag(all, top) = p + n
    <2>1. 1 \in 1..n
      BY ElementsOf
    <2> QED
      BY <1>1, <2>1
  <1>5. tree.end[top] + 1 - top = n
    <2>1. tree.end[top] = p + n
      BY <1>2, <1>4
    <2> HIDE DEF tree
    <2> QED
      BY <1>1, <1>3, <2>1
  <1>6. ASSUME NEW j \in Elements(s)
        PROVE  NewlyVisible(tree, top, p + j) = IF j = 1 THEN ns ELSE {}
    <2> DEFINE k == p + j
    <2>1. j \in 1..n /\ k \in Elements(all) /\ k \in Nat
      BY <1>1, <1>3, ElementsOf
    <2>2. k < Len(all)
      <3>1. EndTag(all, k) \in Nat /\ k < EndTag(all, k) /\ EndTag(all, k) <= Len(all)
        BY <1>1, <2>1, NestedEnds
      <3> QED
        BY <1>3, <2>1, <3>1
    <2>3. InScope(tree, k) = ns
      BY <2>1, <2>2, RootInScope
    <2>4. k = top <=> j = 1
      BY <1>1, <2>1
    <2>5. CASE j = 1
      BY <2>3, <2>4, <2>5 DEF NewlyVisible
    <2>6. CASE j # 1
      <3>1. 1 \in tree.around[k]
        <4>1. 1 \in Elements(all) /\ EndTag(all, 1) = Len(all)
          BY DEF OneRoot
        <4>2. 1 < k
          BY <1>1, <2>1, <2>6
        <4> QED
          BY <1>2, <2>1, <2>2, <4>1, <4>2
      <3>2. tree.text[1].ns = ns
        BY <1>2 DEF OneRoot
      <3> HIDE DEF tree, k, top
      <3>3. ns \subseteq UNION {tree.text[i].ns : i \in tree.around[k]}
        BY <3>1, <3>2
      <3>4. NewlyVisible(tree, top, k) = {}
        BY <2>3, <2>4, <2>6, <3>3 DEF NewlyVisible
      <3> QED
        BY <2>6, <3>4 DEF k
    <2> QED
      BY <2>5, <2>6
  <1>7. ASSUME NEW j \in 1..n
        PROVE  LET k == top + j - 1
               IN  (IF Opens(tree.text, k)
                    THEN [tree.text[k] EXCEPT !.ns = NewlyVisible(tree, top, k)]
                    ELSE tree.text[k])
                     = FormIn(s, ns)[j]
    <2>1. top + j - 1 = p + j
      BY <1>1, <1>3
    <2>2. tree.text[p + j] = s[j]
      BY <1>1, <1>2
    <2>3. Opens(tree.text, p + j) <=> Opens(s, j)
      BY <2>2 DEF Opens
    <2>4. Opens(s, j) => j \in Elements(s)
      BY DEF Elements
    <2> HIDE DEF tree, top
    <2>5. FormIn(s, ns)[j] = IF Opens(s, j)
                             THEN [s[j] EXCEPT !.ns = IF j = 1 THEN ns ELSE {}]
                             ELSE s[j]
      BY DEF FormIn
    <2>6. CASE Opens(s, j)
      <3>1. NewlyVisible(tree, top, p + j) = IF j = 1 THEN ns ELSE {}
        BY <1>6, <2>4, <2>6
      <3> QED
        BY <2>1, <2>2, <2>3, <2>5, <2>6, <3>1
    <2>7. CASE ~ Opens(s, j)
      BY <2>1, <2>2, <2>3, <2>5, <2>7
    <2> QED
      BY <2>6, <2>7
  <1>8. Canonical(tree, top)
          = [j \in 1..n |->
                LET k == top + j - 1
                IN  IF Opens(tree.text, k)
                    THEN [tree.text[k] EXCEPT !.ns = NewlyVisible(tree, top, k)]
                    ELSE tree.text[k]]
    BY <1>5 DEF Canonical
  <1> DEFINE F == FormIn(s, ns)
  <1>9. F = [j \in 1..n |-> F[j]]
    BY DEF FormIn
  <1> HIDE DEF tree, top, n, F
  <1>10. Canonical(tree, top) = F
    BY <1>7, <1>8, <1>9 DEF F
  <1> QED
    BY <1>10 DEF tree, top, F

(* and of the part alone, when it declares the same prefixes: that is why a *)
(* digest made of the part is found again in the document.                  *)
LEMMA CanonicalAlone ==
    ASSUME NEW s, NEW ns, Nested(s), OneRoot(s, ns), IsWellFormed(Parse(s))
    PROVE  CanonicalizeXml(s) = <<FormIn(s, ns)>>
  <1>1. StandsAt(s, 0, s)
    <2>1. IsText(s)
      BY DEF Nested
    <2>2. Len(s) \in Nat /\ Elements(s) \subseteq 1..Len(s)
      BY <2>1, ElementNumbers
    <2>3. ASSUME NEW k \in Elements(s)
          PROVE  /\ EndTag(s, 0 + k) = 0 + EndTag(s, k)
                 /\ Inside(s, 0 + k) = Moved(Inside(s, k), 0)
      <3>1. k \in Nat /\ 0 + k = k
        BY <2>2
      <3>2. EndTag(s, k) \in Nat
        BY NestedEnds
      <3>3. ArePositions(Inside(s, k))
        BY <2>1, InsideIsFinite
      <3>4. Moved(Inside(s, k), 0) = Inside(s, k)
        BY <3>3, MovedByNone
      <3> QED
        BY <3>1, <3>2, <3>4
    <2>4. \A k \in 1..Len(s) : 0 + k = k
      BY <2>2
    <2> QED
      BY <2>2, <2>3, <2>4 DEF StandsAt
  <1>2. 1 \in Elements(s) /\ EndTag(s, 1) = Len(s)
    BY DEF OneRoot
  <1>3. Canonical(Parse(s), 0 + 1) = FormIn(s, ns)
    BY <1>1, <1>2, CanonicalStanding
  <1> QED
    BY <1>3 DEF CanonicalizeXml

-----------------------------------------------------------------------------
(***************************************************************************)
(* Children with a name.                                                   *)
(***************************************************************************)
(* The children of k with this local name. *)
InsideNamed(text, k, local) == Named(text, Inside(text, k), local)

(* The signature is at s, its SignedInfo at a, its value at v, the methods  *)
(* at c and m and the references at R, one of each where verify_signature   *)
(* takes one; the methods are known ones.                                   *)
IsFramed(text, s, a, v, c, m, R) ==
    /\ IsWellFormed(Parse(text))
    /\ s \in Elements(text) /\ a \in Elements(text) /\ v \in Nat /\ c \in Nat /\ m \in Nat
    /\ s \in Positions(text, "Signature")
    /\ \A j \in Positions(text, "Signature") : s <= j
    /\ InsideNamed(text, s, "SignedInfo") = {a}
    /\ InsideNamed(text, s, "SignatureValue") = {v}
    /\ InsideNamed(text, a, "CanonicalizationMethod") = {c}
    /\ InsideNamed(text, a, "SignatureMethod") = {m}
    /\ InsideNamed(text, a, "Reference") = R
    /\ R # {} /\ R \subseteq Nat /\ \A k \in R : text[k + 1].kind = "text"
    /\ text[c].attr = C14nUri /\ text[m].attr \in {RsaSha256, EcdsaSha256}
    /\ text[v + 1].kind = "text"

(* The first of one position. *)
LEMMA FirstOfOne ==
    ASSUME NEW k \in Nat
    PROVE  First({k}) = k
  BY FirstIs

(* This is ChildrenNamed, said of the text and not of its tree. *)
LEMMA NamedInside ==
    ASSUME NEW text, NEW k \in Elements(text), NEW local
    PROVE  ChildrenNamed(Parse(text), k, local) = InsideNamed(text, k, local)
  <1>1. Parse(text).text = text
    BY ParseIs
  <1>2. Children(Parse(text), k) = Inside(text, k)
    BY ChildrenAreInside
  <1> QED
    BY <1>1, <1>2 DEF ChildrenNamed, InsideNamed, Named

-----------------------------------------------------------------------------
(***************************************************************************)
(* verify_signature, by where the parts of a text stand.                   *)
(***************************************************************************)
(* Such a signature verifies when its references do and the key accepts the *)
(* value.                                                                   *)
LEMMA VerifyIs ==
    ASSUME NEW text, NEW s, NEW a, NEW v, NEW c, NEW m, NEW R,
           IsFramed(text, s, a, v, c, m, R), NEW k0, NEW fs
    PROVE  VerifyXml(text, k0, fs) = "Ok"
             <=> /\ \A k \in R : ReferenceResult(Parse(text), k, fs) = "Ok"
                 /\ KeyAccepts(k0, text[m].attr, Canonical(Parse(text), a),
                               text[v + 1].data)
  <1> DEFINE tree == Parse(text)
             bad == {k \in References(tree) : ReferenceResult(tree, k, fs) # "Ok"}
  <1>1. tree.text = text /\ Nodes(tree) = Elements(text)
    BY ParseIs
  <1>2. s \in Elements(text) /\ a \in Elements(text) /\ a \in Nat /\ s \in Nat
        /\ v \in Nat /\ c \in Nat /\ m \in Nat
    BY ElementsOf DEF IsFramed
  <1>3. /\ ChildrenNamed(tree, s, "SignedInfo") = {a}
        /\ ChildrenNamed(tree, s, "SignatureValue") = {v}
        /\ ChildrenNamed(tree, a, "CanonicalizationMethod") = {c}
        /\ ChildrenNamed(tree, a, "SignatureMethod") = {m}
        /\ ChildrenNamed(tree, a, "Reference") = R
    BY <1>2, NamedInside DEF IsFramed
  <1>4. Signatures(tree) # {} /\ Signature(tree) = s
    <2>1. Signatures(tree) = Positions(text, "Signature")
      BY <1>1 DEF Signatures, Positions
    <2> DEFINE S == Positions(text, "Signature")
    <2>2. s \in S /\ (\A j \in S : s <= j) /\ S \subseteq Nat
      BY ElementsOf DEF IsFramed, Positions
    <2> HIDE DEF S
    <2>3. First(S) \in S /\ First(S) <= s
      BY <2>2, FirstIs
    <2>4. s <= First(S) /\ First(S) \in Nat /\ s \in Nat
      BY <2>2, <2>3
    <2>5. First(S) = s
      BY <2>3, <2>4
    <2> QED
      BY <2>1, <2>2, <2>5 DEF Signature, S
  <1> HIDE DEF tree
  <1>5. Part(tree, "SignedInfo") = a /\ Part(tree, "SignatureValue") = v
    BY <1>2, <1>3, <1>4, FirstOfOne DEF Part
  <1>6. ~ LacksPart(tree)
    BY <1>3, <1>4 DEF LacksPart
  <1>7. References(tree) = R /\ R \subseteq Nat /\ R # {}
    BY <1>3, <1>5 DEF References, IsFramed
  <1>8. ParsesAsSignedInfo(tree)
    <2>1. \A k \in R : HasText(tree, k)
      BY <1>1 DEF HasText, IsFramed
    <2>2. tree.text[m].attr \in {RsaSha256, EcdsaSha256}
      BY <1>1 DEF IsFramed
    <2> QED
      BY <1>3, <1>5, <1>7, <2>1, <2>2 DEF ParsesAsSignedInfo
  <1>9. ValueResult(tree, k0)
          = IF KeyAccepts(k0, text[m].attr, Canonical(tree, a), text[v + 1].data)
            THEN "Ok" ELSE "CryptoVerificationError"
    <2>1. First({c}) = c /\ First({m}) = m
      BY <1>2, FirstOfOne
    <2>2. tree.text[c].attr = C14nUri /\ HasText(tree, v)
      BY <1>1 DEF IsFramed, HasText
    <2> QED
      BY <1>1, <1>3, <1>5, <2>1, <2>2 DEF ValueResult, TextOf
  <1>10. IsWellFormed(tree)
    BY DEF IsFramed, tree
  <1>11. VerifyXml(text, k0, fs)
           = IF bad # {} THEN ReferenceResult(tree, First(bad), fs)
             ELSE ValueResult(tree, k0)
    BY <1>6, <1>8, <1>10 DEF VerifyXml, tree
  <1>12. bad # {} => ReferenceResult(tree, First(bad), fs) # "Ok"
    <2>1. bad \subseteq Nat
      BY <1>7
    <2>2. bad # {} => First(bad) \in bad
      BY <2>1, FirstIs
    <2> QED
      BY <2>2
  <1>13. bad = {} <=> \A k \in R : ReferenceResult(tree, k, fs) = "Ok"
    BY <1>7
  <1> HIDE DEF bad
  <1> QED
    BY <1>9, <1>11, <1>12, <1>13 DEF tree

-----------------------------------------------------------------------------
(***************************************************************************)
(* An element that holds four, as a signature does.                        *)
(***************************************************************************)
(* An element of this name with nested content. *)
IsElement(x, name) ==
    \E id, attr, ns, c : Nested(c) /\ x = Element(name, id, attr, ns, c)

(* What is known of such an element. *)
LEMMA ElementOf ==
    ASSUME NEW x, NEW name, IsElement(x, name)
    PROVE  /\ Nested(x) /\ IsText(x) /\ Tops(x) = {1}
           /\ Len(x) \in Nat /\ 1 \in 1..Len(x) /\ x[1].name = name
           /\ EndTag(x, 1) = Len(x) /\ 1 \in Elements(x)
  <1>1. PICK id, attr, ns, c : Nested(c) /\ x = Element(name, id, attr, ns, c)
    BY DEF IsElement
  <1>2. IsText(c)
    BY <1>1 DEF Nested
  <1>3. Len(c) \in Nat
    BY <1>2, TextIsSequence
  <1> DEFINE all == Element(name, id, attr, ns, c)
  <1>4. Nested(all) /\ Tops(all) = {1}
    BY <1>1, NestedElement, TopsOfElement
  <1>5. IsText(all) /\ Len(all) = Len(c) + 2 /\ all[1] = Open(name, id, attr, ns)
    BY <1>2, ElementIs
  <1>6. EndTag(all, 1) = Len(c) + 2
    BY <1>1, ElementEnds
  <1>7. 1 \in Elements(all)
    BY <1>2, ElementHolds
  <1> HIDE DEF all
  <1>8. all[1].name = name
    BY <1>5 DEF Open
  <1>9. x = all
    BY <1>1 DEF all
  <1> QED
    BY <1>3, <1>4, <1>5, <1>6, <1>7, <1>8, <1>9

(* A signature behind p with its four children x1 to x4, where they stand   *)
(* and how they are named.                                                  *)
FourAt(text, p, x1, n1, x2, n2, x3, n3, x4, n4) ==
    LET p1 == p + 1
        p2 == p1 + Len(x1)
        p3 == p2 + Len(x2)
        p4 == p3 + Len(x3)
    IN  /\ p \in Nat /\ p + 1 \in Elements(text)
        /\ Inside(text, p + 1) = {p1 + 1, p2 + 1, p3 + 1, p4 + 1}
        /\ StandsAt(text, p1, x1) /\ StandsAt(text, p2, x2)
        /\ StandsAt(text, p3, x3) /\ StandsAt(text, p4, x4)
        /\ text[p1 + 1].name = n1 /\ text[p2 + 1].name = n2
        /\ text[p3 + 1].name = n3 /\ text[p4 + 1].name = n4

(* An element of four elements has them for its children. *)
LEMMA FourInside ==
    ASSUME NEW text, NEW p, NEW name, NEW id, NEW attr, NEW ns,
           NEW x1, NEW n1, IsElement(x1, n1), NEW x2, NEW n2, IsElement(x2, n2),
           NEW x3, NEW n3, IsElement(x3, n3), NEW x4, NEW n4, IsElement(x4, n4),
           StandsAt(text, p, Element(name, id, attr, ns,
                                     Then(x1, Then(x2, Then(x3, x4)))))
    PROVE  FourAt(text, p, x1, n1, x2, n2, x3, n3, x4, n4)
  <1> DEFINE y3 == Then(x3, x4)
             y2 == Then(x2, y3)
             y1 == Then(x1, y2)
             p1 == p + 1
             p2 == p1 + Len(x1)
             p3 == p2 + Len(x2)
             p4 == p3 + Len(x3)
  <1>1. /\ Nested(x1) /\ Nested(x2) /\ Nested(x3) /\ Nested(x4)
    BY ElementOf
  <1>2. /\ Tops(x1) = {1} /\ Tops(x2) = {1} /\ Tops(x3) = {1} /\ Tops(x4) = {1}
    BY ElementOf
  <1>3. Len(x1) \in Nat /\ Len(x2) \in Nat /\ Len(x3) \in Nat
    BY ElementOf
  <1>4. StandsAt(text, p, Element(name, id, attr, ns, y1))
    OBVIOUS
  <1>5. p \in Nat
    BY DEF StandsAt
  <1> HIDE DEF y1, y2, y3
  <1>6. Nested(y3)
    BY <1>1, NestedJoin DEF y3
  <1>7. Nested(y2)
    BY <1>1, <1>6, NestedJoin DEF y2
  <1>8. Nested(y1)
    BY <1>1, <1>7, NestedJoin DEF y1
  <1>9. /\ Inside(text, p + 1) = Moved(Tops(y1), p + 1) /\ p + 1 \in Elements(text)
        /\ StandsAt(text, p + 1, y1)
    BY <1>4, <1>8, InsideStanding
  <1>10. /\ Tops(y3) = Tops(x3) \cup Moved(Tops(x4), Len(x3))
         /\ Tops(y2) = Tops(x2) \cup Moved(Tops(y3), Len(x2))
         /\ Tops(y1) = Tops(x1) \cup Moved(Tops(y2), Len(x1))
    BY <1>1, <1>6, <1>7, TopsJoin DEF y1, y2, y3
  <1>11. Inside(text, p + 1) = {p1 + 1, p2 + 1, p3 + 1, p4 + 1}
    <2> DEFINE a == Len(x1)
               b == Len(x2)
               c == Len(x3)
    <2>1. Tops(y3) = {1, c + 1}
      BY <1>2, <1>10 DEF Moved
    <2>2. Tops(y2) = {1, b + 1, b + (c + 1)}
      BY <1>2, <1>10, <2>1 DEF Moved
    <2>3. Tops(y1) = {1, a + 1, a + (b + 1), a + (b + (c + 1))}
      BY <1>2, <1>10, <2>2 DEF Moved
    <2>4. Inside(text, p + 1)
            = {p + 1 + 1, p + 1 + (a + 1), p + 1 + (a + (b + 1)),
               p + 1 + (a + (b + (c + 1)))}
      BY <1>9, <2>3 DEF Moved
    <2>5. /\ p + 1 + (a + 1) = p2 + 1 /\ p + 1 + (a + (b + 1)) = p3 + 1
          /\ p + 1 + (a + (b + (c + 1))) = p4 + 1
      BY <1>3, <1>5
    <2> QED
      BY <2>4, <2>5
  <1>12. /\ StandsAt(text, p1, x1) /\ StandsAt(text, p2, x2)
         /\ StandsAt(text, p3, x3) /\ StandsAt(text, p4, x4)
    <2>1. StandsAt(y1, 0, x1) /\ StandsAt(y1, Len(x1), y2)
      BY <1>1, <1>7, StandsFirst, StandsSecond DEF y1
    <2>2. StandsAt(text, (p + 1) + 0, x1) /\ StandsAt(text, (p + 1) + Len(x1), y2)
      BY <1>9, <2>1, StandsDeeper
    <2>3. (p + 1) + 0 = p1
      BY <1>5
    <2> HIDE DEF p1
    <2>4. StandsAt(text, p1, x1)
      BY <2>2, <2>3
    <2>5. StandsAt(text, p2, y2)
      BY <2>2 DEF p1
    <2>6. StandsAt(y2, 0, x2) /\ StandsAt(y2, Len(x2), y3)
      BY <1>1, <1>6, StandsFirst, StandsSecond DEF y2
    <2> HIDE DEF p2
    <2>7. StandsAt(text, p2 + 0, x2) /\ StandsAt(text, p2 + Len(x2), y3)
      BY <2>5, <2>6, StandsDeeper
    <2>8. p2 + 0 = p2 /\ p2 \in Nat
      BY <1>3, <1>5 DEF p1, p2
    <2>9. StandsAt(y3, 0, x3) /\ StandsAt(y3, Len(x3), x4)
      BY <1>1, StandsFirst, StandsSecond DEF y3
    <2> HIDE DEF p3
    <2>10. StandsAt(text, p3, y3)
      BY <2>7 DEF p3
    <2>11. StandsAt(text, p3 + 0, x3) /\ StandsAt(text, p3 + Len(x3), x4)
      BY <2>9, <2>10, StandsDeeper
    <2>12. p3 + 0 = p3
      BY <1>3, <2>8 DEF p3
    <2> QED
      BY <2>4, <2>7, <2>8, <2>11, <2>12
  <1>13. ASSUME NEW q, NEW x, NEW n, IsElement(x, n), StandsAt(text, q, x)
         PROVE  text[q + 1].name = n
    <2>1. 1 \in 1..Len(x) /\ x[1].name = n
      BY <1>13, ElementOf
    <2>2. text[q + 1] = x[1]
      BY <1>13, <2>1 DEF StandsAt
    <2> QED
      BY <2>1, <2>2
  <1>14. /\ text[p1 + 1].name = n1 /\ text[p2 + 1].name = n2
         /\ text[p3 + 1].name = n3 /\ text[p4 + 1].name = n4
    <2> HIDE DEF p1, p2, p3, p4
    <2> QED
      BY <1>12, <1>13
  <1> QED
    BY <1>5, <1>9, <1>11, <1>12, <1>14 DEF FourAt

-----------------------------------------------------------------------------
(***************************************************************************)
(* One reference, to an element or to a data file.                         *)
(***************************************************************************)
(* A reference to a data file is good when a file resolves it. *)
LEMMA FileReference ==
    ASSUME NEW text, NEW k, NEW fs, Len(fs) \in Nat,
           ~ IsFragment(text[k].attr), text[k].attr # NoAttr
    PROVE  ReferenceResult(Parse(text), k, fs) = "Ok"
             <=> Resolves(fs, [uri |-> text[k].attr, digest |-> text[k + 1].data])
  <1> DEFINE uri == text[k].attr
             d == text[k + 1].data
             tree == Parse(text)
             named == {j \in 1..Len(fs) : fs[j].name = uri}
             ref == [uri |-> uri, digest |-> d]
  <1>1. tree.text = text
    BY ParseIs
  <1> HIDE DEF tree
  <1>2. ReferenceResult(tree, k, fs) = "Ok"
          <=> FileNamed(fs, uri) # <<>> /\ FileNamed(fs, uri)[1] = d
    BY <1>1 DEF ReferenceResult, TextOf
  <1>3. ref.uri = uri /\ ref.digest = d
    OBVIOUS
  <1> HIDE DEF uri, d, ref
  <1>4. named \subseteq Nat
    OBVIOUS
  <1>5. CASE named = {}
    <2>1. FileNamed(fs, uri) = <<>>
      BY <1>5 DEF FileNamed
    <2>2. ~ Resolves(fs, ref)
      BY <1>3, <1>5 DEF Resolves
    <2> QED
      BY <1>2, <2>1, <2>2 DEF tree, ref, uri, d
  <1>6. CASE named # {}
    <2> DEFINE j == First(named)
    <2>1. j \in named /\ \A i \in named : j <= i
      BY <1>4, <1>6, FirstIs
    <2>2. FileNamed(fs, uri) = <<fs[j].content>>
      BY <1>6 DEF FileNamed
    <2>3. FileNamed(fs, uri) # <<>> /\ FileNamed(fs, uri)[1] = fs[j].content
      BY <2>2
    <2> HIDE DEF j
    <2>4. Resolves(fs, ref) <=> fs[j].content = d
      <3>1. j \in 1..Len(fs) /\ fs[j].name = uri
        BY <2>1
      <3>2. ASSUME NEW i \in 1..(j - 1)
            PROVE  fs[i].name # uri
        BY <2>1, <3>1
      <3>3. ASSUME NEW i \in 1..Len(fs), fs[i].name = uri,
                   \A m \in 1..(i - 1) : fs[m].name # uri
            PROVE  i = j
        <4>1. j <= i
          BY <2>1, <3>3
        <4>2. ~ (j \in 1..(i - 1))
          BY <3>1, <3>3
        <4> QED
          BY <3>1, <4>1, <4>2
      <3> HIDE DEF named
      <3> QED
        BY <1>3, <3>1, <3>2, <3>3 DEF Resolves
    <2> QED
      BY <1>2, <2>3, <2>4 DEF tree, ref, uri, d
  <1> QED
    BY <1>5, <1>6

(* One to an element is good when one element has the Id and the digest. *)
LEMMA ElementReference ==
    ASSUME NEW text, NEW k, NEW fs, IsFragment(text[k].attr)
    PROVE  ReferenceResult(Parse(text), k, fs) = "Ok"
             <=> LET targets == WithId(Parse(text), text[k].attr[2])
                 IN  /\ Cardinality(targets) = 1
                     /\ Sha256(Canonical(Parse(text), First(targets)))
                          = text[k + 1].data
  <1> DEFINE uri == text[k].attr
             d == text[k + 1].data
             tree == Parse(text)
             targets == WithId(tree, uri[2])
             x == Sha256(Canonical(tree, First(targets)))
  <1>1. tree.text = text
    BY ParseIs
  <1>2. uri # NoAttr
    <2>1. NoAttr[1] = "no attribute"
      BY DEF NoAttr
    <2>2. uri[1] = "#"
      BY DEF IsFragment
    <2> HIDE DEF uri
    <2> QED
      BY <2>1, <2>2
  <1> HIDE DEF tree
  <1>3. ReferenceResult(tree, k, fs) = "Ok"
          <=> LET given == IF Cardinality(targets) # 1 THEN <<>> ELSE <<x>>
              IN  given # <<>> /\ given[1] = d
    BY <1>1, <1>2 DEF ReferenceResult, TextOf
  <1> HIDE DEF targets, x, d
  <1>4. ReferenceResult(tree, k, fs) = "Ok" <=> Cardinality(targets) = 1 /\ x = d
    BY <1>3
  <1> QED
    BY <1>4 DEF targets, x, d, tree

(* A text stands at the front of itself. *)
LEMMA StandsWhole ==
    ASSUME NEW s, Nested(s)
    PROVE  StandsAt(s, 0, s)
  <1>1. IsText(s) /\ Len(s) \in Nat
    BY TextIsSequence DEF Nested
  <1>2. \A k \in Elements(s) : k \in Nat /\ Moved(Inside(s, k), 0) = Inside(s, k)
    <2> TAKE k \in Elements(s)
    <2>1. ArePositions(Inside(s, k))
      BY <1>1, InsideIsFinite
    <2> QED
      BY <1>1, <2>1, MovedByNone, ElementNumbers
  <1>3. \A k \in Elements(s) : EndTag(s, k) \in Nat
    BY NestedEnds
  <1>4. \A n \in Nat : 0 + n = n
    OBVIOUS
  <1>5. /\ 0 \in Nat /\ 0 + Len(s) <= Len(s)
        /\ \A k \in 1..Len(s) : k \in Nat
    BY <1>1
  <1> QED
    BY <1>2, <1>3, <1>4, <1>5 DEF StandsAt

-----------------------------------------------------------------------------
(***************************************************************************)
(* The first element of a name, cut out of its text.                       *)
(***************************************************************************)
(* The first element of a name, as Survive cuts it out. *)
PartOf(text, local) ==
    LET k == First(Positions(text, local))
    IN  SubSeq(text, k, EndTag(text, k))

-----------------------------------------------------------------------------
(***************************************************************************)
(* What a XAdES document is made of, changed on its way or not: the tags   *)
(* declare prefixes by their names, and of all values that a key can make, *)
(* there is one that a text may hold.                                      *)
(***************************************************************************)
(* What the tag of a name declares: the container's, and those two that are *)
(* also canonicalized by themselves, declare all prefixes.                  *)
PrefixesOf(name) ==
    IF name \in {ContainerTag, Ds("SignedInfo"), Xa("SignedProperties")}
    THEN AllPrefixes ELSE {}

(* Nothing that a key makes of anything. *)
NoValue(x) == \A k, y : x # SignWith(k, y)

(* A token of such a document, when the one value in it is v. *)
IsToken(t, v) ==
    \/ \E x : t = Text(x) /\ (x = v \/ NoValue(x))
    \/ \E name : t = Close(name)
    \/ \E name, id, attr : t = Open(name, id, attr, PrefixesOf(name))

(* A text of such tokens. *)
Regular(s, v) == IsText(s) /\ \A k \in 1..Len(s) : IsToken(s[k], v)

(* The empty text is regular. *)
LEMMA RegularNone ==
    ASSUME NEW v
    PROVE  Regular(<<>>, v)
  BY ShortTexts DEF Regular

(* So is a piece of text that is no value, or v. *)
LEMMA RegularText ==
    ASSUME NEW v, NEW x, x = v \/ NoValue(x)
    PROVE  Regular(<<Text(x)>>, v)
  <1> DEFINE t == Text(x)
  <1>1. IsToken(t, v)
    BY DEF IsToken
  <1> HIDE DEF t
  <1>2. IsText(<<t>>) /\ Len(<<t>>) = 1 /\ <<t>>[1] = t
    BY ShortTexts
  <1>3. Regular(<<t>>, v)
    <2> DEFINE s == <<t>>
    <2>1. IsText(s) /\ Len(s) = 1 /\ s[1] = t
      BY <1>2
    <2> HIDE DEF s
    <2>2. \A k \in 1..Len(s) : k = 1
      BY <2>1
    <2>3. Regular(s, v)
      BY <1>1, <2>1, <2>2 DEF Regular
    <2> QED
      BY <2>3 DEF s
  <1> QED
    BY <1>3 DEF t

(* So are regular texts joined *)
LEMMA RegularJoin ==
    ASSUME NEW v, NEW s, Regular(s, v), NEW t, Regular(t, v)
    PROVE  Regular(Then(s, t), v)
  <1>1. IsText(s) /\ IsText(t)
    BY DEF Regular
  <1>2. Len(s) \in Nat /\ Len(t) \in Nat
    BY <1>1, TextIsSequence
  <1>3. /\ IsText(Then(s, t)) /\ Len(Then(s, t)) = Len(s) + Len(t)
        /\ \A k \in 1..Len(s) : Then(s, t)[k] = s[k]
        /\ \A k \in 1..Len(t) : Then(s, t)[Len(s) + k] = t[k]
    BY <1>1, Join
  <1>4. ASSUME NEW k \in 1..Len(Then(s, t))
        PROVE  IsToken(Then(s, t)[k], v)
    <2>1. CASE k <= Len(s)
      <3>1. k \in 1..Len(s)
        BY <1>2, <1>3, <2>1
      <3> QED
        BY <1>3, <3>1 DEF Regular
    <2>2. CASE k > Len(s)
      <3> DEFINE m == k - Len(s)
      <3>1. m \in 1..Len(t) /\ k = Len(s) + m
        BY <1>2, <1>3, <2>2
      <3> HIDE DEF m
      <3> QED
        BY <1>3, <3>1 DEF Regular
    <2> QED
      BY <1>2, <2>1, <2>2
  <1> QED
    BY <1>3, <1>4 DEF Regular

(* and an element that declares what its name says. *)
LEMMA RegularElement ==
    ASSUME NEW v, NEW name, NEW id, NEW attr, NEW ns, ns = PrefixesOf(name),
           NEW c, Regular(c, v)
    PROVE  Regular(Element(name, id, attr, ns, c), v)
  <1> DEFINE all == Element(name, id, attr, ns, c)
             n == Len(c)
  <1>1. IsText(c) /\ n \in Nat
    BY TextIsSequence DEF Regular
  <1>2. /\ IsText(all) /\ Len(all) = n + 2
        /\ all[1] = Open(name, id, attr, ns) /\ all[n + 2] = Close(name)
        /\ \A k \in 1..n : all[k + 1] = c[k]
    BY <1>1, ElementIs
  <1>3. IsToken(all[1], v) /\ IsToken(all[n + 2], v)
    BY <1>2 DEF IsToken
  <1> HIDE DEF all, n
  <1>4. ASSUME NEW k \in 1..Len(all)
        PROVE  IsToken(all[k], v)
    <2>1. k = 1 \/ k = n + 2 \/ k - 1 \in 1..n
      BY <1>1, <1>2
    <2>2. ASSUME k - 1 \in 1..n
          PROVE  IsToken(all[k], v)
      <3> DEFINE m == k - 1
      <3>1. m \in 1..n /\ k = m + 1
        BY <2>2
      <3> HIDE DEF m
      <3>2. all[k] = c[m]
        BY <1>2, <3>1
      <3> QED
        BY <3>1, <3>2 DEF Regular, n
    <2> QED
      BY <1>3, <2>1, <2>2
  <1> QED
    BY <1>2, <1>4 DEF Regular, all

(* So are lists of regular texts, put together step by step *)
LEMMA BuildsRegular ==
    ASSUME NEW v, NEW n \in Nat, NEW f, NEW g, Builds(g, f, n),
           \A k \in 1..n : Regular(f[k], v)
    PROVE  Regular(g[n], v)
  <1> DEFINE S == {m \in Nat : m <= n => Regular(g[m], v)}
  <1>1. 0 \in S
    BY RegularNone DEF Builds
  <1>2. ASSUME NEW m \in Nat, m \in S
        PROVE  m + 1 \in S
    <2> SUFFICES ASSUME m + 1 <= n PROVE Regular(g[m + 1], v)
      OBVIOUS
    <2>1. m + 1 \in 1..n /\ m < n /\ m <= n
      OBVIOUS
    <2>2. g[m + 1] = Then(g[m], f[m + 1])
      BY <2>1 DEF Builds
    <2>3. Regular(g[m], v) /\ Regular(f[m + 1], v)
      BY <1>2, <2>1
    <2> QED
      BY <2>2, <2>3, RegularJoin
  <1> HIDE DEF S
  <1>3. \A m \in Nat : m \in S
    BY <1>1, <1>2, Induct!Induction
  <1> QED
    BY <1>3 DEF S

(* or at once, *)
LEMMA RegularFlatten ==
    ASSUME NEW v, NEW n \in Nat, NEW f, f = [k \in 1..n |-> f[k]],
           \A k \in 1..n : Regular(f[k], v)
    PROVE  Regular(Seqs!FlattenSeq(f), v)
  <1>1. \A k \in 1..n : IsText(f[k])
    BY DEF Regular
  <1>2. PICK g : Builds(g, f, n)
    BY <1>1, FlattenBySteps
  <1>3. Regular(g[n], v)
    BY <1>2, BuildsRegular
  <1> QED
    BY <1>2, <1>3 DEF Builds

(* and elements without elements. *)
LEMMA RegularLeaf ==
    ASSUME NEW v, NEW name, PrefixesOf(name) = {}, NEW id, NEW attr,
           NEW x, x = v \/ NoValue(x)
    PROVE  /\ Regular(Element(name, id, attr, {}, <<Text(x)>>), v)
           /\ Regular(Element(name, id, attr, {}, <<>>), v)
  <1> DEFINE t == <<Text(x)>>
             none == <<>>
  <1>1. Regular(t, v) /\ Regular(none, v)
    BY RegularText, RegularNone
  <1> HIDE DEF t, none
  <1>2. /\ Regular(Element(name, id, attr, {}, t), v)
        /\ Regular(Element(name, id, attr, {}, none), v)
    BY <1>1, RegularElement
  <1> QED
    BY <1>2 DEF t, none

(* The value that key k0 makes for files fs. *)
ValueMade(fs, k0) ==
    SignWith(k0, CanonicalizeXml(XadesSignedInfo(fs, k0, Index))[1])

(* No data file and no altered text is a signature value: to make one takes *)
(* the key.                                                                 *)
TextsAreNoValues == \A x \in Contents \cup {Altered} : NoValue(x)

(* A pair with another tag is no signature value. *)
LEMMA TaggedIsNoValue ==
    ASSUME NEW tag, tag # "value of", NEW x
    PROVE  NoValue(<<tag, x>>)
  <1> SUFFICES ASSUME NEW k, NEW y, <<tag, x>> = SignWith(k, y) PROVE FALSE
    BY DEF NoValue
  <1> DEFINE s == <<tag, x>>
             t == <<"value of", <<k, y>>>>
  <1>1. s = t
    BY DEF SignWith
  <1>2. s[1] = tag /\ t[1] = "value of"
    OBVIOUS
  <1> HIDE DEF s, t
  <1> QED
    BY <1>1, <1>2

-----------------------------------------------------------------------------
(***************************************************************************)
(* A document stays regular whatever becomes of it.                        *)
(***************************************************************************)
(* It is regular with a token altered, *)
LEMMA RegularAltered ==
    ASSUME TextsAreNoValues, NEW v, NEW s, Regular(s, v), NEW k \in 1..Len(s),
           NEW token \in AlteredTokens(s[k])
    PROVE  Regular([s EXCEPT ![k] = token], v)
  <1> DEFINE t == [s EXCEPT ![k] = token]
             old == s[k]
  <1>1. IsToken(old, v)
    BY DEF Regular
  <1>2. token \in AlteredTokens(old)
    OBVIOUS
  <1> HIDE DEF old
  <1>3. IsToken(token, v)
    <2>1. ASSUME NEW x, old = Text(x)
          PROVE  IsToken(token, v)
      <3>1. old.kind = "text" /\ [old EXCEPT !.data = Altered] = Text(Altered)
        BY <2>1 DEF Text
      <3>2. token = Text(Altered)
        BY <1>2, <3>1 DEF AlteredTokens
      <3>3. NoValue(Altered)
        BY DEF TextsAreNoValues
      <3> QED
        BY <3>2, <3>3 DEF IsToken
    <2>2. ASSUME NEW name, old = Close(name)
          PROVE  IsToken(token, v)
      <3>1. old.kind = "close"
        BY <2>2 DEF Close
      <3> QED
        BY <1>2, <3>1 DEF AlteredTokens
    <2>3. ASSUME NEW name, NEW id, NEW attr,
                 old = Open(name, id, attr, PrefixesOf(name))
          PROVE  IsToken(token, v)
      <3>1. /\ old.kind = "open"
            /\ [old EXCEPT !.id = OtherAttr]
                 = Open(name, OtherAttr, attr, PrefixesOf(name))
            /\ [old EXCEPT !.attr = OtherAttr]
                 = Open(name, id, OtherAttr, PrefixesOf(name))
        BY <2>3 DEF Open
      <3>2. \/ token = Open(name, OtherAttr, attr, PrefixesOf(name))
            \/ token = Open(name, id, OtherAttr, PrefixesOf(name))
        BY <1>2, <3>1 DEF AlteredTokens
      <3> QED
        BY <3>2 DEF IsToken
    <2> QED
      BY <1>1, <2>1, <2>2, <2>3 DEF IsToken
  <1>4. IsText(t) /\ Len(t) = Len(s)
    <2>1. PICK T : s \in Seq(T)
      BY DEF Regular, IsText
    <2>2. t \in Seq(T \cup {token}) /\ Len(t) = Len(s)
      BY <2>1
    <2> QED
      BY <2>2 DEF IsText
  <1>5. \A j \in 1..Len(s) : t[j] = IF j = k THEN token ELSE s[j]
    <2>1. PICK T : s \in Seq(T)
      BY DEF Regular, IsText
    <2>2. DOMAIN s = 1..Len(s)
      BY <2>1
    <2> QED
      BY <2>2
  <1> HIDE DEF t
  <1>6. \A j \in 1..Len(t) : IsToken(t[j], v)
    BY <1>3, <1>4, <1>5 DEF Regular
  <1> QED
    BY <1>4, <1>6 DEF Regular, t

(* any part of it is, *)
LEMMA RegularPart ==
    ASSUME NEW v, NEW s, Regular(s, v), NEW a \in Nat \ {0}, NEW b \in 0..Len(s)
    PROVE  Regular(SubSeq(s, a, b), v)
  <1>1. PICK T : s \in Seq(T)
    BY DEF Regular, IsText
  <1>2. CASE a <= b
    <2>1. SubSeq(s, a, b) \in Seq(T) /\ Len(SubSeq(s, a, b)) = b - a + 1
          /\ \A j \in 1..(b - a + 1) : SubSeq(s, a, b)[j] = s[a + j - 1]
      BY <1>1, <1>2
    <2>2. \A j \in 1..(b - a + 1) : a + j - 1 \in 1..Len(s)
      BY <1>1, <1>2
    <2>3. IsText(SubSeq(s, a, b))
      BY <2>1 DEF IsText
    <2> QED
      BY <2>1, <2>2, <2>3 DEF Regular
  <1>3. CASE a > b
    <2>1. SubSeq(s, a, b) = <<>>
      BY <1>1, <1>3
    <2> QED
      BY <2>1, RegularNone
  <1> QED
    BY <1>1, <1>2, <1>3

(* and it is without one of its elements. *)
LEMMA RegularWithout ==
    ASSUME NEW v, NEW s, Regular(s, v), NEW k \in Elements(s)
    PROVE  Regular(SubSeq(s, 1, k - 1) \o SubSeq(s, EndTag(s, k) + 1, Len(s)), v)
  <1>1. IsText(s)
    BY DEF Regular
  <1>2. Len(s) \in Nat
    BY <1>1, TextIsSequence
  <1>3. k \in 1..Len(s)
    BY ElementsOf
  <1>4. EndTag(s, k) \in Nat
    BY <1>2, <1>3, EndTagOfOpen
  <1> DEFINE a == SubSeq(s, 1, k - 1)
             b == SubSeq(s, EndTag(s, k) + 1, Len(s))
             e == EndTag(s, k) + 1
             d == k - 1
             one == 1
             n == Len(s)
  <1>5. d \in 0..n /\ e \in Nat \ {0} /\ n \in 0..n /\ one \in Nat \ {0}
    BY <1>2, <1>3, <1>4
  <1>6. Regular(a, v) /\ Regular(b, v)
    <2>1. a = SubSeq(s, one, d) /\ b = SubSeq(s, e, n)
      OBVIOUS
    <2> HIDE DEF a, b, d, e, one
    <2> QED
      BY <1>5, <2>1, RegularPart
  <1>7. Regular(Then(a, b), v)
    BY <1>6, RegularJoin
  <1> QED
    BY <1>7 DEF Then

-----------------------------------------------------------------------------
(***************************************************************************)
(* What is known of a text that verify_signature accepts.                  *)
(***************************************************************************)
(* What verify_signature has found of text when it accepts: the SignedInfo  *)
(* at a, the value at v.                                                    *)
AcceptedWith(text, k0, fs, a, v) ==
    /\ a \in Elements(text) /\ v \in Elements(text)
    /\ \A j \in Elements(text) : EndTag(text, j) # 0
    /\ text[v + 1].kind = "text" /\ k0.kind \in VerifiableKinds
    /\ text[v + 1].data = SignWith(k0, Canonical(Parse(text), a))
    /\ \A j \in InsideNamed(text, a, "Reference") :
          ReferenceResult(Parse(text), j, fs) = "Ok"

(* It has found one. *)
LEMMA AcceptedIs ==
    ASSUME NEW text, NEW k0, NEW fs, VerifyXml(text, k0, fs) = "Ok"
    PROVE  \E a, v : AcceptedWith(text, k0, fs, a, v)
  <1> DEFINE tree == Parse(text)
             bad == {k \in References(tree) : ReferenceResult(tree, k, fs) # "Ok"}
             s == Signature(tree)
             a == Part(tree, "SignedInfo")
             v == Part(tree, "SignatureValue")
             S == Signatures(tree)
             A == ChildrenNamed(tree, s, "SignedInfo")
             V == ChildrenNamed(tree, s, "SignatureValue")
  <1>1. tree.text = text /\ Nodes(tree) = Elements(text)
        /\ \A k \in Elements(text) : tree.end[k] = EndTag(text, k)
    BY ParseIs
  <1>2. Elements(text) \subseteq Nat
    BY ElementsOf
  <1> HIDE DEF tree
  <1>3. bad # {} => ReferenceResult(tree, First(bad), fs) # "Ok"
    <2>1. bad \subseteq Nat
      BY <1>1, <1>2 DEF References, ChildrenNamed, Children
    <2>2. bad # {} => First(bad) \in bad
      BY <2>1, FirstIs
    <2> QED
      BY <2>2
  <1> HIDE DEF bad
  <1>4. /\ IsWellFormed(tree) /\ ~ LacksPart(tree)
        /\ bad = {} /\ ValueResult(tree, k0) = "Ok"
    BY <1>3 DEF VerifyXml, bad, tree
  <1>5. A # {} /\ V # {} /\ A \subseteq Elements(text) /\ V \subseteq Elements(text)
    BY <1>1, <1>4 DEF LacksPart, ChildrenNamed, Children
  <1>6. a \in Elements(text) /\ v \in Elements(text)
    <2>1. a = First(A) /\ v = First(V)
      BY DEF Part
    <2> HIDE DEF A, V, a, v
    <2>2. A \subseteq Nat /\ V \subseteq Nat
      BY <1>2, <1>5
    <2>3. First(A) \in A /\ First(V) \in V
      BY <1>5, <2>2, FirstIs
    <2> QED
      BY <1>5, <2>1, <2>3
  <1>7. \A j \in Elements(text) : EndTag(text, j) # 0
    BY <1>1, <1>4 DEF IsWellFormed
  <1>8. /\ HasText(tree, v)
        /\ \E method : KeyAccepts(k0, method, Canonical(tree, a), TextOf(tree, v))
    BY <1>4 DEF ValueResult
  <1>9. text[v + 1].kind = "text" /\ k0.kind \in VerifiableKinds
        /\ text[v + 1].data = SignWith(k0, Canonical(tree, a))
    BY <1>1, <1>8 DEF HasText, TextOf, KeyAccepts
  <1>10. \A j \in InsideNamed(text, a, "Reference") :
            ReferenceResult(tree, j, fs) = "Ok"
    <2>1. References(tree) = ChildrenNamed(tree, a, "Reference")
      BY DEF References
    <2> HIDE DEF a
    <2>2. ChildrenNamed(tree, a, "Reference") = InsideNamed(text, a, "Reference")
      BY <1>6, NamedInside DEF tree
    <2> QED
      BY <1>4, <2>1, <2>2 DEF bad
  <1> HIDE DEF a, v
  <1>11. AcceptedWith(text, k0, fs, a, v)
    BY <1>6, <1>7, <1>9, <1>10 DEF AcceptedWith, tree
  <1> QED
    BY <1>11

-----------------------------------------------------------------------------
(***************************************************************************)
(* A canonical form tells the tokens that it was made of, but for the      *)
(* prefixes that they declare.                                             *)
(***************************************************************************)
(* The canonical form of a token. *)
FormOf(t, ns) == IF t.kind = "open" THEN [t EXCEPT !.ns = ns] ELSE t

(* Tokens of regular texts with the same canonical form are the same: a     *)
(* start tag declares what its name says.                                   *)
LEMMA FormsAgree ==
    ASSUME NEW v, NEW t, IsToken(t, v), NEW u, IsToken(u, v), NEW m, NEW n,
           FormOf(t, m) = FormOf(u, n)
    PROVE  t = u
  <1>1. ASSUME NEW w, IsToken(w, v), NEW ns
        PROVE  /\ w.kind = "open" \/ FormOf(w, ns) = w
               /\ FormOf(w, ns).kind = w.kind
               /\ w.kind = "open" =>
                    /\ \E name, id, attr : w = Open(name, id, attr, PrefixesOf(name))
                    /\ FormOf(w, ns).name = w.name /\ FormOf(w, ns).id = w.id
                    /\ FormOf(w, ns).attr = w.attr
    <2>1. ASSUME NEW x, w = Text(x)
          PROVE  w.kind = "text" /\ FormOf(w, ns) = w
      BY <2>1 DEF Text, FormOf
    <2>2. ASSUME NEW name, w = Close(name)
          PROVE  w.kind = "close" /\ FormOf(w, ns) = w
      BY <2>2 DEF Close, FormOf
    <2>3. ASSUME NEW name, NEW id, NEW attr, w = Open(name, id, attr, PrefixesOf(name))
          PROVE  /\ w.kind = "open" /\ FormOf(w, ns) = Open(name, id, attr, ns)
                 /\ w.name = name /\ w.id = id /\ w.attr = attr
      BY <2>3 DEF Open, FormOf
    <2>4. \A name, id, attr :
            LET o == Open(name, id, attr, ns)
            IN  o.kind = "open" /\ o.name = name /\ o.id = id /\ o.attr = attr
      BY DEF Open
    <2>5. \/ \E x : w = Text(x)
          \/ \E name : w = Close(name)
          \/ \E name, id, attr : w = Open(name, id, attr, PrefixesOf(name))
      BY <1>1 DEF IsToken
    <2>6. CASE \/ \E x : w = Text(x)
               \/ \E name : w = Close(name)
      BY <2>1, <2>2, <2>6
    <2>7. CASE \E name, id, attr : w = Open(name, id, attr, PrefixesOf(name))
      <3>1. PICK name, id, attr : w = Open(name, id, attr, PrefixesOf(name))
        BY <2>7
      <3>2. /\ w.kind = "open" /\ FormOf(w, ns) = Open(name, id, attr, ns)
            /\ w.name = name /\ w.id = id /\ w.attr = attr
        BY <2>3, <3>1
      <3>3. /\ FormOf(w, ns).kind = "open" /\ FormOf(w, ns).name = name
            /\ FormOf(w, ns).id = id /\ FormOf(w, ns).attr = attr
        BY <2>4, <3>2
      <3> QED
        BY <2>7, <3>2, <3>3
    <2> QED
      BY <2>5, <2>6, <2>7
  <1>2. t.kind = u.kind
    <2>1. FormOf(t, m).kind = t.kind /\ FormOf(u, n).kind = u.kind
      BY <1>1
    <2> QED
      BY <2>1
  <1>3. CASE t.kind = "open"
    <2>1. PICK name, id, attr : t = Open(name, id, attr, PrefixesOf(name))
      BY <1>1, <1>3
    <2>2. PICK name2, id2, attr2 : u = Open(name2, id2, attr2, PrefixesOf(name2))
      BY <1>1, <1>2, <1>3
    <2>3. t.name = u.name /\ t.id = u.id /\ t.attr = u.attr
      <3>1. /\ FormOf(t, m).name = t.name /\ FormOf(t, m).id = t.id
            /\ FormOf(t, m).attr = t.attr
        BY <1>1, <1>3
      <3>2. /\ FormOf(u, n).name = u.name /\ FormOf(u, n).id = u.id
            /\ FormOf(u, n).attr = u.attr
        BY <1>1, <1>2, <1>3
      <3> QED
        BY <3>1, <3>2
    <2>4. /\ t.name = name /\ t.id = id /\ t.attr = attr
          /\ u.name = name2 /\ u.id = id2 /\ u.attr = attr2
      BY <2>1, <2>2 DEF Open
    <2> QED
      BY <2>1, <2>2, <2>3, <2>4
  <1>4. CASE t.kind # "open"
    <2>1. FormOf(t, m) = t /\ FormOf(u, n) = u
      BY <1>1, <1>2, <1>4
    <2> QED
      BY <2>1
  <1> QED
    BY <1>3, <1>4

-----------------------------------------------------------------------------
(***************************************************************************)
(* Copies of a part, in whatever text they are.                            *)
(***************************************************************************)
(* The tokens behind p are those of part. *)
IsCopied(text, p, part) ==
    /\ p \in Nat /\ p + Len(part) <= Len(text)
    /\ \A j \in 1..Len(part) : text[p + j] = part[j]

(* The element at a of text has the canonical form of part, token by token. *)
FormsAs(text, a, part) ==
    /\ a \in Nat \ {0} /\ Len(part) \in Nat
    /\ EndTag(text, a) + 1 = a + Len(part) /\ a + Len(part) - 1 \in 1..Len(text)
    /\ \A j \in 1..Len(part) :
          /\ a + j - 1 \in 1..Len(text)
          /\ \E m, n : FormOf(text[a + j - 1], m) = FormOf(part[j], n)

(* So it is when the canonical forms are the same. *)
LEMMA CanonicalForms ==
    ASSUME NEW text, IsText(text), NEW part, IsText(part),
           NEW a \in Elements(text), EndTag(text, a) # 0,
           NEW ns, Canonical(Parse(text), a) = FormIn(part, ns)
    PROVE  FormsAs(text, a, part)
  <1> DEFINE tree == Parse(text)
             e == EndTag(text, a)
             m == e + 1 - a
             n == Len(part)
             new(k) == NewlyVisible(tree, a, k)
             here(j) == IF j = 1 THEN ns ELSE {}
  <1>1. Len(text) \in Nat /\ n \in Nat
    BY TextIsSequence
  <1>2. a \in 1..Len(text) /\ e \in (a + 1)..Len(text)
    BY <1>1, EndTagOfOpen, ElementsOf
  <1>3. tree.text = text /\ tree.end[a] = e
    BY ParseIs
  <1>4. m \in Nat /\ a + m = e + 1 /\ a \in Nat \ {0} /\ e \in Nat
    BY <1>1, <1>2
  <1> HIDE DEF tree, e, m, n
  <1>5. Canonical(tree, a) = [j \in 1..m |-> FormOf(text[a + j - 1], new(a + j - 1))]
    <2>1. Canonical(tree, a)
            = [j \in 1..m |-> IF Opens(text, a + j - 1)
                              THEN [text[a + j - 1] EXCEPT !.ns = new(a + j - 1)]
                              ELSE text[a + j - 1]]
      BY <1>3 DEF Canonical, m
    <2> HIDE DEF new
    <2> QED
      BY <2>1 DEF FormOf, Opens
  <1>6. FormIn(part, ns) = [j \in 1..n |-> FormOf(part[j], here(j))]
    BY DEF FormIn, FormOf, Opens, n
  <1> HIDE DEF new, here
  <1>7. [j \in 1..m |-> FormOf(text[a + j - 1], new(a + j - 1))]
          = [j \in 1..n |-> FormOf(part[j], here(j))]
    BY <1>5, <1>6 DEF tree
  <1>8. m = n
    <2>1. 1..m = 1..n
      BY <1>7
    <2> QED
      BY <1>1, <1>4, <2>1
  <1>9. ASSUME NEW j \in 1..n
         PROVE  /\ a + j - 1 \in 1..Len(text)
                /\ \E x, y : FormOf(text[a + j - 1], x) = FormOf(part[j], y)
    <2>1. FormOf(text[a + j - 1], new(a + j - 1)) = FormOf(part[j], here(j))
      BY <1>7, <1>8
    <2>2. a + j - 1 \in 1..Len(text)
      BY <1>1, <1>2, <1>4, <1>8
    <2> QED
      BY <2>1, <2>2
  <1>10. e + 1 = a + n /\ a + n - 1 \in 1..Len(text)
    BY <1>1, <1>2, <1>4, <1>8
  <1> QED
    BY <1>1, <1>4, <1>9, <1>10 DEF FormsAs, e, n

(* So a part whose canonical form is that of another is a copy of it. *)
LEMMA CanonicalGives ==
    ASSUME NEW v, NEW text, Regular(text, v), NEW part, Regular(part, v),
           NEW a \in Elements(text), EndTag(text, a) # 0,
           NEW ns, Canonical(Parse(text), a) = FormIn(part, ns)
    PROVE  \E p : p + 1 = a /\ IsCopied(text, p, part)
  <1> DEFINE p == a - 1
             n == Len(part)
  <1>1. IsText(text) /\ IsText(part)
    BY DEF Regular
  <1>2. FormsAs(text, a, part)
    BY <1>1, CanonicalForms
  <1>3. Len(text) \in Nat
    BY <1>1, TextIsSequence
  <1>4. a \in Nat \ {0} /\ n \in Nat /\ a + n - 1 \in 1..Len(text)
    BY <1>2 DEF FormsAs
  <1>5. p \in Nat /\ p + 1 = a /\ p + n <= Len(text)
    BY <1>3, <1>4
  <1> HIDE DEF p, n
  <1>6. ASSUME NEW j \in 1..n
        PROVE  text[p + j] = part[j]
    <2>1. a + j - 1 = p + j
      BY <1>4, <1>5
    <2>2. /\ a + j - 1 \in 1..Len(text)
          /\ \E x, y : FormOf(text[a + j - 1], x) = FormOf(part[j], y)
      BY <1>2 DEF FormsAs, n
    <2>3. p + j \in 1..Len(text) /\ \E x, y : FormOf(text[p + j], x) = FormOf(part[j], y)
      BY <2>1, <2>2
    <2>4. IsToken(text[p + j], v) /\ IsToken(part[j], v)
      BY <2>3 DEF Regular, n
    <2> QED
      BY <2>3, <2>4, FormsAgree
  <1>7. IsCopied(text, p, part)
    BY <1>5, <1>6 DEF IsCopied, n
  <1> QED
    BY <1>5, <1>7

(* Then the text is that part between two others. *)
LEMMA CopyIsWithin ==
    ASSUME NEW text, IsText(text), NEW part, IsText(part), NEW p,
           IsCopied(text, p, part)
    PROVE  /\ \E a, b : /\ IsText(a) /\ IsText(b) /\ Len(a) = p
                        /\ text = Within(a, part, b)
           /\ SubSeq(text, p + 1, p + Len(part)) = part /\ Contains(text, part)
  <1> DEFINE n == Len(text)
             m == Len(part)
             q == p + m
             a == SubSeq(text, 1, p)
             c == SubSeq(text, p + 1, q)
             b == SubSeq(text, q + 1, n)
  <1>1. PICK T : text \in Seq(T)
    BY DEF IsText
  <1>2. n \in Nat /\ m \in Nat
    BY TextIsSequence
  <1>3. p \in Nat /\ q <= n /\ q \in Nat /\ p <= q
    BY <1>2 DEF IsCopied
  <1>4. \A j \in 1..m : text[p + j] = part[j]
    BY DEF IsCopied
  <1> HIDE DEF n, m, q
  <1>5. IsText(a) /\ Len(a) = p /\ \A j \in 1..p : a[j] = text[j]
    <2>1. a \in Seq(T) /\ Len(a) = p /\ \A j \in 1..p : a[j] = text[j]
      BY <1>1, <1>2, <1>3 DEF n
    <2> QED
      BY <2>1 DEF IsText
  <1>6. IsText(b) /\ Len(b) = n - q /\ \A j \in 1..(n - q) : b[j] = text[q + j]
    <2>1. q + 1 \in Nat /\ q + 1 >= 1 /\ n - q \in Nat /\ n - (q + 1) + 1 = n - q
      BY <1>2, <1>3
    <2>2. b = [j \in 1..(n - (q + 1) + 1) |-> text[(q + 1) + j - 1]]
      BY <1>1, <2>1 DEF n
    <2>3. b = [j \in 1..(n - q) |-> text[(q + 1) + j - 1]]
      BY <2>1, <2>2
    <2>4. \A j \in 1..(n - q) : (q + 1) + j - 1 = q + j
      BY <1>2, <1>3
    <2>5. \A j \in 1..(n - q) : b[j] = text[q + j]
      BY <2>3, <2>4
    <2>6. b \in Seq(T)
      BY <1>1, <1>2, <2>1 DEF n
    <2>7. Len(b) = n - q
      <3> DEFINE l == n - q
      <3>1. l \in Nat /\ b = [j \in 1..l |-> text[(q + 1) + j - 1]]
        BY <2>1, <2>3
      <3> HIDE DEF b, l
      <3>2. b \in Seq(T)
        BY <2>6
      <3>3. DOMAIN b = 1..l
        BY <3>1
      <3>4. Len(b) = l
        BY <3>1, <3>2, <3>3
      <3> QED
        BY <3>4 DEF l
    <2> QED
      BY <2>5, <2>6, <2>7 DEF IsText
  <1>7. c = part
    <2>1. q - (p + 1) + 1 = m
      BY <1>2, <1>3 DEF q
    <2>2. c = [j \in 1..(q - (p + 1) + 1) |-> text[(p + 1) + j - 1]]
      BY <1>1, <1>2, <1>3 DEF n
    <2>3. c = [j \in 1..m |-> text[(p + 1) + j - 1]]
      BY <2>1, <2>2
    <2>4. \A j \in 1..m : (p + 1) + j - 1 = p + j
      BY <1>2, <1>3
    <2>5. \A j \in 1..m : c[j] = part[j]
      BY <1>4, <2>3, <2>4
    <2>6. IsText(c) /\ Len(c) = m
      <3>1. c \in Seq(T)
        BY <1>1, <1>2, <1>3 DEF n
      <3>2. DOMAIN c = 1..m
        BY <2>3
      <3> HIDE DEF c
      <3>3. IsText(c)
        BY <3>1 DEF IsText
      <3>4. Len(c) = m
        BY <1>2, <3>1, <3>2
      <3> QED
        BY <3>3, <3>4
    <2> HIDE DEF c
    <2> QED
      BY <2>5, <2>6, SameText DEF m
  <1> HIDE DEF a, b, c
  <1>8. text = Within(a, part, b)
    <2> DEFINE w == Within(a, part, b)
    <2>1. /\ IsText(w) /\ Len(w) = Len(a) + Len(part) + Len(b)
          /\ \A k \in 1..Len(a) : w[k] = a[k]
          /\ \A k \in 1..Len(part) : w[Len(a) + k] = part[k]
          /\ \A k \in 1..Len(b) : w[Len(a) + Len(part) + k] = b[k]
      <3>1. IsText(a) /\ IsText(b)
        BY <1>5, <1>6
      <3> QED
        BY <3>1, WithinIs
    <2> HIDE DEF w
    <2>2. Len(w) = n
      BY <1>2, <1>3, <1>5, <1>6, <2>1 DEF m, q
    <2>3. ASSUME NEW k \in 1..n PROVE text[k] = w[k]
      <3>1. CASE k <= p
        <4>1. k \in 1..p
          BY <1>2, <1>3, <3>1
        <4> QED
          BY <1>5, <2>1, <4>1
      <3>2. CASE p < k /\ k <= q
        <4> DEFINE j == k - p
        <4>1. j \in 1..m /\ p + j = k
          BY <1>2, <1>3, <3>2 DEF q
        <4> HIDE DEF j
        <4>2. w[p + j] = part[j]
          BY <1>5, <2>1, <4>1 DEF m
        <4> QED
          BY <1>4, <4>1, <4>2
      <3>3. CASE k > q
        <4> DEFINE j == k - q
        <4>1. j \in 1..(n - q) /\ q + j = k
          BY <1>2, <1>3, <3>3
        <4> HIDE DEF j
        <4>2. w[q + j] = b[j]
          BY <1>5, <1>6, <2>1, <4>1 DEF m, q
        <4> QED
          BY <1>6, <4>1, <4>2
      <3> QED
        BY <1>2, <1>3, <3>1, <3>2, <3>3
    <2>4. IsText(w) /\ Len(text) = Len(w)
      BY <2>1, <2>2 DEF n
    <2> QED
      BY <2>3, <2>4, SameText DEF n, w
  <1>9. Contains(text, part)
    <2>1. p \in 0..(n - m)
      BY <1>2, <1>3 DEF q
    <2>2. SubSeq(text, p + 1, p + Len(part)) = part
      BY <1>7 DEF c, q, m
    <2> QED
      BY <2>1, <2>2 DEF Contains, n, m
  <1>10. SubSeq(text, p + 1, p + Len(part)) = part
    BY <1>7 DEF c, q, m
  <1> QED
    BY <1>5, <1>6, <1>8, <1>9, <1>10

(* An element that begins before a nested part does not end in it. *)
LEMMA OuterEnds ==
    ASSUME NEW a, IsText(a), NEW s, Nested(s), NEW b, IsText(b),
           NEW j \in Elements(Within(a, s, b)), j <= Len(a)
    PROVE  LET e == EndTag(Within(a, s, b), j)
           IN  e \in Nat /\ (e <= Len(a) \/ e > Len(a) + Len(s))
  <1> DEFINE w == Within(a, s, b)
             t == Then(a, b)
             n == Len(a)
             l == Len(s)
             i == j + 1
             d == 1
  <1>1. IsText(s)
    BY DEF Nested
  <1>2. IsText(w) /\ IsText(t)
    BY <1>1, WithinIs, Join
  <1>3. n \in Nat /\ l \in Nat /\ Len(w) \in Nat /\ Len(t) \in Nat
    BY <1>1, <1>2, TextIsSequence
  <1>4. j \in 1..Len(w)
    BY ElementsOf
  <1>5. EndTag(w, j) = Scan(w)[i][d] /\ EndTag(w, j) \in Nat
    BY <1>3, <1>4, EndTagOfOpen
  <1>6. i \in 1..(n + 1) /\ d \in Nat \ {0} /\ i \in Nat /\ d \in Nat
    BY <1>3, <1>4
  <1>7. Scan(t)[i][d] = 0 \/ Scan(t)[i][d] \in i..Len(t)
    <2> HIDE DEF i, d, t
    <2> QED
      BY <1>3, <1>6, ScanFindsEnds
  <1>8. Scan(w)[i][d] = LET e == Scan(t)[i][d] IN IF e <= n THEN e ELSE e + l
    <2> HIDE DEF i, d
    <2> QED
      BY <1>6, ScanInserted
  <1> DEFINE e == Scan(t)[i][d]
  <1>9. e \in Nat
    BY <1>3, <1>6, <1>7
  <1> HIDE DEF e, w, n, l
  <1>10. EndTag(w, j) = IF e <= n THEN e ELSE e + l
    BY <1>5, <1>8 DEF e
  <1>11. EndTag(w, j) <= n \/ EndTag(w, j) > n + l
    BY <1>3, <1>9, <1>10
  <1> QED
    BY <1>5, <1>11 DEF w, n, l

(* The children of a nested part's first element are, in any text, children *)
(* of it where the part stands,                                             *)
LEMMA ChildrenStand ==
    ASSUME NEW a, IsText(a), NEW s, Nested(s), NEW b, IsText(b),
           1 \in Elements(s), NEW k \in Inside(s, 1)
    PROVE  Len(a) + k \in Inside(Within(a, s, b), Len(a) + 1)
  <1> DEFINE w == Within(a, s, b)
             n == Len(a)
             l == Len(s)
             q == n + 1
             r == n + k
  <1>1. IsText(s)
    BY DEF Nested
  <1>2. n \in Nat /\ l \in Nat
    BY <1>1, TextIsSequence
  <1>3. k \in Elements(s) /\ k \in 1..l
    BY ElementsOf DEF Inside
  <1>4. 1 \in 1..l
    BY ElementsOf
  <1>5. Around(s, k) = {1}
    <2>1. Around(s, 1) = {}
      <3>1. Around(s, 1) \subseteq Elements(s)
        BY DEF Around
      <3>2. \A i \in Elements(s) : i \in Nat \ {0}
        BY ElementsOf
      <3> QED
        BY <3>2 DEF Around
    <2>2. Around(s, k) = {1} \cup Around(s, 1)
      BY DEF Inside
    <2> QED
      BY <2>1, <2>2
  <1>6. IsText(w) /\ Len(w) = n + l + Len(b)
        /\ \A i \in 1..l : w[n + i] = s[i]
    BY <1>1, WithinIs
  <1>7. Len(b) \in Nat
    BY TextIsSequence
  <1>8. \A i \in Elements(s) : EndTag(w, n + i) = n + EndTag(s, i)
    BY NestedMoves DEF EndsMove
  <1>9. \A i \in Elements(s) : EndTag(s, i) \in Nat
    BY NestedEnds
  <1>10. \A i \in 1..l : n + i \in Elements(w) <=> i \in Elements(s)
    <2>1. \A i \in 1..l : n + i \in 1..Len(w)
      BY <1>2, <1>6, <1>7
    <2>2. \A i \in 1..l : Opens(w, n + i) <=> Opens(s, i)
      BY <1>6 DEF Opens
    <2> QED
      BY <2>1, <2>2 DEF Elements
  <1>11. \A j \in Elements(w) : j <= n =>
            EndTag(w, j) \in Nat /\ (EndTag(w, j) <= n \/ EndTag(w, j) > n + l)
    BY OuterEnds
  <1>12. Elements(w) \subseteq Nat
    BY ElementsOf
  <1> HIDE DEF w, n, l
  <1>13. ASSUME NEW j \in Elements(w)
         PROVE  (j < r /\ EndTag(w, j) > r)
                   <=> (j = q \/ (j < q /\ EndTag(w, j) > q))
    <2>1. j \in Nat
      BY <1>12
    <2>2. CASE j <= n
      <3>1. EndTag(w, j) \in Nat /\ (EndTag(w, j) <= n \/ EndTag(w, j) > n + l)
        BY <1>11, <2>2
      <3> QED
        BY <1>2, <1>3, <1>4, <2>1, <2>2, <3>1
    <2>3. CASE j > n + l
      BY <1>2, <1>3, <1>4, <2>1, <2>3
    <2>4. CASE n < j /\ j <= n + l
      <3> DEFINE i == j - n
      <3>1. i \in 1..l /\ j = n + i
        BY <1>2, <2>1, <2>4
      <3> HIDE DEF i
      <3>2. i \in Elements(s)
        BY <1>10, <3>1
      <3>3. EndTag(w, j) = n + EndTag(s, i) /\ EndTag(s, i) \in Nat
        BY <1>8, <1>9, <3>1, <3>2
      <3>4. i \in Around(s, k) <=> i < k /\ EndTag(s, i) > k
        BY <3>2 DEF Around
      <3>5. i = 1 <=> i < k /\ EndTag(s, i) > k
        BY <1>5, <3>4
      <3>6. (j < r /\ EndTag(w, j) > r) <=> i < k /\ EndTag(s, i) > k
        BY <1>2, <1>3, <3>1, <3>3
      <3>7. ~ (j < q) /\ (j = q <=> i = 1)
        BY <1>2, <3>1
      <3> QED
        BY <3>5, <3>6, <3>7
    <2> QED
      BY <1>2, <2>1, <2>2, <2>3, <2>4
  <1>14. r \in Elements(w) /\ q \in Elements(w)
    BY <1>3, <1>4, <1>10
  <1> HIDE DEF q, r
  <1>15. Around(w, r) = {q} \cup Around(w, q)
    BY <1>13, <1>14 DEF Around
  <1>16. r \in Inside(w, q)
    BY <1>14, <1>15 DEF Inside
  <1> QED
    BY <1>16 DEF q, r, w, n

(* and so they are of a copy. *)
LEMMA ChildrenOfCopy ==
    ASSUME NEW text, IsText(text), NEW s, Nested(s), 1 \in Elements(s),
           NEW p, IsCopied(text, p, s), NEW local, NEW k \in InsideNamed(s, 1, local)
    PROVE  p + k \in InsideNamed(text, p + 1, local)
  <1>1. IsText(s)
    BY DEF Nested
  <1>2. PICK a, b : /\ IsText(a) /\ IsText(b) /\ Len(a) = p
                    /\ text = Within(a, s, b)
    BY <1>1, CopyIsWithin
  <1>3. k \in Inside(s, 1) /\ s[k].name[2] = local
    BY DEF InsideNamed, Named
  <1>4. Len(a) + k \in Inside(Within(a, s, b), Len(a) + 1)
    BY <1>2, <1>3, ChildrenStand
  <1>5. p + k \in Inside(text, p + 1)
    BY <1>2, <1>4
  <1>6. k \in 1..Len(s)
    BY <1>3, ElementsOf DEF Inside
  <1>7. text[p + k] = s[k]
    BY <1>6 DEF IsCopied
  <1> QED
    BY <1>3, <1>5, <1>7 DEF InsideNamed, Named

(* A part that stands before all others of its name is the one that is cut  *)
(* out.                                                                     *)
LEMMA FirstPart ==
    ASSUME NEW text, NEW p, NEW x, NEW name, IsElement(x, name),
           StandsAt(text, p, x), NEW local, local = name[2],
           \A j \in Positions(text, local) : p + 1 <= j
    PROVE  PartOf(text, local) = x /\ p + 1 \in Positions(text, local)
  <1> DEFINE q == p + 1
             S == Positions(text, local)
  <1>1. /\ Nested(x) /\ IsText(x) /\ 1 \in 1..Len(x) /\ x[1].name = name
        /\ EndTag(x, 1) = Len(x) /\ 1 \in Elements(x)
    BY ElementOf
  <1>2. IsText(text)
    BY DEF StandsAt, Nested
  <1>3. p \in Nat /\ q \in Nat /\ \A j \in S : q <= j
    BY DEF StandsAt
  <1>4. q \in Elements(text) /\ text[q] = x[1] /\ EndTag(text, q) = p + Len(x)
    BY <1>1 DEF StandsAt
  <1>5. IsCopied(text, p, x)
    BY DEF StandsAt, IsCopied
  <1>6. SubSeq(text, q, p + Len(x)) = x
    BY <1>1, <1>2, <1>5, CopyIsWithin
  <1> HIDE DEF q
  <1>7. q \in S /\ S \subseteq Nat
    BY <1>1, <1>4, ElementsOf DEF Positions
  <1> HIDE DEF S
  <1>8. First(S) \in S /\ First(S) <= q
    <2>1. S \subseteq Nat /\ S # {}
      BY <1>7
    <2>2. First(S) \in S /\ \A i \in S : First(S) <= i
      BY <2>1, FirstIs
    <2> QED
      BY <1>7, <2>2
  <1>9. First(S) = q
    <2>1. First(S) \in Nat /\ q \in Nat
      BY <1>3, <1>7, <1>8
    <2>2. q <= First(S)
      BY <1>3, <1>8
    <2>3. First(S) <= q
      BY <1>8
    <2> QED
      BY <2>1, <2>2, <2>3
  <1>10. PartOf(text, local) = x
    BY <1>4, <1>6, <1>9 DEF PartOf, S
  <1> QED
    BY <1>7, <1>10 DEF q, S

(* The part of a name is the element that stands there, if it is the only   *)
(* one.                                                                     *)
LEMMA PartIs ==
    ASSUME NEW text, NEW p, NEW x, NEW name, IsElement(x, name),
           StandsAt(text, p, x), NEW local, local = name[2], Count(text, local) = 1
    PROVE  PartOf(text, local) = x
  <1> DEFINE q == p + 1
  <1>1. /\ 1 \in 1..Len(x) /\ x[1].name = name /\ 1 \in Elements(x)
    BY ElementOf
  <1>2. IsText(text) /\ p \in Nat
    BY DEF StandsAt, Nested
  <1>3. q \in Elements(text) /\ text[q] = x[1] /\ q \in Nat
    BY <1>1, <1>2 DEF StandsAt
  <1> HIDE DEF q
  <1>4. q \in Positions(text, local)
    BY <1>1, <1>3 DEF Positions
  <1>5. Positions(text, local) = {q}
    BY <1>2, <1>4, CountIs
  <1>6. \A j \in Positions(text, local) : q <= j
    BY <1>3, <1>5
  <1>7. \A j \in Positions(text, local) : p + 1 <= j
    BY <1>6 DEF q
  <1> QED
    BY <1>7, FirstPart

(* Signatures with two keys, or of two forms, are not the same. *)
LEMMA ValuesDiffer ==
    ASSUME NEW k, NEW y, NEW k0, NEW z, SignWith(k, y) = SignWith(k0, z)
    PROVE  k = k0 /\ y = z
  <1> DEFINE a == <<k, y>>
             b == <<k0, z>>
             c == <<"value of", a>>
             d == <<"value of", b>>
  <1>1. c = d
    BY DEF SignWith
  <1>2. c[2] = a /\ d[2] = b
    OBVIOUS
  <1>3. a[1] = k /\ a[2] = y /\ b[1] = k0 /\ b[2] = z
    OBVIOUS
  <1> HIDE DEF a, b, c, d
  <1>4. a = b
    BY <1>1, <1>2
  <1> QED
    BY <1>3, <1>4

(* A text contains each of its tokens. *)
LEMMA OneTokenContained ==
    ASSUME NEW text, IsText(text), NEW j \in 1..Len(text)
    PROVE  Contains(text, <<text[j]>>)
  <1> DEFINE t == text[j]
             one == <<t>>
             p == j - 1
  <1>1. Len(text) \in Nat
    BY TextIsSequence
  <1>2. p \in Nat /\ p + 1 = j /\ p + 1 <= Len(text)
    BY <1>1
  <1>3. text[p + 1] = t
    BY <1>2
  <1> HIDE DEF t, p
  <1>4. IsText(one) /\ Len(one) = 1 /\ one[1] = t
    BY ShortTexts
  <1>5. IsText(one)
    BY <1>4
  <1> HIDE DEF one
  <1>6. IsCopied(text, p, one)
    BY <1>2, <1>3, <1>4 DEF IsCopied
  <1>7. Contains(text, one)
    BY <1>5, <1>6, CopyIsWithin
  <1> QED
    BY <1>7 DEF one, t

-----------------------------------------------------------------------------
(***************************************************************************)
(* Elements that are not apart lie in one another.                         *)
(***************************************************************************)
(* To close c + d elements is to close c of them and then d. *)
Splits(f, j, c, d) ==
    f[j][c + d] = IF f[j][c] = 0 THEN 0 ELSE f[f[j][c] + 1][d]

(* The count does so, in any text. *)
LEMMA ScanSplits ==
    ASSUME NEW text, Len(text) \in Nat, NEW j \in Nat \ {0},
           NEW c \in Nat \ {0}, NEW d \in Nat \ {0}
    PROVE  Splits(Scan(text), j, c, d)
  <1> DEFINE l == Len(text)
             Rest(e, y) == IF e = 0 THEN 0 ELSE Scan(text)[e + 1][y]
             Same(i, x, y) == Scan(text)[i][x + y] = Rest(Scan(text)[i][x], y)
             S == {n \in Nat : \A i, x, y \in Nat \ {0} :
                      i + n > l => Same(i, x, y)}
  <1>1. ASSUME NEW i \in Nat \ {0}, NEW x \in Nat \ {0}, NEW y \in Nat \ {0}, i > l
        PROVE  Same(i, x, y)
    <2>1. Scan(text)[i][x] = 0
      BY <1>1, ScanPast
    <2>2. Scan(text)[i][x + y] = 0
      <3>1. x + y \in Nat
        OBVIOUS
      <3> QED
        BY <1>1, <3>1, ScanPast
    <2> QED
      BY <2>1, <2>2
  <1>2. 0 \in S
    BY <1>1
  <1>3. ASSUME NEW n \in Nat, n \in S
        PROVE  n + 1 \in S
    <2> HIDE DEF Same
    <2> SUFFICES ASSUME NEW i \in Nat \ {0}, NEW x \in Nat \ {0}, NEW y \in Nat \ {0},
                        i + (n + 1) > l
                 PROVE  Same(i, x, y)
      OBVIOUS
    <2> SUFFICES ASSUME i <= l
                 PROVE  Same(i, x, y)
      BY <1>1
    <2>1. /\ i + 1 \in Nat \ {0} /\ (i + 1) + n > l /\ i \in Nat
          /\ x \in Nat /\ x + y \in Nat
      OBVIOUS
    <2>2. \A x2 \in Nat \ {0} : Same(i + 1, x2, y)
      BY <1>3, <2>1
    <2> USE DEF Same
    <2>3. CASE text[i].kind = "text"
      <3>1. /\ Scan(text)[i][x] = Scan(text)[i + 1][x]
            /\ Scan(text)[i][x + y] = Scan(text)[i + 1][x + y]
        BY <2>1, <2>3, ScanText
      <3> QED
        BY <2>2, <3>1
    <2>4. CASE text[i].kind = "open"
      <3>1. Deepens(Scan(text), i, x)
        BY <2>1, <2>4, ScanOpen
      <3>2. Deepens(Scan(text), i, x + y)
        <4> DEFINE z == x + y
        <4>1. z \in Nat
          BY <2>1
        <4> HIDE DEF z
        <4>2. Deepens(Scan(text), i, z)
          BY <2>4, <4>1, ScanOpen
        <4> QED
          BY <4>2 DEF z
      <3>3. x + 1 \in Nat \ {0} /\ (x + 1) + y = (x + y) + 1
        OBVIOUS
      <3>4. Same(i + 1, x + 1, y)
        BY <2>2, <3>3
      <3> QED
        BY <3>1, <3>2, <3>3, <3>4 DEF Deepens
    <2>5. CASE text[i].kind \notin {"text", "open"}
      <3> DEFINE z == x + y
      <3>1. z \in Nat /\ z > 1
        OBVIOUS
      <3> HIDE DEF z
      <3>2. Scan(text)[i][z] = Scan(text)[i + 1][z - 1]
        <4>1. ~ (z <= 1)
          BY <3>1
        <4>2. Scan(text)[i][z] = IF z <= 1 THEN i ELSE Scan(text)[i + 1][z - 1]
          BY <2>1, <2>5, <3>1, ScanClose
        <4> QED
          BY <4>1, <4>2
      <3>3. CASE x <= 1
        <4>1. Scan(text)[i][x] = i
          BY <2>1, <2>5, <3>3, ScanClose
        <4>2. z - 1 = y
          BY <3>3 DEF z
        <4>3. Rest(i, y) = Scan(text)[i + 1][y]
          OBVIOUS
        <4> QED
          BY <3>2, <4>1, <4>2, <4>3 DEF z
      <3>4. CASE ~ (x <= 1)
        <4>1. x \in Nat /\ i <= Len(text) /\ i \in Nat
          BY <2>1
        <4>2. Scan(text)[i][x] = Scan(text)[i + 1][x - 1]
          BY <2>5, <3>4, <4>1, ScanClose
        <4>3. x - 1 \in Nat \ {0} /\ z - 1 = (x - 1) + y
          BY <3>4 DEF z
        <4>4. Same(i + 1, x - 1, y)
          BY <2>2, <4>3
        <4> QED
          BY <3>2, <4>2, <4>3, <4>4 DEF z
      <3> QED
        BY <3>3, <3>4
    <2> QED
      BY <2>3, <2>4, <2>5
  <1> HIDE DEF S
  <1>4. \A n \in Nat : n \in S
    BY <1>2, <1>3, Induct!Induction
  <1>5. l + 1 \in Nat /\ j + (l + 1) > l
    OBVIOUS
  <1>6. Same(j, c, d)
    <2> HIDE DEF Same
    <2> QED
      BY <1>4, <1>5 DEF S
  <1> QED
    BY <1>6 DEF Splits

(* The count for an outer element passes every token within it. *)
LEMMA EndIsReached ==
    ASSUME NEW text, Len(text) \in Nat, NEW k \in Elements(text),
           EndTag(text, k) # 0, NEW j \in (k + 1)..EndTag(text, k)
    PROVE  \E d \in Nat \ {0} : Scan(text)[j][d] = EndTag(text, k)
  <1> DEFINE e == EndTag(text, k)
             At(i) == \E d \in Nat \ {0} : Scan(text)[i][d] = e
             S == {n \in Nat : k + 1 + n <= e => At(k + 1 + n)}
  <1>1. k \in 1..Len(text) /\ e = Scan(text)[k + 1][1] /\ e \in (k + 1)..Len(text)
    BY EndTagOfOpen, ElementsOf
  <1> HIDE DEF e
  <1>2. 0 \in S
    <2>1. At(k + 1)
      BY <1>1
    <2>2. k + 1 + 0 = k + 1
      BY <1>1
    <2> HIDE DEF At
    <2> QED
      BY <2>1, <2>2
  <1>3. ASSUME NEW n \in Nat, n \in S
        PROVE  n + 1 \in S
    <2> DEFINE i == k + 1 + n
    <2>1. k + 1 + (n + 1) = i + 1 /\ i \in Nat \ {0}
      BY <1>1
    <2> SUFFICES ASSUME i + 1 <= e
                 PROVE  At(i + 1)
      <3> HIDE DEF At, i
      <3> QED
        BY <2>1
    <2>2. At(i)
      <3>1. i <= e
        BY <1>1
      <3> HIDE DEF At
      <3> QED
        BY <1>3, <3>1
    <2>3. i <= Len(text) /\ i # e /\ i \in Nat /\ e # 0
      BY <1>1, <2>1
    <2> HIDE DEF i
    <2>4. PICK d \in Nat \ {0} : Scan(text)[i][d] = e
      BY <2>2
    <2>5. CASE text[i].kind = "text"
      <3>1. Scan(text)[i][d] = Scan(text)[i + 1][d]
        BY <2>3, <2>5, ScanText
      <3> QED
        BY <2>4, <3>1
    <2>6. CASE text[i].kind = "open"
      <3>1. d \in Nat
        BY <2>4
      <3>2. Deepens(Scan(text), i, d)
        BY <2>3, <2>6, <3>1, ScanOpen
      <3>3. Scan(text)[i + 1][d + 1] = e
        BY <2>4, <3>2 DEF Deepens
      <3>4. d + 1 \in Nat \ {0}
        BY <2>4
      <3> QED
        BY <3>3, <3>4
    <2>7. CASE text[i].kind \notin {"text", "open"}
      <3>1. Scan(text)[i][d] = IF d <= 1 THEN i ELSE Scan(text)[i + 1][d - 1]
        BY <2>3, <2>7, ScanClose
      <3>2. d > 1 /\ d - 1 \in Nat \ {0}
        BY <2>3, <2>4, <3>1
      <3>3. Scan(text)[i + 1][d - 1] = e
        BY <2>4, <3>1, <3>2
      <3> QED
        BY <3>2, <3>3
    <2> QED
      BY <2>5, <2>6, <2>7
  <1> DEFINE m == j - (k + 1)
  <1>4. m \in Nat /\ k + 1 + m = j /\ j <= e
    BY <1>1 DEF e
  <1> HIDE DEF m, At, S
  <1>5. m \in S
    BY <1>2, <1>3, <1>4, Induct!Induction
  <1>6. At(j)
    BY <1>4, <1>5 DEF S
  <1> QED
    BY <1>6 DEF At, e

(* What begins in an element ends in it. *)
LEMMA InnerEnds ==
    ASSUME NEW text, Len(text) \in Nat, NEW k \in Elements(text),
           EndTag(text, k) # 0, NEW j \in Elements(text),
           k < j, j < EndTag(text, k)
    PROVE  EndTag(text, j) \in (j + 1)..(EndTag(text, k) - 1)
  <1> DEFINE e == EndTag(text, k)
             x == EndTag(text, j)
             one == 1
  <1>1. /\ k \in 1..Len(text) /\ e \in (k + 1)..Len(text)
        /\ j \in 1..Len(text) /\ text[j].kind = "open"
    BY EndTagOfOpen, ElementsOf
  <1>2. x = Scan(text)[j + 1][1] /\ (x = 0 \/ x \in (j + 1)..Len(text))
    BY EndTagOfOpen
  <1>3. PICK d \in Nat \ {0} : Scan(text)[j][d] = e
    <2>1. j \in (k + 1)..e
      BY <1>1
    <2> QED
      BY <2>1, EndIsReached
  <1> HIDE DEF e, x
  <1>4. Scan(text)[j + 1][d + 1] = e
    <2>1. d \in Nat /\ j \in Nat /\ j <= Len(text)
      BY <1>1
    <2>2. Deepens(Scan(text), j, d)
      BY <1>1, <2>1, ScanOpen
    <2> QED
      BY <1>3, <2>2 DEF Deepens
  <1>5. Scan(text)[j + 1][d + 1] = IF x = 0 THEN 0 ELSE Scan(text)[x + 1][d]
    <2> DEFINE q == j + 1
    <2>1. q \in Nat \ {0} /\ one \in Nat \ {0} /\ one + d = d + 1
      BY <1>1
    <2>2. Scan(text)[q][one] = x
      BY <1>2
    <2> HIDE DEF one, q
    <2>3. Splits(Scan(text), q, one, d)
      BY <2>1, ScanSplits
    <2>4. Scan(text)[q][one + d] = IF x = 0 THEN 0 ELSE Scan(text)[x + 1][d]
      BY <2>2, <2>3 DEF Splits
    <2> QED
      BY <2>1, <2>4 DEF q
  <1>6. x # 0 /\ Scan(text)[x + 1][d] = e
    BY <1>1, <1>4, <1>5
  <1>7. Scan(text)[x + 1][d] = 0 \/ Scan(text)[x + 1][d] \in (x + 1)..Len(text)
    <2> DEFINE y == x + 1
    <2>1. y \in Nat /\ d \in Nat
      BY <1>1, <1>2
    <2> HIDE DEF y
    <2>2. Scan(text)[y][d] = 0 \/ Scan(text)[y][d] \in y..Len(text)
      BY <2>1, ScanFindsEnds
    <2> QED
      BY <2>2 DEF y
  <1> QED
    BY <1>1, <1>2, <1>6, <1>7 DEF x, e

-----------------------------------------------------------------------------
(***************************************************************************)
(* An element that is lost.                                                *)
(***************************************************************************)
(* The text around the element at k, and the element. *)
Parts(w, k, a, s, b) ==
    /\ IsText(a) /\ IsText(s) /\ IsText(b) /\ w = Within(a, s, b)
    /\ Len(a) + 1 = k /\ Len(a) + Len(s) = EndTag(w, k)
    /\ a = SubSeq(w, 1, k - 1) /\ b = SubSeq(w, EndTag(w, k) + 1, Len(w))

(* A text can be cut so. *)
LEMMA SubtreeParts ==
    ASSUME NEW w, Nested(w), NEW k \in Elements(w)
    PROVE  \E a, s, b : Parts(w, k, a, s, b)
  <1> DEFINE e == EndTag(w, k)
             r == e + 1
             n == Len(w)
             u == SubSeq(w, 1, e)
             b == SubSeq(w, r, n)
             a == SubSeq(w, 1, k - 1)
             s == SubSeq(u, k, e)
             a2 == SubSeq(u, 1, k - 1)
  <1>1. IsText(w)
    BY DEF Nested
  <1>2. PICK T : w \in Seq(T)
    BY <1>1 DEF IsText
  <1>3. /\ n \in Nat /\ k \in 1..n /\ e \in Nat /\ k < e /\ e <= n
    BY <1>1, NestedEnds, ElementNumbers
  <1> HIDE DEF e, n
  <1>4. IsText(u) /\ IsText(b) /\ w = Then(u, b) /\ Len(u) = e
    <2>1. /\ u \in Seq(T) /\ Len(u) = e /\ \A i \in 1..e : u[i] = w[i]
      BY <1>2, <1>3 DEF n
    <2>2. IsText(u)
      BY <2>1 DEF IsText
    <2>3. CASE e = n
      <3>1. b = <<>>
        BY <1>2, <1>3, <2>3 DEF n
      <3>2. u = w
        <4> HIDE DEF u
        <4> QED
          BY <1>1, <2>1, <2>2, <2>3, SameText DEF n
      <3>3. IsText(<<>>)
        BY ShortTexts
      <3>4. w = Then(w, <<>>)
        BY <1>1, JoinNone
      <3> HIDE DEF u, b
      <3> QED
        BY <2>1, <2>2, <3>1, <3>2, <3>3, <3>4
    <2>4. CASE e < n
      <3>1. r \in 1..n /\ r - 1 = e
        BY <1>3, <2>4
      <3> HIDE DEF r
      <3>2. LET a3 == SubSeq(w, 1, r - 1)
                b3 == SubSeq(w, r, Len(w))
            IN  /\ IsText(a3) /\ IsText(b3)
                /\ Len(a3) = r - 1 /\ w = Then(a3, b3)
        BY <1>1, <3>1, CutAt DEF n
      <3> QED
        BY <3>1, <3>2 DEF n
    <2> QED
      BY <1>3, <2>3, <2>4
  <1>5. IsText(a2) /\ IsText(s) /\ Len(a2) = k - 1 /\ u = Then(a2, s)
    <2>1. k \in 1..Len(u) /\ Len(u) = e
      BY <1>3, <1>4
    <2> HIDE DEF u
    <2>2. LET a3 == SubSeq(u, 1, k - 1)
              b3 == SubSeq(u, k, Len(u))
          IN  /\ IsText(a3) /\ IsText(b3)
              /\ Len(a3) = k - 1 /\ u = Then(a3, b3)
      BY <1>4, <2>1, CutAt
    <2> QED
      BY <2>1, <2>2
  <1>6. a2 = a
    <2>1. IsText(a) /\ Len(a) = k - 1 /\ \A i \in 1..(k - 1) : a[i] = w[i]
      <3>1. a \in Seq(T) /\ Len(a) = k - 1 /\ \A i \in 1..(k - 1) : a[i] = w[i]
        BY <1>2, <1>3 DEF n
      <3> QED
        BY <3>1 DEF IsText
    <2>2. \A i \in 1..(k - 1) : a2[i] = w[i]
      <3> HIDE DEF u, a2, s, b
      <3>1. \A i \in 1..e : w[i] = u[i]
        BY <1>4, Join
      <3>2. ASSUME NEW i \in 1..(k - 1)
            PROVE  u[i] = a2[i]
        <4>1. IsText(a2) /\ IsText(s) /\ i \in 1..Len(a2)
          BY <1>5
        <4>2. Then(a2, s)[i] = a2[i]
          BY <4>1, JoinFirst
        <4> QED
          BY <1>5, <4>2
      <3>3. \A i \in 1..(k - 1) : i \in 1..e
        BY <1>3
      <3> QED
        BY <3>1, <3>2, <3>3
    <2> HIDE DEF a, a2
    <2> QED
      BY <1>5, <2>1, <2>2, SameText
  <1> HIDE DEF u, s, a2, b, a
  <1>7. w = Within(a2, s, b)
    <2>1. w = Then(Then(a2, s), b)
      BY <1>4, <1>5
    <2> QED
      BY <1>4, <1>5, <2>1, Regroup DEF Within
  <1>8. Len(u) = Len(a2) + Len(s) /\ Len(s) \in Nat
    BY <1>5, Join, TextIsSequence
  <1>9. Len(a) + 1 = k /\ Len(a) + Len(s) = e
    BY <1>3, <1>4, <1>5, <1>6, <1>8
  <1>10. Parts(w, k, a, s, b)
    BY <1>4, <1>5, <1>6, <1>7, <1>9 DEF Parts, a, b, e, r, n
  <1> QED
    BY <1>10

(* The element that is cut out has the ends that it had. *)
LEMMA SubtreeEnds ==
    ASSUME NEW w, Nested(w), NEW k \in Elements(w),
           NEW a, NEW s, NEW b, Parts(w, k, a, s, b)
    PROVE  /\ EndsInside(s) /\ 1 \in Elements(s) /\ EndTag(s, 1) = Len(s)
           /\ \A i \in Elements(s) : EndTag(w, Len(a) + i) = Len(a) + EndTag(s, i)
  <1> DEFINE n == Len(a)
             l == Len(s)
             e == EndTag(w, k)
  <1>1. /\ IsText(a) /\ IsText(s) /\ IsText(b) /\ w = Within(a, s, b)
        /\ n + 1 = k /\ n + l = e
    BY DEF Parts
  <1>2. n \in Nat /\ l \in Nat /\ IsText(w) /\ Len(w) \in Nat
    <2>1. IsText(w)
      BY DEF Nested
    <2>2. IsText(a) /\ IsText(s)
      BY <1>1
    <2>3. Len(a) \in Nat /\ Len(s) \in Nat
      BY <2>2, TextIsSequence
    <2>4. Len(w) \in Nat
      BY <2>1, TextIsSequence
    <2> QED
      BY <2>1, <2>3, <2>4
  <1>3. \A i \in 1..l : w[n + i] = s[i]
    <2>1. IsText(a) /\ IsText(s) /\ IsText(b)
      BY <1>1
    <2>2. \A i \in 1..l : Within(a, s, b)[n + i] = s[i]
      BY <2>1, WithinIs
    <2> HIDE DEF n, l
    <2> QED
      BY <1>1, <2>2
  <1>4. n + l <= Len(w) /\ e # 0 /\ l >= 2
    <2>1. e \in Nat /\ k < e /\ e <= Len(w)
      BY NestedEnds
    <2> HIDE DEF e, n, l
    <2> QED
      BY <1>1, <1>2, <2>1
  <1> HIDE DEF n, l, e
  <1>5. \A i \in 1..l : n + i \in Elements(w) <=> i \in Elements(s)
    <2>1. \A i \in 1..l : n + i \in 1..Len(w)
      BY <1>2, <1>4
    <2>2. \A i \in 1..l : Opens(w, n + i) <=> Opens(s, i)
      BY <1>3 DEF Opens
    <2> QED
      BY <2>1, <2>2 DEF Elements, l
  <1>6. ASSUME NEW i \in Elements(s)
        PROVE  /\ EndTag(w, n + i) \in (n + i + 1)..(n + l)
               /\ EndTag(w, n + i) = n + EndTag(s, i)
               /\ EndTag(s, i) \in (i + 1)..l
    <2> DEFINE x == EndTag(w, n + i)
               q == i + 1
               d == 1
    <2>1. i \in 1..l /\ n + i \in Elements(w)
      BY <1>5, ElementsOf DEF l
    <2>2. x \in (n + i + 1)..(n + l)
      <3>1. CASE i = 1
        <4>1. n + i = k
          BY <1>1, <3>1
        <4>2. x = e
          BY <4>1 DEF e
        <4> HIDE DEF x
        <4> QED
          BY <1>1, <1>2, <1>4, <3>1, <4>2
      <3>2. CASE i # 1
        <4> DEFINE j == n + i
        <4>1. j \in Elements(w) /\ k < j
          BY <1>1, <1>2, <2>1, <3>2
        <4>2. j <= e
          BY <1>1, <1>2, <2>1
        <4>3. j # e
          <5>1. w[e] = Close(w[k].name)
            BY NestedEnds DEF e
          <5>2. w[e].kind # "open"
            BY <5>1 DEF Close
          <5> HIDE DEF j
          <5> QED
            BY <4>1, <5>2, ElementsOf
        <4> HIDE DEF j
        <4>4. j < e
          <5>1. j \in Nat /\ e \in Nat
            BY <1>1, <1>2, <4>1, ElementsOf
          <5> QED
            BY <4>2, <4>3, <5>1
        <4>5. EndTag(w, j) \in (j + 1)..(e - 1)
          BY <1>2, <1>4, <4>1, <4>4, InnerEnds DEF e
        <4>6. j = n + i
          BY DEF j
        <4>7. x \in (j + 1)..(e - 1)
          BY <4>5, <4>6
        <4> HIDE DEF x
        <4> QED
          BY <1>1, <1>2, <2>1, <4>6, <4>7
      <3> QED
        BY <3>1, <3>2
    <2>3. x = Scan(w)[n + q][d]
      <3>1. x = Scan(w)[n + i + 1][1]
        BY <1>2, <2>1, EndTagOfOpen
      <3>2. n + i + 1 = n + q
        BY <1>2, <2>1
      <3> QED
        BY <3>1, <3>2
    <2>4. q \in Nat \ {0} /\ d \in Nat /\ EndTag(s, i) = Scan(s)[q][d]
      <3>1. EndTag(s, i) = Scan(s)[i + 1][1]
        BY <1>2, EndTagOfOpen DEF l
      <3> QED
        BY <2>1, <3>1
    <2> DEFINE t == Then(s, b)
               y == Scan(t)[q][d]
    <2>5. IsText(t) /\ w = Then(a, t)
      BY <1>1, Join DEF Within
    <2> HIDE DEF q, d, x
    <2>6. x = Shifted(y, n)
      <3>1. Scan(Then(a, t))[n + q][d] = Shifted(Scan(t)[q][d], n)
        <4> HIDE DEF t
        <4> QED
          BY <1>1, <2>4, <2>5, ScanSuffix DEF n
      <3> QED
        BY <2>3, <2>5, <3>1
    <2>7. Scan(s)[q][d] = IF y <= l THEN y ELSE 0
      BY <1>1, <2>4, ScanCut DEF l
    <2>8. y = 0 \/ y \in q..Len(t)
      <3>1. Len(t) \in Nat /\ q \in Nat
        BY <2>4, <2>5, TextIsSequence
      <3> HIDE DEF t
      <3> QED
        BY <2>4, <3>1, ScanFindsEnds
    <2> HIDE DEF y
    <2>9. y = x - n /\ y # 0
      BY <1>2, <2>1, <2>2, <2>6, <2>8 DEF Shifted
    <2>10. y \in (i + 1)..l /\ x = n + y
      BY <1>2, <2>1, <2>2, <2>9
    <2>11. EndTag(s, i) = y
      BY <2>4, <2>7, <2>10
    <2> QED
      BY <2>2, <2>10, <2>11 DEF x
  <1>7. ASSUME NEW i \in Elements(s)
        PROVE  s[EndTag(s, i)] = Close(s[i].name)
    <2>1. i \in 1..l /\ n + i \in Elements(w)
      BY <1>5, ElementsOf DEF l
    <2>2. w[EndTag(w, n + i)] = Close(w[n + i].name)
      BY <2>1, NestedEnds
    <2>3. EndTag(s, i) \in 1..l /\ EndTag(w, n + i) = n + EndTag(s, i)
      <3>1. EndTag(s, i) \in (i + 1)..l /\ EndTag(w, n + i) = n + EndTag(s, i)
        BY <1>6
      <3> QED
        BY <1>2, <2>1, <3>1
    <2> QED
      BY <1>3, <2>1, <2>2, <2>3
  <1>8. ASSUME NEW x \in 1..l, IsEnd(s, x)
        PROVE  \E i \in Elements(s) : EndTag(s, i) = x
    <2> DEFINE z == n + x
    <2>1. z \in 1..Len(w) /\ w[z] = s[x]
      BY <1>2, <1>3, <1>4
    <2>2. IsEnd(w, z)
      BY <1>8, <2>1 DEF IsEnd
    <2>3. PICK j \in Elements(w) : EndTag(w, j) = z
      BY <2>1, <2>2 DEF Nested, EndsInside
    <2>4. j \in Nat /\ j < z /\ j <= Len(w) /\ j >= 1
      <3>1. EndTag(w, j) \in Nat /\ j < EndTag(w, j)
        BY NestedEnds
      <3>2. j \in 1..Len(w)
        BY ElementsOf
      <3> QED
        BY <1>2, <2>3, <3>1, <3>2
    <2>5. j >= k
      <3> SUFFICES ASSUME j < k
                   PROVE  FALSE
        BY <1>1, <1>2, <2>4
      <3>1. z <= e /\ z > n /\ k <= z
        BY <1>1, <1>2
      <3>2. z # k
        <4>1. w[k].kind = "open"
          BY ElementsOf
        <4> QED
          BY <2>2, <4>1 DEF IsEnd
      <3>3. k < z /\ EndTag(w, j) = z /\ z # 0
        BY <1>1, <1>2, <2>3, <3>1, <3>2
      <3>4. EndTag(w, k) \in (k + 1)..(z - 1)
        BY <1>2, <3>3, InnerEnds
      <3>5. e \in (k + 1)..(z - 1) /\ z \in Nat
        BY <1>2, <3>4 DEF e
      <3> HIDE DEF z
      <3> QED
        BY <1>1, <1>2, <3>1, <3>5
    <2> DEFINE i == j - n
    <2>6. i \in 1..l /\ n + i = j
      BY <1>1, <1>2, <2>4, <2>5
    <2> HIDE DEF i
    <2>7. i \in Elements(s)
      BY <1>5, <2>6
    <2>8. n + EndTag(s, i) = n + x /\ EndTag(s, i) \in (i + 1)..l
      BY <1>6, <2>3, <2>6, <2>7
    <2>9. EndTag(s, i) = x
      BY <1>2, <2>6, <2>8
    <2> QED
      BY <2>7, <2>9
  <1>9. 1 \in Elements(s) /\ EndTag(s, 1) = l
    <2>1. 1 \in 1..l /\ n + 1 \in Elements(w)
      BY <1>1, <1>2, <1>4
    <2>2. 1 \in Elements(s)
      BY <1>5, <2>1
    <2>3. EndTag(w, n + 1) = n + EndTag(s, 1) /\ EndTag(s, 1) \in (1 + 1)..l
      BY <1>6, <2>2
    <2>4. EndTag(w, n + 1) = e
      BY <1>1 DEF e
    <2> QED
      BY <1>1, <1>2, <2>2, <2>3, <2>4
  <1> QED
    BY <1>6, <1>7, <1>8, <1>9 DEF EndsInside, l, n

(* So it is nested by itself. *)
LEMMA SubtreeIsNested ==
    ASSUME NEW w, Nested(w), NEW k \in Elements(w),
           NEW a, NEW s, NEW b, Parts(w, k, a, s, b)
    PROVE  Nested(s)
  <1> DEFINE l == Len(s)
  <1>1. IsText(s)
    BY DEF Parts
  <1>2. EndsInside(s) /\ 1 \in Elements(s) /\ EndTag(s, 1) = l
    BY SubtreeEnds
  <1>3. l \in Nat
    BY <1>1, TextIsSequence
  <1>4. ASSUME NEW a2, IsText(a2), NEW b2, IsText(b2)
        PROVE  EndsMove(s, Within(a2, s, b2), Len(a2))
    <2> DEFINE t == Then(s, b2)
               u == Within(a2, s, b2)
               n == Len(a2)
    <2>1. IsText(t) /\ IsText(u) /\ u = Then(a2, t) /\ Len(u) \in Nat /\ Len(t) \in Nat
      <3>1. IsText(t)
        BY <1>1, <1>4, Join
      <3>2. IsText(u)
        BY <1>1, <1>4, WithinIs
      <3>3. Len(u) \in Nat /\ Len(t) \in Nat
        <4> HIDE DEF t, u
        <4> QED
          BY <3>1, <3>2, TextIsSequence
      <3> QED
        BY <3>1, <3>2, <3>3 DEF Within
    <2>2. n \in Nat
      BY <1>4, TextIsSequence
    <2>3. Len(u) = n + l + Len(b2) /\ \A i \in 1..l : u[n + i] = s[i]
      BY <1>1, <1>4, WithinIs
    <2>4. Len(b2) \in Nat
      BY <1>4, TextIsSequence
    <2>5. \A i \in 1..l : n + i \in Elements(u) <=> i \in Elements(s)
      <3> HIDE DEF u, n
      <3>1. \A i \in 1..l : n + i \in 1..Len(u)
        BY <1>3, <2>2, <2>3, <2>4
      <3>2. \A i \in 1..l : Opens(u, n + i) <=> Opens(s, i)
        BY <2>3 DEF Opens
      <3> QED
        BY <3>1, <3>2 DEF Elements
    <2>6. ASSUME NEW i \in Elements(s)
          PROVE  EndTag(u, n + i) = n + EndTag(s, i)
      <3> DEFINE q == i + 1
                 d == 1
                 x == EndTag(s, i)
                 y == Scan(t)[q][d]
      <3>1. i \in 1..l /\ n + i \in Elements(u) /\ x \in q..l
        BY <1>2, <2>5, ElementsOf DEF EndsInside
      <3>2. x = Scan(s)[q][d]
        BY <1>3, EndTagOfOpen
      <3>3. EndTag(u, n + i) = Scan(u)[n + q][d]
        <4> HIDE DEF u
        <4>1. EndTag(u, n + i) = Scan(u)[n + i + 1][1]
          BY <2>1, <3>1, EndTagOfOpen
        <4>2. n + i + 1 = n + q
          BY <2>2, <3>1
        <4> QED
          BY <4>1, <4>2
      <3>4. q \in Nat \ {0} /\ d \in Nat
        BY <1>3, <3>1
      <3> HIDE DEF q, d, x
      <3>5. Scan(s)[q][d] = IF y <= l THEN y ELSE 0
        BY <1>1, <1>4, <3>4, ScanCut
      <3>6. Scan(Then(a2, t))[n + q][d] = Shifted(y, n)
        <4> HIDE DEF t
        <4> QED
          BY <1>4, <2>1, <3>4, ScanSuffix
      <3>7. y = 0 \/ y \in q..Len(t)
        <4> HIDE DEF t
        <4>1. q \in Nat
          BY <3>4
        <4> QED
          BY <2>1, <3>4, <4>1, ScanFindsEnds
      <3> HIDE DEF y, u
      <3>8. y = x /\ x # 0
        BY <1>3, <3>1, <3>2, <3>4, <3>5, <3>7
      <3>9. EndTag(u, n + i) = Shifted(y, n)
        BY <2>1, <3>3, <3>6
      <3> QED
        BY <2>2, <3>1, <3>4, <3>8, <3>9 DEF Shifted, x
    <2>7. ASSUME NEW d \in Nat \ {0}
          PROVE  Scan(u)[n + 1][d] = Scan(u)[n + Len(s) + 1][d]
      <3> DEFINE j == n + 1
                 q == n + 1 + 1
                 one == 1
      <3> HIDE DEF u
      <3>1. 1 \in 1..l /\ j \in Elements(u)
        BY <1>2, <2>5, ElementsOf
      <3>2. EndTag(u, j) = n + l
        BY <1>2, <2>6
      <3>3. /\ j \in 1..Len(u) /\ j \in Nat /\ q \in Nat \ {0} /\ q = j + 1
            /\ u[j].kind = "open" /\ d \in Nat
        BY <2>2, <3>1, ElementsOf
      <3>4. one \in Nat \ {0} /\ one + d = d + 1
        OBVIOUS
      <3>5. Scan(u)[q][one] = n + l
        BY <2>1, <3>1, <3>2, <3>3, EndTagOfOpen
      <3> HIDE DEF j, q, one
      <3>6. Deepens(Scan(u), j, d)
        <4>1. j <= Len(u)
          BY <3>3
        <4> QED
          BY <2>1, <3>3, <4>1, ScanOpen
      <3>7. Scan(u)[j][d] = Scan(u)[q][one + d]
        BY <3>3, <3>4, <3>6 DEF Deepens
      <3>8. Splits(Scan(u), q, one, d)
        BY <2>1, <3>3, <3>4, ScanSplits
      <3>9. n + l # 0
        BY <1>3, <2>2, <3>1
      <3>10. Scan(u)[q][one + d] = Scan(u)[n + l + 1][d]
        BY <3>5, <3>8, <3>9 DEF Splits
      <3> QED
        BY <3>7, <3>10 DEF j
    <2> QED
      BY <2>6, <2>7 DEF EndsMove
  <1> QED
    BY <1>1, <1>2, <1>4 DEF Nested

(* A text whose elements end within it has these ends anywhere. *)
LEMMA EndsStay ==
    ASSUME NEW s, IsText(s), EndsInside(s), NEW a, IsText(a), NEW b, IsText(b),
           NEW i \in Elements(s)
    PROVE  EndTag(Within(a, s, b), Len(a) + i) = Len(a) + EndTag(s, i)
  <1> DEFINE t == Then(s, b)
             u == Within(a, s, b)
             n == Len(a)
             l == Len(s)
             q == i + 1
             d == 1
             x == EndTag(s, i)
             y == Scan(t)[q][d]
  <1>1. IsText(t) /\ IsText(u) /\ u = Then(a, t) /\ Len(u) \in Nat /\ Len(t) \in Nat
    <2>1. IsText(t)
      BY Join
    <2>2. IsText(u)
      BY WithinIs
    <2>3. Len(u) \in Nat /\ Len(t) \in Nat
      <3> HIDE DEF t, u
      <3> QED
        BY <2>1, <2>2, TextIsSequence
    <2> QED
      BY <2>1, <2>2, <2>3 DEF Within
  <1>2. n \in Nat /\ l \in Nat
    BY TextIsSequence
  <1>3. Len(u) = n + l + Len(b) /\ \A k \in 1..l : u[n + k] = s[k]
    BY WithinIs
  <1>4. Len(b) \in Nat
    BY TextIsSequence
  <1>5. i \in 1..l /\ n + i \in Elements(u) /\ x \in q..l
    <2>1. i \in 1..l /\ s[i].kind = "open"
      BY ElementsOf
    <2>2. n + i \in 1..Len(u) /\ u[n + i] = s[i]
      <3> HIDE DEF u, n
      <3> QED
        BY <1>2, <1>3, <1>4, <2>1
    <2>3. x \in q..l
      BY DEF EndsInside
    <2> HIDE DEF u
    <2>4. n + i \in Elements(u)
      BY <2>1, <2>2, ElementsOf
    <2> QED
      BY <2>1, <2>3, <2>4
  <1>6. x = Scan(s)[q][d]
    BY <1>2, EndTagOfOpen
  <1>7. EndTag(u, n + i) = Scan(u)[n + q][d]
    <2> HIDE DEF u
    <2>1. EndTag(u, n + i) = Scan(u)[n + i + 1][1]
      BY <1>1, <1>5, EndTagOfOpen
    <2>2. n + i + 1 = n + q
      BY <1>2, <1>5
    <2> QED
      BY <2>1, <2>2
  <1>8. q \in Nat \ {0} /\ d \in Nat
    BY <1>2, <1>5
  <1> HIDE DEF q, d, x
  <1>9. Scan(s)[q][d] = IF y <= l THEN y ELSE 0
    BY <1>8, ScanCut
  <1>10. Scan(Then(a, t))[n + q][d] = Shifted(y, n)
    <2> HIDE DEF t
    <2> QED
      BY <1>1, <1>8, ScanSuffix
  <1>11. y = 0 \/ y \in q..Len(t)
    <2> HIDE DEF t
    <2>1. q \in Nat
      BY <1>8
    <2> QED
      BY <1>1, <1>8, <2>1, ScanFindsEnds
  <1> HIDE DEF y, u, l
  <1>12. y = x /\ x # 0
    BY <1>2, <1>5, <1>6, <1>8, <1>9, <1>11
  <1>13. EndTag(u, n + i) = Shifted(y, n)
    BY <1>1, <1>7, <1>10
  <1> QED
    BY <1>2, <1>5, <1>8, <1>12, <1>13 DEF Shifted, x, u, n

(* Where a token was before the element was taken out. *)
Before(j, n, l) == IF j <= n THEN j ELSE j + l

(* What is left has the ends that it had. *)
LEMMA EndsWithout ==
    ASSUME NEW w, Nested(w), NEW k \in Elements(w),
           NEW a, NEW s, NEW b, Parts(w, k, a, s, b), NEW t, t = Then(a, b)
    PROVE  /\ IsText(t) /\ Len(t) = Len(a) + Len(b)
           /\ \A j \in 1..Len(t) :
                 /\ Before(j, Len(a), Len(s)) \in 1..Len(w)
                 /\ t[j] = w[Before(j, Len(a), Len(s))]
                 /\ j \in Elements(t) <=> Before(j, Len(a), Len(s)) \in Elements(w)
           /\ \A j \in Elements(t) :
                 /\ EndTag(t, j) \in (j + 1)..Len(t)
                 /\ EndTag(w, Before(j, Len(a), Len(s)))
                      = Before(EndTag(t, j), Len(a), Len(s))
  <1> DEFINE n == Len(a)
             l == Len(s)
  <1>1. /\ IsText(a) /\ IsText(s) /\ IsText(b) /\ w = Within(a, s, b)
        /\ IsText(w) /\ Nested(s)
    BY SubtreeIsNested DEF Parts, Nested
  <1>2. n \in Nat /\ l \in Nat /\ Len(b) \in Nat /\ Len(w) \in Nat
    BY <1>1, TextIsSequence
  <1>3. IsText(t) /\ Len(t) = n + Len(b)
    BY <1>1, Join
  <1>4. /\ Len(Within(a, s, b)) = n + l + Len(b)
        /\ \A i \in 1..n : Within(a, s, b)[i] = a[i]
        /\ \A i \in 1..Len(b) : Within(a, s, b)[n + l + i] = b[i]
    <2>1. IsText(a) /\ IsText(s) /\ IsText(b)
      BY <1>1
    <2> QED
      BY <2>1, WithinIs
  <1>5. ASSUME NEW j \in 1..Len(t)
        PROVE  /\ Before(j, n, l) \in 1..Len(w) /\ t[j] = w[Before(j, n, l)]
    <2>1. Len(w) = n + l + Len(b)
      BY <1>1, <1>4
    <2>2. CASE j <= n
      <3>1. j \in 1..n
        BY <1>2, <1>3, <2>2
      <3>2. t[j] = a[j]
        BY <1>1, <3>1, JoinFirst DEF n
      <3>3. Within(a, s, b)[j] = a[j]
        BY <1>4, <3>1
      <3>4. Before(j, n, l) = j
        BY <2>2 DEF Before
      <3> HIDE DEF n, l
      <3> QED
        BY <1>1, <1>2, <2>1, <3>1, <3>2, <3>3, <3>4
    <2>3. CASE ~ j <= n
      <3> DEFINE i == j - n
      <3>1. i \in 1..Len(b) /\ n + i = j /\ n + l + i = j + l
        BY <1>2, <1>3, <2>3
      <3> HIDE DEF i
      <3>2. t[n + i] = b[i]
        BY <1>1, <3>1, JoinSecond DEF n
      <3>3. Within(a, s, b)[n + l + i] = b[i]
        BY <1>4, <3>1
      <3>4. Before(j, n, l) = j + l
        BY <2>3 DEF Before
      <3> HIDE DEF n, l
      <3> QED
        BY <1>1, <1>2, <2>1, <3>1, <3>2, <3>3, <3>4
    <2> QED
      BY <2>2, <2>3
  <1> HIDE DEF n, l
  <1>6. \A j \in 1..Len(t) : j \in Elements(t) <=> Before(j, n, l) \in Elements(w)
    BY <1>5, ElementsOf
  <1>7. ASSUME NEW j \in Elements(t)
        PROVE  /\ EndTag(t, j) \in (j + 1)..Len(t)
               /\ EndTag(w, Before(j, n, l)) = Before(EndTag(t, j), n, l)
    <2> DEFINE m == Before(j, n, l)
               q == j + 1
               d == 1
               e == EndTag(t, j)
    <2>1. j \in 1..Len(t) /\ m \in Elements(w)
      BY <1>6, ElementsOf
    <2>2. e = Scan(t)[q][d] /\ (e = 0 \/ e \in q..Len(t))
      <3>1. Len(t) \in Nat
        BY <1>2, <1>3
      <3>2. e = Scan(t)[j + 1][1] /\ (e = 0 \/ e \in (j + 1)..Len(t))
        BY <3>1, EndTagOfOpen
      <3> QED
        BY <3>2
    <2>3. EndTag(w, m) = Scan(w)[m + 1][1] /\ EndTag(w, m) \in Nat /\ EndTag(w, m) > m
      <3> HIDE DEF m
      <3>1. EndTag(w, m) = Scan(w)[m + 1][1]
        BY <1>2, <2>1, EndTagOfOpen
      <3>2. EndTag(w, m) \in Nat /\ m < EndTag(w, m) /\ m \in Nat
        BY <2>1, NestedEnds, ElementsOf
      <3> QED
        BY <3>1, <3>2
    <2>4. CASE j <= n
      <3>1. m = j
        BY <2>4 DEF Before
      <3>2. q \in 1..(n + 1) /\ d \in Nat \ {0}
        BY <1>2, <2>1, <2>4
      <3>3. EndTag(w, j) = Scan(w)[q][d]
        BY <2>3, <3>1
      <3> HIDE DEF q, d, e, m
      <3>4. Scan(Within(a, s, b))[q][d]
              = LET x == Scan(Then(a, b))[q][d] IN IF x <= n THEN x ELSE x + l
        BY <1>1, <3>2, ScanInserted DEF n, l
      <3>5. EndTag(w, j) = IF e <= n THEN e ELSE e + l
        BY <1>1, <2>2, <3>3, <3>4
      <3>6. e # 0
        BY <1>2, <2>1, <2>3, <3>1, <3>5
      <3> QED
        BY <2>2, <3>1, <3>5, <3>6 DEF Before, q, e, m
    <2>5. CASE ~ j <= n
      <3> DEFINE i == q - n
                 c == n + l
      <3>1. i \in Nat \ {0} /\ n + i = q /\ c + i = m + 1 /\ d \in Nat
        BY <1>2, <1>3, <2>1, <2>5 DEF Before
      <3>2. EndTag(w, m) = Scan(w)[c + i][d]
        BY <2>3, <3>1
      <3> HIDE DEF i, d, q, e, m
      <3>3. Scan(Then(a, b))[n + i][d] = Shifted(Scan(b)[i][d], n)
        BY <1>1, <3>1, ScanSuffix DEF n
      <3>4. w = Then(Then(a, s), b) /\ IsText(Then(a, s)) /\ Len(Then(a, s)) = c
        <4>1. Then(Then(a, s), b) = Then(a, Then(s, b))
          BY <1>1, Regroup
        <4>2. IsText(Then(a, s)) /\ Len(Then(a, s)) = Len(a) + Len(s)
          BY <1>1, Join
        <4> QED
          BY <1>1, <4>1, <4>2 DEF Within, n, l
      <3>5. Scan(Then(Then(a, s), b))[Len(Then(a, s)) + i][d]
              = Shifted(Scan(b)[i][d], Len(Then(a, s)))
        BY <1>1, <3>1, <3>4, ScanSuffix
      <3>6. Scan(w)[c + i][d] = Shifted(Scan(b)[i][d], c)
        BY <3>4, <3>5
      <3>7. e = Shifted(Scan(b)[i][d], n) /\ EndTag(w, m) = Shifted(Scan(b)[i][d], c)
        BY <2>2, <3>1, <3>2, <3>3, <3>6
      <3> DEFINE z == Scan(b)[i][d]
      <3>8. z # 0
        BY <1>2, <2>1, <2>3, <3>7, ElementsOf DEF Shifted
      <3>9. e = z + n /\ EndTag(w, m) = z + (n + l)
        BY <3>7, <3>8 DEF Shifted
      <3>10. z = 0 \/ z \in i..Len(b)
        BY <1>1, <1>2, <3>1, ScanFindsEnds
      <3> HIDE DEF z
      <3>11. z \in Nat /\ z # 0
        BY <1>2, <3>1, <3>8, <3>10
      <3>12. e # 0 /\ ~ e <= n
        BY <1>2, <3>9, <3>11
      <3>13. EndTag(w, m) = e + l
        BY <1>2, <3>9, <3>11
      <3> QED
        BY <2>2, <3>12, <3>13 DEF Before, q, e, m
    <2> QED
      BY <2>4, <2>5
  <1> QED
    BY <1>3, <1>5, <1>6, <1>7 DEF n, l

(* So it is nested too: a document that loses an element stays one. *)
LEMMA NestedWithout ==
    ASSUME NEW w, Nested(w), NEW k \in Elements(w),
           NEW a, NEW s, NEW b, Parts(w, k, a, s, b), NEW t, t = Then(a, b)
    PROVE  Nested(t)
  <1> DEFINE n == Len(a)
             l == Len(s)
             at(j) == Before(j, n, l)
  <1>1. /\ IsText(a) /\ IsText(s) /\ IsText(b) /\ w = Within(a, s, b)
        /\ IsText(w) /\ Nested(s)
    BY SubtreeIsNested DEF Parts, Nested
  <1>2. n \in Nat /\ l \in Nat /\ Len(b) \in Nat /\ Len(w) \in Nat
    BY <1>1, TextIsSequence
  <1>3. /\ IsText(t) /\ Len(t) = n + Len(b)
        /\ \A j \in 1..Len(t) :
              /\ at(j) \in 1..Len(w) /\ t[j] = w[at(j)]
              /\ j \in Elements(t) <=> at(j) \in Elements(w)
        /\ \A j \in Elements(t) :
              /\ EndTag(t, j) \in (j + 1)..Len(t)
              /\ EndTag(w, at(j)) = at(EndTag(t, j))
    BY EndsWithout
  <1>4. \A i \in Elements(s) : EndTag(w, n + i) = n + EndTag(s, i) /\ EndTag(s, i) <= l
    <2>1. \A i \in Elements(s) : EndTag(w, n + i) = n + EndTag(s, i)
      BY SubtreeEnds
    <2>2. \A i \in Elements(s) : EndTag(s, i) <= l
      BY <1>1, NestedEnds
    <2> QED
      BY <2>1, <2>2
  <1>5. Len(w) = n + l + Len(b) /\ \A i \in 1..l : w[n + i] = s[i]
    <2>1. IsText(a) /\ IsText(s) /\ IsText(b)
      BY <1>1
    <2>2. /\ Len(Within(a, s, b)) = n + l + Len(b)
          /\ \A i \in 1..l : Within(a, s, b)[n + i] = s[i]
      BY <2>1, WithinIs
    <2> QED
      BY <1>1, <2>2
  <1> HIDE DEF n, l
  <1>6. EndsInside(t)
    <2>1. ASSUME NEW j \in Elements(t)
          PROVE  t[EndTag(t, j)] = Close(t[j].name)
      <3>1. /\ j \in 1..Len(t) /\ at(j) \in Elements(w) /\ t[j] = w[at(j)]
            /\ EndTag(t, j) \in 1..Len(t)
        BY <1>2, <1>3, ElementsOf
      <3>2. t[EndTag(t, j)] = w[at(EndTag(t, j))]
        BY <1>3, <3>1
      <3> HIDE DEF at
      <3>3. w[EndTag(w, at(j))] = Close(w[at(j)].name)
        BY <3>1, NestedEnds
      <3> QED
        BY <1>3, <3>1, <3>2, <3>3
    <2>2. ASSUME NEW e \in 1..Len(t), IsEnd(t, e)
          PROVE  \E j \in Elements(t) : EndTag(t, j) = e
      <3>1. at(e) \in 1..Len(w) /\ t[e] = w[at(e)]
        BY <1>3
      <3>2. IsEnd(w, at(e))
        BY <2>2, <3>1 DEF IsEnd
      <3>3. PICK i \in Elements(w) : EndTag(w, i) = at(e)
        BY <3>1, <3>2 DEF Nested, EndsInside
      <3>4. i \in 1..Len(w) /\ w[i].kind = "open" /\ i < at(e)
        BY <3>3, NestedEnds, ElementsOf
      <3>5. ~ (n < i /\ i <= n + l)
        <4> SUFFICES ASSUME n < i, i <= n + l PROVE FALSE
          OBVIOUS
        <4> DEFINE x == i - n
        <4>1. x \in 1..l /\ n + x = i
          BY <1>2, <3>4
        <4> HIDE DEF x
        <4>2. x \in Elements(s)
          BY <1>5, <3>4, <4>1, ElementsOf DEF l
        <4>3. at(e) = n + EndTag(s, x) /\ EndTag(s, x) <= l
          BY <1>4, <3>3, <4>1, <4>2
        <4>4. at(e) <= n + l /\ i < at(e)
          <5>1. EndTag(s, x) \in Nat
            BY <1>1, <4>2, NestedEnds
          <5> HIDE DEF at
          <5> QED
            BY <1>2, <3>4, <4>3, <5>1
        <4>5. e \in Nat /\ i \in Nat
          BY <1>2, <1>3, <3>4
        <4> QED
          BY <1>2, <4>4, <4>5 DEF Before
      <3> DEFINE j == IF i <= n THEN i ELSE i - l
      <3>6. j \in 1..Len(t) /\ at(j) = i
        BY <1>2, <1>3, <1>5, <3>4, <3>5 DEF Before
      <3> HIDE DEF j
      <3>7. j \in Elements(t)
        BY <1>3, <3>6
      <3>8. at(EndTag(t, j)) = at(e) /\ EndTag(t, j) \in Nat
        BY <1>2, <1>3, <3>3, <3>6, <3>7
      <3>9. EndTag(t, j) = e
        BY <1>2, <3>8 DEF Before
      <3> QED
        BY <3>7, <3>9
    <2> QED
      BY <1>3, <2>1, <2>2 DEF EndsInside
  <1>7. ASSUME NEW a2, IsText(a2), NEW b2, IsText(b2)
        PROVE  EndsMove(t, Within(a2, t, b2), Len(a2))
    <2> DEFINE u == Within(a2, t, b2)
               n2 == Len(a2)
               h == Then(a2, a)
               r == Then(b, b2)
               all == Within(a2, w, b2)
    <2>1. \A i \in Elements(t) : EndTag(u, n2 + i) = n2 + EndTag(t, i)
      BY <1>3, <1>6, <1>7, EndsStay
    <2>2. /\ IsText(h) /\ Len(h) = n2 + n /\ IsText(r) /\ n2 \in Nat
          /\ u = Then(h, r) /\ all = Within(h, s, r)
      <3>1. IsText(h) /\ Len(h) = n2 + n /\ IsText(r)
        BY <1>1, <1>7, Join DEF n
      <3>2. n2 \in Nat
        BY <1>7, TextIsSequence
      <3>3. Then(a2, Then(Then(a, b), b2)) = Then(Then(a2, a), Then(b, b2))
        <4>1. Then(Then(a, b), b2) = Then(a, Then(b, b2))
          BY <1>1, <1>7, Regroup
        <4>2. Then(a2, Then(a, r)) = Then(Then(a2, a), r)
          BY <1>1, <1>7, <3>1, Regroup
        <4> QED
          BY <4>1, <4>2
      <3>4. u = Then(h, r)
        BY <3>3 DEF Within
      <3>5. all = Within(h, s, r)
        <4>1. IsText(Then(s, b))
          BY <1>1, Join
        <4>2. Then(Then(a, Then(s, b)), b2) = Then(a, Then(Then(s, b), b2))
          BY <1>1, <1>7, <4>1, Regroup
        <4>3. Then(Then(s, b), b2) = Then(s, r)
          BY <1>1, <1>7, Regroup
        <4>4. IsText(Then(s, r))
          BY <1>1, <3>1, Join
        <4>5. Then(a2, Then(a, Then(s, r))) = Then(h, Then(s, r))
          BY <1>1, <1>7, <4>4, Regroup
        <4> QED
          BY <1>1, <4>2, <4>3, <4>5 DEF Within
      <3> QED
        BY <3>1, <3>2, <3>4, <3>5
    <2>3. ASSUME NEW d \in Nat \ {0}
          PROVE  Scan(u)[n2 + 1][d] = Scan(u)[n2 + Len(t) + 1][d]
      <3> DEFINE e == Scan(u)[n2 + 1][d]
                 one == 1
                 z == Scan(b2)[one][d]
                 j == n2 + 1
                 c == n2 + Len(w)
                 c2 == n2 + Len(t)
      <3>1. Scan(all)[n2 + 1][d] = Scan(all)[n2 + Len(w) + 1][d]
        <4>1. EndsMove(w, Within(a2, w, b2), Len(a2))
          BY <1>7, NestedMoves
        <4> QED
          BY <4>1 DEF EndsMove
      <3>2. j \in 1..(Len(h) + 1) /\ j \in Nat /\ one \in Nat \ {0} /\ d \in Nat
        BY <1>2, <2>2
      <3>3. all = Then(Then(a2, w), b2) /\ IsText(Then(a2, w)) /\ Len(Then(a2, w)) = c
        <4>1. Then(Then(a2, w), b2) = Then(a2, Then(w, b2))
          BY <1>1, <1>7, Regroup
        <4>2. IsText(Then(a2, w)) /\ Len(Then(a2, w)) = n2 + Len(w)
          BY <1>1, <1>7, Join
        <4> QED
          BY <4>1, <4>2 DEF Within
      <3>4. u = Then(Then(a2, t), b2) /\ IsText(Then(a2, t)) /\ Len(Then(a2, t)) = c2
        <4>1. Then(Then(a2, t), b2) = Then(a2, Then(t, b2))
          BY <1>3, <1>7, Regroup
        <4>2. IsText(Then(a2, t)) /\ Len(Then(a2, t)) = n2 + Len(t)
          BY <1>3, <1>7, Join
        <4> QED
          BY <4>1, <4>2 DEF Within
      <3> HIDE DEF one, j, h, r, all, u, c, c2
      <3>5. Scan(Within(h, s, r))[j][d]
              = LET x == Scan(Then(h, r))[j][d]
                IN  IF x <= Len(h) THEN x ELSE x + Len(s)
        BY <1>1, <2>2, <3>2, ScanInserted
      <3>6. /\ Scan(Then(Then(a2, w), b2))[Len(Then(a2, w)) + one][d]
                 = Shifted(z, Len(Then(a2, w)))
            /\ Scan(Then(Then(a2, t), b2))[Len(Then(a2, t)) + one][d]
                 = Shifted(z, Len(Then(a2, t)))
        <4>1. ASSUME NEW o, IsText(o)
              PROVE  Scan(Then(o, b2))[Len(o) + one][d] = Shifted(z, Len(o))
          BY <1>7, <3>2, <4>1, ScanSuffix
        <4>2. IsText(Then(a2, w)) /\ IsText(Then(a2, t))
          BY <3>3, <3>4
        <4> QED
          BY <4>1, <4>2, Zenon
      <3>7. Scan(all)[c + one][d] = Shifted(z, c) /\ Scan(u)[c2 + one][d] = Shifted(z, c2)
        BY <3>3, <3>4, <3>6
      <3>8. /\ Scan(all)[j][d] = Shifted(z, c)
            /\ Scan(all)[j][d] = IF e <= n2 + n THEN e ELSE e + l
        <4>1. Scan(all)[j][d] = Scan(all)[c + one][d]
          BY <3>1 DEF j, c, one
        <4>2. e = Scan(Then(h, r))[j][d]
          BY <2>2 DEF j
        <4>3. Scan(all)[j][d] = IF e <= n2 + n THEN e ELSE e + l
          BY <2>2, <3>5, <4>2 DEF l
        <4> QED
          BY <3>7, <4>1, <4>3
      <3>9. /\ e = 0 \/ e \in j..Len(u)
            /\ z = 0 \/ z \in one..Len(b2)
            /\ Len(u) \in Nat /\ Len(b2) \in Nat
        <4>1. Len(b2) \in Nat /\ IsText(u)
          BY <1>7, <2>2, Join, TextIsSequence
        <4>2. Len(u) \in Nat
          BY <4>1, TextIsSequence
        <4>3. e = 0 \/ e \in j..Len(u)
          BY <3>2, <4>2, ScanFindsEnds DEF j
        <4>4. z = 0 \/ z \in one..Len(b2)
          BY <3>2, <4>1, ScanFindsEnds
        <4> QED
          BY <4>1, <4>2, <4>3, <4>4
      <3> HIDE DEF e, z, n2
      <3>10. e \in Nat /\ z \in Nat
        BY <2>2, <3>2, <3>9
      <3>11. c = c2 + l /\ c2 \in Nat /\ c2 >= n2 + n
        BY <1>2, <1>3, <1>5, <2>2 DEF c, c2
      <3>12. e = Shifted(z, c2)
        BY <1>2, <2>2, <3>8, <3>10, <3>11 DEF Shifted
      <3> QED
        BY <3>7, <3>12 DEF e, c2, one
    <2> QED
      BY <2>1, <2>3 DEF EndsMove
  <1> QED
    BY <1>3, <1>6, <1>7 DEF Nested

-----------------------------------------------------------------------------
(***************************************************************************)
(* Where tags end depends on the kinds of tokens only.                     *)
(***************************************************************************)
(* Texts whose tokens are of the same kinds. *)
SameKinds(t, w) ==
    /\ IsText(t) /\ IsText(w) /\ Len(t) = Len(w)
    /\ \A j \in 1..Len(w) : t[j].kind = w[j].kind

(* A count looks at kinds only, *)
LEMMA KindsScan ==
    ASSUME NEW t, NEW w, SameKinds(t, w), NEW j \in Nat \ {0}, NEW d \in Nat
    PROVE  Scan(t)[j][d] = Scan(w)[j][d]
  <1> DEFINE l == Len(w)
             Same(i, e) == Scan(t)[i][e] = Scan(w)[i][e]
             S == {n \in Nat : \A i \in Nat \ {0}, e \in Nat : i + n > l => Same(i, e)}
  <1>1. /\ l \in Nat /\ Len(t) = l
        /\ \A i \in 1..l : t[i].kind = w[i].kind
    BY TextIsSequence DEF SameKinds
  <1>2. ASSUME NEW i \in Nat \ {0}, NEW e \in Nat, i > l
        PROVE  Same(i, e)
    <2>1. Scan(t)[i][e] = 0 /\ Scan(w)[i][e] = 0
      BY <1>1, <1>2, ScanPast
    <2> QED
      BY <2>1
  <1>3. 0 \in S
    BY <1>2
  <1>4. ASSUME NEW n \in Nat, n \in S
        PROVE  n + 1 \in S
    <2> HIDE DEF Same
    <2> SUFFICES ASSUME NEW i \in Nat \ {0}, NEW e \in Nat, i + (n + 1) > l
                 PROVE  Same(i, e)
      OBVIOUS
    <2> SUFFICES ASSUME i <= l
                 PROVE  Same(i, e)
      BY <1>2
    <2>1. i + 1 \in Nat \ {0} /\ (i + 1) + n > l
      BY <1>1
    <2>2. \A e2 \in Nat : Same(i + 1, e2)
      BY <1>4, <2>1
    <2>3. ~ i > Len(t) /\ ~ i > Len(w)
      BY <1>1
    <2>4. /\ Scan(t)[i][e] = ScanStep(Scan(t), t, i, e)
          /\ Scan(w)[i][e] = ScanStep(Scan(w), w, i, e)
      BY ScanIs
    <2>5. e + 1 \in Nat /\ (~ e <= 1 => e - 1 \in Nat)
      OBVIOUS
    <2>6. /\ Scan(t)[i + 1][e] = Scan(w)[i + 1][e]
          /\ Scan(t)[i + 1][e + 1] = Scan(w)[i + 1][e + 1]
          /\ ~ e <= 1 => Scan(t)[i + 1][e - 1] = Scan(w)[i + 1][e - 1]
      BY <2>2, <2>5 DEF Same
    <2>7. t[i].kind = w[i].kind
      BY <1>1
    <2> QED
      BY <2>3, <2>4, <2>6, <2>7 DEF ScanStep, Same
  <1> HIDE DEF S
  <1>5. \A n \in Nat : n \in S
    BY <1>3, <1>4, Induct!Induction
  <1>6. l + 1 \in Nat /\ j + (l + 1) > l
    BY <1>1
  <1>7. Same(j, d)
    <2> HIDE DEF Same
    <2> QED
      BY <1>5, <1>6 DEF S
  <1> QED
    BY <1>7

(* Texts which differ in Ids, attributes and pieces of text only. *)
SameShape(t, w) ==
    /\ SameKinds(t, w)
    /\ \A j \in 1..Len(w) :
          /\ w[j].kind = "open" => t[j].name = w[j].name /\ t[j].ns = w[j].ns
          /\ w[j].kind \notin {"text", "open"} => t[j] = w[j]

(* so elements of the same shape are the same, *)
LEMMA ShapeEnds ==
    ASSUME NEW t, NEW w, SameKinds(t, w)
    PROVE  /\ Elements(t) = Elements(w)
           /\ \A k \in Elements(w) : EndTag(t, k) = EndTag(w, k)
           /\ \A k : Around(t, k) = Around(w, k)
  <1>1. /\ Len(w) \in Nat /\ Len(t) = Len(w)
        /\ \A i \in 1..Len(w) : t[i].kind = w[i].kind
    BY TextIsSequence DEF SameKinds
  <1>2. Elements(t) = Elements(w)
    BY <1>1 DEF Elements, Opens
  <1>3. ASSUME NEW k \in Elements(w)
        PROVE  EndTag(t, k) = EndTag(w, k)
    <2> DEFINE q == k + 1
               d == 1
    <2>1. EndTag(w, k) = Scan(w)[q][d]
      BY <1>1, EndTagOfOpen
    <2>2. EndTag(t, k) = Scan(t)[q][d]
      BY <1>1, <1>2, EndTagOfOpen
    <2>3. q \in Nat \ {0} /\ d \in Nat
      BY ElementsOf
    <2> HIDE DEF q, d
    <2> QED
      BY <2>1, <2>2, <2>3, KindsScan
  <1>4. ASSUME NEW k
        PROVE  Around(t, k) = Around(w, k)
    BY <1>2, <1>3 DEF Around
  <1> QED
    BY <1>2, <1>3, <1>4

(* and what has the shape of a nested text is nested. *)
LEMMA NestedShape ==
    ASSUME NEW w, Nested(w), NEW t, SameShape(t, w)
    PROVE  Nested(t)
  <1>1. /\ SameKinds(t, w) /\ IsText(t) /\ IsText(w) /\ Len(t) = Len(w)
        /\ Len(w) \in Nat
        /\ \A j \in 1..Len(w) :
              /\ t[j].kind = w[j].kind
              /\ w[j].kind = "open" => t[j].name = w[j].name
              /\ w[j].kind \notin {"text", "open"} => t[j] = w[j]
    BY TextIsSequence DEF SameShape, SameKinds
  <1>2. /\ Elements(t) = Elements(w)
        /\ \A k \in Elements(w) : EndTag(t, k) = EndTag(w, k)
    BY <1>1, ShapeEnds
  <1>3. EndsInside(t)
    <2>1. ASSUME NEW k \in Elements(t)
          PROVE  /\ EndTag(t, k) \in (k + 1)..Len(t)
                 /\ t[EndTag(t, k)] = Close(t[k].name)
      <3>1. /\ EndTag(w, k) \in Nat /\ k < EndTag(w, k) /\ EndTag(w, k) <= Len(w)
            /\ w[EndTag(w, k)] = Close(w[k].name)
        BY <1>2, NestedEnds
      <3>2. k \in 1..Len(w) /\ w[k].kind = "open"
        BY <1>2, ElementsOf
      <3>3. EndTag(w, k) \in 1..Len(w) /\ w[EndTag(w, k)].kind \notin {"text", "open"}
        BY <1>1, <3>1, <3>2 DEF Close
      <3>4. t[EndTag(w, k)] = w[EndTag(w, k)] /\ t[k].name = w[k].name
        BY <1>1, <3>2, <3>3
      <3> QED
        BY <1>1, <1>2, <3>1, <3>2, <3>4
    <2>2. ASSUME NEW e \in 1..Len(t), IsEnd(t, e)
          PROVE  \E k \in Elements(t) : EndTag(t, k) = e
      <3>1. e \in 1..Len(w) /\ IsEnd(w, e)
        BY <1>1, <2>2 DEF IsEnd
      <3> QED
        BY <1>2, <3>1 DEF Nested, EndsInside
    <2> QED
      BY <2>1, <2>2 DEF EndsInside
  <1>4. ASSUME NEW a, IsText(a), NEW b, IsText(b)
        PROVE  EndsMove(t, Within(a, t, b), Len(a))
    <2> DEFINE u == Within(a, t, b)
               v == Within(a, w, b)
               n == Len(a)
               l == Len(w)
               m == Len(b)
    <2>1. EndsMove(w, v, n)
      BY <1>4, NestedMoves
    <2>2. n \in Nat /\ l \in Nat /\ m \in Nat
      BY <1>1, <1>4, TextIsSequence
    <2>3. IsText(a) /\ IsText(t) /\ IsText(w) /\ IsText(b)
      BY <1>1, <1>4
    <2>4. /\ IsText(u) /\ Len(u) = n + Len(t) + m
          /\ \A i \in 1..n : u[i] = a[i]
          /\ \A i \in 1..Len(t) : u[n + i] = t[i]
          /\ \A i \in 1..m : u[n + Len(t) + i] = b[i]
      BY <2>3, WithinIs
    <2>5. /\ IsText(v) /\ Len(v) = n + l + m
          /\ \A i \in 1..n : v[i] = a[i]
          /\ \A i \in 1..l : v[n + i] = w[i]
          /\ \A i \in 1..m : v[n + l + i] = b[i]
      BY <2>3, WithinIs
    <2> HIDE DEF u, v, n, m
    <2>6. SameKinds(u, v)
      <3>1. ASSUME NEW j \in 1..Len(v)
            PROVE  u[j].kind = v[j].kind
        <4>1. CASE j <= n
          BY <2>2, <2>4, <2>5, <4>1
        <4>2. CASE n < j /\ j <= n + l
          <5> DEFINE i == j - n
          <5>1. i \in 1..l /\ n + i = j
            BY <2>2, <2>5, <4>2
          <5> HIDE DEF i
          <5>2. u[j] = t[i] /\ v[j] = w[i]
            BY <1>1, <2>4, <2>5, <5>1
          <5> QED
            BY <1>1, <5>1, <5>2
        <4>3. CASE n + l < j
          <5> DEFINE i == j - n - l
          <5>1. i \in 1..m /\ n + l + i = j
            BY <2>2, <2>5, <4>3
          <5> HIDE DEF i
          <5>2. u[j] = b[i] /\ v[j] = b[i]
            BY <1>1, <2>4, <2>5, <5>1
          <5> QED
            BY <5>2
        <4> QED
          BY <2>2, <2>5, <4>1, <4>2, <4>3
      <3> QED
        BY <1>1, <2>4, <2>5, <3>1 DEF SameKinds
    <2>7. ASSUME NEW k \in Elements(t)
          PROVE  EndTag(u, n + k) = n + EndTag(t, k)
      <3>1. EndTag(v, n + k) = n + EndTag(w, k)
        BY <1>2, <2>1 DEF EndsMove
      <3>2. n + k \in Elements(v)
        <4>1. k \in 1..l /\ w[k].kind = "open"
          BY <1>2, ElementsOf
        <4>2. n + k \in 1..Len(v) /\ v[n + k].kind = "open"
          BY <2>2, <2>5, <4>1
        <4> QED
          BY <4>2, ElementsOf
      <3>3. EndTag(u, n + k) = EndTag(v, n + k)
        BY <2>6, <3>2, ShapeEnds
      <3> QED
        BY <1>2, <3>1, <3>3
    <2>8. ASSUME NEW d \in Nat \ {0}
          PROVE  Scan(u)[n + 1][d] = Scan(u)[n + Len(t) + 1][d]
      <3> DEFINE i == n + 1
                 j == n + Len(t) + 1
      <3>1. i \in Nat \ {0} /\ j \in Nat \ {0} /\ d \in Nat /\ j = n + Len(w) + 1
        BY <1>1, <2>2
      <3>2. Scan(v)[i][d] = Scan(v)[j][d]
        BY <2>1, <3>1 DEF EndsMove
      <3> HIDE DEF i, j
      <3>3. Scan(u)[i][d] = Scan(v)[i][d] /\ Scan(u)[j][d] = Scan(v)[j][d]
        BY <2>6, <3>1, KindsScan
      <3> QED
        BY <3>2, <3>3 DEF i, j
    <2> QED
      BY <2>7, <2>8 DEF EndsMove, n, u
  <1> QED
    BY <1>1, <1>3, <1>4 DEF Nested

-----------------------------------------------------------------------------
(***************************************************************************)
(* What remains true of a document whatever becomes of it: it nests in one *)
(* root, unless the root is lost; of what a verifier looks for there is at *)
(* most one, and it lies where it lay, in the signature; and what was made *)
(* as the value stands nowhere but in a SignatureValue.                    *)
(***************************************************************************)
(* The names that are there once *)
SoleNames == {"Signature", "SignedInfo", "SignatureValue"}

(* and those of them that lie in the signature. *)
InSignature == {"SignedInfo", "SignatureValue"}

(* The invariant of a document on its way, when v is the value in it. *)
Orderly(text, v) ==
    /\ Made(text, XadesNames, AllPrefixes)
    /\ text = <<>> \/ OneRoot(text, AllPrefixes)
    /\ \A local \in SoleNames : \A i, j \in Positions(text, local) : i = j
    /\ \A local \in InSignature : \A k \in Positions(text, local) :
          2 \in Positions(text, "Signature") /\ Around(text, k) = {1, 2}
    /\ \A i, j \in Elements(text) :
          text[i].id = SignedPropertiesId(Index) /\ text[j].id = SignedPropertiesId(Index)
            => i = j
    /\ \A k \in 1..Len(text) :
          text[k] = Text(v) => k - 1 \in Positions(text, "SignatureValue")

-----------------------------------------------------------------------------
(***************************************************************************)
(* Edited texts: what follows a text has its tokens in their order, each   *)
(* of them as it was or altered.                                           *)
(***************************************************************************)
(* A token of one of the three kinds, whatever it says. *)
IsFormed(t) ==
    \/ \E x : t = Text(x)
    \/ \E name : t = Close(name)
    \/ \E name, id, attr, ns : t = Open(name, id, attr, ns)

(* A text has no other tokens. *)
Formed(s) == \A k \in 1..Len(s) : IsFormed(s[k])

(* A token o that has been altered to t, or not. *)
Likens(t, o) ==
    /\ t.kind = o.kind
    /\ t.kind = "open" =>
          /\ t.name = o.name /\ t.ns = o.ns
          /\ t.id = o.id \/ t.id = OtherAttr
          /\ t.attr = o.attr \/ t.attr = OtherAttr
    /\ \A x : t = Text(x) => o = t \/ x = Altered

(* t is what is left of w when elements are taken out and tokens altered:   *)
(* its token j was token m[j] of w, in the same order, with the same ends   *)
(* and with everything that was around it.                                  *)
Follows(t, w, m) ==
    /\ \A j \in 1..Len(t) : m[j] \in 1..Len(w) /\ Likens(t[j], w[m[j]])
    /\ \A i, j \in 1..Len(t) : i < j => m[i] < m[j]
    /\ \A j \in Elements(t) :
          EndTag(t, j) \in 1..Len(t) /\ EndTag(w, m[j]) = m[EndTag(t, j)]
    /\ \A j \in Elements(t) : \A i \in Around(w, m[j]) :
          \E h \in 1..Len(t) : m[h] = i
    /\ \A j \in 1..Len(t) :
          m[j] - 1 \in Elements(w) => j - 1 \in 1..Len(t) /\ m[j - 1] = m[j] - 1
    /\ t = <<>> \/ (1 \in 1..Len(t) /\ m[1] = 1)

(* What follows an orderly text is orderly. *)
LEMMA OrderlyFollows ==
    ASSUME NEW v, v # Altered, NEW w, Orderly(w, v),
           NEW t, Nested(t), NEW m, Follows(t, w, m)
    PROVE  Orderly(t, v)
  <1>1. IsText(t) /\ IsText(w) /\ Len(t) \in Nat /\ Len(w) \in Nat /\ Nested(w)
    <2>1. IsText(t) /\ IsText(w) /\ Nested(w)
      BY DEF Nested, Orderly, Made
    <2> QED
      BY <2>1, TextIsSequence
  <1>2. \A j \in 1..Len(t) : m[j] \in 1..Len(w) /\ m[j] \in Nat /\ Likens(t[j], w[m[j]])
    BY <1>1 DEF Follows
  <1>3. \A j \in Elements(t) :
          /\ j \in 1..Len(t) /\ m[j] \in Elements(w)
          /\ t[j].name = w[m[j]].name /\ t[j].ns = w[m[j]].ns
          /\ t[j].id = w[m[j]].id \/ t[j].id = OtherAttr
    BY <1>2, ElementsOf DEF Likens
  <1>4. \A i, j \in 1..Len(t) : m[i] = m[j] => i = j
    <2>1. \A i, j \in 1..Len(t) : i < j => m[i] < m[j]
      BY DEF Follows
    <2> QED
      BY <1>1, <1>2, <2>1
  <1>5. \A local : \A k \in Positions(t, local) :
          k \in Elements(t) /\ m[k] \in Positions(w, local)
    BY <1>3 DEF Positions
  <1>6. Made(t, XadesNames, AllPrefixes)
    BY <1>3 DEF Made, Orderly
  <1>7. t = <<>> \/ OneRoot(t, AllPrefixes)
    <2> SUFFICES ASSUME t # <<>> PROVE OneRoot(t, AllPrefixes)
      OBVIOUS
    <2>1. 1 \in 1..Len(t) /\ m[1] = 1
      BY DEF Follows
    <2>2. w # <<>>
      <3>1. Len(w) # 0
        BY <1>1, <1>2, <2>1
      <3> QED
        BY <3>1, ShortTexts
    <2>3. OneRoot(w, AllPrefixes)
      BY <2>2 DEF Orderly
    <2>4. 1 \in Elements(w) /\ EndTag(w, 1) = Len(w) /\ w[1].ns = AllPrefixes
      BY <2>3 DEF OneRoot
    <2>5. 1 \in Elements(t)
      <3>1. t[1].kind = w[1].kind /\ w[1].kind = "open"
        BY <1>2, <2>1, <2>4, ElementsOf DEF Likens
      <3> QED
        BY <2>1, <3>1, ElementsOf
    <2>6. t[1].ns = AllPrefixes
      BY <1>3, <2>1, <2>4, <2>5
    <2>7. EndTag(t, 1) = Len(t)
      <3> DEFINE e == EndTag(t, 1)
      <3>1. e \in 1..Len(t) /\ Len(w) = m[e]
        BY <2>1, <2>4, <2>5 DEF Follows
      <3> HIDE DEF e
      <3>2. e < Len(t) => m[e] < m[Len(t)]
        <4>1. Len(t) \in 1..Len(t)
          BY <1>1, <3>1
        <4> QED
          BY <3>1, <4>1 DEF Follows
      <3>3. m[Len(t)] <= Len(w)
        <4>1. Len(t) \in 1..Len(t)
          BY <1>1, <3>1
        <4> QED
          BY <1>1, <1>2, <4>1
      <3>4. e = Len(t)
        BY <1>1, <1>2, <3>1, <3>2, <3>3
      <3> QED
        BY <3>4 DEF e
    <2> QED
      BY <1>1, <1>6, <2>5, <2>6, <2>7 DEF OneRoot, Made
  <1>8. ASSUME NEW local \in SoleNames,
               NEW i \in Positions(t, local), NEW j \in Positions(t, local)
        PROVE  i = j
    <2>1. m[i] \in Positions(w, local) /\ m[j] \in Positions(w, local)
      BY <1>5
    <2>2. m[i] = m[j]
      BY <2>1 DEF Orderly
    <2> QED
      BY <1>3, <1>4, <1>5, <2>2
  <1>9. ASSUME NEW local \in InSignature, NEW k \in Positions(t, local)
        PROVE  2 \in Positions(t, "Signature") /\ Around(t, k) = {1, 2}
    <2>1. /\ k \in Elements(t) /\ k \in 1..Len(t) /\ m[k] \in Positions(w, local)
      BY <1>3, <1>5
    <2>2. 2 \in Positions(w, "Signature") /\ Around(w, m[k]) = {1, 2}
      BY <2>1 DEF Orderly
    <2>3. \A i \in {1, 2} : \E h \in 1..Len(t) : m[h] = i
      BY <2>1, <2>2 DEF Follows
    <2>4. 2 \in 1..Len(t) /\ m[1] = 1 /\ m[2] = 2
      <3>1. PICK h1 \in 1..Len(t) : m[h1] = 1
        BY <2>3
      <3>2. PICK h2 \in 1..Len(t) : m[h2] = 2
        BY <2>3
      <3>3. t # <<>>
        BY <3>1, ShortTexts
      <3>4. 1 \in 1..Len(t) /\ m[1] = 1
        BY <3>3 DEF Follows
      <3>5. h2 # 1
        BY <3>2, <3>4
      <3>6. 2 \in 1..Len(t) /\ 1 < 2
        BY <1>1, <3>2, <3>5
      <3>7. 1 < m[2]
        BY <3>4, <3>6 DEF Follows
      <3>8. h2 = 2
        <4> SUFFICES ASSUME 2 < h2 PROVE FALSE
          BY <1>1, <3>2, <3>5
        <4>1. m[2] < m[h2]
          BY <3>2, <3>6 DEF Follows
        <4> QED
          BY <1>2, <3>2, <3>6, <3>7, <4>1
      <3> QED
        BY <3>2, <3>4, <3>6, <3>8
    <2>5. 1 \in 1..Len(t) /\ 1 \in Elements(w) /\ 2 \in Elements(w)
      BY <1>1, <2>2, <2>4 DEF Around, Positions
    <2>6. \A i \in {1, 2} : i \in Elements(t) /\ t[i].name = w[i].name
      <3>1. \A i \in {1, 2} : i \in 1..Len(t) /\ w[i].kind = "open" /\ m[i] = i
        BY <2>4, <2>5, ElementsOf
      <3>2. \A i \in {1, 2} : t[i].kind = "open"
        BY <1>2, <3>1 DEF Likens
      <3> QED
        BY <1>3, <3>1, <3>2, ElementsOf
    <2>7. 2 \in Positions(t, "Signature")
      BY <2>2, <2>6 DEF Positions
    <2>8. ASSUME NEW i \in Elements(t), i < k
          PROVE  EndTag(t, i) > k <=> EndTag(w, m[i]) > m[k]
      <3> DEFINE e == EndTag(t, i)
      <3>1. e \in 1..Len(t) /\ EndTag(w, m[i]) = m[e]
        BY DEF Follows
      <3>2. (e < k => m[e] < m[k]) /\ (k < e => m[k] < m[e])
        BY <2>1, <3>1 DEF Follows
      <3> HIDE DEF e
      <3>3. e \in Nat /\ k \in Nat /\ m[e] \in Nat /\ m[k] \in Nat
        BY <1>1, <1>2, <2>1, <3>1
      <3>4. e > k <=> m[e] > m[k]
        BY <3>2, <3>3
      <3> QED
        BY <3>1, <3>4 DEF e
    <2>9. ASSUME NEW i \in Around(t, k)
          PROVE  i \in {1, 2}
      <3>1. i \in Elements(t) /\ i < k /\ EndTag(t, i) > k
        BY DEF Around
      <3>2. i \in 1..Len(t) /\ m[i] \in Elements(w) /\ m[i] < m[k]
        BY <1>3, <2>1, <3>1 DEF Follows
      <3>3. m[i] \in Around(w, m[k])
        BY <2>8, <3>1, <3>2 DEF Around
      <3>4. m[i] \in {1, 2}
        BY <2>2, <3>3
      <3> QED
        BY <1>4, <2>4, <2>5, <3>2, <3>4
    <2>10. ASSUME NEW i \in {1, 2}
           PROVE  i \in Around(t, k)
      <3>1. i \in Elements(t) /\ i \in 1..Len(t) /\ m[i] = i
        BY <2>4, <2>5, <2>6
      <3>2. i < m[k] /\ EndTag(w, i) > m[k]
        BY <2>2 DEF Around
      <3>3. i < k
        <4>1. k < i => m[k] < m[i]
          BY <2>1, <3>1 DEF Follows
        <4> QED
          BY <1>1, <1>2, <2>1, <3>1, <3>2, <4>1
      <3> QED
        BY <2>8, <3>1, <3>2, <3>3 DEF Around
    <2> QED
      BY <2>7, <2>9, <2>10
  <1>10. ASSUME NEW i \in Elements(t), NEW j \in Elements(t),
                t[i].id = SignedPropertiesId(Index), t[j].id = SignedPropertiesId(Index)
         PROVE  i = j
    <2>1. SignedPropertiesId(Index) # OtherAttr
      <3>1. SignedPropertiesId(Index)[1] # OtherAttr[1]
        BY DEF SignedPropertiesId, OtherAttr
      <3> QED
        BY <3>1
    <2>2. /\ w[m[i]].id = SignedPropertiesId(Index) /\ w[m[j]].id = SignedPropertiesId(Index)
          /\ m[i] \in Elements(w) /\ m[j] \in Elements(w)
      BY <1>3, <1>10, <2>1
    <2>3. m[i] = m[j]
      BY <2>2 DEF Orderly
    <2> QED
      BY <1>3, <1>4, <2>3
  <1>11. ASSUME NEW k \in 1..Len(t), t[k] = Text(v)
         PROVE  k - 1 \in Positions(t, "SignatureValue")
    <2>1. w[m[k]] = Text(v) /\ m[k] \in 1..Len(w)
      BY <1>2, <1>11 DEF Likens
    <2>2. m[k] - 1 \in Positions(w, "SignatureValue")
      BY <2>1 DEF Orderly
    <2>3. m[k] - 1 \in Elements(w) /\ w[m[k] - 1].name[2] = "SignatureValue"
      BY <2>2 DEF Positions
    <2>4. k - 1 \in 1..Len(t) /\ m[k - 1] = m[k] - 1
      BY <2>3 DEF Follows
    <2> DEFINE j == k - 1
    <2> HIDE DEF j
    <2>5. j \in 1..Len(t) /\ m[j] \in Elements(w) /\ w[m[j]].name[2] = "SignatureValue"
      BY <2>3, <2>4 DEF j
    <2>6. j \in Elements(t)
      BY <1>2, <2>5, ElementsOf DEF Likens
    <2>7. j \in Positions(t, "SignatureValue")
      BY <1>3, <2>5, <2>6 DEF Positions
    <2> QED
      BY <2>7 DEF j
  <1> QED
    BY <1>6, <1>7, <1>8, <1>9, <1>10, <1>11 DEF Orderly

(* A text without one of its elements follows it, *)
LEMMA WithoutFollows ==
    ASSUME NEW w, Nested(w), NEW k \in Elements(w), EndTag(w, 1) = Len(w),
           NEW a, NEW s, NEW b, Parts(w, k, a, s, b), NEW t, t = Then(a, b)
    PROVE  Nested(t) /\ (Formed(w) => Formed(t)) /\ \E m : Follows(t, w, m)
  <1>1. Nested(w) /\ IsText(w) /\ Len(w) \in Nat
    <2>1. Nested(w) /\ IsText(w)
      BY DEF Nested
    <2> QED
      BY <2>1, TextIsSequence
  <1> DEFINE n == Len(a)
             l == Len(s)
             e == EndTag(w, k)
             at(j) == Before(j, n, l)
             m == [j \in 1..Len(t) |-> at(j)]
  <1>2. Nested(t)
    BY <1>1, NestedWithout
  <1>3. /\ Len(t) = n + Len(b)
        /\ \A j \in 1..Len(t) :
              /\ at(j) \in 1..Len(w) /\ t[j] = w[at(j)]
              /\ j \in Elements(t) <=> at(j) \in Elements(w)
        /\ \A j \in Elements(t) :
              /\ EndTag(t, j) \in (j + 1)..Len(t)
              /\ EndTag(w, at(j)) = at(EndTag(t, j))
    BY <1>1, EndsWithout
  <1>4. /\ n \in Nat /\ l \in Nat /\ Len(b) \in Nat /\ n + 1 = k /\ n + l = e
        /\ Nested(s)
    <2>1. IsText(a) /\ IsText(s) /\ IsText(b) /\ n + 1 = k /\ n + l = e
      BY DEF Parts
    <2>2. Nested(s)
      BY <1>1, SubtreeIsNested
    <2> QED
      BY <2>1, <2>2, TextIsSequence
  <1>5. \A i \in Elements(w) :
          n < i /\ i <= n + l => EndTag(w, i) <= n + l
    <2> SUFFICES ASSUME NEW i \in Elements(w), n < i, i <= n + l
                 PROVE  EndTag(w, i) <= n + l
      OBVIOUS
    <2>1. e # 0 /\ w[e] = Close(w[k].name) /\ e \in Nat
      <3>1. k < e /\ w[e] = Close(w[k].name) /\ e \in Nat
        BY <1>1, NestedEnds
      <3>2. k \in Nat
        BY ElementsOf
      <3> HIDE DEF e
      <3> QED
        BY <3>1, <3>2
    <2>2. i \in Nat /\ w[i].kind = "open" /\ w[e].kind # "open"
      BY <2>1, ElementsOf DEF Close
    <2> HIDE DEF n, l, e
    <2>3. CASE i = k
      BY <1>4, <2>1, <2>3 DEF e
    <2>4. CASE i # k
      <3>1. i # e
        BY <2>2
      <3>2. k < i /\ i < e
        BY <1>4, <2>1, <2>2, <2>4, <3>1
      <3>3. EndTag(w, i) \in (i + 1)..(e - 1)
        BY <1>1, <2>1, <3>2, InnerEnds DEF e
      <3> QED
        BY <1>4, <2>1, <2>2, <3>3
    <2> QED
      BY <2>3, <2>4
  <1>6. w[n + l].kind # "open"
    <2>1. w[e] = Close(w[k].name)
      BY <1>1, NestedEnds
    <2> QED
      BY <1>4, <2>1 DEF Close
  <1>7. Len(w) = n + l + Len(b)
    <2>1. IsText(a) /\ IsText(s) /\ IsText(b)
      BY DEF Parts
    <2>2. Len(Within(a, s, b)) = n + l + Len(b)
      BY <2>1, WithinIs
    <2>3. w = Within(a, s, b)
      BY DEF Parts
    <2> QED
      BY <2>2, <2>3
  <1>8. n = 0 => t = <<>>
    <2> SUFFICES ASSUME n = 0 PROVE t = <<>>
      OBVIOUS
    <2>1. w # <<>>
      <3>1. k \in 1..Len(w)
        BY ElementsOf
      <3>2. Len(w) # 0
        BY <1>1, <3>1
      <3> QED
        BY <3>2, ShortTexts
    <2>2. EndTag(w, 1) = Len(w) /\ k = 1
      BY <1>4, <2>1
    <2>3. Len(t) = 0
      BY <1>3, <1>4, <1>7, <2>2
    <2> QED
      BY <1>2, <2>3, TextIsSequence DEF Nested
  <1>9. Len(t) \in Nat /\ n <= Len(t)
    BY <1>3, <1>4
  <1> HIDE DEF n, l, e
  <1>10. \A j \in 1..Len(t) : m[j] = at(j) /\ m[j] \in 1..Len(w) /\ t[j] = w[m[j]]
    BY <1>3
  <1>11. ASSUME NEW j \in 1..Len(t)
         PROVE  Likens(t[j], w[m[j]])
    BY <1>10 DEF Likens
  <1>12. ASSUME NEW i \in 1..Len(t), NEW j \in 1..Len(t), i < j
         PROVE  m[i] < m[j]
    BY <1>4, <1>9, <1>10, <1>12 DEF Before
  <1>13. ASSUME NEW j \in Elements(t)
         PROVE  EndTag(t, j) \in 1..Len(t) /\ EndTag(w, m[j]) = m[EndTag(t, j)]
    <2>1. j \in 1..Len(t) /\ EndTag(t, j) \in (j + 1)..Len(t)
      BY <1>3, ElementsOf
    <2>2. EndTag(t, j) \in 1..Len(t)
      BY <1>9, <2>1
    <2> QED
      BY <1>3, <1>10, <2>1, <2>2
  <1>14. ASSUME NEW j \in Elements(t), NEW i \in Around(w, m[j])
         PROVE  \E h \in 1..Len(t) : m[h] = i
    <2>1. i \in Elements(w) /\ i < m[j] /\ EndTag(w, i) > m[j] /\ i \in 1..Len(w)
      BY ElementsOf DEF Around
    <2>2. j \in 1..Len(t) /\ m[j] = at(j) /\ m[j] \in 1..Len(w)
      BY <1>10, ElementsOf
    <2>3. ~ (n < i /\ i <= n + l)
      <3> SUFFICES ASSUME n < i, i <= n + l PROVE FALSE
        OBVIOUS
      <3>1. EndTag(w, i) <= n + l /\ EndTag(w, i) \in Nat
        BY <1>1, <1>5, <2>1, NestedEnds
      <3>2. i \in Nat /\ j \in Nat /\ m[j] \in Nat
        BY <1>1, <1>9, <2>1, <2>2
      <3>3. n < m[j] /\ m[j] < n + l
        BY <1>4, <2>1, <3>1, <3>2
      <3> QED
        BY <1>4, <2>2, <3>2, <3>3 DEF Before
    <2> DEFINE h == IF i <= n THEN i ELSE i - l
    <2>4. Len(w) = Len(t) + l
      BY <1>3, <1>4, <1>7
    <2>5. h \in 1..Len(t) /\ at(h) = i
      BY <1>1, <1>3, <1>4, <1>9, <2>1, <2>3, <2>4 DEF Before
    <2> HIDE DEF h
    <2> QED
      BY <1>10, <2>5
  <1>15. ASSUME NEW j \in 1..Len(t), m[j] - 1 \in Elements(w)
         PROVE  j - 1 \in 1..Len(t) /\ m[j - 1] = m[j] - 1
    <2>1. m[j] = at(j) /\ m[j] - 1 \in Nat \ {0} /\ w[m[j] - 1].kind = "open"
      BY <1>10, <1>15, ElementsOf
    <2>2. j - 1 \in 1..Len(t) /\ at(j - 1) = at(j) - 1
      <3>1. CASE j <= n
        BY <1>4, <1>9, <2>1, <3>1 DEF Before
      <3>2. CASE j = n + 1
        <4>1. m[j] - 1 = n + l
          BY <1>4, <2>1, <3>2 DEF Before
        <4> QED
          BY <1>6, <2>1, <4>1
      <3>3. CASE j > n + 1
        <4>1. j \in Nat /\ j <= Len(t) /\ n \in Nat /\ l \in Nat
          BY <1>4, <1>9
        <4>2. j - 1 \in 1..Len(t) /\ ~ j <= n /\ ~ j - 1 <= n
          BY <1>9, <3>3, <4>1
        <4> QED
          BY <4>1, <4>2 DEF Before
      <3> QED
        BY <1>4, <1>9, <3>1, <3>2, <3>3
    <2> QED
      BY <1>10, <2>1, <2>2
  <1>16. t = <<>> \/ (1 \in 1..Len(t) /\ m[1] = 1)
    <2> SUFFICES ASSUME t # <<>> PROVE 1 \in 1..Len(t) /\ m[1] = 1
      OBVIOUS
    <2>1. n # 0
      BY <1>8
    <2>2. 1 \in 1..Len(t) /\ 1 <= n
      BY <1>4, <1>9, <2>1
    <2>3. at(1) = 1
      BY <2>2 DEF Before
    <2> QED
      BY <1>10, <2>2, <2>3
  <1> HIDE DEF m
  <1>17. Follows(t, w, m)
    BY <1>10, <1>11, <1>12, <1>13, <1>14, <1>15, <1>16 DEF Follows
  <1>18. Formed(w) => Formed(t)
    BY <1>10 DEF Formed
  <1> QED
    BY <1>2, <1>17, <1>18

(* as the step that loses one makes it, *)
LEMMA LosingFollows ==
    ASSUME NEW w, Nested(w), NEW k \in Elements(w), EndTag(w, 1) = Len(w),
           NEW t, t = SubSeq(w, 1, k - 1) \o SubSeq(w, EndTag(w, k) + 1, Len(w))
    PROVE  Nested(t) /\ (Formed(w) => Formed(t)) /\ \E m : Follows(t, w, m)
  <1>1. Nested(w)
    OBVIOUS
  <1>2. \E a, s, b : Parts(w, k, a, s, b)
    BY <1>1, SubtreeParts
  <1>3. PICK a, s, b : Parts(w, k, a, s, b)
    BY <1>2
  <1>4. t = Then(a, b)
    BY <1>3 DEF Parts, Then
  <1>5. /\ Nested(Then(a, b)) /\ (Formed(w) => Formed(Then(a, b)))
        /\ \E m : Follows(Then(a, b), w, m)
    BY <1>3, WithoutFollows
  <1> QED
    BY <1>4, <1>5

(* and so does a text with a token altered. *)
LEMMA AlteringFollows ==
    ASSUME NEW w, Nested(w), Formed(w), NEW k \in 1..Len(w),
           NEW token \in AlteredTokens(w[k]), NEW t, t = [w EXCEPT ![k] = token]
    PROVE  Nested(t) /\ Formed(t) /\ \E m : Follows(t, w, m)
  <1>1. IsText(w) /\ Len(w) \in Nat
    <2>1. IsText(w)
      BY DEF Nested
    <2> QED
      BY <2>1, TextIsSequence
  <1>2. /\ IsText(t) /\ Len(t) = Len(w)
        /\ \A j \in 1..Len(w) : t[j] = IF j = k THEN token ELSE w[j]
    <2>1. PICK T : w \in Seq(T)
      BY <1>1 DEF IsText
    <2>2. w \in Seq(T \cup {token})
      BY <2>1
    <2>3. t \in Seq(T \cup {token}) /\ Len(t) = Len(w)
      BY <2>2
    <2> QED
      BY <2>1, <2>3 DEF IsText
  <1>3. /\ token.kind = w[k].kind
        /\ w[k].kind \in {"text", "open"}
        /\ w[k].kind = "open" =>
              /\ token.name = w[k].name /\ token.ns = w[k].ns
              /\ token.id = w[k].id \/ token.id = OtherAttr
              /\ token.attr = w[k].attr \/ token.attr = OtherAttr
        /\ IsFormed(token)
        /\ \A y : token = Text(y) => y = Altered
    <2>1. IsFormed(w[k])
      BY DEF Formed
    <2>2. CASE \E y : w[k] = Text(y)
      <3>1. PICK y : w[k] = Text(y)
        BY <2>2
      <3>2. w[k] = [kind |-> "text", data |-> y]
        BY <3>1 DEF Text
      <3>3. token = [w[k] EXCEPT !.data = Altered]
        BY <3>2 DEF AlteredTokens
      <3>4. token = [kind |-> "text", data |-> Altered]
        BY <3>2, <3>3
      <3>5. token = Text(Altered)
        BY <3>4 DEF Text
      <3>6. IsFormed(token)
        BY <3>5 DEF IsFormed
      <3> QED
        BY <3>2, <3>4, <3>6 DEF Text
    <2>3. CASE \E name : w[k] = Close(name)
      <3>1. w[k].kind = "close"
        BY <2>3 DEF Close
      <3> QED
        BY <3>1 DEF AlteredTokens
    <2>4. CASE \E name, id, attr, ns : w[k] = Open(name, id, attr, ns)
      <3>1. PICK name, id, attr, ns : w[k] = Open(name, id, attr, ns)
        BY <2>4
      <3>2. w[k] = [kind |-> "open", name |-> name, id |-> id, attr |-> attr, ns |-> ns]
        BY <3>1 DEF Open
      <3>3. \/ token = [w[k] EXCEPT !.id = OtherAttr]
            \/ token = [w[k] EXCEPT !.attr = OtherAttr]
        BY <3>2 DEF AlteredTokens
      <3>4. /\ token.kind = "open" /\ token.name = name /\ token.ns = ns
            /\ token.id = id \/ token.id = OtherAttr
            /\ token.attr = attr \/ token.attr = OtherAttr
        BY <3>2, <3>3
      <3>5. \/ token = Open(name, OtherAttr, attr, ns)
            \/ token = Open(name, id, OtherAttr, ns)
        BY <3>2, <3>3 DEF Open
      <3>6. IsFormed(token)
        BY <3>5 DEF IsFormed
      <3> QED
        BY <3>2, <3>4, <3>6 DEF Text
    <2> QED
      BY <2>1, <2>2, <2>3, <2>4 DEF IsFormed
  <1>4. SameShape(t, w)
    BY <1>1, <1>2, <1>3 DEF SameShape, SameKinds
  <1>5. Nested(t)
    BY <1>4, NestedShape
  <1>6. Elements(t) = Elements(w) /\ \A j \in Elements(w) : EndTag(t, j) = EndTag(w, j)
    BY <1>4, ShapeEnds DEF SameShape
  <1> DEFINE m == [j \in 1..Len(t) |-> j]
  <1>7. \A j \in 1..Len(t) : m[j] = j /\ j \in 1..Len(w)
    BY <1>2
  <1>8. ASSUME NEW j \in 1..Len(t)
        PROVE  Likens(t[j], w[m[j]])
    <2>1. CASE j = k
      BY <1>2, <1>3, <1>7, <2>1 DEF Likens
    <2>2. CASE j # k
      BY <1>2, <1>7, <2>2 DEF Likens
    <2> QED
      BY <2>1, <2>2
  <1>9. \A j \in Elements(t) : j \in 1..Len(t) /\ EndTag(t, j) \in 1..Len(t)
    <2> SUFFICES ASSUME NEW j \in Elements(t)
                 PROVE  j \in 1..Len(t) /\ EndTag(t, j) \in 1..Len(t)
      OBVIOUS
    <2>1. j \in 1..Len(t)
      BY ElementsOf
    <2>2. EndTag(t, j) \in Nat /\ j < EndTag(t, j) /\ EndTag(t, j) <= Len(t)
      BY <1>5, NestedEnds
    <2> QED
      BY <1>1, <1>2, <2>1, <2>2
  <1>10. ASSUME NEW j \in Elements(t), NEW i \in Around(w, m[j])
         PROVE  \E h \in 1..Len(t) : m[h] = i
    <2>1. i \in Elements(t)
      BY <1>6 DEF Around
    <2> QED
      BY <1>7, <1>9, <2>1
  <1>11. ASSUME NEW j \in 1..Len(t), m[j] - 1 \in Elements(w)
         PROVE  j - 1 \in 1..Len(t) /\ m[j - 1] = m[j] - 1
    <2>1. j - 1 \in Elements(t) /\ m[j] = j
      BY <1>6, <1>7, <1>11
    <2> QED
      BY <1>7, <1>9, <2>1
  <1>12. t = <<>> \/ (1 \in 1..Len(t) /\ m[1] = 1)
    <2>1. 1 \in 1..Len(t)
      BY <1>1, <1>2
    <2> QED
      BY <1>7, <2>1
  <1>13. \A j \in Elements(t) :
           EndTag(t, j) \in 1..Len(t) /\ EndTag(w, m[j]) = m[EndTag(t, j)]
    BY <1>6, <1>7, <1>9
  <1>14. \A i, j \in 1..Len(t) : i < j => m[i] < m[j]
    BY <1>7
  <1> HIDE DEF m
  <1>15. Follows(t, w, m)
    BY <1>7, <1>8, <1>10, <1>11, <1>12, <1>13, <1>14 DEF Follows
  <1>16. Formed(t)
    BY <1>2, <1>3 DEF Formed
  <1> QED
    BY <1>5, <1>15, <1>16

-----------------------------------------------------------------------------
(***************************************************************************)
(* Where the value of a signature is.                                      *)
(***************************************************************************)
(* v is nowhere but in a SignatureValue. *)
Houses(s, v) ==
    \A k \in 1..Len(s) : s[k] = Text(v) => k - 1 \in Positions(s, "SignatureValue")

(* It is nowhere at all. *)
LEMMA HousesNone ==
    ASSUME NEW s, NEW v, Lacks(s, Text(v))
    PROVE  Houses(s, v)
  BY DEF Houses, Lacks

(* It is so in texts joined when it is so in each, *)
LEMMA HousesJoin ==
    ASSUME NEW v, NEW s, IsText(s), Houses(s, v), NEW t, IsText(t), Houses(t, v)
    PROVE  Houses(Then(s, t), v)
  <1> DEFINE st == Then(s, t)
             n == Len(s)
  <1>1. n \in Nat /\ Len(t) \in Nat
    BY TextIsSequence
  <1>2. /\ Len(st) = n + Len(t)
        /\ \A k \in 1..n : st[k] = s[k]
        /\ \A k \in 1..Len(t) : st[n + k] = t[k]
    BY Join
  <1>3. /\ \A k \in 1..n : k \in Elements(st) <=> k \in Elements(s)
        /\ \A k \in 1..Len(t) : n + k \in Elements(st) <=> k \in Elements(t)
    BY ElementsJoin
  <1> HIDE DEF st, n
  <1> SUFFICES ASSUME NEW k \in 1..Len(st), st[k] = Text(v)
               PROVE  k - 1 \in Positions(st, "SignatureValue")
    BY DEF Houses, st
  <1>4. CASE k <= n
    <2>1. k \in 1..n
      BY <1>1, <1>2, <1>4
    <2>2. s[k] = Text(v)
      BY <1>2, <2>1
    <2>3. k - 1 \in Positions(s, "SignatureValue")
      BY <2>1, <2>2 DEF Houses, n
    <2> DEFINE j == k - 1
    <2>4. j \in Elements(s) /\ s[j].name[2] = "SignatureValue"
      BY <2>3 DEF Positions
    <2> HIDE DEF j
    <2>5. j \in 1..n
      BY <2>4, ElementsOf DEF n
    <2>6. j \in Positions(st, "SignatureValue")
      BY <1>2, <1>3, <2>4, <2>5 DEF Positions
    <2> QED
      BY <2>6 DEF j
  <1>5. CASE ~ k <= n
    <2> DEFINE i == k - n
               j == i - 1
    <2>1. i \in 1..Len(t) /\ n + i = k /\ n + j = k - 1
      BY <1>1, <1>2, <1>5
    <2> HIDE DEF i
    <2>2. t[i] = Text(v)
      BY <1>2, <2>1
    <2>3. i - 1 \in Positions(t, "SignatureValue")
      BY <2>1, <2>2 DEF Houses
    <2>4. j \in Elements(t) /\ t[j].name[2] = "SignatureValue"
      BY <2>3 DEF Positions
    <2>5. n + j = k - 1
      BY <2>1
    <2> HIDE DEF j
    <2>6. j \in 1..Len(t)
      BY <2>4, ElementsOf
    <2>7. n + j \in Elements(st) /\ st[n + j].name[2] = "SignatureValue"
      BY <1>2, <1>3, <2>4, <2>6
    <2> QED
      BY <2>5, <2>7 DEF Positions
  <1> QED
    BY <1>4, <1>5

(* and in an element when it is so in its content. *)
LEMMA HousesElement ==
    ASSUME NEW v, NEW name, NEW id, NEW attr, NEW ns, NEW c, IsText(c), Houses(c, v)
    PROVE  Houses(Element(name, id, attr, ns, c), v)
  <1>1. /\ IsText(<<Open(name, id, attr, ns)>>) /\ IsText(<<Close(name)>>)
        /\ Len(<<Open(name, id, attr, ns)>>) = 1 /\ Len(<<Close(name)>>) = 1
        /\ <<Open(name, id, attr, ns)>>[1] = Open(name, id, attr, ns)
        /\ <<Close(name)>>[1] = Close(name)
    BY ShortTexts
  <1>2. Open(name, id, attr, ns) # Text(v) /\ Close(name) # Text(v)
    <2>1. Open(name, id, attr, ns).kind # Text(v).kind /\ Close(name).kind # Text(v).kind
      BY DEF Open, Close, Text
    <2> QED
      BY <2>1
  <1>3. Houses(<<Open(name, id, attr, ns)>>, v) /\ Houses(<<Close(name)>>, v)
    BY <1>1, <1>2 DEF Houses
  <1>4. IsText(Then(c, <<Close(name)>>)) /\ Houses(Then(c, <<Close(name)>>), v)
    BY <1>1, <1>3, HousesJoin, Join
  <1>5. Houses(Within(<<Open(name, id, attr, ns)>>, c, <<Close(name)>>), v)
    BY <1>1, <1>3, <1>4, HousesJoin DEF Within
  <1> QED
    BY <1>5, ElementParts

(* A regular text without a value has none. *)
LEMMA RegularLacks ==
    ASSUME TextsAreNoValues, NEW s, Regular(s, Altered), NEW fs, NEW k0
    PROVE  Lacks(s, Text(ValueMade(fs, k0)))
  <1> DEFINE v == ValueMade(fs, k0)
  <1> SUFFICES ASSUME NEW k \in 1..Len(s), s[k] = Text(v)
               PROVE  FALSE
    BY DEF Lacks
  <1>1. v = SignWith(k0, CanonicalizeXml(XadesSignedInfo(fs, k0, Index))[1])
    BY DEF ValueMade
  <1> HIDE DEF v
  <1>2. ~ NoValue(v)
    BY <1>1 DEF NoValue
  <1>3. NoValue(Altered)
    BY DEF TextsAreNoValues
  <1>4. IsToken(s[k], Altered)
    BY DEF Regular
  <1>5. s[k].kind = "text" /\ s[k].data = v
    BY DEF Text
  <1>6. PICK x : s[k] = Text(x) /\ (x = Altered \/ NoValue(x))
    BY <1>4, <1>5 DEF IsToken, Open, Close
  <1>7. s[k].data = x
    BY <1>6 DEF Text
  <1> QED
    BY <1>2, <1>3, <1>5, <1>6, <1>7

-----------------------------------------------------------------------------
(***************************************************************************)
(* Orderly texts stay orderly.                                             *)
(***************************************************************************)
(* An orderly text is a nested one. *)
LEMMA OrderlyIsText ==
    ASSUME NEW w, NEW v, Orderly(w, v)
    PROVE  Nested(w) /\ IsText(w) /\ Len(w) \in Nat
  <1>1. Nested(w)
    BY DEF Orderly, Made
  <1>2. IsText(w)
    BY <1>1 DEF Nested
  <1> QED
    BY <1>1, <1>2, TextIsSequence

(* A regular text has tokens of the three kinds. *)
LEMMA RegularIsFormed ==
    ASSUME NEW w, NEW x, Regular(w, x)
    PROVE  Formed(w)
  BY DEF Regular, Formed, IsToken, IsFormed

(* It is orderly with a token altered, *)
LEMMA OrderlyAltered ==
    ASSUME NEW v, v # Altered, NEW w, Orderly(w, v), NEW x, Regular(w, x),
           NEW k \in 1..Len(w), NEW token \in AlteredTokens(w[k])
    PROVE  Orderly([w EXCEPT ![k] = token], v)
  <1> DEFINE t == [w EXCEPT ![k] = token]
  <1>1. Nested(w)
    BY OrderlyIsText
  <1>2. Nested(t) /\ \E m : Follows(t, w, m)
    <2>1. Formed(w)
      BY RegularIsFormed
    <2> QED
      BY <1>1, <2>1, AlteringFollows
  <1> HIDE DEF t
  <1>3. PICK m : Follows(t, w, m)
    BY <1>2
  <1>4. Orderly(t, v)
    BY <1>2, <1>3, OrderlyFollows
  <1> QED
    BY <1>4 DEF t

(* and when it loses an element. *)
LEMMA OrderlyLosing ==
    ASSUME NEW v, v # Altered, NEW w, Orderly(w, v), NEW k \in Elements(w)
    PROVE  Orderly(SubSeq(w, 1, k - 1) \o SubSeq(w, EndTag(w, k) + 1, Len(w)), v)
  <1> DEFINE t == SubSeq(w, 1, k - 1) \o SubSeq(w, EndTag(w, k) + 1, Len(w))
  <1>1. Nested(t) /\ \E m : Follows(t, w, m)
    <2>1. Nested(w)
      BY OrderlyIsText
    <2>2. EndTag(w, 1) = Len(w)
      <3>1. k \in 1..Len(w)
        BY ElementsOf
      <3>2. w # <<>>
        BY <3>1, ShortTexts
      <3> QED
        BY <3>2 DEF Orderly, OneRoot
    <2> QED
      BY <2>1, <2>2, LosingFollows
  <1> HIDE DEF t
  <1>2. PICK m : Follows(t, w, m)
    BY <1>1
  <1>3. Orderly(t, v)
    BY <1>1, <1>2, OrderlyFollows
  <1> QED
    BY <1>3 DEF t

-----------------------------------------------------------------------------
(***************************************************************************)
(* A copy of a nested text in a nested one stands there.                   *)
(***************************************************************************)
(* The elements that begin up to n and end behind it. *)
Outer(all, n) == {j \in Elements(all) : j <= n /\ EndTag(all, j) > n}

(* s stands behind n, its elements end as they do in s, and those before it *)
(* end before it or behind it.                                              *)
Placed(all, n, s) ==
    /\ n \in Nat /\ Len(s) \in Nat /\ n + Len(s) <= Len(all) /\ Len(all) \in Nat
    /\ \A i \in 1..Len(s) :
          all[n + i] = s[i] /\ (n + i \in Elements(all) <=> i \in Elements(s))
    /\ \A i \in Elements(s) :
          /\ EndTag(all, n + i) = n + EndTag(s, i)
          /\ EndTag(s, i) \in Nat /\ i < EndTag(s, i) /\ EndTag(s, i) <= Len(s)
    /\ \A j \in Elements(all) : j <= n =>
          EndTag(all, j) \in Nat
            /\ (EndTag(all, j) <= n \/ EndTag(all, j) > n + Len(s))

(* A nested part between two others is placed so. *)
LEMMA CopyIsPlaced ==
    ASSUME NEW a, IsText(a), NEW s, Nested(s), NEW b, IsText(b)
    PROVE  Placed(Within(a, s, b), Len(a), s)
  <1> DEFINE w == Within(a, s, b)
             n == Len(a)
             l == Len(s)
  <1>1. IsText(s)
    BY DEF Nested
  <1>2. n \in Nat /\ l \in Nat
    BY <1>1, TextIsSequence
  <1>3. IsText(w) /\ Len(w) = n + l + Len(b)
        /\ \A i \in 1..l : w[n + i] = s[i]
    BY <1>1, WithinIs
  <1>4. Len(b) \in Nat
    BY TextIsSequence
  <1>5. \A i \in Elements(s) : EndTag(w, n + i) = n + EndTag(s, i)
    BY NestedMoves DEF EndsMove
  <1>6. \A i \in Elements(s) :
           EndTag(s, i) \in Nat /\ i < EndTag(s, i) /\ EndTag(s, i) <= l
    BY NestedEnds
  <1>7. \A i \in 1..l : n + i \in Elements(w) <=> i \in Elements(s)
    <2>1. \A i \in 1..l : n + i \in 1..Len(w)
      BY <1>2, <1>3, <1>4
    <2>2. \A i \in 1..l : Opens(w, n + i) <=> Opens(s, i)
      BY <1>3 DEF Opens
    <2> QED
      BY <2>1, <2>2 DEF Elements
  <1>8. \A j \in Elements(w) : j <= n =>
           EndTag(w, j) \in Nat /\ (EndTag(w, j) <= n \/ EndTag(w, j) > n + l)
    BY OuterEnds
  <1> HIDE DEF w, n, l
  <1>9. n + l <= Len(w) /\ Len(w) \in Nat
    BY <1>2, <1>3, <1>4
  <1>10. Placed(w, n, s)
    BY <1>2, <1>3, <1>5, <1>6, <1>7, <1>8, <1>9 DEF Placed, l
  <1> QED
    BY <1>10 DEF w, n

(* What is around an element of the part: what is around it in the part,    *)
(* and what is around the part.                                             *)
LEMMA AroundPlaced ==
    ASSUME NEW all, NEW n, NEW s, Placed(all, n, s), NEW i \in Elements(s)
    PROVE  Around(all, n + i) = Outer(all, n) \cup Moved(Around(s, i), n)
  <1> DEFINE l == Len(s)
             r == n + i
  <1>1. /\ n \in Nat /\ l \in Nat /\ n + l <= Len(all) /\ Len(all) \in Nat
        /\ \A m \in 1..l : n + m \in Elements(all) <=> m \in Elements(s)
        /\ \A m \in Elements(s) :
              /\ EndTag(all, n + m) = n + EndTag(s, m)
              /\ EndTag(s, m) \in Nat /\ m < EndTag(s, m) /\ EndTag(s, m) <= l
        /\ \A j \in Elements(all) : j <= n =>
              EndTag(all, j) \in Nat
                /\ (EndTag(all, j) <= n \/ EndTag(all, j) > n + l)
    BY DEF Placed
  <1>2. /\ \A m \in Elements(s) : m \in 1..l
        /\ \A j \in Elements(all) : j \in 1..Len(all)
    BY ElementsOf
  <1>3. i \in 1..l /\ i \in Nat /\ i >= 1
    BY <1>1, <1>2
  <1> HIDE DEF l
  <1>4. ASSUME NEW j \in Elements(all), j < r, EndTag(all, j) > r
        PROVE  j \in Outer(all, n) \/ j \in Moved(Around(s, i), n)
    <2>1. j \in Nat
      BY <1>1, <1>2
    <2>2. CASE j <= n
      <3>1. EndTag(all, j) \in Nat
        BY <1>1, <2>2
      <3>2. EndTag(all, j) > n
        BY <1>1, <1>3, <1>4, <3>1
      <3> QED
        BY <2>2, <3>2 DEF Outer
    <2>3. CASE ~ (j <= n)
      <3> DEFINE m == j - n
      <3>1. m \in 1..l /\ j = n + m /\ m < i
        BY <1>1, <1>3, <1>4, <2>1, <2>3
      <3> HIDE DEF m
      <3>2. m \in Elements(s)
        BY <1>1, <3>1
      <3>3. EndTag(s, m) > i
        BY <1>1, <1>3, <1>4, <3>1, <3>2
      <3>4. m \in Around(s, i)
        BY <3>1, <3>2, <3>3 DEF Around
      <3> QED
        BY <3>1, <3>4 DEF Moved
    <2> QED
      BY <2>2, <2>3
  <1>5. ASSUME NEW j \in Outer(all, n)
        PROVE  j \in Elements(all) /\ j < r /\ EndTag(all, j) > r
    <2>1. j \in Elements(all) /\ j <= n /\ EndTag(all, j) > n
      BY DEF Outer
    <2>2. j \in Nat
      BY <1>2, <2>1
    <2>3. EndTag(all, j) \in Nat /\ EndTag(all, j) > n + l
      BY <1>1, <2>1
    <2> QED
      BY <1>1, <1>3, <2>1, <2>2, <2>3
  <1>6. ASSUME NEW j \in Moved(Around(s, i), n)
        PROVE  j \in Elements(all) /\ j < r /\ EndTag(all, j) > r
    <2>1. PICK m \in Around(s, i) : j = n + m
      BY DEF Moved
    <2>2. m \in Elements(s) /\ m < i /\ EndTag(s, m) > i
      BY DEF Around
    <2>3. m \in 1..l
      BY <1>2, <2>2
    <2>4. j \in Elements(all) /\ EndTag(all, j) = n + EndTag(s, m)
          /\ EndTag(s, m) \in Nat
      BY <1>1, <2>1, <2>2, <2>3
    <2> QED
      BY <1>1, <1>3, <2>1, <2>2, <2>3, <2>4
  <1> HIDE DEF r
  <1>7. Around(all, r) = Outer(all, n) \cup Moved(Around(s, i), n)
    BY <1>4, <1>5, <1>6 DEF Around
  <1> QED
    BY <1>7 DEF r

(* Its children are those it has in the part. *)
LEMMA InsidePlaced ==
    ASSUME NEW all, NEW n, NEW s, Placed(all, n, s), NEW k \in Elements(s)
    PROVE  Inside(all, n + k) = Moved(Inside(s, k), n)
  <1> DEFINE O == Outer(all, n)
             q == n + k
  <1>1. /\ n \in Nat /\ Len(s) \in Nat
        /\ \A m \in 1..Len(s) : n + m \in Elements(all) <=> m \in Elements(s)
        /\ EndTag(all, n + k) = n + EndTag(s, k)
        /\ EndTag(s, k) \in Nat /\ k < EndTag(s, k) /\ EndTag(s, k) <= Len(s)
    BY DEF Placed
  <1>2. /\ \A m \in Elements(s) : m \in 1..Len(s)
        /\ \A j \in Elements(all) : j \in Nat
    BY ElementsOf
  <1>3. \A i \in Elements(s) : Around(all, n + i) = O \cup Moved(Around(s, i), n)
    BY AroundPlaced
  <1>4. \A i : Around(s, i) \subseteq Elements(s)
    BY DEF Around
  <1>5. \A j \in O : j \in Nat /\ j <= n
    BY <1>2 DEF Outer
  <1>6. q \in Elements(all)
    BY <1>1, <1>2
  <1> HIDE DEF O
  <1>7. ASSUME NEW i \in Elements(s)
        PROVE  Around(all, n + i) = {q} \cup Around(all, q)
                 <=> Around(s, i) = {k} \cup Around(s, k)
    <2> DEFINE A == Around(s, i)
               B == {k} \cup Around(s, k)
    <2>1. A \subseteq Elements(s) /\ B \subseteq Elements(s)
      BY <1>4
    <2>2. Around(all, n + i) = O \cup Moved(A, n)
      BY <1>3
    <2>3. {q} \cup Around(all, q) = O \cup Moved(B, n)
      <3>1. Moved(B, n) = {n + k} \cup Moved(Around(s, k), n)
        BY MovedWith
      <3>2. Around(all, q) = O \cup Moved(Around(s, k), n)
        BY <1>3
      <3> QED
        BY <3>1, <3>2
    <2> HIDE DEF A, B, q
    <2>4. ASSUME NEW S, NEW T, S \subseteq Elements(s), T \subseteq Elements(s),
                 O \cup Moved(S, n) = O \cup Moved(T, n), NEW m \in S
          PROVE  m \in T
      <3>1. m \in Elements(s)
        BY <2>4
      <3>2. m \in Nat /\ m >= 1
        BY <1>1, <1>2, <3>1
      <3>3. n + m \in Moved(S, n) /\ n + m \notin O
        BY <1>1, <1>5, <3>2 DEF Moved
      <3>4. n + m \in Moved(T, n)
        BY <2>4, <3>3
      <3>5. PICK h \in T : n + m = n + h
        BY <3>4 DEF Moved
      <3>6. h \in Nat
        BY <1>1, <1>2, <2>4
      <3>7. h = m
        BY <1>1, <3>2, <3>5, <3>6
      <3> QED
        BY <3>7
    <2>5. O \cup Moved(A, n) = O \cup Moved(B, n) => A = B
      <3> SUFFICES ASSUME O \cup Moved(A, n) = O \cup Moved(B, n)
                   PROVE  A = B
        OBVIOUS
      <3>1. \A m \in A : m \in B
        BY <2>1, <2>4
      <3>2. \A m \in B : m \in A
        BY <2>1, <2>4
      <3> QED
        BY <3>1, <3>2
    <2>6. Around(all, n + i) = {q} \cup Around(all, q) <=> A = B
      BY <2>2, <2>3, <2>5
    <2> QED
      BY <2>6 DEF A, B
  <1>8. ASSUME NEW j \in Inside(all, q)
        PROVE  j \in Moved(Inside(s, k), n)
    <2>1. j \in Elements(all) /\ Around(all, j) = {q} \cup Around(all, q)
      BY DEF Inside
    <2>2. q < j /\ EndTag(all, q) > j
      <3>1. q \in Around(all, j)
        BY <2>1
      <3> QED
        BY <3>1 DEF Around
    <2> DEFINE i == j - n
    <2>3. i \in 1..Len(s) /\ j = n + i
      BY <1>1, <1>2, <2>1, <2>2
    <2> HIDE DEF i
    <2>4. i \in Elements(s)
      BY <1>1, <2>1, <2>3
    <2>5. Around(s, i) = {k} \cup Around(s, k)
      BY <1>7, <2>1, <2>3, <2>4
    <2>6. i \in Inside(s, k)
      BY <2>4, <2>5 DEF Inside
    <2> QED
      BY <2>3, <2>6 DEF Moved
  <1>9. ASSUME NEW j \in Moved(Inside(s, k), n)
        PROVE  j \in Inside(all, q)
    <2>1. PICK i \in Inside(s, k) : j = n + i
      BY DEF Moved
    <2>2. i \in Elements(s) /\ Around(s, i) = {k} \cup Around(s, k)
      BY DEF Inside
    <2>3. Around(all, j) = {q} \cup Around(all, q)
      BY <1>7, <2>1, <2>2
    <2>4. j \in Elements(all)
      BY <1>1, <1>2, <2>1, <2>2
    <2> QED
      BY <2>3, <2>4 DEF Inside
  <1> HIDE DEF q
  <1>10. Inside(all, q) = Moved(Inside(s, k), n)
    BY <1>8, <1>9
  <1> QED
    BY <1>10 DEF q

(* A copy of a nested text in a nested one stands there. *)
LEMMA CopyStands ==
    ASSUME NEW text, Nested(text), NEW s, Nested(s), NEW p, IsCopied(text, p, s)
    PROVE  StandsAt(text, p, s)
  <1>1. IsText(text) /\ IsText(s)
    BY DEF Nested
  <1>2. PICK a, b : /\ IsText(a) /\ IsText(b) /\ Len(a) = p
                    /\ text = Within(a, s, b)
    BY <1>1, CopyIsWithin
  <1>3. Placed(Within(a, s, b), Len(a), s)
    BY <1>2, CopyIsPlaced
  <1>4. Placed(text, p, s)
    BY <1>2, <1>3
  <1>5. \A k \in Elements(s) : Inside(text, p + k) = Moved(Inside(s, k), p)
    BY <1>4, InsidePlaced
  <1>6. /\ p \in Nat /\ p + Len(s) <= Len(text)
        /\ \A i \in 1..Len(s) :
              text[p + i] = s[i] /\ (p + i \in Elements(text) <=> i \in Elements(s))
        /\ \A i \in Elements(s) : EndTag(text, p + i) = p + EndTag(s, i)
    BY <1>4 DEF Placed
  <1> QED
    BY <1>5, <1>6 DEF StandsAt

(* What a text contains is copied somewhere in it. *)
LEMMA ContainedIsCopied ==
    ASSUME NEW text, IsText(text), NEW s, IsText(s), Contains(text, s)
    PROVE  \E p : IsCopied(text, p, s)
  <1> DEFINE n == Len(text)
             m == Len(s)
  <1>1. n \in Nat /\ m \in Nat
    BY TextIsSequence
  <1>2. PICK p \in 0..(n - m) : SubSeq(text, p + 1, p + m) = s
    BY DEF Contains
  <1>3. PICK T : text \in Seq(T)
    BY DEF IsText
  <1>4. p \in Nat /\ p + m <= n /\ p + m \in Nat /\ (p + m) - (p + 1) + 1 = m
    BY <1>1, <1>2
  <1> DEFINE q == p + m
             a == p + 1
  <1>5. q \in Nat /\ q <= n /\ a \in Nat /\ a >= 1 /\ q - a + 1 = m
    BY <1>4
  <1>6. SubSeq(text, a, q) = s
    BY <1>2
  <1> HIDE DEF q
  <1>7. SubSeq(text, a, q) = [i \in 1..(q - a + 1) |-> text[a + i - 1]]
    BY <1>3, <1>5
  <1>8. ASSUME NEW j \in 1..m
        PROVE  text[p + j] = s[j]
    <2>1. j \in 1..(q - a + 1)
      BY <1>5
    <2>2. a + j - 1 = p + j
      BY <1>1, <1>4
    <2> QED
      BY <1>6, <1>7, <2>1, <2>2
  <1>9. IsCopied(text, p, s)
    BY <1>4, <1>8 DEF IsCopied
  <1> QED
    BY <1>9

-----------------------------------------------------------------------------
(***************************************************************************)
(* What a verifier finds in an orderly text.                               *)
(***************************************************************************)
(* An orderly text that is not empty parses. *)
LEMMA OrderlyParses ==
    ASSUME NEW text, NEW v, Orderly(text, v), 1 \in 1..Len(text)
    PROVE  IsWellFormed(Parse(text)) /\ OneRoot(text, AllPrefixes)
  <1>1. Made(text, XadesNames, AllPrefixes)
    BY DEF Orderly
  <1>2. text # <<>>
    BY ShortTexts
  <1>3. OneRoot(text, AllPrefixes)
    BY <1>2 DEF Orderly
  <1>4. Declared(XadesNames, AllPrefixes)
    BY NamesIn DEF Declared
  <1> QED
    BY <1>1, <1>3, <1>4, NestedParses

(* Where a verifier finds the SignedInfo and the value in it. *)
LEMMA OrderlyHas ==
    ASSUME NEW text, NEW v, Orderly(text, v), NEW local \in InSignature,
           NEW k \in Positions(text, local)
    PROVE  /\ 2 \in Positions(text, "Signature")
           /\ \A j \in Positions(text, "Signature") : 2 <= j
           /\ InsideNamed(text, 2, local) = {k}
  <1>1. 2 \in Positions(text, "Signature") /\ Around(text, k) = {1, 2}
    BY DEF Orderly
  <1>2. \A j \in Positions(text, "Signature") : j = 2
    BY <1>1 DEF Orderly, SoleNames
  <1>3. \A j \in Positions(text, local) : j = k
    BY DEF Orderly, SoleNames, InSignature
  <1>4. k \in Elements(text) /\ 2 \in Elements(text) /\ text[k].name[2] = local
    BY <1>1 DEF Positions
  <1>5. Nested(text) /\ IsText(text)
    BY OrderlyIsText
  <1>6. EndTag(text, 2) > 2 /\ EndTag(text, 2) \in Nat /\ EndTag(text, 2) <= Len(text)
        /\ Len(text) \in Nat
    BY <1>4, <1>5, NestedEnds, TextIsSequence
  <1>7. 1 \in Elements(text) /\ EndTag(text, 1) = Len(text)
    <2>1. 2 \in 1..Len(text)
      BY <1>4, ElementsOf
    <2>2. 1 \in 1..Len(text)
      BY <1>6, <2>1
    <2> QED
      BY <2>2, OrderlyParses DEF OneRoot
  <1>8. Around(text, 2) = {1}
    <2>1. \A j \in Elements(text) : j \in Nat \ {0}
      BY ElementsOf
    <2>2. \A j \in Elements(text) : j < 2 => j = 1
      BY <2>1
    <2>3. EndTag(text, 1) > 2
      BY <1>6, <1>7
    <2> QED
      BY <1>7, <2>2, <2>3 DEF Around
  <1>9. k \in Inside(text, 2)
    BY <1>1, <1>4, <1>8 DEF Inside
  <1>10. \A j \in Inside(text, 2) : j \in Elements(text)
    BY DEF Inside
  <1>11. InsideNamed(text, 2, local) = {k}
    BY <1>3, <1>4, <1>9, <1>10 DEF InsideNamed, Named, Positions
  <1> QED
    BY <1>1, <1>2, <1>11

-----------------------------------------------------------------------------
(***************************************************************************)
(* What remains true of an enveloping signature, whatever becomes of it:   *)
(* it nests in its root; the SignedInfo, the value and the object that     *)
(* were made for it lie directly in the root, wherever their marks are     *)
(* found; and what a payload holds has none of these marks.                *)
(***************************************************************************)
(* The names in an enveloping signature. *)
EnvelopeNames ==
    {name \in PayloadNames : name[1] \in {"", "ds"}} \cup InfoNames
      \cup {Ds("Signature"), Ds("SignatureValue"), Ds("KeyInfo"), Ds("Object")}

(* The text nests in the root Signature.  Its one SignedInfo, its one value *)
(* v and the one element with this Id lie directly in it, and no other      *)
(* token has what a verifier knows them by.                                 *)
Enclosed(text, v, id) ==
    /\ Made(text, EnvelopeNames, {"ds"}) /\ Formed(text)
    /\ text = <<>> \/ (OneRoot(text, {"ds"}) /\ text[1].name = Ds("Signature"))
    /\ \A k \in Elements(text) :
          text[k].attr = C14nUri =>
             k - 1 \in InsideNamed(text, 1, "SignedInfo") /\ text[k - 1].ns = {"ds"}
    /\ \A k \in 1..Len(text) : \A x :
          text[k] = Text(x) /\ ~ NoValue(x) =>
             x = v /\ k - 1 \in InsideNamed(text, 1, "SignatureValue")
    /\ \A k \in Elements(text) :
          text[k].id = id => k \in Inside(text, 1) /\ text[k].ns = {"ds"}
    /\ \A i, j \in Elements(text) : text[i].id = id /\ text[j].id = id => i = j
    /\ \A local \in InSignature : \A i, j \in InsideNamed(text, 1, local) : i = j
    /\ \A k \in Elements(text) : text[k].ns = {} \/ k = 1 \/ k \in Inside(text, 1)

-----------------------------------------------------------------------------
(***************************************************************************)
(* What lies in the root of an edited text.                                *)
(***************************************************************************)
(* What lies directly in the root of t lies directly in the root of w. *)
LEMMA InsideFollows ==
    ASSUME NEW t, NEW w, Nested(t), Nested(w), NEW m, Follows(t, w, m),
           NEW k \in Elements(t)
    PROVE  m[k] \in Elements(w) /\ (k \in Inside(t, 1) <=> m[k] \in Inside(w, 1))
  <1>1. IsText(t) /\ IsText(w) /\ Len(t) \in Nat /\ Len(w) \in Nat
    <2>1. IsText(t) /\ IsText(w)
      BY DEF Nested
    <2> QED
      BY <2>1, TextIsSequence
  <1>2. \A j \in 1..Len(t) : m[j] \in 1..Len(w) /\ m[j] \in Nat /\ Likens(t[j], w[m[j]])
    BY <1>1 DEF Follows
  <1>3. \A j \in Elements(t) : j \in 1..Len(t) /\ m[j] \in Elements(w)
    BY <1>2, ElementsOf DEF Likens
  <1>4. k \in 1..Len(t) /\ m[k] \in Elements(w) /\ m[k] \in 1..Len(w)
    BY <1>2, <1>3
  <1>5. 1 \in 1..Len(t) /\ m[1] = 1
    <2>1. t # <<>>
      BY <1>4, ShortTexts
    <2> QED
      BY <2>1 DEF Follows
  <1>6. \A i, j \in 1..Len(t) : i < j <=> m[i] < m[j]
    <2>1. \A i, j \in 1..Len(t) : i < j => m[i] < m[j]
      BY DEF Follows
    <2> QED
      BY <1>1, <1>2, <2>1
  <1>7. \A i, j \in 1..Len(t) : m[i] = m[j] => i = j
    BY <1>1, <1>2, <1>6
  <1>8. Around(t, 1) = {} /\ Around(w, 1) = {}
    <2>1. \A s : \A j \in Elements(s) : j \in Nat \ {0}
      BY ElementsOf
    <2>2. \A s : \A j \in Elements(s) : ~ j < 1
      BY <2>1
    <2> QED
      BY <2>2 DEF Around
  <1>9. ASSUME NEW i \in Elements(t)
        PROVE  i \in Around(t, k) <=> m[i] \in Around(w, m[k])
    <2> DEFINE e == EndTag(t, i)
    <2>1. i \in 1..Len(t) /\ e \in 1..Len(t) /\ EndTag(w, m[i]) = m[e]
      BY <1>3 DEF Follows
    <2> HIDE DEF e
    <2>2. (e > k <=> m[e] > m[k]) /\ (i < k <=> m[i] < m[k])
      <3>1. (k < e <=> m[k] < m[e]) /\ (i < k <=> m[i] < m[k])
        BY <1>4, <1>6, <2>1
      <3> QED
        BY <1>1, <1>2, <1>4, <2>1, <3>1
    <2>3. m[i] \in Elements(w)
      BY <1>3
    <2> QED
      BY <2>1, <2>2, <2>3 DEF Around, e
  <1>10. \A i \in Around(w, m[k]) : \E h \in Elements(t) : m[h] = i
    <2> SUFFICES ASSUME NEW i \in Around(w, m[k])
                 PROVE  \E h \in Elements(t) : m[h] = i
      OBVIOUS
    <2>1. PICK h \in 1..Len(t) : m[h] = i
      BY DEF Follows
    <2>2. i \in Elements(w)
      BY DEF Around
    <2>3. h \in Elements(t)
      <3>1. t[h].kind = w[m[h]].kind
        BY <1>2, <2>1 DEF Likens
      <3>2. w[m[h]].kind = "open"
        BY <2>1, <2>2, ElementsOf
      <3> QED
        BY <2>1, <3>1, <3>2, ElementsOf
    <2> QED
      BY <2>1, <2>3
  <1>11. Around(t, k) \subseteq Elements(t)
    BY DEF Around
  <1>12. Around(t, k) = {1} <=> Around(w, m[k]) = {1}
    <2>1. ASSUME Around(t, k) = {1}
          PROVE  Around(w, m[k]) = {1}
      <3>1. 1 \in Elements(t) /\ m[1] \in Around(w, m[k])
        BY <1>9, <1>11, <2>1
      <3>2. \A i \in Around(w, m[k]) : i = 1
        <4> SUFFICES ASSUME NEW i \in Around(w, m[k]) PROVE i = 1
          OBVIOUS
        <4>1. PICK h \in Elements(t) : m[h] = i
          BY <1>10
        <4>2. h \in Around(t, k)
          BY <1>9, <4>1
        <4> QED
          BY <1>5, <2>1, <4>1, <4>2
      <3> QED
        BY <1>5, <3>1, <3>2
    <2>2. ASSUME Around(w, m[k]) = {1}
          PROVE  Around(t, k) = {1}
      <3>1. \A i \in Around(t, k) : i = 1
        <4> SUFFICES ASSUME NEW i \in Around(t, k) PROVE i = 1
          OBVIOUS
        <4>1. i \in Elements(t) /\ i \in 1..Len(t)
          BY <1>3, <1>11
        <4>2. m[i] = 1
          BY <1>9, <2>2, <4>1
        <4> QED
          BY <1>5, <1>7, <4>1, <4>2
      <3>2. 1 \in Around(t, k)
        <4>1. PICK h \in Elements(t) : m[h] = 1
          BY <1>10, <2>2
        <4>2. h \in Around(t, k)
          BY <1>9, <2>2, <4>1
        <4> QED
          BY <3>1, <4>2
      <3> QED
        BY <3>1, <3>2
    <2> QED
      BY <2>1, <2>2
  <1> QED
    BY <1>4, <1>8, <1>12 DEF Inside

(* What follows a text with one root has the same one. *)
LEMMA RootFollows ==
    ASSUME NEW w, Nested(w), NEW ns, w = <<>> \/ OneRoot(w, ns),
           NEW t, Nested(t), NEW m, Follows(t, w, m), t # <<>>
    PROVE  OneRoot(t, ns) /\ OneRoot(w, ns) /\ t[1].name = w[1].name
  <1>1. IsText(t) /\ IsText(w) /\ Len(t) \in Nat /\ Len(w) \in Nat
    <2>1. IsText(t) /\ IsText(w)
      BY DEF Nested
    <2> QED
      BY <2>1, TextIsSequence
  <1>2. \A j \in 1..Len(t) : m[j] \in 1..Len(w) /\ m[j] \in Nat /\ Likens(t[j], w[m[j]])
    BY <1>1 DEF Follows
  <1>3. \A j \in Elements(t) :
          /\ j \in 1..Len(t) /\ m[j] \in Elements(w)
          /\ t[j].name = w[m[j]].name /\ t[j].ns = w[m[j]].ns
    BY <1>2, ElementsOf DEF Likens
  <1>4. 1 \in 1..Len(t) /\ m[1] = 1
    BY DEF Follows
  <1>5. w # <<>>
    <2>1. Len(w) # 0
      BY <1>1, <1>2, <1>4
    <2> QED
      BY <2>1, ShortTexts
  <1>6. OneRoot(w, ns)
    BY <1>5
  <1>7. 1 \in Elements(w) /\ EndTag(w, 1) = Len(w) /\ w[1].ns = ns
    BY <1>6 DEF OneRoot
  <1>8. 1 \in Elements(t)
    <2>1. t[1].kind = w[1].kind /\ w[1].kind = "open"
      BY <1>2, <1>4, <1>7, ElementsOf DEF Likens
    <2> QED
      BY <1>4, <2>1, ElementsOf
  <1>9. t[1].ns = ns /\ t[1].name = w[1].name
    BY <1>3, <1>4, <1>7, <1>8
  <1>10. EndTag(t, 1) = Len(t)
    <2> DEFINE e == EndTag(t, 1)
    <2>1. e \in 1..Len(t) /\ Len(w) = m[e]
      BY <1>4, <1>7, <1>8 DEF Follows
    <2> HIDE DEF e
    <2>2. Len(t) \in 1..Len(t)
      BY <1>1, <2>1
    <2>3. e < Len(t) => m[e] < m[Len(t)]
      BY <2>1, <2>2 DEF Follows
    <2>4. m[Len(t)] <= Len(w)
      BY <1>1, <1>2, <2>2
    <2>5. e = Len(t)
      BY <1>1, <1>2, <2>1, <2>3, <2>4
    <2> QED
      BY <2>5 DEF e
  <1>11. \A j \in Elements(t) : t[j].ns \subseteq ns
    BY <1>3, <1>6 DEF OneRoot
  <1> QED
    BY <1>1, <1>6, <1>8, <1>9, <1>10, <1>11 DEF OneRoot

(* Altering and leaving out keep all of it. *)
LEMMA EnclosedFollows ==
    ASSUME NoValue(Altered), NEW v, NEW id, id # OtherAttr,
           NEW w, Enclosed(w, v, id),
           NEW t, Nested(t), Formed(t), NEW m, Follows(t, w, m)
    PROVE  Enclosed(t, v, id)
  <1>1. /\ IsText(t) /\ IsText(w) /\ Len(t) \in Nat /\ Len(w) \in Nat
        /\ Nested(w) /\ Nested(t)
    <2>1. IsText(t) /\ IsText(w) /\ Nested(w)
      BY DEF Nested, Enclosed, Made
    <2> QED
      BY <2>1, TextIsSequence
  <1>2. \A j \in 1..Len(t) : m[j] \in 1..Len(w) /\ m[j] \in Nat /\ Likens(t[j], w[m[j]])
    BY <1>1 DEF Follows
  <1>3. \A j \in Elements(t) :
          /\ j \in 1..Len(t) /\ m[j] \in Elements(w)
          /\ t[j].name = w[m[j]].name /\ t[j].ns = w[m[j]].ns
          /\ t[j].id = w[m[j]].id \/ t[j].id = OtherAttr
          /\ t[j].attr = w[m[j]].attr \/ t[j].attr = OtherAttr
    BY <1>2, ElementsOf DEF Likens
  <1>4. \A i, j \in 1..Len(t) : m[i] = m[j] => i = j
    <2>1. \A i, j \in 1..Len(t) : i < j => m[i] < m[j]
      BY DEF Follows
    <2> QED
      BY <1>1, <1>2, <2>1
  <1>5. \A k \in Elements(t) : k \in Inside(t, 1) <=> m[k] \in Inside(w, 1)
    BY <1>1, InsideFollows
  <1>6. \A local : \A k \in Elements(t) :
          k \in InsideNamed(t, 1, local) <=> m[k] \in InsideNamed(w, 1, local)
    BY <1>3, <1>5 DEF InsideNamed, Named
  <1>7. \A local : InsideNamed(t, 1, local) \subseteq Elements(t)
    BY DEF InsideNamed, Named, Inside
  <1>8. \A local : InsideNamed(w, 1, local) \subseteq Elements(w)
    BY DEF InsideNamed, Named, Inside
  <1>9. C14nUri # OtherAttr
    <2>1. C14nUri[1] # OtherAttr[1]
      BY DEF C14nUri, OtherAttr
    <2> QED
      BY <2>1
  <1>10. ASSUME NEW k \in 1..Len(t), NEW local, m[k] - 1 \in InsideNamed(w, 1, local)
         PROVE  /\ k - 1 \in InsideNamed(t, 1, local)
                /\ t[k - 1].ns = w[m[k] - 1].ns
    <2>1. m[k] - 1 \in Elements(w)
      BY <1>8, <1>10
    <2>2. k - 1 \in 1..Len(t) /\ m[k - 1] = m[k] - 1
      BY <2>1 DEF Follows
    <2> DEFINE j == k - 1
    <2> HIDE DEF j
    <2>3. j \in 1..Len(t) /\ m[j] \in Elements(w) /\ m[j] \in InsideNamed(w, 1, local)
      BY <1>10, <2>1, <2>2 DEF j
    <2>4. j \in Elements(t)
      BY <1>2, <2>3, ElementsOf DEF Likens
    <2>5. j \in InsideNamed(t, 1, local)
      BY <1>6, <2>3, <2>4
    <2>6. t[j].ns = w[m[j]].ns
      BY <1>3, <2>4
    <2> QED
      BY <2>2, <2>5, <2>6 DEF j
  <1>11. Made(t, EnvelopeNames, {"ds"})
    BY <1>1, <1>3 DEF Made, Enclosed
  <1>12. t = <<>> \/ (OneRoot(t, {"ds"}) /\ t[1].name = Ds("Signature"))
    <2> SUFFICES ASSUME t # <<>>
                 PROVE  OneRoot(t, {"ds"}) /\ t[1].name = Ds("Signature")
      OBVIOUS
    <2>1. w = <<>> \/ OneRoot(w, {"ds"})
      BY DEF Enclosed
    <2>2. OneRoot(t, {"ds"}) /\ OneRoot(w, {"ds"}) /\ t[1].name = w[1].name
      BY <1>1, <2>1, RootFollows
    <2>3. w # <<>>
      <3>1. 1 \in Elements(w)
        BY <2>2 DEF OneRoot
      <3>2. 1 \in 1..Len(w)
        BY <3>1, ElementsOf
      <3> QED
        BY <3>2, ShortTexts
    <2>4. w[1].name = Ds("Signature")
      BY <2>3 DEF Enclosed
    <2> QED
      BY <2>2, <2>4
  <1>13. ASSUME NEW k \in Elements(t), t[k].attr = C14nUri
         PROVE  k - 1 \in InsideNamed(t, 1, "SignedInfo") /\ t[k - 1].ns = {"ds"}
    <2>1. k \in 1..Len(t) /\ m[k] \in Elements(w) /\ w[m[k]].attr = C14nUri
      BY <1>3, <1>9, <1>13
    <2>2. m[k] - 1 \in InsideNamed(w, 1, "SignedInfo") /\ w[m[k] - 1].ns = {"ds"}
      BY <2>1 DEF Enclosed
    <2> QED
      BY <1>10, <2>1, <2>2
  <1>14. ASSUME NEW k \in 1..Len(t), NEW x, t[k] = Text(x), ~ NoValue(x)
         PROVE  x = v /\ k - 1 \in InsideNamed(t, 1, "SignatureValue")
    <2>1. m[k] \in 1..Len(w) /\ (w[m[k]] = t[k] \/ x = Altered)
      BY <1>2, <1>14 DEF Likens
    <2>2. x # Altered
      BY <1>14
    <2>3. w[m[k]] = Text(x)
      BY <1>14, <2>1, <2>2
    <2>4. x = v /\ m[k] - 1 \in InsideNamed(w, 1, "SignatureValue")
      BY <1>14, <2>1, <2>3 DEF Enclosed
    <2> QED
      BY <1>10, <2>4
  <1>15. ASSUME NEW k \in Elements(t), t[k].id = id
         PROVE  m[k] \in Elements(w) /\ w[m[k]].id = id
    BY <1>3, <1>15
  <1>16. ASSUME NEW k \in Elements(t), t[k].id = id
         PROVE  k \in Inside(t, 1) /\ t[k].ns = {"ds"}
    <2>1. m[k] \in Inside(w, 1) /\ w[m[k]].ns = {"ds"}
      BY <1>15, <1>16 DEF Enclosed
    <2> QED
      BY <1>3, <1>5, <2>1
  <1>17. ASSUME NEW i \in Elements(t), NEW j \in Elements(t), t[i].id = id, t[j].id = id
         PROVE  i = j
    <2>1. m[i] = m[j]
      BY <1>15, <1>17 DEF Enclosed
    <2> QED
      BY <1>3, <1>4, <2>1
  <1>18. ASSUME NEW local \in InSignature,
                NEW i \in InsideNamed(t, 1, local), NEW j \in InsideNamed(t, 1, local)
         PROVE  i = j
    <2>1. i \in Elements(t) /\ j \in Elements(t)
      BY <1>7
    <2>2. m[i] \in InsideNamed(w, 1, local) /\ m[j] \in InsideNamed(w, 1, local)
      BY <1>6, <2>1
    <2>3. m[i] = m[j]
      BY <2>2 DEF Enclosed
    <2> QED
      BY <1>3, <1>4, <2>1, <2>3
  <1>19. ASSUME NEW k \in Elements(t)
         PROVE  t[k].ns = {} \/ k = 1 \/ k \in Inside(t, 1)
    <2>1. m[k] \in Elements(w) /\ t[k].ns = w[m[k]].ns /\ k \in 1..Len(t)
      BY <1>3
    <2>2. w[m[k]].ns = {} \/ m[k] = 1 \/ m[k] \in Inside(w, 1)
      BY <2>1 DEF Enclosed
    <2>3. m[k] = 1 => k = 1
      <3>1. t # <<>>
        BY <2>1, ShortTexts
      <3>2. 1 \in 1..Len(t) /\ m[1] = 1
        BY <3>1 DEF Follows
      <3> QED
        BY <1>4, <2>1, <3>2
    <2> QED
      BY <1>5, <2>1, <2>2, <2>3
  <1> HIDE DEF InSignature
  <1> QED
    BY <1>11, <1>12, <1>13, <1>14, <1>16, <1>17, <1>18, <1>19 DEF Enclosed

-----------------------------------------------------------------------------
(***************************************************************************)
(* Tokens that a verifier does not look for: no Id, not the method of the  *)
(* canonical form, no prefix declared, no value.                           *)
(***************************************************************************)
(* A token that no verifier looks for. *)
IsQuiet(t) ==
    \/ \E x : t = Text(x) /\ NoValue(x)
    \/ \E name : t = Close(name)
    \/ \E name, attr : t = Open(name, NoId, attr, {}) /\ attr # C14nUri

(* Outside of S a text has none but quiet tokens. *)
QuietBut(s, S) == IsText(s) /\ \A k \in 1..Len(s) : k \in S \/ IsQuiet(s[k])

(* A piece of text that is no value is quiet. *)
LEMMA QuietText ==
    ASSUME NEW x, NoValue(x)
    PROVE  QuietBut(<<Text(x)>>, {})
  <1> DEFINE t == Text(x)
             s == <<t>>
  <1>1. IsQuiet(t)
    BY DEF IsQuiet
  <1> HIDE DEF t
  <1>2. IsText(s) /\ Len(s) = 1 /\ s[1] = t
    BY ShortTexts
  <1> HIDE DEF s
  <1>3. \A k \in 1..Len(s) : k = 1
    BY <1>2
  <1>4. QuietBut(s, {})
    BY <1>1, <1>2, <1>3 DEF QuietBut
  <1> QED
    BY <1>4 DEF s, t

(* So is the empty text. *)
LEMMA QuietNone ==
    ASSUME NEW S
    PROVE  QuietBut(<<>>, S)
  BY ShortTexts DEF QuietBut

(* What is not quiet in two texts joined is not so in one of them. *)
LEMMA QuietJoin ==
    ASSUME NEW s, NEW S, QuietBut(s, S), NEW t, NEW T, QuietBut(t, T),
           NEW U, S \subseteq U, \A k \in T : Len(s) + k \in U
    PROVE  QuietBut(Then(s, t), U)
  <1>1. IsText(s) /\ IsText(t)
    BY DEF QuietBut
  <1>2. Len(s) \in Nat /\ Len(t) \in Nat
    BY <1>1, TextIsSequence
  <1>3. /\ IsText(Then(s, t)) /\ Len(Then(s, t)) = Len(s) + Len(t)
        /\ \A k \in 1..Len(s) : Then(s, t)[k] = s[k]
        /\ \A k \in 1..Len(t) : Then(s, t)[Len(s) + k] = t[k]
    BY <1>1, Join
  <1>4. ASSUME NEW k \in 1..Len(Then(s, t))
        PROVE  k \in U \/ IsQuiet(Then(s, t)[k])
    <2>1. CASE k <= Len(s)
      <3>1. k \in 1..Len(s)
        BY <1>2, <1>3, <2>1
      <3> QED
        BY <1>3, <3>1 DEF QuietBut
    <2>2. CASE k > Len(s)
      <3> DEFINE m == k - Len(s)
      <3>1. m \in 1..Len(t) /\ k = Len(s) + m
        BY <1>2, <1>3, <2>2
      <3> HIDE DEF m
      <3> QED
        BY <1>3, <3>1 DEF QuietBut
    <2> QED
      BY <1>2, <2>1, <2>2
  <1> QED
    BY <1>3, <1>4 DEF QuietBut

(* Nor is it in an element, but in its content and perhaps its start tag. *)
LEMMA QuietElement ==
    ASSUME NEW name, NEW id, NEW attr, NEW ns, NEW c, NEW S, QuietBut(c, S),
           NEW U, \A k \in S : k + 1 \in U,
           1 \in U \/ (id = NoId /\ ns = {} /\ attr # C14nUri)
    PROVE  QuietBut(Element(name, id, attr, ns, c), U)
  <1> DEFINE all == Element(name, id, attr, ns, c)
             n == Len(c)
  <1>1. IsText(c) /\ n \in Nat
    BY TextIsSequence DEF QuietBut
  <1>2. /\ IsText(all) /\ Len(all) = n + 2
        /\ all[1] = Open(name, id, attr, ns) /\ all[n + 2] = Close(name)
        /\ \A k \in 1..n : all[k + 1] = c[k]
    BY <1>1, ElementIs
  <1>3. (1 \in U \/ IsQuiet(all[1])) /\ IsQuiet(all[n + 2])
    <2> HIDE DEF all, n
    <2>1. all[1] = Open(name, id, attr, ns) /\ all[n + 2] = Close(name)
      BY <1>2
    <2>2. IsQuiet(all[n + 2])
      BY <2>1 DEF IsQuiet
    <2>3. ASSUME id = NoId, ns = {}, attr # C14nUri
          PROVE  IsQuiet(all[1])
      BY <2>1, <2>3 DEF IsQuiet
    <2> QED
      BY <2>2, <2>3
  <1> HIDE DEF all, n
  <1>4. ASSUME NEW k \in 1..Len(all)
        PROVE  k \in U \/ IsQuiet(all[k])
    <2>1. k = 1 \/ k = n + 2 \/ k - 1 \in 1..n
      BY <1>1, <1>2
    <2>2. ASSUME k - 1 \in 1..n
          PROVE  k \in U \/ IsQuiet(all[k])
      <3> DEFINE m == k - 1
      <3>1. m \in 1..n /\ k = m + 1
        BY <2>2
      <3> HIDE DEF m
      <3>2. all[k] = c[m]
        BY <1>2, <3>1
      <3>3. m \in S \/ IsQuiet(c[m])
        BY <3>1 DEF QuietBut, n
      <3> QED
        BY <3>1, <3>2, <3>3
    <2> QED
      BY <1>3, <2>1, <2>2
  <1> QED
    BY <1>2, <1>4 DEF QuietBut, all

(* A leaf without a value is quiet. *)
LEMMA QuietLeaf ==
    ASSUME NEW name, NEW attr, attr # C14nUri, NEW x, NoValue(x)
    PROVE  /\ QuietBut(Element(name, NoId, attr, {}, <<Text(x)>>), {})
           /\ QuietBut(Element(name, NoId, attr, {}, <<>>), {})
  <1> DEFINE none == {}
             c == <<Text(x)>>
             d == <<>>
  <1>1. QuietBut(c, none) /\ QuietBut(d, none)
    BY QuietText, QuietNone
  <1>2. \A k \in none : k + 1 \in none
    OBVIOUS
  <1>3. none = {}
    OBVIOUS
  <1> HIDE DEF c, d, none
  <1>4. QuietBut(Element(name, NoId, attr, none, c), none)
    BY <1>1, <1>2, <1>3, QuietElement
  <1>5. QuietBut(Element(name, NoId, attr, none, d), none)
    BY <1>1, <1>2, <1>3, QuietElement
  <1> QED
    BY <1>4, <1>5 DEF none, c, d

(* So is a payload, however it is filled. *)
LEMMA FilledIsQuiet ==
    ASSUME NEW s, QuietBut(s, {}), NEW name, NEW x, NoValue(x)
    PROVE  /\ QuietBut(Then(s, Leaf(name, x)), {})
           /\ QuietBut(Element(name, NoId, NoAttr, {}, s), {})
  <1> DEFINE none == {}
             t == Leaf(name, x)
  <1>1. NoAttr # C14nUri
    <2>1. NoAttr[1] # C14nUri[1]
      BY DEF NoAttr, C14nUri
    <2> QED
      BY <2>1
  <1>2. QuietBut(t, none)
    BY <1>1, QuietLeaf DEF Leaf
  <1>3. /\ \A k \in none : k + 1 \in none
        /\ \A k \in none : Len(s) + k \in none
        /\ none \subseteq none /\ none = {}
    OBVIOUS
  <1>4. QuietBut(s, none)
    OBVIOUS
  <1> HIDE DEF t, none
  <1>5. QuietBut(Then(s, t), none)
    BY <1>2, <1>3, <1>4, QuietJoin
  <1>6. QuietBut(Element(name, NoId, NoAttr, none, s), none)
    BY <1>1, <1>3, <1>4, QuietElement
  <1> QED
    BY <1>5, <1>6 DEF t, none

-----------------------------------------------------------------------------
(***************************************************************************)
(* An enclosed text stays enclosed, and its copies of the parts give them  *)
(* away.                                                                   *)
(***************************************************************************)
(* An altered token leaves it enclosed. *)
LEMMA EnclosedAltered ==
    ASSUME NoValue(Altered), NEW v, NEW id, id # OtherAttr, NEW w, Enclosed(w, v, id),
           NEW k \in 1..Len(w), NEW token \in AlteredTokens(w[k])
    PROVE  Enclosed([w EXCEPT ![k] = token], v, id)
  <1> DEFINE t == [w EXCEPT ![k] = token]
  <1>1. Nested(w) /\ Formed(w)
    BY DEF Enclosed, Made
  <1>2. Nested(t) /\ Formed(t) /\ \E m : Follows(t, w, m)
    BY <1>1, AlteringFollows
  <1> HIDE DEF t
  <1>3. PICK m : Follows(t, w, m)
    BY <1>2
  <1>4. Enclosed(t, v, id)
    BY <1>2, <1>3, EnclosedFollows
  <1> QED
    BY <1>4 DEF t

(* So does an element left out. *)
LEMMA EnclosedLosing ==
    ASSUME NoValue(Altered), NEW v, NEW id, id # OtherAttr, NEW w, Enclosed(w, v, id),
           NEW k \in Elements(w)
    PROVE  Enclosed(SubSeq(w, 1, k - 1) \o SubSeq(w, EndTag(w, k) + 1, Len(w)), v, id)
  <1> DEFINE t == SubSeq(w, 1, k - 1) \o SubSeq(w, EndTag(w, k) + 1, Len(w))
  <1>1. Nested(w) /\ Formed(w)
    BY DEF Enclosed, Made
  <1>2. Nested(t) /\ Formed(t) /\ \E m : Follows(t, w, m)
    <2>1. EndTag(w, 1) = Len(w)
      <3>1. k \in 1..Len(w)
        BY ElementsOf
      <3>2. w # <<>>
        BY <3>1, ShortTexts
      <3> QED
        BY <3>2 DEF Enclosed, OneRoot
    <2> QED
      BY <1>1, <2>1, LosingFollows
  <1> HIDE DEF t
  <1>3. PICK m : Follows(t, w, m)
    BY <1>2
  <1>4. Enclosed(t, v, id)
    BY <1>2, <1>3, EnclosedFollows
  <1> QED
    BY <1>4 DEF t

(* Tokens with the same form say the same, but for the prefixes that they   *)
(* declare.                                                                 *)
LEMMA FormKeeps ==
    ASSUME NEW t, IsFormed(t), NEW u, IsFormed(u), NEW m, NEW n,
           FormOf(t, m) = FormOf(u, n)
    PROVE  /\ t.kind = u.kind
           /\ t.kind = "open" => t.id = u.id /\ t.attr = u.attr
           /\ (t.kind = "open" => t.ns = u.ns) => t = u
  <1>1. ASSUME NEW w, IsFormed(w), NEW ns
        PROVE  /\ FormOf(w, ns).kind = w.kind
               /\ w.kind # "open" => FormOf(w, ns) = w
               /\ w.kind = "open" =>
                    /\ w = Open(w.name, w.id, w.attr, w.ns)
                    /\ FormOf(w, ns).name = w.name /\ FormOf(w, ns).id = w.id
                    /\ FormOf(w, ns).attr = w.attr
    <2>1. CASE \E x : w = Text(x)
      BY <2>1 DEF Text, FormOf
    <2>2. CASE \E name : w = Close(name)
      BY <2>2 DEF Close, FormOf
    <2>3. CASE \E name, id, attr, ns0 : w = Open(name, id, attr, ns0)
      <3>1. PICK name, id, attr, ns0 : w = Open(name, id, attr, ns0)
        BY <2>3
      <3>2. /\ w.kind = "open" /\ w.name = name /\ w.id = id /\ w.attr = attr
            /\ w.ns = ns0
        BY <3>1 DEF Open
      <3>3. FormOf(w, ns) = Open(name, id, attr, ns)
        BY <3>1 DEF Open, FormOf
      <3>4. /\ FormOf(w, ns).kind = "open" /\ FormOf(w, ns).name = name
            /\ FormOf(w, ns).id = id /\ FormOf(w, ns).attr = attr
        BY <3>3 DEF Open
      <3>5. w = Open(w.name, w.id, w.attr, w.ns)
        BY <3>1, <3>2
      <3> QED
        BY <3>2, <3>4, <3>5
    <2> QED
      BY <1>1, <2>1, <2>2, <2>3 DEF IsFormed
  <1>2. t.kind = u.kind
    <2>1. FormOf(t, m).kind = t.kind /\ FormOf(u, n).kind = u.kind
      BY <1>1
    <2> QED
      BY <2>1
  <1>3. CASE t.kind = "open"
    <2>1. /\ t = Open(t.name, t.id, t.attr, t.ns)
          /\ FormOf(t, m).name = t.name /\ FormOf(t, m).id = t.id
          /\ FormOf(t, m).attr = t.attr
      BY <1>1, <1>3
    <2>2. /\ u = Open(u.name, u.id, u.attr, u.ns)
          /\ FormOf(u, n).name = u.name /\ FormOf(u, n).id = u.id
          /\ FormOf(u, n).attr = u.attr
      BY <1>1, <1>2, <1>3
    <2>3. t.name = u.name /\ t.id = u.id /\ t.attr = u.attr
      BY <2>1, <2>2
    <2>4. ASSUME t.ns = u.ns PROVE t = u
      <3>1. Open(t.name, t.id, t.attr, t.ns) = Open(u.name, u.id, u.attr, u.ns)
        BY <2>3, <2>4
      <3> QED
        BY <2>1, <2>2, <3>1
    <2> QED
      BY <1>2, <1>3, <2>3, <2>4
  <1>4. CASE t.kind # "open"
    <2>1. FormOf(t, m) = t /\ FormOf(u, n) = u
      BY <1>1, <1>2, <1>4
    <2> QED
      BY <1>2, <1>4, <2>1
  <1> QED
    BY <1>3, <1>4

(* What lies in the root of an enclosed text, and has the canonical form of *)
(* a part, is a copy of it.                                                 *)
LEMMA EnclosedCopy ==
    ASSUME NEW v, NEW id, NEW text, Enclosed(text, v, id),
           NEW part, IsText(part), Formed(part),
           \A j \in Elements(part) : part[j].ns = IF j = 1 THEN {"ds"} ELSE {},
           NEW a \in Inside(text, 1), text[a].ns = {"ds"}, FormsAs(text, a, part)
    PROVE  \E p : p + 1 = a /\ IsCopied(text, p, part)
  <1> DEFINE n == Len(part)
             e == EndTag(text, a)
             p == a - 1
  <1>1. Nested(text) /\ IsText(text) /\ Len(text) \in Nat /\ Formed(text)
    <2>1. Nested(text) /\ IsText(text) /\ Formed(text)
      BY DEF Enclosed, Made, Nested
    <2> QED
      BY <2>1, TextIsSequence
  <1>2. /\ a \in Nat \ {0} /\ n \in Nat /\ e + 1 = a + n /\ a + n - 1 \in 1..Len(text)
        /\ \A j \in 1..n :
              /\ a + j - 1 \in 1..Len(text)
              /\ \E x, y : FormOf(text[a + j - 1], x) = FormOf(part[j], y)
    BY DEF FormsAs
  <1>3. a \in Elements(text) /\ Around(text, a) = {1} \cup Around(text, 1)
    BY DEF Inside
  <1>4. e \in Nat /\ a < e /\ text[e].kind = "close"
    <2>1. e \in Nat /\ a < e /\ text[e] = Close(text[a].name)
      BY <1>1, <1>3, NestedEnds
    <2> QED
      BY <2>1 DEF Close
  <1>5. a # 1
    <2>1. 1 \in Around(text, a)
      BY <1>3
    <2>2. 1 < a
      BY <2>1 DEF Around
    <2> QED
      BY <2>2
  <1>6. Around(text, 1) = {}
    <2>1. \A j \in Elements(text) : ~ j < 1
      BY ElementsOf
    <2> QED
      BY <2>1 DEF Around
  <1> HIDE DEF n, e
  <1>7. ASSUME NEW k \in Elements(text), a < k, k < e
        PROVE  text[k].ns = {}
    <2>1. a \in Around(text, k)
      BY <1>3, <1>7 DEF Around, e
    <2>2. Around(text, k) # {1}
      BY <1>5, <2>1
    <2>3. k \notin Inside(text, 1)
      BY <1>6, <2>2 DEF Inside
    <2>4. k # 1
      BY <1>2, <1>7
    <2> QED
      BY <2>3, <2>4 DEF Enclosed
  <1>8. ASSUME NEW j \in 1..n
        PROVE  text[a + j - 1] = part[j]
    <2> DEFINE k == a + j - 1
    <2>1. k \in 1..Len(text) /\ \E x, y : FormOf(text[k], x) = FormOf(part[j], y)
      BY <1>2
    <2>2. IsFormed(text[k]) /\ IsFormed(part[j])
      BY <1>1, <2>1 DEF Formed, n
    <2>3. j \in Nat /\ (j = 1 => k = a) /\ (j # 1 => a < k) /\ k <= e
      BY <1>2, <1>4
    <2> HIDE DEF k
    <2>4. PICK x, y : FormOf(text[k], x) = FormOf(part[j], y)
      BY <2>1
    <2>5. /\ text[k].kind = part[j].kind
          /\ (text[k].kind = "open" => text[k].ns = part[j].ns) => text[k] = part[j]
      BY <2>2, <2>4, FormKeeps
    <2>6. ASSUME text[k].kind = "open"
          PROVE  text[k].ns = part[j].ns
      <3>1. k \in Elements(text) /\ j \in Elements(part)
        BY <2>1, <2>5, <2>6, ElementsOf DEF n
      <3>2. k # e
        BY <1>4, <2>6
      <3>3. CASE j = 1
        BY <2>3, <3>1, <3>3
      <3>4. CASE j # 1
        <4>1. a < k /\ k < e
          BY <1>2, <1>4, <2>1, <2>3, <3>2, <3>4
        <4> QED
          BY <1>7, <3>1, <3>4, <4>1
      <3> QED
        BY <3>3, <3>4
    <2>7. text[k] = part[j]
      BY <2>5, <2>6
    <2> QED
      BY <2>7 DEF k
  <1>9. p \in Nat /\ p + 1 = a /\ p + n <= Len(text)
    BY <1>2
  <1>10. ASSUME NEW j \in 1..n
         PROVE  text[p + j] = part[j]
    <2>1. a + j - 1 = p + j
      BY <1>2
    <2> HIDE DEF p
    <2> QED
      BY <1>8, <2>1
  <1> HIDE DEF p
  <1>11. IsCopied(text, p, part)
    BY <1>9, <1>10 DEF IsCopied, n
  <1> QED
    BY <1>9, <1>11

(* What a quiet token tells. *)
LEMMA QuietTells ==
    ASSUME NEW t, IsQuiet(t)
    PROVE  /\ IsFormed(t)
           /\ t.kind = "open" => t.id = NoId /\ t.ns = {} /\ t.attr # C14nUri
  <1>1. IsFormed(t)
    BY DEF IsQuiet, IsFormed
  <1>2. ASSUME t.kind = "open"
        PROVE  t.id = NoId /\ t.ns = {} /\ t.attr # C14nUri
    <2>1. \A x : t # Text(x)
      BY <1>2 DEF Text
    <2>2. \A name : t # Close(name)
      BY <1>2 DEF Close
    <2>3. PICK name, attr : t = Open(name, NoId, attr, {}) /\ attr # C14nUri
      BY <2>1, <2>2 DEF IsQuiet
    <2>4. t.id = NoId /\ t.ns = {} /\ t.attr = attr
      BY <2>3 DEF Open
    <2> QED
      BY <2>3, <2>4
  <1> QED
    BY <1>1, <1>2

(* An enclosed text is well-formed, and its root is the signature. *)
LEMMA EnclosedParses ==
    ASSUME NEW text, NEW v, NEW id, Enclosed(text, v, id), 1 \in 1..Len(text)
    PROVE  /\ IsWellFormed(Parse(text)) /\ OneRoot(text, {"ds"})
           /\ 1 \in Positions(text, "Signature")
  <1>1. Made(text, EnvelopeNames, {"ds"})
    BY DEF Enclosed
  <1>2. text # <<>>
    BY ShortTexts
  <1>3. OneRoot(text, {"ds"}) /\ text[1].name = Ds("Signature")
    BY <1>2 DEF Enclosed
  <1>4. Declared(EnvelopeNames, {"ds"})
    <2>1. \A name \in InfoNames : name[1] = "ds"
      BY DEF InfoNames, Ds
    <2>2. \A local : Ds(local)[1] = "ds"
      BY DEF Ds
    <2> QED
      BY <2>1, <2>2 DEF Declared, EnvelopeNames
  <1>5. IsWellFormed(Parse(text))
    <2> DEFINE ns == {"ds"}
    <2>1. Made(text, EnvelopeNames, ns) /\ OneRoot(text, ns) /\ Declared(EnvelopeNames, ns)
      BY <1>1, <1>3, <1>4
    <2> HIDE DEF ns
    <2> QED
      BY <2>1, NestedParses
  <1>6. 1 \in Positions(text, "Signature")
    BY <1>3 DEF OneRoot, Positions, Ds
  <1> QED
    BY <1>3, <1>5, <1>6

(* Where a part stands that has none of these elements, none are found. *)
LEMMA NoneWhereItStands ==
    ASSUME NEW text, NEW p, NEW s, StandsAt(text, p, s), NEW local,
           Positions(s, local) = {}, NEW j \in Positions(text, local)
    PROVE  j <= p \/ p + Len(s) < j
  <1>1. /\ p \in Nat /\ Len(s) \in Nat /\ j \in Nat
        /\ j \in Elements(text) /\ text[j].name[2] = local
    <2>1. IsText(s)
      BY DEF StandsAt, Nested
    <2>2. p \in Nat /\ Len(s) \in Nat
      BY <2>1, TextIsSequence DEF StandsAt
    <2>3. j \in Elements(text) /\ text[j].name[2] = local
      BY DEF Positions
    <2> QED
      BY <2>2, <2>3, ElementsOf
  <1>2. SUFFICES ASSUME p < j, j <= p + Len(s)
                 PROVE  FALSE
    BY <1>1
  <1> DEFINE k == j - p
  <1>3. k \in 1..Len(s) /\ p + k = j
    BY <1>1, <1>2
  <1> HIDE DEF k
  <1>4. text[p + k] = s[k] /\ (p + k \in Elements(text) <=> k \in Elements(s))
    BY <1>3 DEF StandsAt
  <1>5. k \in Elements(s) /\ s[k].name[2] = local
    BY <1>1, <1>3, <1>4
  <1> QED
    BY <1>5 DEF Positions
=============================================================================
