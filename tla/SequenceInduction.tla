-------------------------- MODULE SequenceInduction --------------------------
(***************************************************************************)
(* Induction over the numbers as a statement about sets, and what it gives *)
(* for the recursive functions that the modules fold sequences with.       *)
(***************************************************************************)
EXTENDS Integers, SequencesExt, SequenceTheorems, WellFoundedInduction, TLAPS

\* A set of numbers is never infinitely descending.
Before == {p \in Nat \X Nat : p[1] < p[2]}

LEMMA BeforeIsFounded == IsWellFoundedOn(Before, Nat)
  BY NatLessThanWellFounded, Zenon DEF OpToRel, Before

LEMMA LeastNumber ==
    ASSUME NEW T, T \subseteq Nat, T # {}
    PROVE  \E x \in T : \A y \in T : x <= y
  <1>1. \A m, n \in Nat : ~ (<<m, n>> \in Before) => n <= m
    BY DEF Before
  <1>2. PICK x \in T : \A y \in T : ~ (<<y, x>> \in Before)
    BY BeforeIsFounded, WFMin, Zenon
  <1>3. \A y \in T : x <= y
    BY <1>1, <1>2
  <1> QED
    BY <1>3

LEMMA Induction ==
    ASSUME NEW S, 0 \in S, \A n \in Nat : n \in S => n + 1 \in S
    PROVE  \A n \in Nat : n \in S
  <1> DEFINE T == Nat \ S
  <1> SUFFICES ASSUME T # {} PROVE FALSE
    OBVIOUS
  <1>1. PICK x \in T : \A y \in T : x <= y
    BY LeastNumber
  <1>2. x \in Nat /\ x # 0 /\ x - 1 \in Nat
    BY <1>1
  <1>3. x - 1 \in S
    BY <1>1, <1>2
  <1> QED
    BY <1>1, <1>2, <1>3
-----------------------------------------------------------------------------
(***************************************************************************)
(* FlattenSeq, by the function it is defined with.                         *)
(***************************************************************************)
Flattens(f, seqs, n) ==
    f = [i \in 1..n |-> IF i = 1 THEN seqs[i] ELSE f[i - 1] \o seqs[i]]

LEMMA FlattensExists ==
    ASSUME NEW seqs
    PROVE  \A n \in Nat : \E f : Flattens(f, seqs, n)
  <1> DEFINE S == {n \in Nat : \E f : Flattens(f, seqs, n)}
  <1>1. 0 \in S
    <2> DEFINE f == [i \in 1..0 |-> seqs[i]]
    <2>1. Flattens(f, seqs, 0)
      BY DEF Flattens
    <2> QED
      BY <2>1
  <1>2. ASSUME NEW n \in Nat, n \in S
        PROVE  n + 1 \in S
    <2>1. PICK f : Flattens(f, seqs, n)
      BY <1>2
    <2> DEFINE last == IF n + 1 = 1 THEN seqs[n + 1] ELSE f[n] \o seqs[n + 1]
               g == [i \in 1..(n + 1) |-> IF i = n + 1 THEN last ELSE f[i]]
    <2>2. ASSUME NEW i \in 1..(n + 1)
          PROVE  g[i] = IF i = 1 THEN seqs[i] ELSE g[i - 1] \o seqs[i]
      <3>1. CASE i = n + 1
        <4>1. CASE i = 1
          BY <3>1, <4>1
        <4>2. CASE i # 1
          <5>1. i - 1 = n /\ n \in 1..(n + 1) /\ n # n + 1
            BY <3>1, <4>2
          <5>2. g[i - 1] = f[n]
            BY <5>1
          <5> QED
            BY <3>1, <4>2, <5>2
        <4> QED
          BY <4>1, <4>2
      <3>2. CASE i # n + 1
        <4>1. /\ i \in 1..n
              /\ i # 1 => i - 1 \in 1..(n + 1) /\ i - 1 # n + 1
          BY <3>2
        <4>2. g[i] = f[i] /\ (i # 1 => g[i - 1] = f[i - 1])
          BY <3>2, <4>1
        <4>3. f[i] = IF i = 1 THEN seqs[i] ELSE f[i - 1] \o seqs[i]
          BY <2>1, <4>1 DEF Flattens
        <4> QED
          BY <4>2, <4>3
      <3> QED
        BY <3>1, <3>2
    <2>3. Flattens(g, seqs, n + 1)
      BY <2>2, Zenon DEF Flattens
    <2> QED
      BY <2>3
  <1> HIDE DEF S
  <1>3. \A n \in Nat : n \in S
    BY <1>1, <1>2, Induction
  <1> QED
    BY <1>3 DEF S

Agree(f, g, n) == \A i \in 1..n : f[i] = g[i]

\* What such a function is at a number does not depend on where it ends.
LEMMA FlattensUnique ==
    ASSUME NEW seqs, NEW more, NEW n \in Nat, NEW m \in Nat, n <= m,
           Agree(seqs, more, n),
           NEW f, Flattens(f, seqs, n), NEW g, Flattens(g, more, m)
    PROVE  Agree(f, g, n)
  <1> DEFINE S == {i \in Nat : i \in 1..n => f[i] = g[i]}
  <1>1. 0 \in S
    OBVIOUS
  <1>2. ASSUME NEW i \in Nat, i \in S
        PROVE  i + 1 \in S
    <2> SUFFICES ASSUME i + 1 \in 1..n
                 PROVE  f[i + 1] = g[i + 1]
      OBVIOUS
    <2>1. /\ i + 1 \in 1..m /\ (i + 1) - 1 = i
          /\ i + 1 # 1 => i \in 1..n
      OBVIOUS
    <2>2. f[i + 1] = IF i + 1 = 1 THEN seqs[i + 1] ELSE f[i] \o seqs[i + 1]
      BY <2>1 DEF Flattens
    <2>3. g[i + 1] = IF i + 1 = 1 THEN more[i + 1] ELSE g[i] \o more[i + 1]
      BY <2>1 DEF Flattens
    <2> QED
      BY <1>2, <2>1, <2>2, <2>3 DEF Agree
  <1> HIDE DEF S
  <1>3. \A i \in Nat : i \in S
    BY <1>1, <1>2, Induction
  <1> QED
    BY <1>3 DEF S, Agree

LEMMA FlattenSeqIs ==
    ASSUME NEW seqs, Len(seqs) \in Nat \ {0}
    PROVE  \E f : Flattens(f, seqs, Len(seqs)) /\ FlattenSeq(seqs) = f[Len(seqs)]
  <1> DEFINE n == Len(seqs)
             F(f) == [i \in 1..n |->
                         IF i = 1 THEN seqs[i] ELSE f[i - 1] \o seqs[i]]
             flatten == CHOOSE f : f = F(f)
  <1>1. FlattenSeq(seqs) = flatten[n]
    BY DEF FlattenSeq
  <1>2. \E f : f = F(f)
    BY FlattensExists DEF Flattens
  <1>3. flatten = F(flatten)
    BY <1>2
  <1> HIDE DEF flatten
  <1> QED
    BY <1>1, <1>3 DEF Flattens

LEMMA FlattenSeqOfNone == FlattenSeq(<<>>) = <<>>
  BY DEF FlattenSeq

LEMMA FlattenSeqOfAppend ==
    ASSUME NEW S, NEW seqs \in Seq(Seq(S)), FlattenSeq(seqs) \in Seq(S),
           NEW s \in Seq(S)
    PROVE  FlattenSeq(Append(seqs, s)) = FlattenSeq(seqs) \o s
  <1> DEFINE more == Append(seqs, s)
             n == Len(seqs)
  <1>1. /\ n \in Nat /\ Len(more) = n + 1 /\ more[n + 1] = s
        /\ \A i \in 1..n : seqs[i] = more[i]
    OBVIOUS
  <1>2. n \in Nat /\ n + 1 \in Nat /\ n <= n + 1
    BY <1>1
  <1>3. Agree(seqs, more, n)
    BY <1>1 DEF Agree
  <1> HIDE DEF more, n
  <1>4. PICK g : Flattens(g, more, n + 1) /\ FlattenSeq(more) = g[n + 1]
    <2>1. Len(more) \in Nat \ {0}
      BY <1>1
    <2>2. \E g : Flattens(g, more, Len(more)) /\ FlattenSeq(more) = g[Len(more)]
      BY <2>1, FlattenSeqIs
    <2> QED
      BY <1>1, <2>2
  <1>5. g[n + 1] = IF n + 1 = 1 THEN more[n + 1] ELSE g[n] \o more[n + 1]
    <2>1. n + 1 \in 1..(n + 1) /\ (n + 1) - 1 = n
      BY <1>2
    <2> QED
      BY <1>4, <2>1 DEF Flattens
  <1>6. CASE n = 0
    <2>1. seqs = <<>>
      BY <1>6 DEF n
    <2>2. FlattenSeq(seqs) \o s = s
      BY <2>1, FlattenSeqOfNone, ConcatEmptySeq
    <2> QED
      BY <1>1, <1>4, <1>5, <1>6, <2>2 DEF more
  <1>7. CASE n # 0
    <2>1. PICK f : Flattens(f, seqs, n) /\ FlattenSeq(seqs) = f[n]
      BY <1>1, <1>7, FlattenSeqIs DEF n
    <2>2. Flattens(f, seqs, n) /\ Flattens(g, more, n + 1)
      BY <1>4, <2>1
    <2>3. Agree(f, g, n)
      BY <1>2, <1>3, <2>2, FlattensUnique
    <2>4. g[n] = FlattenSeq(seqs) /\ n + 1 # 1
      BY <1>2, <1>7, <2>1, <2>3 DEF Agree
    <2> QED
      BY <1>1, <1>4, <1>5, <2>4 DEF more
  <1> QED
    BY <1>6, <1>7
-----------------------------------------------------------------------------
(***************************************************************************)
(* Induction over sequences, again as a statement about sets.              *)
(***************************************************************************)
LEMMA SequenceInduction ==
    ASSUME NEW S, NEW P, <<>> \in P,
           \A s \in Seq(S), x \in S : s \in P => Append(s, x) \in P
    PROVE  \A s \in Seq(S) : s \in P
  <1> DEFINE N == {n \in Nat : \A s \in Seq(S) : Len(s) = n => s \in P}
  <1>1. 0 \in N
    <2>1. \A s \in Seq(S) : Len(s) = 0 => s = <<>>
      OBVIOUS
    <2> QED
      BY <2>1
  <1>2. ASSUME NEW n \in Nat, n \in N
        PROVE  n + 1 \in N
    <2> SUFFICES ASSUME NEW s \in Seq(S), Len(s) = n + 1
                 PROVE  s \in P
      OBVIOUS
    <2>1. PICK t \in Seq(S), x \in S : s = Append(t, x)
      <3>1. s # <<>>
        BY EmptySeq
      <3> QED
        BY <3>1, SequenceEmptyOrAppend
    <2>2. Len(t) = n
      BY <2>1
    <2>3. t \in P
      BY <1>2, <2>2
    <2> QED
      BY <2>1, <2>3
  <1> HIDE DEF N
  <1>3. \A n \in Nat : n \in N
    BY <1>1, <1>2, Induction
  <1> QED
    <2> SUFFICES ASSUME NEW s \in Seq(S) PROVE s \in P
      OBVIOUS
    <2>1. Len(s) \in Nat
      OBVIOUS
    <2> QED
      BY <1>3, <2>1 DEF N

\* The two equations that FlattenSeq is reasoned with.
LEMMA FlattenSeqInSeq ==
    ASSUME NEW S
    PROVE  \A seqs \in Seq(Seq(S)) : FlattenSeq(seqs) \in Seq(S)
  <1> DEFINE P == {seqs \in Seq(Seq(S)) : FlattenSeq(seqs) \in Seq(S)}
  <1>1. <<>> \in P
    BY EmptySeq, FlattenSeqOfNone
  <1>2. ASSUME NEW seqs \in Seq(Seq(S)), NEW s \in Seq(S), seqs \in P
        PROVE  Append(seqs, s) \in P
    <2>1. FlattenSeq(Append(seqs, s)) = FlattenSeq(seqs) \o s
      BY <1>2, FlattenSeqOfAppend
    <2>2. FlattenSeq(seqs) \o s \in Seq(S)
      BY <1>2, ConcatProperties
    <2>3. Append(seqs, s) \in Seq(Seq(S))
      BY AppendProperties
    <2> QED
      BY <2>1, <2>2, <2>3
  <1> HIDE DEF P
  <1>3. \A seqs \in Seq(Seq(S)) : seqs \in P
    BY <1>1, <1>2, SequenceInduction
  <1> QED
    BY <1>3 DEF P

LEMMA FlattenAppend ==
    ASSUME NEW S, NEW seqs \in Seq(Seq(S)), NEW s \in Seq(S)
    PROVE  FlattenSeq(Append(seqs, s)) = FlattenSeq(seqs) \o s
  BY FlattenSeqInSeq, FlattenSeqOfAppend

\* Sequences given by their elements.
LEMMA OneMore ==
    ASSUME NEW S, NEW n \in Nat, NEW f \in [1..(n + 1) -> S]
    PROVE  /\ [k \in 1..n |-> f[k]] \in Seq(S)
           /\ f = Append([k \in 1..n |-> f[k]], f[n + 1])
  <1> DEFINE g == [k \in 1..n |-> f[k]]
  <1>1. g \in Seq(S) /\ Len(g) = n
    OBVIOUS
  <1>2. f \in Seq(S) /\ Len(f) = n + 1 /\ f[n + 1] \in S
    OBVIOUS
  <1>3. /\ Append(g, f[n + 1]) \in Seq(S) /\ Len(Append(g, f[n + 1])) = n + 1
        /\ \A k \in 1..n : Append(g, f[n + 1])[k] = g[k]
        /\ Append(g, f[n + 1])[n + 1] = f[n + 1]
    BY <1>1, <1>2, AppendProperties
  <1>4. \A k \in 1..(n + 1) : Append(g, f[n + 1])[k] = f[k]
    BY <1>3
  <1>5. Append(g, f[n + 1]) = f
    <2> HIDE DEF g
    <2> QED
      BY <1>2, <1>3, <1>4, SeqEqual
  <1> QED
    BY <1>1, <1>5

LEMMA ConcatAppend ==
    ASSUME NEW S, NEW s \in Seq(S), NEW t \in Seq(S), NEW x \in S
    PROVE  s \o Append(t, x) = Append(s \o t, x)
  <1>1. /\ Append(t, x) = t \o <<x>> /\ <<x>> \in Seq(S)
        /\ s \o t \in Seq(S)
    BY AppendIsConcat, ConcatProperties
  <1>2. Append(s \o t, x) = (s \o t) \o <<x>>
    BY <1>1, AppendIsConcat
  <1> QED
    BY <1>1, <1>2, ConcatAssociative

LEMMA FlattenConcat ==
    ASSUME NEW S, NEW a \in Seq(Seq(S))
    PROVE  \A b \in Seq(Seq(S)) :
              FlattenSeq(a \o b) = FlattenSeq(a) \o FlattenSeq(b)
  <1> DEFINE P == {b \in Seq(Seq(S)) :
                     FlattenSeq(a \o b) = FlattenSeq(a) \o FlattenSeq(b)}
  <1>1. <<>> \in P
    <2>1. a \o <<>> = a /\ FlattenSeq(a) \o <<>> = FlattenSeq(a)
      BY ConcatEmptySeq, FlattenSeqInSeq
    <2> QED
      BY <2>1, EmptySeq, FlattenSeqOfNone
  <1>2. ASSUME NEW b \in Seq(Seq(S)), NEW s \in Seq(S), b \in P
        PROVE  Append(b, s) \in P
    <2>1. /\ a \o b \in Seq(Seq(S)) /\ Append(b, s) \in Seq(Seq(S))
          /\ FlattenSeq(a) \in Seq(S) /\ FlattenSeq(b) \in Seq(S)
      BY ConcatProperties, AppendProperties, FlattenSeqInSeq
    <2>2. FlattenSeq(a \o Append(b, s)) = FlattenSeq(a \o b) \o s
      <3>1. a \o Append(b, s) = Append(a \o b, s)
        BY ConcatAppend
      <3> QED
        BY <2>1, <3>1, FlattenAppend
    <2>3. FlattenSeq(a \o b) = FlattenSeq(a) \o FlattenSeq(b)
      BY <1>2
    <2>4. (FlattenSeq(a) \o FlattenSeq(b)) \o s
            = FlattenSeq(a) \o (FlattenSeq(b) \o s)
      BY <2>1, ConcatAssociative
    <2>5. FlattenSeq(Append(b, s)) = FlattenSeq(b) \o s
      BY FlattenAppend
    <2> QED
      BY <2>1, <2>2, <2>3, <2>4, <2>5
  <1> HIDE DEF P
  <1>3. \A b \in Seq(Seq(S)) : b \in P
    BY <1>1, <1>2, SequenceInduction
  <1> QED
    BY <1>3 DEF P
=============================================================================
