-------------------------- MODULE XmlSigningProofs --------------------------
(***************************************************************************)
(* Proofs about XmlSigning, for documents with any number of files and any *)
(* payload: what they say, what the reader makes of them, what is stamped  *)
(* in them, what is refused, and what verifies.                            *)
(***************************************************************************)
EXTENDS XmlTextProofs

-----------------------------------------------------------------------------
(***************************************************************************)
(* The value of a signature, in a root that declares every prefix there    *)
(* is.                                                                     *)
(***************************************************************************)
(* The start tag of the value of a XAdES signature. *)
ValueTag == Open(Ds("SignatureValue"), SignatureValueId(Index), NoAttr, {})

(* At k is the first SignatureValue of the text, with its text. *)
ValueAt(text, k) ==
    /\ k \in Nat /\ 1 < k /\ k + 2 <= Len(text)
    /\ text[k] = ValueTag
    /\ text[k + 1].kind = "text" /\ text[k + 1] = Text(text[k + 1].data)
    /\ text[k + 2] = Close(Ds("SignatureValue"))
    /\ \A j \in Elements(text) : text[j].name[2] = "SignatureValue" => k <= j

(* What is stamped for the value v: its element, declaring every prefix. *)
ValueForm(id, v) ==
    [j \in 1..3 |->
        IF j = 1 THEN Open(Ds("SignatureValue"), id, NoAttr, AllPrefixes)
        ELSE IF j = 2 THEN Text(v) ELSE Close(Ds("SignatureValue"))]

(* That is the canonical form of the value in the document, *)
LEMMA ValueIsCanonical ==
    ASSUME NEW text, OneRoot(text, AllPrefixes), NEW k, ValueAt(text, k)
    PROVE  Canonical(Parse(text), k)
             = ValueForm(SignatureValueId(Index), text[k + 1].data)
  <1> DEFINE scope == InScope(Parse(text), k)
             v == text[k + 1].data
             id == SignatureValueId(Index)
  <1>1. /\ k \in Nat /\ k \in 1..Len(text) /\ k + 2 <= Len(text)
        /\ text[k] = ValueTag /\ text[k + 1] = Text(v)
        /\ text[k + 2] = Close(Ds("SignatureValue")) /\ Len(text) \in Nat
    BY TextIsSequence DEF ValueAt, OneRoot
  <1>2. /\ text[k].kind = "open" /\ text[k + 1].kind = "text"
        /\ text[k + 2].kind = "close"
    BY <1>1 DEF ValueTag, Open, Text, Close
  <1>3. k \in Elements(text)
    BY <1>1, <1>2, ElementsOf
  <1>4. EndTag(text, k) = k + 2
    <2>1. /\ k + 1 \in Nat /\ k + 2 \in Nat /\ k + 1 <= Len(text)
          /\ k + 1 + 1 = k + 2 /\ 1 \in Nat /\ 1 <= 1
      BY <1>1
    <2>2. EndTag(text, k) = Scan(text)[k + 1][1]
      BY <1>1, <1>3, EndTagOfOpen
    <2>3. Scan(text)[k + 1][1] = Scan(text)[k + 2][1]
      <3>1. Scan(text)[k + 1][1] = Scan(text)[k + 1 + 1][1]
        BY <1>1, <1>2, <2>1, ScanText
      <3> QED
        BY <2>1, <3>1
    <2>4. Scan(text)[k + 2][1] = k + 2
      <3>1. /\ Len(text) \in Nat /\ k + 2 \in Nat /\ k + 2 <= Len(text)
            /\ text[k + 2].kind # "text" /\ text[k + 2].kind # "open"
        BY <1>1, <1>2, <2>1
      <3> QED
        BY <2>1, <3>1, ScanClose
    <2> QED
      BY <2>2, <2>3, <2>4
  <1>5. scope = AllPrefixes
    BY <1>1, <1>3, RootInScope
  <1>6. Canonical(Parse(text), k)
          = [j \in 1..3 |-> IF j = 1 THEN [text[k] EXCEPT !.ns = scope]
                            ELSE IF j = 2 THEN text[k + 1] ELSE text[k + 2]]
    BY <1>2, <1>3, <1>4, CanonicalOfThree
  <1> HIDE DEF scope
  <1>7. [text[k] EXCEPT !.ns = scope]
          = Open(Ds("SignatureValue"), id, NoAttr, AllPrefixes)
    BY <1>1, <1>5 DEF ValueTag, Open
  <1> QED
    BY <1>1, <1>6, <1>7 DEF ValueForm

(* and it is what canonicalize_signature_value makes of the value alone     *)
(* (xades.rs).                                                              *)
LEMMA ValueStandsAlone ==
    ASSUME NEW id, NEW v
    PROVE  CanonicalSignatureValue(id, v) = ValueForm(id, v)
  <1> DEFINE name == Ds("SignatureValue")
             c == <<Text(v)>>
             text == Element(name, id, NoAttr, AllPrefixes, c)
             tree == Parse(text)
  <1>1. IsText(c) /\ Len(c) = 1 /\ c[1] = Text(v) /\ Nested(c)
    BY ShortTexts, NestedText
  <1> HIDE DEF c
  <1>2. /\ Len(text) = 3 /\ text[1] = Open(name, id, NoAttr, AllPrefixes)
        /\ text[2] = Text(v) /\ text[3] = Close(name)
    <2>1. LET all == Element(name, id, NoAttr, AllPrefixes, c)
              n == Len(c)
          IN  /\ Len(all) = n + 2
              /\ all[1] = Open(name, id, NoAttr, AllPrefixes) /\ all[n + 2] = Close(name)
              /\ \A k \in 1..n : all[k + 1] = c[k]
      <3>1. IsText(c)
        BY <1>1
      <3> QED
        BY <3>1, ElementIs
    <2>2. 1 + 2 = 3 /\ 1 + 1 = 2 /\ 1 \in 1..1
      OBVIOUS
    <2> HIDE DEF text
    <2> QED
      BY <1>1, <2>1, <2>2 DEF text
  <1>3. EndTag(text, 1) = 3
    <2>1. EndTag(Element(name, id, NoAttr, AllPrefixes, c), 1) = Len(c) + 2
      <3>1. Nested(c)
        BY <1>1
      <3> QED
        BY <3>1, ElementEnds
    <2> QED
      BY <1>1, <2>1
  <1> HIDE DEF text, name
  <1>4. /\ text[1].kind = "open" /\ text[1].name = name /\ text[1].ns = AllPrefixes
        /\ text[2].kind = "text" /\ text[3].kind = "close" /\ text[3].name = name
    BY <1>2 DEF Open, Text, Close
  <1>5. Elements(text) = {1}
    <2>1. \A k \in 1..3 : k = 1 \/ k = 2 \/ k = 3
      OBVIOUS
    <2>2. \A k : k \in Elements(text) <=> k = 1
      BY <1>2, <1>4, <2>1, ElementsOf
    <2> QED
      BY <2>2
  <1>6. tree.text = text /\ Nodes(tree) = {1} /\ tree.end[1] = 3 /\ tree.around[1] = {}
    <2>1. /\ tree.text = text /\ Nodes(tree) = Elements(text)
          /\ \A k \in Elements(text) :
                /\ tree.end[k] = EndTag(text, k)
                /\ tree.around[k]
                     = {j \in Elements(text) : j < k /\ EndTag(text, j) > k}
      BY ParseIs
    <2> HIDE DEF tree
    <2> QED
      BY <1>3, <1>5, <2>1
  <1>7. InScope(tree, 1) = AllPrefixes
    <2> HIDE DEF tree
    <2>1. {text[j].ns : j \in {1} \cup {}} = {AllPrefixes}
      BY <1>4
    <2>2. UNION {AllPrefixes} = AllPrefixes
      OBVIOUS
    <2> QED
      BY <1>6, <2>1, <2>2 DEF InScope
  <1>8. IsWellFormed(tree)
    <2>1. name[1] \in AllPrefixes
      BY DEF name, Ds, AllPrefixes
    <2> HIDE DEF tree
    <2>2. 1 \in Nodes(tree) /\ tree.end[1] = Len(tree.text)
      BY <1>2, <1>6
    <2>3. /\ tree.end[1] # 0 /\ tree.text[tree.end[1]].name = tree.text[1].name
          /\ tree.text[1].name[1] \in {""} \cup InScope(tree, 1)
      <3>1. tree.end[1] = 3 /\ tree.text = text
        BY <1>6
      <3>2. 3 # 0 /\ text[3].name = text[1].name
        BY <1>4
      <3>3. text[1].name[1] \in {""} \cup InScope(tree, 1)
        <4>1. text[1].name = name
          BY <1>4
        <4> QED
          BY <1>7, <2>1, <4>1
      <3> QED
        BY <3>1, <3>2, <3>3
    <2>4. \A k \in Nodes(tree) : k = 1
      BY <1>6
    <2> QED
      BY <2>2, <2>3, <2>4 DEF IsWellFormed
  <1>9. Canonical(tree, 1)
          = [j \in 1..3 |-> IF j = 1 THEN [text[1] EXCEPT !.ns = InScope(tree, 1)]
                            ELSE IF j = 2 THEN text[1 + 1] ELSE text[1 + 2]]
    <2>1. 1 \in Elements(text) /\ EndTag(text, 1) = 1 + 2 /\ 1 + 1 = 2 /\ 1 + 2 = 3
      BY <1>3, <1>5
    <2> QED
      BY <1>4, <2>1, CanonicalOfThree
  <1>10. CanonicalizeXml(text)[1] = Canonical(tree, 1)
    BY <1>8 DEF CanonicalizeXml
  <1> HIDE DEF tree
  <1>11. [text[1] EXCEPT !.ns = InScope(tree, 1)] = Open(name, id, NoAttr, AllPrefixes)
    BY <1>2, <1>7 DEF Open
  <1>12. 1 + 1 = 2 /\ 1 + 2 = 3
    OBVIOUS
  <1>13. Canonical(tree, 1) = ValueForm(id, v)
    BY <1>2, <1>9, <1>11, <1>12 DEF ValueForm, name
  <1>14. CanonicalSignatureValue(id, v) = CanonicalizeXml(text)[1]
    BY DEF CanonicalSignatureValue, text, name, c
  <1> QED
    BY <1>10, <1>13, <1>14

-----------------------------------------------------------------------------
(***************************************************************************)
(* The texts of signature documents are made of elements.                  *)
(***************************************************************************)
(* References and the SignedInfo are made of their names, *)
LEMMA MadeReference ==
    ASSUME NEW id, NEW uri, NEW digest, NEW ns
    PROVE  Made(Reference(id, uri, digest), InfoNames, ns)
  <1> DEFINE c == <<Text(digest)>>
             name == Ds("Reference")
  <1>1. Made(c, InfoNames, ns) /\ name \in InfoNames /\ {} \subseteq ns
    BY MadeText DEF InfoNames
  <1>2. Reference(id, uri, digest) = Element(name, id, uri, {}, c)
    BY DEF Reference
  <1> HIDE DEF c, name
  <1> QED
    BY <1>1, <1>2, MadeElement

(* whatever the references are, *)
LEMMA MadeSignedInfo ==
    ASSUME NEW ns, NEW method, NEW n \in Nat, NEW refs,
           refs = [k \in 1..n |-> refs[k]],
           \A k \in 1..n : Made(refs[k], InfoNames, ns)
    PROVE  Made(SignedInfo(ns, method, refs), InfoNames, ns)
  <1> DEFINE m1 == Element(Ds("CanonicalizationMethod"), NoId, C14nUri, {}, <<>>)
             m2 == Element(Ds("SignatureMethod"), NoId, method, {}, <<>>)
             r == Seqs!FlattenSeq(refs)
             name == Ds("SignedInfo")
  <1>1. /\ Ds("CanonicalizationMethod") \in InfoNames
        /\ Ds("SignatureMethod") \in InfoNames /\ name \in InfoNames
    BY DEF InfoNames
  <1>2. Made(m1, InfoNames, ns) /\ Made(m2, InfoNames, ns)
    BY <1>1, MadeEmpty
  <1>3. Made(r, InfoNames, ns)
    BY MadeFlatten
  <1>4. SignedInfo(ns, method, refs)
          = Element(name, NoId, NoAttr, ns, Then(Then(m1, m2), r))
    BY DEF SignedInfo, Then
  <1> HIDE DEF m1, m2, r, name
  <1>5. Made(Then(m1, m2), InfoNames, ns)
    BY <1>2, MadeJoin
  <1>6. Made(Then(Then(m1, m2), r), InfoNames, ns)
    BY <1>3, <1>5, MadeJoin
  <1> DEFINE c == Then(Then(m1, m2), r)
  <1>7. Made(c, InfoNames, ns) /\ ns \subseteq ns
    BY <1>6
  <1> HIDE DEF c
  <1>8. Made(Element(name, NoId, NoAttr, ns, c), InfoNames, ns)
    BY <1>1, <1>7, MadeElement
  <1> QED
    BY <1>4, <1>8 DEF c

(* and so is that of a XAdES signature; *)
LEMMA MadeXadesInfo ==
    ASSUME NEW fs, Len(fs) \in Nat, NEW k0, NEW i
    PROVE  Made(XadesSignedInfo(fs, k0, i), InfoNames, AllPrefixes)
  <1> DEFINE n == Len(fs)
             g == [k \in 1..n |-> Reference(RefId(i, k), fs[k].name, fs[k].content)]
             x == Reference(<<"S-SignedPropertiesRef", i>>,
                            <<"#", SignedPropertiesId(i)>>,
                            SignedPropertiesDigest(fs, i))
             refs == g \o <<x>>
             M == {s \in {g[k] : k \in 1..n} \cup {x} : Made(s, InfoNames, AllPrefixes)}
  <1>1. Made(x, InfoNames, AllPrefixes)
    BY MadeReference
  <1>2. \A k \in 1..n : Made(g[k], InfoNames, AllPrefixes)
    BY MadeReference
  <1>3. x \in M /\ \A k \in 1..n : g[k] \in M
    BY <1>1, <1>2
  <1>4. g \in Seq(M)
    <2>1. g = [k \in 1..n |-> g[k]]
      OBVIOUS
    <2> HIDE DEF g, M
    <2>2. g \in [1..n -> M]
      BY <1>3, <2>1
    <2> QED
      BY <2>2
  <1>5. XadesSignedInfo(fs, k0, i)
          = SignedInfo(AllPrefixes, SignatureMethodUri(k0), refs)
    BY DEF XadesSignedInfo
  <1>6. \A s \in M : Made(s, InfoNames, AllPrefixes)
    OBVIOUS
  <1>7. Len(g) = n
    OBVIOUS
  <1> HIDE DEF M, x, g
  <1>8. <<x>> \in Seq(M) /\ Len(<<x>>) = 1
    BY <1>3
  <1>9. refs \in Seq(M) /\ Len(refs) = n + 1
    BY <1>4, <1>7, <1>8, ConcatProperties
  <1> HIDE DEF refs, n
  <1>10. /\ refs = [k \in 1..(n + 1) |-> refs[k]] /\ n + 1 \in Nat
         /\ \A k \in 1..(n + 1) : refs[k] \in M
    BY <1>9 DEF n
  <1>11. \A k \in 1..(n + 1) : Made(refs[k], InfoNames, AllPrefixes)
    BY <1>6, <1>10
  <1> QED
    BY <1>5, <1>10, <1>11, MadeSignedInfo

(* its SignedProperties are made of theirs. *)
LEMMA MadeSignedProperties ==
    ASSUME NEW fs, Len(fs) \in Nat, NEW i
    PROVE  Made(SignedProperties(fs, i, AllPrefixes), XadesNames, AllPrefixes)
  <1> DEFINE n == Len(fs)
             f == [k \in 1..n |->
                      Element(Xa("DataObjectFormat"), NoId, <<"#", RefId(i, k)>>,
                              {}, <<>>)]
             a == Leaf(Xa("SignedSignatureProperties"), <<"signing certificate", i>>)
             r == Seqs!FlattenSeq(f)
             b == Element(Xa("SignedDataObjectProperties"), NoId, NoAttr, {}, r)
             c == Then(a, b)
             name == Xa("SignedProperties")
  <1>1. /\ Xa("DataObjectFormat") \in XadesNames
        /\ Xa("SignedSignatureProperties") \in XadesNames
        /\ Xa("SignedDataObjectProperties") \in XadesNames
        /\ name \in XadesNames
    BY DEF XadesNames
  <1>2. Made(a, XadesNames, AllPrefixes)
    BY <1>1, MadeLeaf
  <1>3. Made(r, XadesNames, AllPrefixes)
    <2>1. \A k \in 1..n : Made(f[k], XadesNames, AllPrefixes)
      BY <1>1, MadeEmpty
    <2>2. f = [k \in 1..n |-> f[k]]
      OBVIOUS
    <2> HIDE DEF f
    <2> QED
      BY <2>1, <2>2, MadeFlatten
  <1>4. SignedProperties(fs, i, AllPrefixes)
          = Element(name, SignedPropertiesId(i), NoAttr, AllPrefixes, c)
    BY DEF SignedProperties, Then
  <1>5. {} \subseteq AllPrefixes /\ AllPrefixes \subseteq AllPrefixes
    OBVIOUS
  <1> HIDE DEF a, r, name
  <1>6. Made(b, XadesNames, AllPrefixes)
    BY <1>1, <1>3, <1>5, MadeElement
  <1> HIDE DEF b
  <1>7. Made(c, XadesNames, AllPrefixes)
    BY <1>2, <1>6, MadeJoin
  <1> HIDE DEF c
  <1> QED
    BY <1>1, <1>4, <1>5, <1>7, MadeElement

-----------------------------------------------------------------------------
(***************************************************************************)
(* Enveloping signatures: what is cut out of the draft, and what is        *)
(* refused.                                                                *)
(***************************************************************************)
(* The end tag that extract_object looks for. *)
ObjectEnd == Close(Ds("Object"))

(* The ds:Object of an enveloping signature. *)
LEMMA ObjectIs ==
    ASSUME NEW names, NEW content, Made(content, names, {}), NEW id
    PROVE  LET obj == Object(content, id)
               n == Len(content)
           IN  /\ Nested(obj) /\ IsText(obj) /\ Len(obj) = n + 2 /\ n \in Nat
               /\ obj[1] = Open(Ds("Object"), Written(id), NoAttr, {"ds"})
               /\ obj[n + 2] = ObjectEnd
               /\ \A k \in 1..n : obj[k + 1] = content[k]
               /\ EndTag(obj, 1) = n + 2
               /\ \A k \in Elements(obj) :
                     k = 1 \/ \E m \in Elements(content) : k = m + 1
               /\ 1 \in Elements(obj)
               /\ \A k \in Elements(content) : k + 1 \in Elements(obj)
  <1> DEFINE obj == Element(Ds("Object"), Written(id), NoAttr, {"ds"}, content)
             n == Len(content)
  <1>1. Object(content, id) = obj
    BY DEF Object
  <1>2. Nested(content)
    BY DEF Made
  <1>3. IsText(content) /\ n \in Nat
    BY <1>2, TextIsSequence DEF Nested
  <1>4. Nested(obj)
    BY <1>2, NestedElement
  <1>5. /\ IsText(obj) /\ Len(obj) = n + 2
        /\ obj[1] = Open(Ds("Object"), Written(id), NoAttr, {"ds"})
        /\ obj[n + 2] = Close(Ds("Object"))
        /\ \A k \in 1..n : obj[k + 1] = content[k]
    <2>1. IsText(content)
      BY <1>3
    <2> QED
      BY <2>1, ElementIs
  <1>6. /\ 1 \in Elements(obj) /\ \A k \in Elements(content) : k + 1 \in Elements(obj)
        /\ \A k \in Elements(obj) : k = 1 \/ \E m \in Elements(content) : k = m + 1
    <2>1. IsText(content)
      BY <1>3
    <2> QED
      BY <2>1, ElementHolds
  <1>7. EndTag(obj, 1) = n + 2
    BY <1>2, ElementEnds
  <1> HIDE DEF obj, n
  <1> QED
    BY <1>1, <1>3, <1>4, <1>5, <1>6, <1>7 DEF ObjectEnd, n

(* Up to the first end tag of an Object, the object itself or a piece of it *)
(* (envelope.rs, extract_object).                                           *)
Extracted(obj, cut) ==
    \E x \in 1..Len(obj) :
        /\ cut = SubSeq(obj, 1, x) /\ obj[x] = ObjectEnd
        /\ \A j \in 1..(x - 1) : obj[j] # ObjectEnd

(* The draft ends with the object; no other Object is before it. *)
LEMMA DraftIs ==
    ASSUME NEW names, NEW content, Made(content, names, {}), NEW id,
           NEW info, Made(info, InfoNames, {"ds"}), NEW value
    PROVE  LET draft == EnvelopingXml(content, id, info, value)
               obj == Object(content, id)
           IN  \E a : /\ IsText(a)
                      /\ draft = Within(a, obj, <<Close(Ds("Signature"))>>)
                      /\ \A k \in Elements(a) : a[k].name # Ds("Object")
  <1> DEFINE obj == Object(content, id)
             s == SignatureValue(NoId, value)
             x == Leaf(Ds("KeyInfo"), <<"RSAKeyValue", 0>>)
             b == Then(Then(info, s), x)
             head == <<Open(Ds("Signature"), NoId, NoAttr, {"ds"})>>
             tail == <<Close(Ds("Signature"))>>
             a == Then(head, b)
             others == InfoNames \cup {Ds("SignatureValue"), Ds("KeyInfo")}
  <1>1. /\ Ds("SignatureValue") \in others /\ Ds("KeyInfo") \in others
        /\ InfoNames \subseteq others /\ {} \subseteq {"ds"} /\ {"ds"} \subseteq {"ds"}
    OBVIOUS
  <1>2. Ds("Object") \notin others
    BY DEF InfoNames, Ds
  <1> HIDE DEF others
  <1>3. Made(s, others, {"ds"})
    <2> DEFINE t == <<Text(value)>>
    <2>1. Made(t, others, {"ds"})
      BY MadeText
    <2>2. s = Element(Ds("SignatureValue"), NoId, NoAttr, {}, t)
      BY DEF SignatureValue
    <2> HIDE DEF t, s
    <2> QED
      BY <1>1, <2>1, <2>2, MadeElement
  <1>4. Made(x, others, {"ds"})
    BY <1>1, MadeLeaf
  <1>5. Made(info, others, {"ds"})
    BY <1>1, MadeMore
  <1>6. EnvelopingXml(content, id, info, value)
          = Element(Ds("Signature"), NoId, NoAttr, {"ds"}, Then(b, obj))
    BY DEF EnvelopingXml, Then
  <1> HIDE DEF s, x
  <1>7. Made(b, others, {"ds"})
    <2>1. Made(Then(info, s), others, {"ds"})
      BY <1>3, <1>5, MadeJoin
    <2> DEFINE c == Then(info, s)
    <2>2. Made(c, others, {"ds"})
      BY <2>1
    <2> HIDE DEF c
    <2>3. Made(Then(c, x), others, {"ds"})
      BY <1>4, <2>2, MadeJoin
    <2> QED
      BY <2>3 DEF c
  <1> HIDE DEF b
  <1>8. /\ IsText(b) /\ IsText(obj) /\ IsText(head) /\ IsText(tail)
        /\ Len(head) = 1 /\ head[1] = Open(Ds("Signature"), NoId, NoAttr, {"ds"})
    <2>1. IsText(b)
      BY <1>7 DEF Made, Nested
    <2>2. IsText(obj)
      BY ObjectIs
    <2> QED
      BY <2>1, <2>2, ShortTexts
  <1>9. Element(Ds("Signature"), NoId, NoAttr, {"ds"}, Then(b, obj))
          = Within(a, obj, tail)
    <2> DEFINE c == Then(b, obj)
    <2>1. IsText(c)
      BY <1>8, Join
    <2>2. Element(Ds("Signature"), NoId, NoAttr, {"ds"}, c) = Within(head, c, tail)
      <3> HIDE DEF c
      <3> QED
        BY <2>1, ElementParts
    <2> HIDE DEF head, tail, obj
    <2>3. Within(head, Then(b, obj), tail) = Within(Then(head, b), obj, tail)
      BY <1>8, WithinParts
    <2> QED
      BY <2>2, <2>3
  <1> HIDE DEF head, tail, obj
  <1>10. /\ IsText(a) /\ Len(a) = 1 + Len(b) /\ a[1] = head[1]
         /\ \A k \in 1..Len(b) : a[1 + k] = b[k]
    <2>1. IsText(head) /\ IsText(b)
      BY <1>8
    <2>2. /\ IsText(a) /\ Len(a) = Len(head) + Len(b)
          /\ \A k \in 1..Len(head) : a[k] = head[k]
          /\ \A k \in 1..Len(b) : a[Len(head) + k] = b[k]
      BY <2>1, Join
    <2> HIDE DEF a
    <2>3. 1 \in 1..1
      OBVIOUS
    <2> QED
      BY <1>8, <2>2, <2>3
  <1> HIDE DEF a
  <1>11. ASSUME NEW k \in Elements(a)
         PROVE  a[k].name # Ds("Object")
    <2>1. k \in 1..Len(a) /\ a[k].kind = "open" /\ Len(b) \in Nat
      BY <1>8, ElementsOf, TextIsSequence
    <2>2. CASE k = 1
      <3>1. a[k].name = Ds("Signature")
        BY <1>8, <1>10, <2>2 DEF Open
      <3> QED
        BY <3>1 DEF Ds
    <2>3. CASE k # 1
      <3>1. k - 1 \in 1..Len(b) /\ 1 + (k - 1) = k
        BY <1>10, <2>1, <2>3
      <3>2. a[k] = b[k - 1]
        BY <1>10, <3>1
      <3>3. k - 1 \in Elements(b)
        BY <2>1, <3>1, <3>2, ElementsOf
      <3> QED
        BY <1>2, <1>7, <3>2, <3>3 DEF Made
    <2> QED
      BY <2>2, <2>3
  <1> QED
    BY <1>6, <1>9, <1>10, <1>11 DEF obj, tail

(* What extract_object finds in the draft: nothing when the Id had to be    *)
(* escaped, and the object up to its first end tag when not.                *)
LEMMA ObjectIsExtracted ==
    ASSUME NEW names, NEW content, Made(content, names, {}), NoIds(content),
           NEW id, NEW info, Made(info, InfoNames, {"ds"}), NEW value
    PROVE  LET cut == ExtractObject(EnvelopingXml(content, id, info, value), id)
           IN  /\ NeedsEscape(id) => cut = <<>>
               /\ ~ NeedsEscape(id) => Extracted(Object(content, id), cut)
  <1> DEFINE text == EnvelopingXml(content, id, info, value)
             obj == Object(content, id)
             tail == <<Close(Ds("Signature"))>>
             n == Len(content)
  <1>1. PICK a : /\ IsText(a) /\ text = Within(a, obj, tail)
                 /\ \A k \in Elements(a) : a[k].name # Ds("Object")
    BY DraftIs
  <1>2. /\ IsText(obj) /\ Len(obj) = n + 2 /\ n \in Nat
        /\ obj[1] = Open(Ds("Object"), Written(id), NoAttr, {"ds"})
        /\ obj[n + 2] = ObjectEnd
        /\ \A k \in 1..n : obj[k + 1] = content[k]
        /\ \A k \in Elements(obj) : k = 1 \/ \E m \in Elements(content) : k = m + 1
    BY ObjectIs
  <1>3. IsText(tail) /\ Len(tail) = 1 /\ tail[1] = Close(Ds("Signature"))
    BY ShortTexts
  <1> HIDE DEF text, obj, tail, n
  <1>4. /\ IsText(text) /\ Len(text) = Len(a) + Len(obj) + 1
        /\ \A k \in 1..Len(a) : text[k] = a[k]
        /\ \A k \in 1..Len(obj) : text[Len(a) + k] = obj[k]
        /\ text[Len(a) + Len(obj) + 1] = Close(Ds("Signature"))
    <2>1. IsText(a) /\ IsText(obj) /\ IsText(tail)
      BY <1>1, <1>2, <1>3
    <2>2. LET all == Within(a, obj, tail)
          IN  /\ IsText(all) /\ Len(all) = Len(a) + Len(obj) + Len(tail)
              /\ \A k \in 1..Len(a) : all[k] = a[k]
              /\ \A k \in 1..Len(obj) : all[Len(a) + k] = obj[k]
              /\ \A k \in 1..Len(tail) : all[Len(a) + Len(obj) + k] = tail[k]
      BY <2>1, WithinIs
    <2>3. 1 \in 1..1
      OBVIOUS
    <2> QED
      BY <1>1, <1>3, <2>2, <2>3
  <1>5. Len(a) \in Nat /\ Len(obj) \in Nat /\ Len(text) \in Nat
    BY <1>1, <1>2, <1>4, TextIsSequence
  <1> DEFINE s == Len(a) + 1
             starts == {k \in Elements(text) :
                           text[k].name = Ds("Object") /\ text[k].id = id}
  <1>6. text[s] = obj[1] /\ s \in 1..Len(text) /\ s \in Nat
    <2>1. 1 \in 1..Len(obj)
      BY <1>2, <1>5
    <2> QED
      BY <1>4, <1>5, <2>1
  <1>7. ASSUME NEW k \in starts
        PROVE  s <= k /\ (k # s => id = NoId)
    <2>1. /\ k \in 1..Len(text) /\ text[k].kind = "open"
          /\ text[k].name = Ds("Object") /\ text[k].id = id
      BY ElementsOf
    <2>2. CASE k <= Len(a)
      <3>1. k \in 1..Len(a)
        BY <1>5, <2>1, <2>2
      <3>2. text[k] = a[k]
        BY <1>4, <3>1
      <3>3. k \in Elements(a)
        BY <2>1, <3>1, <3>2, ElementsOf
      <3> QED
        BY <1>1, <2>1, <3>2, <3>3
    <2>3. CASE ~ (k <= Len(a))
      <3>1. k \in Nat /\ s <= k
        BY <1>5, <2>1, <2>3
      <3>2. ASSUME k # s
            PROVE  id = NoId
        <4>1. k # Len(a) + Len(obj) + 1
          <5>1. Close(Ds("Signature")).kind # "open"
            BY DEF Close
          <5> QED
            BY <1>4, <2>1, <5>1
        <4> DEFINE j == k - Len(a)
        <4>2. j \in 1..Len(obj) /\ Len(a) + j = k /\ j # 1
          BY <1>4, <1>5, <2>1, <2>3, <3>2, <4>1
        <4> HIDE DEF j
        <4>3. text[k] = obj[j]
          BY <1>4, <4>2
        <4>4. j \in Elements(obj)
          BY <2>1, <4>2, <4>3, ElementsOf
        <4>5. PICK m \in Elements(content) : j = m + 1
          BY <1>2, <4>2, <4>4
        <4>6. obj[j] = content[m]
          BY <1>2, <4>5, ElementsOf DEF n
        <4> QED
          BY <2>1, <4>3, <4>6 DEF NoIds
      <3> QED
        BY <3>1, <3>2
    <2> QED
      BY <2>2, <2>3
  <1>8. ExtractObject(text, id)
          = IF starts = {} THEN <<>>
            ELSE SubSeq(text, First(starts),
                        First(Occurrences(text, First(starts), Close(Ds("Object")))))
    BY DEF ExtractObject
  <1>9. starts \subseteq Nat
    BY ElementsOf
  <1> HIDE DEF starts
  <1>10. ASSUME NeedsEscape(id)
         PROVE  ExtractObject(text, id) = <<>>
    <2>1. id # NoId /\ Written(id) # id
      <3>1. id[1] = "&" /\ Written(id) = <<"escaped", id>>
        BY <1>10 DEF NeedsEscape, Written
      <3>2. <<"escaped", id>>[1] = "escaped" /\ NoId[1] = "no Id"
        BY DEF NoId
      <3> QED
        BY <3>1, <3>2
    <2>2. s \notin starts
      <3>1. text[s].id = Written(id)
        BY <1>2, <1>6 DEF Open
      <3> QED
        BY <2>1, <3>1 DEF starts
    <2>3. starts = {}
      BY <1>7, <2>1, <2>2
    <2> QED
      BY <1>8, <2>3
  <1>11. ASSUME ~ NeedsEscape(id)
         PROVE  Extracted(obj, ExtractObject(text, id))
    <2>1. s \in starts
      <3>1. text[s].kind = "open" /\ text[s].name = Ds("Object") /\ text[s].id = id
        BY <1>2, <1>6, <1>11 DEF Open, Written
      <3>2. s \in Elements(text)
        BY <1>6, <3>1, ElementsOf
      <3> QED
        BY <3>1, <3>2 DEF starts
    <2>2. First(starts) = s
      <3>1. First(starts) \in starts /\ \A i \in starts : First(starts) <= i
        BY <1>9, <2>1, FirstIs
      <3>2. First(starts) \in Nat /\ First(starts) <= s /\ s <= First(starts)
        BY <1>7, <1>9, <2>1, <3>1
      <3> QED
        BY <1>6, <3>2
    <2> DEFINE ends == Occurrences(text, s, ObjectEnd)
               e == First(ends)
    <2>3. ExtractObject(text, id) = SubSeq(text, s, e)
      BY <1>8, <2>1, <2>2 DEF ObjectEnd
    <2>4. \A k : k \in ends <=> k \in s..Len(text) /\ text[k] = ObjectEnd
      BY DEF Occurrences
    <2> HIDE DEF ends
    <2>5. Len(a) + Len(obj) \in ends
      <3>1. Len(obj) \in 1..Len(obj) /\ Len(a) + Len(obj) \in s..Len(text)
        BY <1>2, <1>4, <1>5
      <3> QED
        BY <1>2, <1>4, <2>4, <3>1
    <2>6. e \in ends /\ \A k \in ends : e <= k
      <3>1. ends \subseteq Nat
        BY <1>5, <2>4
      <3> QED
        BY <2>5, <3>1, FirstIs
    <2> HIDE DEF e
    <2> DEFINE x == e - Len(a)
    <2>7. x \in 1..Len(obj) /\ e = Len(a) + x /\ e \in s..Len(text) /\ e \in Nat
      BY <1>5, <2>4, <2>5, <2>6
    <2> HIDE DEF x
    <2>8. obj[x] = ObjectEnd
      BY <1>4, <2>4, <2>6, <2>7
    <2>9. ASSUME NEW j \in 1..(x - 1), obj[j] = ObjectEnd
          PROVE  FALSE
      <3>1. /\ j \in 1..Len(obj) /\ Len(a) + j \in s..Len(text)
            /\ ~ (e <= Len(a) + j)
        BY <1>4, <1>5, <2>7
      <3> QED
        BY <1>4, <2>4, <2>6, <2>9, <3>1
    <2>10. SubSeq(text, s, e) = SubSeq(obj, 1, x)
      <3>1. PICK T : text \in Seq(T)
        BY <1>4 DEF IsText
      <3>2. PICK U : obj \in Seq(U)
        BY <1>2 DEF IsText
      <3> DEFINE f == SubSeq(text, s, e)
                 g == SubSeq(obj, 1, x)
      <3>3. f \in Seq(T) /\ Len(f) = x /\ \A i \in 1..x : f[i] = text[s + i - 1]
        <4>1. s \in Int /\ e \in Int /\ s <= e /\ e - s + 1 = x
          BY <1>5, <2>7
        <4>2. \A i \in s..e : text[i] \in T
          BY <1>6, <2>7, <3>1
        <4> HIDE DEF s
        <4> QED
          BY <4>1, <4>2, SubSeqProperties
      <3>4. g \in Seq(U) /\ Len(g) = x /\ \A i \in 1..x : g[i] = obj[1 + i - 1]
        <4>1. 1 \in Int /\ x \in Int /\ 1 <= x /\ x - 1 + 1 = x
          BY <1>5, <2>7
        <4>2. \A i \in 1..x : obj[i] \in U
          BY <1>5, <2>7, <3>2
        <4> QED
          BY <4>1, <4>2, SubSeqProperties
      <3> HIDE DEF f, g
      <3>5. x \in Nat
        BY <1>5, <2>7
      <3>6. \A i \in 1..x : f[i] = g[i]
        <4> SUFFICES ASSUME NEW i \in 1..x PROVE f[i] = g[i]
          OBVIOUS
        <4>1. i \in 1..Len(obj) /\ s + i - 1 = Len(a) + i /\ 1 + i - 1 = i
          BY <1>5, <2>7
        <4>2. f[i] = text[Len(a) + i] /\ g[i] = obj[i]
          BY <3>3, <3>4, <4>1
        <4> QED
          BY <1>4, <4>1, <4>2
      <3>7. f \in Seq(T \cup U) /\ g \in Seq(T \cup U)
        BY <3>3, <3>4, SeqMonotonic
      <3>8. f = g
        BY <3>3, <3>4, <3>6, <3>7, SeqEqual
      <3> QED
        BY <3>8 DEF f, g
    <2> QED
      BY <2>3, <2>7, <2>8, <2>9, <2>10 DEF Extracted
  <1> QED
    BY <1>10, <1>11 DEF text, obj

(* A payload whose object does not parse once it is cut out: it has an      *)
(* Object of its own, or a prefix that is not declared.                     *)
Unfit(content) ==
    \E k \in Elements(content) :
        \/ content[k].name = Ds("Object")
        \/ content[k].name[1] \notin {"", "ds"}

(* An object without another one in it parses just when its payload is fit. *)
LEMMA WholeObject ==
    ASSUME NEW names, NEW content, Made(content, names, {}), NEW id,
           \A k \in Elements(content) : content[k].name # Ds("Object")
    PROVE  IsWellFormed(Parse(Object(content, id))) <=> ~ Unfit(content)
  <1> DEFINE obj == Object(content, id)
             tree == Parse(obj)
             n == Len(content)
  <1>1. /\ Nested(obj) /\ IsText(obj) /\ Len(obj) = n + 2 /\ n \in Nat
        /\ obj[1] = Open(Ds("Object"), Written(id), NoAttr, {"ds"})
        /\ obj[n + 2] = ObjectEnd
        /\ \A k \in 1..n : obj[k + 1] = content[k]
        /\ EndTag(obj, 1) = n + 2
        /\ \A k \in Elements(obj) : k = 1 \/ \E m \in Elements(content) : k = m + 1
        /\ 1 \in Elements(obj)
        /\ \A k \in Elements(content) : k + 1 \in Elements(obj)
    BY ObjectIs
  <1> HIDE DEF obj, n
  <1>2. /\ tree.text = obj /\ Nodes(tree) = Elements(obj)
        /\ \A k \in Elements(obj) : tree.end[k] = EndTag(obj, k)
    BY ParseIs
  <1>3. \A m \in Elements(content) : obj[m + 1] = content[m]
    BY <1>1, ElementsOf DEF n
  <1>4. OneRoot(obj, {"ds"})
    <2>1. obj[1].ns = {"ds"}
      BY <1>1 DEF Open
    <2>2. ASSUME NEW j \in Elements(obj)
          PROVE  obj[j].ns \subseteq {"ds"}
      <3>1. ASSUME NEW m \in Elements(content), j = m + 1
            PROVE  obj[j].ns \subseteq {"ds"}
        <4>1. content[m].ns \subseteq {}
          BY DEF Made
        <4> QED
          BY <1>3, <3>1, <4>1
      <3> QED
        BY <1>1, <2>1, <3>1
    <2> QED
      BY <1>1, <2>1, <2>2 DEF OneRoot
  <1>5. ASSUME NEW k \in Elements(obj)
        PROVE  InScope(tree, k) = {"ds"}
    <2>1. k \in 1..Len(obj) /\ obj[k].kind = "open"
      BY ElementsOf
    <2>2. obj[Len(obj)].kind # "open"
      BY <1>1 DEF ObjectEnd, Close
    <2>3. k < Len(obj)
      BY <1>1, <2>1, <2>2
    <2> QED
      BY <1>4, <2>3, RootInScope
  <1>6. \A k \in Elements(obj) :
           /\ EndTag(obj, k) \in (k + 1)..Len(obj)
           /\ obj[EndTag(obj, k)] = Close(obj[k].name)
    BY <1>1 DEF Nested, EndsInside
  <1> HIDE DEF tree
  <1>7. ASSUME NEW k \in Nodes(tree)
        PROVE  /\ tree.end[k] # 0
               /\ tree.text[tree.end[k]].name = tree.text[k].name
               /\ InScope(tree, k) = {"ds"} /\ tree.text[k] = obj[k]
    <2>1. k \in Elements(obj) /\ k \in Nat /\ tree.end[k] = EndTag(obj, k)
      BY <1>2, ElementsOf
    <2>2. EndTag(obj, k) # 0
      BY <1>6, <2>1
    <2>3. obj[EndTag(obj, k)].name = obj[k].name
      <3>1. obj[EndTag(obj, k)] = Close(obj[k].name)
        BY <1>6, <2>1
      <3>2. \A nm : Close(nm).name = nm
        BY DEF Close
      <3> QED
        BY <3>1, <3>2
    <2> QED
      BY <1>2, <1>5, <2>1, <2>2, <2>3
  <1>8. 1 \in Nodes(tree) /\ tree.end[1] = Len(tree.text)
    BY <1>1, <1>2
  <1>9. IsWellFormed(tree)
          <=> \A k \in Elements(obj) : obj[k].name[1] \in {""} \cup {"ds"}
    BY <1>2, <1>7, <1>8 DEF IsWellFormed
  <1>10. (\A k \in Elements(obj) : obj[k].name[1] \in {""} \cup {"ds"})
           <=> ~ Unfit(content)
    <2>1. obj[1].name[1] = "ds"
      BY <1>1 DEF Open, Ds
    <2>2. ASSUME \A k \in Elements(obj) : obj[k].name[1] \in {""} \cup {"ds"}
          PROVE  ~ Unfit(content)
      <3>1. \A m \in Elements(content) : content[m].name[1] \in {"", "ds"}
        BY <1>1, <1>3, <2>2
      <3> QED
        BY <3>1 DEF Unfit
    <2>3. ASSUME ~ Unfit(content), NEW k \in Elements(obj)
          PROVE  obj[k].name[1] \in {""} \cup {"ds"}
      <3>1. \A m \in Elements(content) : content[m].name[1] \in {"", "ds"}
        BY <2>3 DEF Unfit
      <3>2. CASE k = 1
        BY <2>1, <3>2
      <3>3. CASE k # 1
        <4>1. PICK m \in Elements(content) : k = m + 1
          BY <1>1, <3>3
        <4>2. obj[k] = content[m]
          BY <1>3, <4>1
        <4> QED
          BY <3>1, <4>2
      <3> QED
        BY <3>2, <3>3
    <2> QED
      BY <2>2, <2>3
  <1> QED
    BY <1>9, <1>10 DEF tree, obj

(* It is cut out whole. *)
LEMMA WholeCut ==
    ASSUME NEW names, NEW content, Made(content, names, {}), NEW id,
           NEW cut, Extracted(Object(content, id), cut),
           \A k \in Elements(content) : content[k].name # Ds("Object")
    PROVE  cut = Object(content, id)
  <1> DEFINE obj == Object(content, id)
             n == Len(content)
  <1>1. /\ Nested(obj) /\ IsText(obj) /\ Len(obj) = n + 2 /\ n \in Nat
        /\ \A k \in 1..n : obj[k + 1] = content[k]
    BY ObjectIs
  <1>2. obj[1].kind = "open"
    <2>1. obj[1] = Open(Ds("Object"), Written(id), NoAttr, {"ds"})
      BY ObjectIs
    <2> QED
      BY <2>1 DEF Open
  <1> HIDE DEF obj, n
  <1>3. PICK x \in 1..Len(obj) :
           /\ cut = SubSeq(obj, 1, x) /\ obj[x] = ObjectEnd
           /\ \A j \in 1..(x - 1) : obj[j] # ObjectEnd
    BY DEF Extracted, obj
  <1>4. EndsInside(content) /\ IsText(content)
    BY DEF Made, Nested
  <1>5. PICK T : obj \in Seq(T)
    BY <1>1 DEF IsText
  <1>6. x = n + 2
    <2> SUFFICES ASSUME x # n + 2 PROVE FALSE
      OBVIOUS
    <2>1. x # 1
      BY <1>2, <1>3 DEF ObjectEnd, Close
    <2> DEFINE j == x - 1
    <2>2. j \in 1..n /\ j + 1 = x
      BY <1>1, <2>1
    <2> HIDE DEF j
    <2>3. content[j] = ObjectEnd
      BY <1>1, <1>3, <2>2
    <2>4. IsEnd(content, j) /\ j \in 1..Len(content)
      BY <2>2, <2>3 DEF IsEnd, ObjectEnd, Close, n
    <2>5. PICK k \in Elements(content) : EndTag(content, k) = j
      BY <1>4, <2>4 DEF EndsInside
    <2>6. ObjectEnd = Close(content[k].name)
      BY <1>4, <2>3, <2>5 DEF EndsInside
    <2>7. content[k].name = Ds("Object")
      BY <2>6 DEF ObjectEnd, Close
    <2> QED
      BY <2>7
  <1>7. cut = obj
    BY <1>1, <1>3, <1>5, <1>6, SubSeqFull
  <1> QED
    BY <1>7 DEF obj

(* What is cut out parses just when the payload is fit. *)
LEMMA CutObject ==
    ASSUME NEW names, NEW content, Made(content, names, {}), NEW id,
           NEW cut, Extracted(Object(content, id), cut)
    PROVE  cut # <<>> /\ (CanonicalizeXml(cut) = <<>> <=> Unfit(content))
  <1> DEFINE obj == Object(content, id)
             n == Len(content)
  <1>1. /\ Nested(obj) /\ IsText(obj) /\ Len(obj) = n + 2 /\ n \in Nat
        /\ obj[n + 2] = ObjectEnd
        /\ \A k \in 1..n : obj[k + 1] = content[k]
        /\ EndTag(obj, 1) = n + 2
    BY ObjectIs
  <1>2. obj[1].kind = "open"
    <2>1. obj[1] = Open(Ds("Object"), Written(id), NoAttr, {"ds"})
      BY ObjectIs
    <2> QED
      BY <2>1 DEF Open
  <1> HIDE DEF obj, n
  <1>3. PICK x \in 1..Len(obj) :
           /\ cut = SubSeq(obj, 1, x) /\ obj[x] = ObjectEnd
           /\ \A j \in 1..(x - 1) : obj[j] # ObjectEnd
    BY DEF Extracted, obj
  <1>4. EndsInside(content) /\ IsText(content)
    BY DEF Made, Nested
  <1>5. PICK T : obj \in Seq(T)
    BY <1>1 DEF IsText
  <1>6. /\ cut \in Seq(T) /\ Len(cut) = x /\ \A i \in 1..x : cut[i] = obj[i]
    <2>1. 1 \in Int /\ x \in Int /\ 1 <= x /\ x - 1 + 1 = x
      BY <1>1
    <2>2. \A i \in 1..x : obj[i] \in T
      BY <1>1, <1>5
    <2>3. /\ cut \in Seq(T) /\ Len(cut) = x
          /\ \A i \in 1..x : cut[i] = obj[1 + i - 1]
      BY <1>3, <2>1, <2>2, SubSeqProperties
    <2>4. \A i \in 1..x : 1 + i - 1 = i
      BY <2>1
    <2> QED
      BY <2>3, <2>4
  <1>7. cut # <<>>
    <2>1. x # 0
      BY <1>1
    <2> QED
      BY <1>6, <2>1, ShortTexts
  <1>8. CanonicalizeXml(cut) = <<>> <=> ~ IsWellFormed(Parse(cut))
    <2>1. <<Canonical(Parse(cut), 1)>> # <<>>
      BY ShortTexts
    <2> QED
      BY <2>1 DEF CanonicalizeXml
  <1>9. CASE \A k \in Elements(content) : content[k].name # Ds("Object")
    <2>1. cut = obj
      BY <1>9, WholeCut DEF obj
    <2> QED
      BY <1>7, <1>8, <1>9, <2>1, WholeObject DEF obj
  <1>10. ASSUME NEW k \in Elements(content), content[k].name = Ds("Object")
         PROVE  ~ IsWellFormed(Parse(cut)) /\ Unfit(content)
    <2> DEFINE e == EndTag(content, k)
    <2>1. e \in (k + 1)..n /\ content[e] = ObjectEnd /\ k \in Nat
      BY <1>4, <1>10, ElementsOf DEF EndsInside, ObjectEnd, n
    <2> HIDE DEF e
    <2>2. e \in 1..n /\ e + 1 \in Nat
      BY <1>1, <2>1
    <2>3. obj[e + 1] = ObjectEnd
      BY <1>1, <2>1, <2>2
    <2>4. x < n + 2
      <3>1. ~ (e + 1 \in 1..(x - 1))
        BY <1>3, <2>3
      <3> QED
        BY <1>1, <2>2, <3>1
    <2>5. EndTag(cut, 1) = 0
      <3>1. x + 1 \in 1..Len(obj) /\ x + 1 - 1 = x
        BY <1>1, <2>4
      <3> DEFINE rest == SubSeq(obj, x + 1, Len(obj))
      <3>2. IsText(cut) /\ IsText(rest) /\ obj = Then(cut, rest)
        <4>1. LET a == SubSeq(obj, 1, x + 1 - 1)
                  b == SubSeq(obj, x + 1, Len(obj))
              IN  IsText(a) /\ IsText(b) /\ obj = Then(a, b)
          BY <1>1, <3>1, CutAt
        <4> QED
          BY <1>3, <3>1, <4>1
      <3> HIDE DEF rest
      <3>3. Scan(cut)[1][0] = LET y == Scan(Then(cut, rest))[1][0]
                              IN  IF y <= Len(cut) THEN y ELSE 0
        <4>1. 1 \in Nat \ {0} /\ 0 \in Nat
          OBVIOUS
        <4> QED
          BY <3>2, <4>1, ScanCut
      <3>4. Scan(obj)[1][0] = n + 2
        BY <1>1, EndTagScans
      <3>5. ~ (n + 2 <= x)
        BY <1>1, <2>4
      <3> QED
        BY <1>6, <3>2, <3>3, <3>4, <3>5, EndTagScans
    <2>6. ~ IsWellFormed(Parse(cut))
      <3> DEFINE tree == Parse(cut)
      <3>1. /\ tree.text = cut /\ Nodes(tree) = Elements(cut)
            /\ \A i \in Elements(cut) : tree.end[i] = EndTag(cut, i)
        BY ParseIs
      <3> HIDE DEF tree
      <3>2. 1 \in Nodes(tree) => tree.end[1] = 0
        BY <2>5, <3>1
      <3>3. Len(tree.text) # 0
        BY <1>1, <1>6, <3>1
      <3>4. ~ IsWellFormed(tree)
        BY <3>2, <3>3 DEF IsWellFormed
      <3> QED
        BY <3>4 DEF tree
    <2> QED
      BY <1>10, <2>6 DEF Unfit
  <1> QED
    BY <1>7, <1>8, <1>9, <1>10

(* So is the SignedInfo of an enveloping signature. *)
LEMMA MadeEnvelopingInfo ==
    ASSUME NEW k0, NEW id, NEW digest
    PROVE  Made(EnvelopingInfo(k0, id, digest), InfoNames, {"ds"})
  <1> DEFINE x == Reference(NoId, <<"#", Written(id)>>, digest)
             refs == <<x>>
  <1>1. Made(x, InfoNames, {"ds"})
    BY MadeReference
  <1>2. EnvelopingInfo(k0, id, digest) = SignedInfo({"ds"}, SignatureMethodUri(k0), refs)
    BY DEF EnvelopingInfo
  <1> HIDE DEF x
  <1>3. refs = [k \in 1..1 |-> refs[k]] /\ \A k \in 1..1 : refs[k] = x
    OBVIOUS
  <1> HIDE DEF refs
  <1>4. \A k \in 1..1 : Made(refs[k], InfoNames, {"ds"})
    BY <1>1, <1>3
  <1>5. 1 \in Nat
    OBVIOUS
  <1> QED
    BY <1>2, <1>3, <1>4, <1>5, MadeSignedInfo

(* So sign_enveloping refuses just these payloads, Ids to be escaped, and   *)
(* keys that are no RSA keys.                                               *)
LEMMA SignEnvelopingRefuses ==
    ASSUME NEW names, NEW content, Made(content, names, {}), NoIds(content),
           NEW id, NEW k0
    PROVE  LET r == SignEnveloping(content, id, k0)
           IN  /\ r.ok \in BOOLEAN
               /\ ~ r.ok <=> (k0.kind # "Rsa" \/ NeedsEscape(id) \/ Unfit(content))
  <1> DEFINE info == EnvelopingInfo(k0, id, <<>>)
             object == ExtractObject(EnvelopingXml(content, id, info, <<>>), id)
             canonical == CanonicalizeXml(object)
             info2 == EnvelopingInfo(k0, id, Sha256(canonical[1]))
             final == EnvelopingXml(content, id, info2,
                                    SignWith(k0, CanonicalizeXml(info2)[1]))
  <1>1. SignEnveloping(content, id, k0)
          = IF k0.kind # "Rsa" THEN Refused("UnsupportedError")
            ELSE IF object = <<>> THEN Refused("GeneralError")
            ELSE IF canonical = <<>> THEN Refused("CanonicalizationError")
            ELSE Done(final)
    BY DEF SignEnveloping
  <1>2. Made(info, InfoNames, {"ds"})
    BY MadeEnvelopingInfo
  <1> HIDE DEF info, final
  <1>3. /\ NeedsEscape(id) => object = <<>>
        /\ ~ NeedsEscape(id) => Extracted(Object(content, id), object)
    BY <1>2, ObjectIsExtracted
  <1> HIDE DEF object
  <1>4. ~ NeedsEscape(id) => object # <<>> /\ (canonical = <<>> <=> Unfit(content))
    BY <1>3, CutObject
  <1> HIDE DEF canonical
  <1>5. Done(final).ok = TRUE /\ \A e : Refused(e).ok = FALSE
    BY DEF Done, Refused
  <1> QED
    BY <1>1, <1>3, <1>4, <1>5

(* A payload stays made of its names, and without Ids, whatever is added to *)
(* it or put around it.                                                     *)
LEMMA FilledPayload ==
    ASSUME NEW s, Made(s, PayloadNames, {}), NoIds(s),
           NEW name \in PayloadNames, NEW x
    PROVE  /\ Made(Then(s, Leaf(name, x)), PayloadNames, {})
           /\ NoIds(Then(s, Leaf(name, x)))
           /\ Made(Element(name, NoId, NoAttr, {}, s), PayloadNames, {})
           /\ NoIds(Element(name, NoId, NoAttr, {}, s))
  <1> DEFINE leaf == Leaf(name, x)
  <1>1. Made(leaf, PayloadNames, {})
    BY MadeLeaf
  <1>2. NoIds(leaf)
    BY NoIdsLeaf
  <1> HIDE DEF leaf
  <1>3. IsText(s) /\ IsText(leaf)
    BY <1>1 DEF Made, Nested
  <1>4. Made(Then(s, leaf), PayloadNames, {}) /\ NoIds(Then(s, leaf))
    BY <1>1, <1>2, <1>3, MadeJoin, NoIdsJoin
  <1>5. {} \subseteq {}
    OBVIOUS
  <1>6. Made(Element(name, NoId, NoAttr, {}, s), PayloadNames, {})
    BY <1>5, MadeElement
  <1>7. NoIds(Element(name, NoId, NoAttr, {}, s))
    BY <1>3, NoIdsElement
  <1> QED
    BY <1>4, <1>6, <1>7 DEF leaf

-----------------------------------------------------------------------------
(***************************************************************************)
(* The text of a XAdES document at each level: one with a given text under *)
(* its QualifyingProperties, behind the SignedProperties.                  *)
(***************************************************************************)
(* The QualifyingProperties, with the unsigned text u behind the            *)
(* SignedProperties.                                                        *)
Qualifying(fs, u) ==
    Element(Xa("QualifyingProperties"), NoId, <<"#", SignatureId(Index)>>, {},
            Then(SignedProperties(fs, Index, AllPrefixes), u))

(* The value, made by key k0 of the canonical SignedInfo. *)
ValueOf(fs, k0) ==
    SignatureValue(SignatureValueId(Index),
        SignWith(k0, CanonicalizeXml(XadesSignedInfo(fs, k0, Index))[1]))

(* The certificate of the signer. *)
KeyInfo == Leaf(Ds("KeyInfo"), <<"certificate", Index>>)

(* What is in the ds:Signature. *)
Body(fs, k0, u) ==
    Then(XadesSignedInfo(fs, k0, Index),
         Then(ValueOf(fs, k0),
              Then(KeyInfo,
                   Element(Ds("Object"), NoId, NoAttr, {}, Qualifying(fs, u)))))

(* The whole document. *)
XadesText(fs, k0, u) ==
    Element(<<"asic", "XAdESSignatures">>, NoId, NoAttr, AllPrefixes,
        Element(Ds("Signature"), SignatureId(Index), NoAttr, {}, Body(fs, k0, u)))

(* The UnsignedProperties around c. *)
UnsignedBlock(c) ==
    Element(Xa("UnsignedProperties"), NoId, NoAttr, {},
        Element(Xa("UnsignedSignatureProperties"), NoId, NoAttr, {}, c))

(* What the upgrade to T pastes. *)
StampPart ==
    Element(Xa("SignatureTimeStamp"), <<"S-T0", Index>>, NoAttr, {},
            <<Text(TimeStamp(Index))>>)

(* What the upgrade to LT pastes behind it: the issuer's certificate *)
CertificatePart(issuer) ==
    Element(Xa("CertificateValues"), <<"S-CA-CERT", Index>>, NoAttr, {},
            <<Text(issuer)>>)

(* and the OCSP response. *)
RevocationPart ==
    Element(Xa("RevocationValues"), <<"N", Index>>, NoAttr, {},
            <<Text(OcspResponse(Index))>>)

(* The unsigned text at level l. *)
UnsignedOf(l, issuer) ==
    IF l = "BES" THEN <<>>
    ELSE IF l = "T" THEN UnsignedBlock(StampPart)
    ELSE UnsignedBlock(
            Then(StampPart, Then(CertificatePart(issuer), RevocationPart)))

(* These are nested, *)
LEMMA PartsAreNested ==
    ASSUME NEW issuer
    PROVE  /\ Nested(StampPart) /\ Nested(CertificatePart(issuer))
           /\ Nested(RevocationPart) /\ Nested(KeyInfo)
           /\ \A l : Nested(UnsignedOf(l, issuer))
  <1>1. /\ Nested(StampPart) /\ Nested(CertificatePart(issuer))
        /\ Nested(RevocationPart) /\ Nested(KeyInfo)
    BY NestedText, NestedElement
       DEF StampPart, CertificatePart, RevocationPart, KeyInfo, Leaf
  <1>2. ASSUME NEW c, Nested(c)
        PROVE  Nested(UnsignedBlock(c))
    BY <1>2, NestedElement DEF UnsignedBlock
  <1>3. Nested(Then(StampPart, Then(CertificatePart(issuer), RevocationPart)))
    BY <1>1, NestedJoin
  <1> QED
    BY <1>1, <1>2, <1>3, NestedNone DEF UnsignedOf

(* and so are the parts of the document. *)
LEMMA BodyIsNested ==
    ASSUME NEW fs, Len(fs) \in Nat, NEW k0, NEW u, Nested(u)
    PROVE  /\ Nested(XadesSignedInfo(fs, k0, Index)) /\ Nested(ValueOf(fs, k0))
           /\ Nested(SignedProperties(fs, Index, AllPrefixes))
           /\ Nested(Qualifying(fs, u)) /\ Nested(Body(fs, k0, u))
           /\ Nested(XadesText(fs, k0, u))
  <1>1. Nested(XadesSignedInfo(fs, k0, Index))
    BY MadeXadesInfo DEF Made
  <1>2. Nested(SignedProperties(fs, Index, AllPrefixes))
    BY MadeSignedProperties DEF Made
  <1>3. Nested(ValueOf(fs, k0))
    BY NestedText, NestedElement DEF ValueOf, SignatureValue
  <1>4. Nested(Qualifying(fs, u))
    <2>1. Nested(Then(SignedProperties(fs, Index, AllPrefixes), u))
      BY <1>2, NestedJoin
    <2> QED
      BY <2>1, NestedElement DEF Qualifying
  <1>5. Nested(Element(Ds("Object"), NoId, NoAttr, {}, Qualifying(fs, u)))
    BY <1>4, NestedElement
  <1>6. Nested(KeyInfo)
    BY PartsAreNested
  <1>7. Nested(Body(fs, k0, u))
    BY <1>1, <1>3, <1>5, <1>6, NestedJoin DEF Body
  <1>8. Nested(XadesText(fs, k0, u))
    BY <1>7, NestedElement DEF XadesText
  <1> QED
    BY <1>1, <1>2, <1>3, <1>4, <1>7, <1>8

(* build_xades_xml makes the document without unsigned text. *)
LEMMA BesTextIs ==
    ASSUME NEW fs, Len(fs) \in Nat, NEW k0
    PROVE  BuildXadesXml(fs, k0, Index) = XadesText(fs, k0, <<>>)
  <1> DEFINE a == XadesSignedInfo(fs, k0, Index)
             v == ValueOf(fs, k0)
             i == KeyInfo
             p == SignedProperties(fs, Index, AllPrefixes)
             q == Element(Xa("QualifyingProperties"), NoId,
                          <<"#", SignatureId(Index)>>, {}, p)
             o == Element(Ds("Object"), NoId, NoAttr, {}, q)
             Wrap(c) == Element(<<"asic", "XAdESSignatures">>, NoId, NoAttr,
                          AllPrefixes,
                          Element(Ds("Signature"), SignatureId(Index), NoAttr, {}, c))
  <1>1. /\ IsText(a) /\ IsText(v) /\ IsText(i) /\ IsText(p)
    BY NestedNone, BodyIsNested, PartsAreNested DEF Nested
  <1>2. Nested(p)
    BY NestedNone, BodyIsNested
  <1>3. Nested(o)
    BY <1>2, NestedElement
  <1>4. Qualifying(fs, <<>>) = q
    BY <1>1, JoinNone DEF Qualifying
  <1>5. XadesText(fs, k0, <<>>) = Wrap(Then(a, Then(v, Then(i, o))))
    BY <1>4 DEF XadesText, Body
  <1>6. BuildXadesXml(fs, k0, Index) = Wrap(((a \o v) \o i) \o o)
    BY DEF BuildXadesXml, ValueOf, KeyInfo
  <1> HIDE DEF a, v, i, p, q, o
  <1>7. Then(Then(Then(a, v), i), o) = Then(a, Then(v, Then(i, o)))
    <2>1. IsText(o) /\ IsText(Then(a, v)) /\ IsText(Then(i, o))
      BY <1>1, <1>3, Join DEF Nested
    <2>2. Then(Then(Then(a, v), i), o) = Then(Then(a, v), Then(i, o))
      BY <1>1, <2>1, Regroup
    <2>3. Then(Then(a, v), Then(i, o)) = Then(a, Then(v, Then(i, o)))
      BY <1>1, <2>1, Regroup
    <2> QED
      BY <2>2, <2>3
  <1>8. ((a \o v) \o i) \o o = Then(Then(Then(a, v), i), o)
    BY DEF Then
  <1> QED
    BY <1>5, <1>6, <1>7, <1>8

-----------------------------------------------------------------------------
(***************************************************************************)
(* The same document, cut where its unsigned text is.                      *)
(***************************************************************************)
(* The start tags around the unsigned text. *)
OpenQualifying ==
    Open(Xa("QualifyingProperties"), NoId, <<"#", SignatureId(Index)>>, {})

OpenObject == Open(Ds("Object"), NoId, NoAttr, {})

OpenSignature == Open(Ds("Signature"), SignatureId(Index), NoAttr, {})

OpenRoot == Open(<<"asic", "XAdESSignatures">>, NoId, NoAttr, AllPrefixes)

(* The document up to the unsigned text. *)
XadesHead(fs, k0) ==
    LET h1 == Then(<<OpenQualifying>>, SignedProperties(fs, Index, AllPrefixes))
        h2 == Then(<<OpenObject>>, h1)
        h3 == Then(XadesSignedInfo(fs, k0, Index),
                   Then(ValueOf(fs, k0), Then(KeyInfo, h2)))
    IN  Then(<<OpenRoot>>, Then(<<OpenSignature>>, h3))

(* What closes the Object. *)
TailOfObject ==
    Then(Then(<<>>, <<Close(Xa("QualifyingProperties"))>>), <<Close(Ds("Object"))>>)

(* What is behind the unsigned text. *)
XadesTail ==
    Then(Then(TailOfObject, <<Close(Ds("Signature"))>>),
         <<Close(<<"asic", "XAdESSignatures">>)>>)

(* These are texts. *)
LEMMA TailIs ==
    LET t2 == Then(<<>>, <<Close(Xa("QualifyingProperties"))>>)
        t4 == Then(TailOfObject, <<Close(Ds("Signature"))>>)
    IN  /\ IsText(t2) /\ IsText(TailOfObject) /\ IsText(t4) /\ IsText(XadesTail)
        /\ t2 = <<Close(Xa("QualifyingProperties"))>>
  <1> DEFINE a == Close(Xa("QualifyingProperties"))
             t2 == Then(<<>>, <<a>>)
             t4 == Then(TailOfObject, <<Close(Ds("Signature"))>>)
  <1>1. /\ \A x : IsText(<<x>>)
        /\ IsText(<<>>)
    BY ShortTexts
  <1>2. IsText(t2) /\ t2 = <<a>>
    <2>1. IsText(<<a>>)
      BY <1>1
    <2>2. t2 = <<a>>
      BY <2>1, JoinNone
    <2> QED
      BY <2>1, <2>2
  <1>3. IsText(TailOfObject)
    <2> DEFINE b == <<Close(Ds("Object"))>>
    <2>1. IsText(b) /\ TailOfObject = Then(t2, b)
      BY <1>1 DEF TailOfObject
    <2> HIDE DEF b, t2
    <2> QED
      BY <1>2, <2>1, Join
  <1>4. IsText(t4)
    <2> DEFINE b == <<Close(Ds("Signature"))>>
    <2>1. IsText(b) /\ t4 = Then(TailOfObject, b)
      BY <1>1
    <2> HIDE DEF b, t4
    <2> QED
      BY <1>3, <2>1, Join
  <1>5. IsText(XadesTail)
    <2> DEFINE b == <<Close(<<"asic", "XAdESSignatures">>)>>
    <2>1. IsText(b) /\ XadesTail = Then(t4, b)
      BY <1>1 DEF XadesTail
    <2> HIDE DEF b, t4
    <2> QED
      BY <1>4, <2>1, Join
  <1> QED
    BY <1>2, <1>3, <1>4, <1>5

(* The document, cut around its unsigned text. *)
LEMMA XadesSplit ==
    ASSUME NEW fs, Len(fs) \in Nat, NEW k0, NEW u, Nested(u)
    PROVE  /\ XadesText(fs, k0, u) = Then(XadesHead(fs, k0), Then(u, XadesTail))
           /\ IsText(XadesHead(fs, k0)) /\ IsText(XadesTail) /\ IsText(u)
  <1> DEFINE a == XadesSignedInfo(fs, k0, Index)
             v == ValueOf(fs, k0)
             i == KeyInfo
             p == SignedProperties(fs, Index, AllPrefixes)
             h1 == Then(<<OpenQualifying>>, p)
             h2 == Then(<<OpenObject>>, h1)
             i3 == Then(i, h2)
             v3 == Then(v, i3)
             h3 == Then(a, v3)
             h4 == Then(<<OpenSignature>>, h3)
             t2 == Then(<<>>, <<Close(Xa("QualifyingProperties"))>>)
             t3 == TailOfObject
             t4 == Then(t3, <<Close(Ds("Signature"))>>)
             q == Qualifying(fs, u)
             o == Element(Ds("Object"), NoId, NoAttr, {}, q)
             g == Element(Ds("Signature"), SignatureId(Index), NoAttr, {}, Body(fs, k0, u))
  <1>1. /\ IsText(a) /\ IsText(v) /\ IsText(i) /\ IsText(p) /\ IsText(u)
    BY BodyIsNested, PartsAreNested DEF Nested
  <1>2. /\ IsText(<<OpenQualifying>>) /\ IsText(<<OpenObject>>)
        /\ IsText(<<OpenSignature>>) /\ IsText(<<OpenRoot>>) /\ IsText(<<>>)
    BY ShortTexts
  <1>3. /\ IsText(t2) /\ IsText(t3) /\ IsText(t4) /\ IsText(XadesTail)
        /\ t3 = Then(t2, <<Close(Ds("Object"))>>)
    BY TailIs DEF TailOfObject
  <1>4. Body(fs, k0, u) = Then(a, Then(v, Then(i, o)))
    BY DEF Body
  <1>5. q = Then(h1, Then(u, t2))
    <2>1. q = Element(Xa("QualifyingProperties"), NoId, <<"#", SignatureId(Index)>>,
                      {}, Then(p, Then(u, <<>>)))
      BY <1>1, JoinNone DEF Qualifying
    <2> HIDE DEF q, p
    <2> QED
      BY <1>1, <1>2, <2>1, ElementSplit DEF OpenQualifying
  <1>6. /\ XadesHead(fs, k0) = Then(<<OpenRoot>>, h4)
        /\ XadesTail = Then(t4, <<Close(<<"asic", "XAdESSignatures">>)>>)
    BY DEF XadesHead, XadesTail
  <1>7. XadesText(fs, k0, u)
          = Element(<<"asic", "XAdESSignatures">>, NoId, NoAttr, AllPrefixes, g)
    BY DEF XadesText
  <1>8. g = Element(Ds("Signature"), SignatureId(Index), NoAttr, {}, Body(fs, k0, u))
    OBVIOUS
  <1> HIDE DEF a, v, i, p, q, g, t2
  <1>9. IsText(h1)
    BY <1>1, <1>2, Join
  <1> HIDE DEF h1
  <1>10. IsText(h2)
    BY <1>2, <1>9, Join
  <1>11. o = Then(h2, Then(u, t3))
    BY <1>1, <1>3, <1>5, <1>9, ElementSplit DEF OpenObject
  <1> HIDE DEF h2, o, t3
  <1>12. IsText(i3)
    BY <1>1, <1>10, Join
  <1>13. Then(i, o) = Then(i3, Then(u, t3))
    BY <1>1, <1>3, <1>10, <1>11, JoinSplit
  <1> HIDE DEF i3
  <1>14. IsText(v3)
    BY <1>1, <1>12, Join
  <1>15. Then(v, Then(i, o)) = Then(v3, Then(u, t3))
    BY <1>1, <1>3, <1>12, <1>13, JoinSplit
  <1> HIDE DEF v3
  <1>16. IsText(h3)
    BY <1>1, <1>14, Join
  <1>17. Body(fs, k0, u) = Then(h3, Then(u, t3))
    BY <1>1, <1>3, <1>4, <1>14, <1>15, JoinSplit
  <1> HIDE DEF h3
  <1>18. IsText(h4)
    BY <1>2, <1>16, Join
  <1>19. g = Then(h4, Then(u, t4))
    BY <1>1, <1>3, <1>8, <1>16, <1>17, ElementSplit DEF OpenSignature
  <1> HIDE DEF h4, t4
  <1>20. XadesText(fs, k0, u)
           = Then(Then(<<OpenRoot>>, h4),
                  Then(u, Then(t4, <<Close(<<"asic", "XAdESSignatures">>)>>)))
    BY <1>1, <1>3, <1>7, <1>18, <1>19, ElementSplit DEF OpenRoot
  <1>21. IsText(Then(<<OpenRoot>>, h4))
    BY <1>2, <1>18, Join
  <1> QED
    BY <1>1, <1>3, <1>6, <1>20, <1>21

-----------------------------------------------------------------------------
(***************************************************************************)
(* What the upgrades make of the text.                                     *)
(***************************************************************************)
(* Behind the unsigned text, the properties are closed once and no unsigned *)
(* ones are: so the upgrades find the place for theirs.                     *)
LEMMA TailLacks ==
    /\ Lacks(XadesTail, Close(Xa("UnsignedSignatureProperties")))
    /\ \E b : /\ IsText(b) /\ Lacks(b, Close(Xa("QualifyingProperties")))
              /\ XadesTail = Then(<<Close(Xa("QualifyingProperties"))>>, b)
  <1> DEFINE q == <<Close(Xa("QualifyingProperties"))>>
             o == <<Close(Ds("Object"))>>
             g == <<Close(Ds("Signature"))>>
             r == <<Close(<<"asic", "XAdESSignatures">>)>>
             u == Close(Xa("UnsignedSignatureProperties"))
             c == Close(Xa("QualifyingProperties"))
  <1>1. IsText(q) /\ IsText(o) /\ IsText(g) /\ IsText(r)
    BY ShortTexts
  <1>2. Lacks(q, u) /\ Lacks(o, u) /\ Lacks(g, u) /\ Lacks(r, u)
    BY LacksOther DEF Ds, Xa
  <1>3. Lacks(o, c) /\ Lacks(g, c) /\ Lacks(r, c)
    BY LacksOther DEF Ds, Xa
  <1>4. XadesTail = Then(Then(Then(q, o), g), r)
    BY TailIs DEF XadesTail, TailOfObject
  <1> HIDE DEF q, o, g, r, u, c
  <1>5. Lacks(XadesTail, u)
    <2>1. IsText(Then(q, o)) /\ Lacks(Then(q, o), u)
      BY <1>1, <1>2, Join, LacksJoin
    <2>2. IsText(Then(Then(q, o), g)) /\ Lacks(Then(Then(q, o), g), u)
      BY <1>1, <1>2, <2>1, Join, LacksJoin
    <2> QED
      BY <1>1, <1>2, <1>4, <2>2, LacksJoin
  <1>6. XadesTail = Then(q, Then(o, Then(g, r)))
    <2>1. IsText(Then(q, o)) /\ IsText(Then(g, r))
      BY <1>1, Join
    <2>2. XadesTail = Then(Then(q, o), Then(g, r))
      BY <1>1, <1>4, <2>1, Regroup
    <2> QED
      BY <1>1, <2>1, <2>2, Regroup
  <1>7. IsText(Then(o, Then(g, r))) /\ Lacks(Then(o, Then(g, r)), c)
    <2>1. IsText(Then(g, r)) /\ Lacks(Then(g, r), c)
      BY <1>1, <1>3, Join, LacksJoin
    <2> QED
      BY <1>1, <1>3, <2>1, Join, LacksJoin
  <1> QED
    BY <1>5, <1>6, <1>7 DEF q, c, u

(* The upgrade to T pastes the time stamp there. *)
LEMMA BesToT ==
    ASSUME NEW fs, Len(fs) \in Nat, NEW k0, NEW issuer
    PROVE  PasteTimeStamp(XadesText(fs, k0, UnsignedOf("BES", issuer)), Index)
             = Done(XadesText(fs, k0, UnsignedOf("T", issuer)))
  <1> DEFINE h == XadesHead(fs, k0)
             block == UnsignedBlock(StampPart)
             name == Xa("QualifyingProperties")
  <1>1. Nested(block) /\ UnsignedOf("T", issuer) = block
        /\ UnsignedOf("BES", issuer) = <<>>
    BY PartsAreNested DEF UnsignedOf
  <1>2. PICK b : /\ IsText(b) /\ Lacks(b, Close(name))
                 /\ XadesTail = Then(<<Close(name)>>, b)
    BY TailLacks
  <1>3. /\ XadesText(fs, k0, block) = Then(h, Then(block, XadesTail))
        /\ IsText(h) /\ IsText(XadesTail) /\ IsText(block)
    BY <1>1, XadesSplit
  <1>4. XadesText(fs, k0, <<>>) = Then(h, XadesTail)
    <2>1. XadesText(fs, k0, <<>>) = Then(h, Then(<<>>, XadesTail))
      BY NestedNone, XadesSplit
    <2> QED
      BY <1>3, <2>1, JoinNone
  <1>5. \A text : PasteTimeStamp(text, Index) = PastedInto(text, name, block)
    BY DEF PasteTimeStamp, UnsignedBlock, StampPart
  <1> HIDE DEF h, block, name
  <1>6. PastedInto(Then(h, XadesTail), name, block)
          = Done(Then(h, Then(block, XadesTail)))
    BY <1>2, <1>3, PastedLast DEF Lacks
  <1> QED
    BY <1>1, <1>3, <1>4, <1>5, <1>6

(* A block, cut around what is in it. *)
LEMMA BlockSplit ==
    ASSUME NEW c, IsText(c)
    PROVE  \E h, t : /\ IsText(h) /\ IsText(t)
                     /\ Lacks(t, Close(Xa("UnsignedSignatureProperties")))
                     /\ \A d : IsText(d) => UnsignedBlock(d) = Then(h, Then(d,
                          Then(<<Close(Xa("UnsignedSignatureProperties"))>>, t)))
  <1> DEFINE p == Open(Xa("UnsignedProperties"), NoId, NoAttr, {})
             s == Open(Xa("UnsignedSignatureProperties"), NoId, NoAttr, {})
             e == <<Close(Xa("UnsignedSignatureProperties"))>>
             t == <<Close(Xa("UnsignedProperties"))>>
             h == Then(<<p>>, <<s>>)
  <1>1. IsText(<<p>>) /\ IsText(<<s>>) /\ IsText(e) /\ IsText(t)
    BY ShortTexts
  <1>2. IsText(h)
    BY <1>1, Join
  <1>3. Lacks(t, Close(Xa("UnsignedSignatureProperties")))
    BY LacksOther DEF Xa
  <1>4. ASSUME NEW d, IsText(d)
        PROVE  UnsignedBlock(d) = Then(h, Then(d, Then(e, t)))
    <2> DEFINE i == Element(Xa("UnsignedSignatureProperties"), NoId, NoAttr, {}, d)
    <2>1. i = Then(<<s>>, Then(d, e))
      BY <1>4, ElementParts DEF Within
    <2>2. UnsignedBlock(d) = Element(Xa("UnsignedProperties"), NoId, NoAttr, {}, i)
      BY DEF UnsignedBlock
    <2> HIDE DEF i
    <2>3. Element(Xa("UnsignedProperties"), NoId, NoAttr, {},
                  Then(<<s>>, Then(d, e))) = Then(h, Then(d, Then(e, t)))
      BY <1>1, <1>4, ElementSplit
    <2> QED
      BY <2>1, <2>2, <2>3
  <1> QED
    BY <1>1, <1>2, <1>3, <1>4

(* The upgrade to LT pastes its values behind the time stamp. *)
LEMMA TToLT ==
    ASSUME NEW fs, Len(fs) \in Nat, NEW k0, NEW issuer
    PROVE  PasteValues(XadesText(fs, k0, UnsignedOf("T", issuer)), issuer, Index)
             = Done(XadesText(fs, k0, UnsignedOf("LT", issuer)))
  <1> DEFINE a == XadesHead(fs, k0)
             name == Xa("UnsignedSignatureProperties")
             e == <<Close(name)>>
             c == StampPart
             block == Then(CertificatePart(issuer), RevocationPart)
             z == XadesTail
             more == Then(c, block)
  <1>1. Nested(c) /\ Nested(block) /\ Nested(more)
    BY PartsAreNested, NestedJoin
  <1>2. /\ UnsignedOf("T", issuer) = UnsignedBlock(c)
        /\ UnsignedOf("LT", issuer) = UnsignedBlock(more)
    BY DEF UnsignedOf
  <1>3. /\ XadesText(fs, k0, UnsignedBlock(c)) = Then(a, Then(UnsignedBlock(c), z))
        /\ XadesText(fs, k0, UnsignedBlock(more))
             = Then(a, Then(UnsignedBlock(more), z))
        /\ IsText(a) /\ IsText(z)
    <2>1. Nested(UnsignedBlock(c)) /\ Nested(UnsignedBlock(more))
      BY <1>2, PartsAreNested
    <2> QED
      BY <2>1, XadesSplit
  <1>4. Lacks(z, Close(name))
    BY TailLacks
  <1>5. \A text : PasteValues(text, issuer, Index) = PastedInto(text, name, block)
    BY DEF PasteValues, CertificatePart, RevocationPart, Then
  <1>6. IsText(c) /\ IsText(block) /\ IsText(more)
    BY <1>1 DEF Nested
  <1>7. PICK h, t : /\ IsText(h) /\ IsText(t) /\ Lacks(t, Close(name))
                    /\ \A d : IsText(d) =>
                          UnsignedBlock(d) = Then(h, Then(d, Then(e, t)))
    BY <1>6, BlockSplit
  <1>8. IsText(e)
    BY ShortTexts
  <1> HIDE DEF a, c, block, z
  <1>9. ASSUME NEW d, IsText(d)
        PROVE  Then(a, Then(UnsignedBlock(d), z))
                 = Then(Then(a, h), Then(d, Then(e, Then(t, z))))
    <2> DEFINE et == Then(e, t)
               det == Then(d, et)
               dz == Then(d, Then(e, Then(t, z)))
    <2>1. UnsignedBlock(d) = Then(h, det)
      BY <1>7, <1>9
    <2>2. IsText(et) /\ IsText(det) /\ IsText(dz)
      BY <1>3, <1>7, <1>8, <1>9, Join
    <2>3. Then(det, z) = dz
      <3>1. Then(det, z) = Then(d, Then(et, z))
        BY <1>3, <1>9, <2>2, Regroup
      <3>2. Then(et, z) = Then(e, Then(t, z))
        BY <1>3, <1>7, <1>8, Regroup
      <3> QED
        BY <3>1, <3>2
    <2> HIDE DEF et, det, dz
    <2>4. Then(Then(h, det), z) = Then(h, dz)
      BY <1>3, <1>7, <2>2, <2>3, Regroup
    <2>5. Then(a, Then(h, dz)) = Then(Then(a, h), dz)
      BY <1>3, <1>7, <2>2, Regroup
    <2> QED
      BY <2>1, <2>4, <2>5 DEF dz
  <1> DEFINE tz == Then(t, z)
             ah == Then(a, h)
             ahc == Then(ah, c)
             ez == Then(e, tz)
  <1>10. IsText(tz) /\ IsText(ah) /\ IsText(ahc) /\ Lacks(tz, Close(name))
         /\ IsText(ez)
    BY <1>3, <1>4, <1>6, <1>7, <1>8, Join, LacksJoin
  <1>11. /\ Then(a, Then(UnsignedBlock(c), z)) = Then(ah, Then(c, ez))
         /\ Then(a, Then(UnsignedBlock(more), z)) = Then(ah, Then(more, ez))
    BY <1>6, <1>9
  <1> HIDE DEF tz, ah
  <1>12. Then(ah, Then(c, ez)) = Then(ahc, ez)
    BY <1>6, <1>10, Regroup
  <1>13. PastedInto(Then(ahc, ez), name, block) = Done(Then(ahc, Then(block, ez)))
    <2> HIDE DEF ahc
    <2> QED
      BY <1>6, <1>10, PastedLast DEF Lacks
  <1>14. Then(ahc, Then(block, ez)) = Then(ah, Then(more, ez))
    <2>1. IsText(Then(block, ez))
      BY <1>6, <1>10, Join
    <2>2. Then(ahc, Then(block, ez)) = Then(ah, Then(c, Then(block, ez)))
      BY <1>6, <1>10, <2>1, Regroup
    <2>3. Then(c, Then(block, ez)) = Then(more, ez)
      BY <1>6, <1>10, Regroup
    <2> QED
      BY <2>2, <2>3
  <1> QED
    BY <1>2, <1>3, <1>5, <1>11, <1>12, <1>13, <1>14

-----------------------------------------------------------------------------
(***************************************************************************)
(* The references of the SignedInfo.                                       *)
(***************************************************************************)
(* Reference k: to data file k, and the last one to the SignedProperties. *)
XadesRef(fs, k) ==
    IF k <= Len(fs)
    THEN [name |-> Ds("Reference"), id |-> RefId(Index, k),
          attr |-> fs[k].name, data |-> fs[k].content]
    ELSE [name |-> Ds("Reference"), id |-> <<"S-SignedPropertiesRef", Index>>,
          attr |-> <<"#", SignedPropertiesId(Index)>>,
          data |-> SignedPropertiesDigest(fs, Index)]

(* The references, in order. *)
XadesRefs(fs) == [k \in 1..(Len(fs) + 1) |-> XadesRef(fs, k)]

(* The two methods of a SignedInfo. *)
Methods(k0) ==
    Then(Element(Ds("CanonicalizationMethod"), NoId, C14nUri, {}, <<>>),
         Element(Ds("SignatureMethod"), NoId, SignatureMethodUri(k0), {}, <<>>))

(* All of its references. *)
RefsOf(fs) == Seqs!FlattenSeq([k \in 1..(Len(fs) + 1) |-> Item(XadesRef(fs, k))])

(* The SignedInfo is its methods and its references. *)
LEMMA XadesInfoIs ==
    ASSUME NEW fs, Len(fs) \in Nat, NEW k0
    PROVE  XadesSignedInfo(fs, k0, Index)
             = Element(Ds("SignedInfo"), NoId, NoAttr, AllPrefixes,
                       Then(Methods(k0), RefsOf(fs)))
  <1> DEFINE n == Len(fs)
             g == [k \in 1..n |->
                      Reference(RefId(Index, k), fs[k].name, fs[k].content)]
             x == Reference(<<"S-SignedPropertiesRef", Index>>,
                            <<"#", SignedPropertiesId(Index)>>,
                            SignedPropertiesDigest(fs, Index))
             h == [k \in 1..(n + 1) |-> Item(XadesRef(fs, k))]
  <1>1. ASSUME NEW k \in 1..n
        PROVE  Item(XadesRef(fs, k)) = g[k]
    <2>1. k <= Len(fs)
      OBVIOUS
    <2> QED
      BY <2>1 DEF Item, XadesRef, Reference
  <1>2. Item(XadesRef(fs, n + 1)) = x
    <2>1. ~ (n + 1 <= Len(fs))
      OBVIOUS
    <2> QED
      BY <2>1 DEF Item, XadesRef, Reference
  <1> DEFINE M == {g[k] : k \in 1..n} \cup {x}
  <1>3. h \in [1..(n + 1) -> M] /\ g = [k \in 1..n |-> h[k]] /\ h[n + 1] = x
    <2>1. \A k \in 1..(n + 1) : k \in 1..n \/ k = n + 1
      OBVIOUS
    <2>2. \A k \in 1..(n + 1) : h[k] \in M
      BY <1>1, <1>2, <2>1
    <2>3. \A k \in 1..n : h[k] = g[k]
      BY <1>1
    <2>4. h[n + 1] = x
      BY <1>2
    <2>5. h = [k \in 1..(n + 1) |-> h[k]] /\ g = [k \in 1..n |-> g[k]]
      OBVIOUS
    <2> HIDE DEF h, g, M
    <2> QED
      BY <2>2, <2>3, <2>4, <2>5
  <1>4. XadesSignedInfo(fs, k0, Index)
          = Element(Ds("SignedInfo"), NoId, NoAttr, AllPrefixes,
                    Then(Methods(k0), Seqs!FlattenSeq(g \o <<x>>)))
    BY DEF XadesSignedInfo, SignedInfo, Methods, Then
  <1>5. n \in Nat
    OBVIOUS
  <1> HIDE DEF g, x, M, n
  <1>6. g \o <<x>> = h
    <2>1. h = Append(g, x) /\ g \in Seq(M)
      <3>1. [k \in 1..n |-> h[k]] \in Seq(M) /\ h = Append([k \in 1..n |-> h[k]], h[n + 1])
        BY <1>3, <1>5, Induct!OneMore
      <3> HIDE DEF h
      <3> QED
        BY <1>3, <3>1
    <2>2. x \in M
      BY DEF M
    <2> HIDE DEF h
    <2>3. Append(g, x) = g \o <<x>>
      BY <2>1, <2>2, AppendIsConcat
    <2> QED
      BY <2>1, <2>3
  <1> QED
    BY <1>4, <1>6 DEF RefsOf, n

(* id is the Id of reference k. *)
XadesId(fs, k, id) ==
    \/ k <= Len(fs) /\ id = RefId(Index, k)
    \/ k = Len(fs) + 1 /\ id = <<"S-SignedPropertiesRef", Index>>

(* A reference has the Id that is made for it. *)
LEMMA XadesRefId ==
    ASSUME NEW fs, Len(fs) \in Nat, NEW k \in 1..(Len(fs) + 1)
    PROVE  XadesId(fs, k, XadesRef(fs, k).id)
  <1>1. CASE k <= Len(fs)
    BY <1>1 DEF XadesId, XadesRef
  <1>2. CASE ~ (k <= Len(fs))
    <2>1. k = Len(fs) + 1
      BY <1>2
    <2>2. XadesRef(fs, k).id = <<"S-SignedPropertiesRef", Index>>
      BY <1>2 DEF XadesRef
    <2> QED
      BY <2>1, <2>2 DEF XadesId
  <1> QED
    BY <1>1, <1>2

(* No two have the same. *)
LEMMA XadesIdsDiffer ==
    ASSUME NEW fs, NEW j, NEW k, NEW id, XadesId(fs, j, id), XadesId(fs, k, id)
    PROVE  j = k
  <1>1. \A x, y : <<"S-RefId", x>> # <<"S-SignedPropertiesRef", y>>
    OBVIOUS
  <1>2. RefId(Index, j) = RefId(Index, k) => j = k
    BY DEF RefId
  <1>3. /\ RefId(Index, j) # <<"S-SignedPropertiesRef", Index>>
        /\ RefId(Index, k) # <<"S-SignedPropertiesRef", Index>>
    BY <1>1 DEF RefId
  <1> QED
    BY <1>2, <1>3 DEF XadesId

(* What the references are as a list. *)
LEMMA RefsAre ==
    ASSUME NEW fs, Len(fs) \in Nat
    PROVE  LET n == Len(fs) + 1
               r == RefsOf(fs)
           IN  /\ n \in Nat /\ Listed(r, n, XadesRefs(fs)) /\ Fills(r)
               /\ Tally(r, "Reference") = n /\ Positions(r, "Reference") = Spaced(0, n)
               /\ \A local : local # "Reference" => Tally(r, local) = 0
               /\ \A local : local # "Reference" => Positions(r, local) = {}
               /\ IdsAreUnique(r) /\ Ids(r) = {XadesRef(fs, k).id : k \in 1..n}
  <1> DEFINE n == Len(fs) + 1
             f == [k \in 1..n |-> Item(XadesRef(fs, k))]
             r == RefsOf(fs)
             list == XadesRefs(fs)
             id == [k \in 1..n |-> XadesRef(fs, k).id]
  <1>1. n \in Nat /\ Seqs!FlattenSeq(f) = r
    BY DEF RefsOf
  <1>2. \A k \in 1..n : f[k] = Item(list[k]) /\ list[k] = XadesRef(fs, k)
    BY DEF XadesRefs
  <1>3. \A k \in 1..n : XadesRef(fs, k).name = Ds("Reference")
    BY DEF XadesRef
  <1>4. /\ Ds("Reference")[2] = "Reference" /\ Simple(Ds("Reference"))
    BY DEF Ds, Simple, RequiredFields
  <1>5. f = [k \in 1..n |-> f[k]]
    OBVIOUS
  <1>6. \A k \in 1..n : id[k] = XadesRef(fs, k).id
    OBVIOUS
  <1> HIDE DEF n, f, r, list, id
  <1>7. ASSUME NEW k \in 1..n
        PROVE  /\ Nested(f[k]) /\ IsText(f[k]) /\ Fills(f[k])
               /\ Tally(f[k], "Reference") = 1
               /\ IdsAreUnique(f[k]) /\ Ids(f[k]) = {id[k]}
    <2> DEFINE x == XadesRef(fs, k)
               c == <<Text(x.data)>>
    <2>1. f[k] = Element(x.name, x.id, x.attr, {}, c)
      BY <1>2 DEF Item
    <2>2. x.name = Ds("Reference") /\ x.id = id[k]
      BY <1>3, <1>6
    <2>3. Nested(c) /\ Fills(c) /\ IsText(c)
      BY NestedText, NoElements DEF Nested
    <2>4. IdsAreUnique(c) /\ Ids(c) = {}
      BY IdsNone
    <2>5. Fills(Element(Ds("Reference"), id[k], x.attr, {}, c))
      BY <1>4, SimpleFills
    <2> HIDE DEF x, c
    <2>6. f[k] = Element(Ds("Reference"), id[k], x.attr, {}, c)
      BY <2>1, <2>2
    <2>7. Nested(f[k]) /\ IsText(f[k])
      BY <2>3, <2>6, NestedElement DEF Nested
    <2>8. Tally(f[k], "Reference") = 1
      <3>1. Tally(Element(Ds("Reference"), id[k], x.attr, {}, c), "Reference")
              = IF Ds("Reference")[2] = "Reference" THEN 1 ELSE 0
        BY <2>3, TallyElement
      <3> QED
        BY <1>4, <2>6, <3>1
    <2>9. IdsAreUnique(f[k]) /\ Ids(f[k]) = {id[k]}
      <3>1. LET all == Element(Ds("Reference"), id[k], x.attr, {}, c)
            IN  IdsAreUnique(all) /\ Ids(all) = {id[k]} \cup Ids(c)
        BY <2>3, <2>4, IdsElement
      <3> QED
        BY <2>4, <2>6, <3>1
    <2> QED
      BY <2>5, <2>6, <2>7, <2>8, <2>9
  <1>8. PICK g : Builds(g, f, n)
    BY <1>1, <1>5, <1>7, FlattenBySteps
  <1>9. g[n] = r
    BY <1>1, <1>8 DEF Builds
  <1>10. Listed(r, n, list)
    BY <1>1, <1>2, <1>8, <1>9, ListedBuilds
  <1>11. Fills(r) /\ Tally(r, "Reference") = n
    <2>1. FillAlike(f, n, "Reference", 1)
      BY <1>7 DEF FillAlike
    <2>2. Fills(g[n]) /\ Tally(g[n], "Reference") = n * 1
      BY <1>1, <1>8, <2>1, BuildsFills
    <2> QED
      BY <1>1, <1>9, <2>2
  <1>12. Positions(r, "Reference") = Spaced(0, n)
    <2>1. \A k \in 1..n : list[k].name[2] = "Reference"
      BY <1>2, <1>3, <1>4
    <2> QED
      BY <1>1, <1>10, <2>1, PositionsListed
  <1>13. ASSUME NEW local, local # "Reference"
         PROVE  Positions(r, local) = {} /\ Tally(r, local) = 0
    <2>1. \A k \in 1..n : list[k].name[2] # local
      BY <1>2, <1>3, <1>4, <1>13
    <2>2. Positions(r, local) = {}
      BY <1>1, <1>10, <2>1, PositionsOther
    <2>3. Named(r, Tops(r), local) = {}
      BY <2>2 DEF Named, Tops, Positions
    <2> QED
      BY <2>2, <2>3, FS_EmptySet DEF Tally
  <1>14. IdsAreUnique(r) /\ Ids(r) = {id[k] : k \in 1..n}
    <2>1. \A j, k \in 1..n : id[j] = id[k] => j = k \/ id[j] = NoId
      <3>1. ASSUME NEW k \in 1..n
            PROVE  XadesId(fs, k, id[k])
        <4>1. id[k] = XadesRef(fs, k).id
          BY <1>6
        <4>2. k \in 1..(Len(fs) + 1)
          BY DEF n
        <4> QED
          BY <4>1, <4>2, XadesRefId
      <3>2. ASSUME NEW j \in 1..n, NEW k \in 1..n, id[j] = id[k] PROVE j = k
        BY <3>1, <3>2, XadesIdsDiffer
      <3> QED
        BY <3>2
    <2>2. HaveIds(f, n, id)
      BY <1>7, <2>1 DEF HaveIds
    <2>3. IdsAreUnique(g[n]) /\ Ids(g[n]) = AllIds(id, n)
      BY <1>1, <1>8, <2>2, BuildsIds
    <2> QED
      BY <1>9, <2>3 DEF AllIds
  <1>15. {id[k] : k \in 1..n} = {XadesRef(fs, k).id : k \in 1..n}
    BY <1>6
  <1> QED
    BY <1>1, <1>10, <1>11, <1>12, <1>13, <1>14, <1>15 DEF n, r, list

-----------------------------------------------------------------------------
(***************************************************************************)
(* The DataObjectFormat elements.                                          *)
(***************************************************************************)
(* The DataObjectFormat of file k. *)
Format(k) == Element(Xa("DataObjectFormat"), NoId, <<"#", RefId(Index, k)>>, {}, <<>>)

(* Those of all files. *)
Formats(fs) == Seqs!FlattenSeq([k \in 1..Len(fs) |-> Format(k)])

(* The SignedProperties. *)
LEMMA PropertiesAre ==
    ASSUME NEW fs, NEW ns
    PROVE  SignedProperties(fs, Index, ns)
             = Element(Xa("SignedProperties"), SignedPropertiesId(Index), NoAttr, ns,
                  Then(Leaf(Xa("SignedSignatureProperties"),
                            <<"signing certificate", Index>>),
                       Element(Xa("SignedDataObjectProperties"), NoId, NoAttr, {},
                               Formats(fs))))
  BY DEF SignedProperties, Then, Formats, Format

(* What the formats are as a list. *)
LEMMA FormatsAre ==
    ASSUME NEW fs, Len(fs) \in Nat
    PROVE  LET n == Len(fs)
               r == Formats(fs)
           IN  /\ Flat(r) /\ Made(r, {Xa("DataObjectFormat")}, {}) /\ Fills(r)
               /\ Tally(r, "DataObjectFormat") = n /\ Count(r, "DataObjectFormat") = n
               /\ \A local : local # "DataObjectFormat" => Tally(r, local) = 0
               /\ \A local : local # "DataObjectFormat" => Count(r, local) = 0
               /\ IdsAreUnique(r) /\ Ids(r) \subseteq {NoId}
  <1> DEFINE n == Len(fs)
             f == [k \in 1..n |-> Format(k)]
             r == Formats(fs)
             name == Xa("DataObjectFormat")
             id == [k \in 1..n |-> NoId]
  <1>1. n \in Nat /\ Seqs!FlattenSeq(f) = r /\ f = [k \in 1..n |-> f[k]]
    BY DEF Formats
  <1>2. \A k \in 1..n : f[k] = Format(k) /\ id[k] = NoId
    OBVIOUS
  <1>3. name[2] = "DataObjectFormat" /\ Simple(name)
    BY DEF Xa, Simple, RequiredFields
  <1> HIDE DEF n, f, r, name, id
  <1>4. ASSUME NEW k \in 1..n
        PROVE  /\ Flat(f[k]) /\ Nested(f[k]) /\ IsText(f[k]) /\ Fills(f[k])
               /\ Tally(f[k], "DataObjectFormat") = 1
               /\ IdsAreUnique(f[k]) /\ Ids(f[k]) = {id[k]}
               /\ Made(f[k], {name}, {})
    <2> DEFINE attr == <<"#", RefId(Index, k)>>
    <2>1. f[k] = Element(name, NoId, attr, {}, <<>>)
      BY <1>2 DEF Format, name
    <2> HIDE DEF attr
    <2>2. Flat(f[k])
      BY <2>1, FlatElement
    <2>3. Nested(<<>>) /\ IsText(<<>>)
      BY NestedNone DEF Nested
    <2>4. Fills(f[k])
      BY <1>3, <2>1, SimpleFills
    <2>5. Tally(f[k], "DataObjectFormat") = 1
      <3>1. Tally(Element(name, NoId, attr, {}, <<>>), "DataObjectFormat")
              = IF name[2] = "DataObjectFormat" THEN 1 ELSE 0
        BY <2>3, TallyElement
      <3> QED
        BY <1>3, <2>1, <3>1
    <2>6. IdsAreUnique(f[k]) /\ Ids(f[k]) = {id[k]}
      <3>1. IdsAreUnique(<<>>) /\ Ids(<<>>) = {}
        BY IdsNone
      <3>2. LET all == Element(name, NoId, attr, {}, <<>>)
            IN  IdsAreUnique(all) /\ Ids(all) = {NoId} \cup Ids(<<>>)
        BY <2>3, <3>1, IdsElement
      <3> QED
        BY <1>2, <2>1, <3>1, <3>2
    <2>7. Made(f[k], {name}, {})
      BY <2>1, MadeEmpty
    <2> QED
      BY <2>2, <2>4, <2>5, <2>6, <2>7 DEF Flat, Nested
  <1>5. PICK g : Builds(g, f, n)
    BY <1>1, <1>4, FlattenBySteps
  <1>6. g[n] = r
    BY <1>1, <1>5 DEF Builds
  <1>7. Flat(r)
    BY <1>1, <1>4, <1>5, <1>6, BuildsFlat
  <1>8. Fills(r) /\ Tally(r, "DataObjectFormat") = n
    <2>1. FillAlike(f, n, "DataObjectFormat", 1)
      BY <1>4 DEF FillAlike
    <2>2. Fills(g[n]) /\ Tally(g[n], "DataObjectFormat") = n * 1
      BY <1>1, <1>5, <2>1, BuildsFills
    <2> QED
      BY <1>1, <1>6, <2>2
  <1>9. Made(r, {name}, {})
    BY <1>1, <1>4, MadeFlatten
  <1>10. IdsAreUnique(r) /\ Ids(r) \subseteq {NoId}
    <2>1. HaveIds(f, n, id)
      BY <1>2, <1>4 DEF HaveIds
    <2>2. IdsAreUnique(g[n]) /\ Ids(g[n]) = AllIds(id, n)
      BY <1>1, <1>5, <2>1, BuildsIds
    <2> QED
      BY <1>2, <1>6, <2>2 DEF AllIds
  <1>11. Count(r, "DataObjectFormat") = n
    <2>1. Positions(r, "DataObjectFormat") = Named(r, Tops(r), "DataObjectFormat")
      BY <1>7 DEF Flat, Positions, Named
    <2> QED
      BY <1>8, <2>1 DEF Tally, Count
  <1>12. ASSUME NEW local, local # "DataObjectFormat"
         PROVE  Tally(r, local) = 0 /\ Count(r, local) = 0
    <2>1. Positions(r, local) = {}
      BY <1>3, <1>9, <1>12 DEF Positions, Made
    <2>2. Named(r, Tops(r), local) = {}
      BY <2>1 DEF Positions, Named, Tops
    <2> QED
      BY <2>1, <2>2, FS_EmptySet DEF Tally, Count
  <1> QED
    BY <1>7, <1>8, <1>9, <1>10, <1>11, <1>12 DEF n, r, name

-----------------------------------------------------------------------------
(***************************************************************************)
(* What the upgrades paste.                                                *)
(***************************************************************************)
(* The levels of a XAdES document. *)
Levels == {"BES", "T", "LT"}

(* The three parts that the upgrades paste, as items. *)
PartList(issuer) ==
    [k \in 1..3 |->
        IF k = 1
        THEN [name |-> Xa("SignatureTimeStamp"), id |-> <<"S-T0", Index>>,
              attr |-> NoAttr, data |-> TimeStamp(Index)]
        ELSE IF k = 2
        THEN [name |-> Xa("CertificateValues"), id |-> <<"S-CA-CERT", Index>>,
              attr |-> NoAttr, data |-> issuer]
        ELSE [name |-> Xa("RevocationValues"), id |-> <<"N", Index>>,
              attr |-> NoAttr, data |-> OcspResponse(Index)]]

(* Those of level l. *)
PartsOf(l, issuer) ==
    IF l = "T" THEN StampPart
    ELSE Then(StampPart, Then(CertificatePart(issuer), RevocationPart))

(* How many they are. *)
NumberOf(l) == IF l = "T" THEN 1 ELSE 3

(* The unsigned text, by its parts. *)
LEMMA UnsignedIs ==
    ASSUME NEW l \in Levels, NEW issuer
    PROVE  UnsignedOf(l, issuer)
             = IF l = "BES" THEN <<>> ELSE UnsignedBlock(PartsOf(l, issuer))
  BY DEF UnsignedOf, PartsOf

(* The parts are a list of items. *)
LEMMA PartsListed ==
    ASSUME NEW l \in {"T", "LT"}, NEW issuer
    PROVE  Listed(PartsOf(l, issuer), NumberOf(l), PartList(issuer))
  <1> DEFINE list == PartList(issuer)
             t == StampPart
             c == CertificatePart(issuer)
             r == RevocationPart
  <1>1. Item(list[1]) = t /\ Item(list[2]) = c /\ Item(list[3]) = r
    BY DEF PartList, Item, StampPart, CertificatePart, RevocationPart
  <1>2. IsText(t) /\ IsText(c) /\ IsText(r)
    BY PartsAreNested DEF Nested
  <1> HIDE DEF list, t, c, r
  <1>3. Listed(t, 1, list)
    <2>1. Listed(Then(<<>>, Item(list[0 + 1])), 0 + 1, list)
      BY ListedNone, ListedMore
    <2>2. Then(<<>>, t) = t /\ 0 + 1 = 1
      BY <1>2, JoinNone
    <2> QED
      BY <1>1, <2>1, <2>2
  <1>4. Listed(Then(t, c), 2, list)
    <2>1. Listed(Then(t, Item(list[1 + 1])), 1 + 1, list)
      BY <1>3, ListedMore
    <2>2. 1 + 1 = 2
      OBVIOUS
    <2> QED
      BY <1>1, <2>1, <2>2
  <1>5. Listed(Then(Then(t, c), r), 3, list)
    <2>1. Listed(Then(Then(t, c), Item(list[2 + 1])), 2 + 1, list)
      BY <1>4, ListedMore
    <2>2. 2 + 1 = 3
      OBVIOUS
    <2> QED
      BY <1>1, <2>1, <2>2
  <1>6. Then(Then(t, c), r) = Then(t, Then(c, r))
    BY <1>2, Regroup
  <1> QED
    BY <1>3, <1>5, <1>6 DEF PartsOf, NumberOf, list, t, c, r

(* What differs in them, and what does not. *)
LEMMA PartListIs ==
    ASSUME NEW issuer
    PROVE  LET list == PartList(issuer)
           IN  /\ \A k \in 1..3 : list[k].name \in UnsignedNames /\ Simple(list[k].name)
               /\ \A k \in 1..3 : list[k].name # Xa("UnsignedProperties")
                                  /\ list[k].name # Xa("UnsignedSignatureProperties")
               /\ \A j, k \in 1..3 : list[j].id = list[k].id => j = k
               /\ \A j, k \in 1..3 : list[j].name[2] = list[k].name[2] => j = k
               /\ \A k \in 1..3 : list[k].id \in
                     {<<"S-T0", Index>>, <<"S-CA-CERT", Index>>, <<"N", Index>>}
               /\ \A k \in 1..3 :
                     list[k].data = <<TimeStamp(Index), issuer, OcspResponse(Index)>>[k]
  <1> DEFINE list == PartList(issuer)
  <1>1. \A k \in 1..3 : k = 1 \/ k = 2 \/ k = 3
    OBVIOUS
  <1>2. /\ list[1] = [name |-> Xa("SignatureTimeStamp"), id |-> <<"S-T0", Index>>,
                      attr |-> NoAttr, data |-> TimeStamp(Index)]
        /\ list[2] = [name |-> Xa("CertificateValues"), id |-> <<"S-CA-CERT", Index>>,
                      attr |-> NoAttr, data |-> issuer]
        /\ list[3] = [name |-> Xa("RevocationValues"), id |-> <<"N", Index>>,
                      attr |-> NoAttr, data |-> OcspResponse(Index)]
    BY DEF PartList
  <1> HIDE DEF list
  <1>3. /\ list[1].name = Xa("SignatureTimeStamp")
        /\ list[2].name = Xa("CertificateValues")
        /\ list[3].name = Xa("RevocationValues")
        /\ list[1].id = <<"S-T0", Index>> /\ list[2].id = <<"S-CA-CERT", Index>>
        /\ list[3].id = <<"N", Index>>
        /\ list[1].data = TimeStamp(Index) /\ list[2].data = issuer
        /\ list[3].data = OcspResponse(Index)
    BY <1>2
  <1>4. /\ Xa("SignatureTimeStamp")[2] = "SignatureTimeStamp"
        /\ Xa("CertificateValues")[2] = "CertificateValues"
        /\ Xa("RevocationValues")[2] = "RevocationValues"
        /\ Xa("UnsignedProperties")[2] = "UnsignedProperties"
        /\ Xa("UnsignedSignatureProperties")[2] = "UnsignedSignatureProperties"
    BY DEF Xa
  <1>5. \A k \in 1..3 : list[k].name \in UnsignedNames
    BY <1>1, <1>3 DEF UnsignedNames
  <1>6. \A k \in 1..3 : Simple(list[k].name)
    BY <1>1, <1>3, <1>4 DEF Simple, RequiredFields
  <1>7. \A k \in 1..3 : /\ list[k].name # Xa("UnsignedProperties")
                        /\ list[k].name # Xa("UnsignedSignatureProperties")
    BY <1>1, <1>3, <1>4
  <1>8. /\ <<"S-T0", Index>> # <<"S-CA-CERT", Index>>
        /\ <<"S-T0", Index>> # <<"N", Index>>
        /\ <<"S-CA-CERT", Index>> # <<"N", Index>>
    OBVIOUS
  <1>9. \A j, k \in 1..3 : list[j].id = list[k].id => j = k
    BY <1>1, <1>3, <1>8
  <1>10. \A j, k \in 1..3 : list[j].name[2] = list[k].name[2] => j = k
    BY <1>1, <1>3, <1>4
  <1>11. \A k \in 1..3 : list[k].id \in
            {<<"S-T0", Index>>, <<"S-CA-CERT", Index>>, <<"N", Index>>}
    BY <1>1, <1>3
  <1>12. \A k \in 1..3 :
            list[k].data = <<TimeStamp(Index), issuer, OcspResponse(Index)>>[k]
    BY <1>1, <1>3
  <1> QED
    BY <1>5, <1>6, <1>7, <1>9, <1>10, <1>11, <1>12 DEF list

-----------------------------------------------------------------------------
(***************************************************************************)
(* The unsigned text at each level.                                        *)
(***************************************************************************)
(* The Ids in an unsigned text. *)
UnsignedIds ==
    {NoId, <<"S-T0", Index>>, <<"S-CA-CERT", Index>>, <<"N", Index>>}

(* How many UnsignedProperties a level has. *)
NumberOfBlocks(l) == IF l = "BES" THEN 0 ELSE 1

(* What a block is. *)
LEMMA BlockIs ==
    ASSUME NEW l \in {"T", "LT"}, NEW issuer
    PROVE  LET c == PartsOf(l, issuer)
               u == UnsignedBlock(c)
           IN  /\ Made(u, UnsignedNames, {}) /\ Fills(u)
               /\ IdsAreUnique(u) /\ Ids(u) \subseteq UnsignedIds
               /\ Count(u, "UnsignedSignatureProperties") = 1
               /\ \A local : Tally(u, local) = IF local = "UnsignedProperties" THEN 1 ELSE 0
               /\ Nested(c)
               /\ StandsAt(u, 1, Element(Xa("UnsignedSignatureProperties"),
                                         NoId, NoAttr, {}, c))
  <1> DEFINE c == PartsOf(l, issuer)
             up == Xa("UnsignedProperties")
             us == Xa("UnsignedSignatureProperties")
             i == Element(us, NoId, NoAttr, {}, c)
             u == UnsignedBlock(c)
             list == PartList(issuer)
             n == NumberOf(l)
  <1>1. Listed(c, n, list) /\ n \in Nat /\ \A k \in 1..n : k \in 1..3
    BY PartsListed DEF NumberOf
  <1>2. u = Element(up, NoId, NoAttr, {}, i)
    BY DEF UnsignedBlock
  <1>3. up \in UnsignedNames /\ us \in UnsignedNames
    BY DEF UnsignedNames
  <1>4. /\ \A k \in 1..n : list[k].name \in UnsignedNames /\ Simple(list[k].name)
        /\ \A k \in 1..n : list[k].name # up /\ list[k].name # us
        /\ \A j, k \in 1..n : list[j].id = list[k].id => j = k
        /\ \A j, k \in 1..n : list[j].name[2] = list[k].name[2] => j = k
        /\ \A k \in 1..n : list[k].id \in
              {<<"S-T0", Index>>, <<"S-CA-CERT", Index>>, <<"N", Index>>}
    BY <1>1, PartListIs
  <1>5. /\ up[2] = "UnsignedProperties" /\ us[2] = "UnsignedSignatureProperties"
        /\ \A name \in UnsignedNames : name[1] = "xades" /\ name = Xa(name[2])
    BY DEF Xa, UnsignedNames
  <1> HIDE DEF c, up, us, u, list, n
  <1>6. Made(c, UnsignedNames, {}) /\ Fills(c)
    BY <1>1, <1>4, ListedMade, ListedFills
  <1>7. IdsAreUnique(c) /\ Ids(c) \subseteq UnsignedIds \ {NoId}
    <2>1. IdsAreUnique(c) /\ Ids(c) \subseteq {list[k].id : k \in 1..n}
      BY <1>1, <1>4, ListedIds
    <2>2. <<"S-T0", Index>> # NoId /\ <<"S-CA-CERT", Index>> # NoId
          /\ <<"N", Index>> # NoId
      BY DEF NoId
    <2> QED
      BY <1>4, <2>1, <2>2 DEF UnsignedIds
  <1>8. ASSUME NEW local
        PROVE  Tally(c, local) <= 1 /\ Tally(c, local) \in Nat
    BY <1>1, <1>4, ListedOnce
  <1>9. Count(c, "UnsignedSignatureProperties") = 0
    <2>1. \A k \in 1..n : list[k].name[2] # "UnsignedSignatureProperties"
      <3>1. ASSUME NEW k \in 1..n, list[k].name[2] = "UnsignedSignatureProperties"
            PROVE  FALSE
        <4>1. list[k].name = Xa(list[k].name[2])
          BY <1>4, <1>5
        <4>2. list[k].name = us
          BY <3>1, <4>1 DEF us
        <4> QED
          BY <1>4, <4>2
      <3> QED
        BY <3>1
    <2>2. Positions(c, "UnsignedSignatureProperties") = {}
      BY <1>1, <2>1, PositionsOther
    <2> QED
      BY <2>2, FS_EmptySet DEF Count
  <1>10. Nested(c) /\ IsText(c)
    BY <1>6 DEF Made, Nested
  <1>11. Made(i, UnsignedNames, {}) /\ Nested(i) /\ IsText(i)
    <2>1. Made(i, UnsignedNames, {})
      BY <1>3, <1>6, MadeElement
    <2> QED
      BY <2>1 DEF Made, Nested
  <1>12. Fills(i)
    <2>1. Holds(us[2], c, Tops(c))
      <3>1. RequiredFields["UnsignedSignatureProperties"] = {}
        BY DEF RequiredFields
      <3>2. \A field \in OptionalFields : Cardinality(Named(c, Tops(c), field)) <= 1
        BY <1>8 DEF Tally
      <3> QED
        BY <1>5, <3>1, <3>2 DEF Holds
    <2> QED
      BY <1>6, <1>10, <2>1, FillsElement
  <1>13. IdsAreUnique(i) /\ Ids(i) \subseteq UnsignedIds
    <2>1. NoId \notin Ids(c) /\ NoId \in UnsignedIds
      BY <1>7 DEF UnsignedIds
    <2>2. IdsAreUnique(i) /\ Ids(i) = {NoId} \cup Ids(c)
      BY <1>7, <1>10, IdsElement
    <2> QED
      BY <1>7, <2>1, <2>2
  <1>14. \A local : Tally(i, local)
                      = IF local = "UnsignedSignatureProperties" THEN 1 ELSE 0
    <2>1. ASSUME NEW local
          PROVE  Tally(i, local) = IF us[2] = local THEN 1 ELSE 0
      BY <1>10, TallyElement
    <2> QED
      BY <1>5, <2>1
  <1>15. Count(i, "UnsignedSignatureProperties") = 1
    <2>1. Count(i, "UnsignedSignatureProperties")
            = One(us, "UnsignedSignatureProperties")
              + Count(c, "UnsignedSignatureProperties")
      BY <1>10, CountElement
    <2> QED
      BY <1>5, <1>9, <2>1 DEF One
  <1> DEFINE v == Element(up, NoId, NoAttr, {}, i)
  <1> HIDE DEF i
  <1>16. Made(v, UnsignedNames, {})
    BY <1>3, <1>11, MadeElement
  <1>17. Fills(v)
    <2>1. Holds(up[2], i, Tops(i))
      <3>1. RequiredFields["UnsignedProperties"] = {"UnsignedSignatureProperties"}
        BY DEF RequiredFields
      <3>2. \A field \in OptionalFields : field # "UnsignedSignatureProperties"
        BY DEF OptionalFields
      <3>3. \A field \in OptionalFields : Cardinality(Named(i, Tops(i), field)) = 0
        BY <1>14, <3>2 DEF Tally
      <3>4. Cardinality(Named(i, Tops(i), "UnsignedSignatureProperties")) = 1
        BY <1>14 DEF Tally
      <3> QED
        BY <1>5, <3>1, <3>3, <3>4 DEF Holds
    <2> QED
      BY <1>11, <1>12, <2>1, FillsElement
  <1>18. IdsAreUnique(v) /\ Ids(v) \subseteq UnsignedIds
    <2>1. NoId \in UnsignedIds
      BY DEF UnsignedIds
    <2>2. IdsAreUnique(v) /\ Ids(v) = {NoId} \cup Ids(i)
      BY <1>11, <1>13, IdsElement
    <2> QED
      BY <1>13, <2>1, <2>2
  <1>19. Count(v, "UnsignedSignatureProperties") = 1
    <2>1. Count(v, "UnsignedSignatureProperties")
            = One(up, "UnsignedSignatureProperties")
              + Count(i, "UnsignedSignatureProperties")
      BY <1>11, CountElement
    <2> QED
      BY <1>5, <1>15, <2>1 DEF One
  <1>20. ASSUME NEW local
         PROVE  Tally(v, local) = IF local = "UnsignedProperties" THEN 1 ELSE 0
    <2>1. Tally(v, local) = IF up[2] = local THEN 1 ELSE 0
      BY <1>11, TallyElement
    <2> QED
      BY <1>5, <2>1
  <1>21. StandsAt(v, 1, i)
    BY <1>11, StandsInElement
  <1> QED
    BY <1>2, <1>10, <1>16, <1>17, <1>18, <1>19, <1>20, <1>21 DEF c, u, i, us

(* What the unsigned text of a level is. *)
LEMMA UnsignedTextIs ==
    ASSUME NEW l \in Levels, NEW issuer
    PROVE  LET u == UnsignedOf(l, issuer)
           IN  /\ Nested(u) /\ Made(u, UnsignedNames, {}) /\ Fills(u)
               /\ IdsAreUnique(u) /\ Ids(u) \subseteq UnsignedIds
               /\ Count(u, "UnsignedSignatureProperties") = NumberOfBlocks(l)
               /\ \A local :
                     Tally(u, local) \in Nat /\ Tally(u, local) <= 1
                     /\ (local # "UnsignedProperties" => Tally(u, local) = 0)
  <1>1. CASE l = "BES"
    <2>1. UnsignedOf(l, issuer) = <<>>
      BY <1>1, UnsignedIs
    <2>2. Nested(<<>>) /\ Made(<<>>, UnsignedNames, {}) /\ Fills(<<>>)
      BY NestedNone, MadeNone, NoElements
    <2>3. IdsAreUnique(<<>>) /\ Ids(<<>>) \subseteq UnsignedIds
      BY IdsNone
    <2>4. Count(<<>>, "UnsignedSignatureProperties") = 0
      BY CountNone
    <2>5. \A local : Tally(<<>>, local) = 0
      BY NoElements
    <2> QED
      BY <1>1, <2>1, <2>2, <2>3, <2>4, <2>5 DEF NumberOfBlocks
  <1>2. CASE l # "BES"
    <2> DEFINE u == UnsignedBlock(PartsOf(l, issuer))
    <2>1. l \in {"T", "LT"} /\ UnsignedOf(l, issuer) = u
      BY <1>2, UnsignedIs DEF Levels
    <2>2. /\ Made(u, UnsignedNames, {}) /\ Fills(u)
          /\ IdsAreUnique(u) /\ Ids(u) \subseteq UnsignedIds
          /\ Count(u, "UnsignedSignatureProperties") = 1
          /\ \A local : Tally(u, local) = IF local = "UnsignedProperties" THEN 1 ELSE 0
      BY <2>1, BlockIs
    <2> HIDE DEF u
    <2>3. Nested(u)
      BY <2>2 DEF Made
    <2> QED
      BY <1>2, <2>1, <2>2, <2>3 DEF NumberOfBlocks
  <1> QED
    BY <1>1, <1>2

-----------------------------------------------------------------------------
(***************************************************************************)
(* A XAdES document with an unsigned text that fits into it.               *)
(***************************************************************************)
(* u can be the unsigned text of a document. *)
Fits(u) ==
    /\ Nested(u) /\ Made(u, UnsignedNames, {}) /\ Fills(u)
    /\ IdsAreUnique(u) /\ Ids(u) \subseteq UnsignedIds
    /\ \A local : Tally(u, local) \in Nat /\ Tally(u, local) <= 1
                  /\ (local # "UnsignedProperties" => Tally(u, local) = 0)

(* That of each level can. *)
LEMMA UnsignedFits ==
    ASSUME NEW l \in Levels, NEW issuer
    PROVE  Fits(UnsignedOf(l, issuer))
  BY UnsignedTextIs DEF Fits

(* The parts of a document, each by its name. *)
DataProperties(fs) ==
    Element(Xa("SignedDataObjectProperties"), NoId, NoAttr, {}, Formats(fs))

(* The one leaf of the SignedProperties. *)
SignatureProperties ==
    Leaf(Xa("SignedSignatureProperties"), <<"signing certificate", Index>>)

(* The SignedProperties of the document. *)
Properties(fs) == SignedProperties(fs, Index, AllPrefixes)

(* The Object, with the unsigned text in it. *)
ObjectOf(fs, u) == Element(Ds("Object"), NoId, NoAttr, {}, Qualifying(fs, u))

(* The SignedInfo. *)
InfoOf(fs, k0) == XadesSignedInfo(fs, k0, Index)

(* The ds:Signature. *)
SignatureText(fs, k0, u) ==
    Element(Ds("Signature"), SignatureId(Index), NoAttr, {}, Body(fs, k0, u))

(* How the document is put together of them. *)
LEMMA PiecesAre ==
    ASSUME NEW fs, NEW k0, NEW u
    PROVE  /\ Properties(fs) = Element(Xa("SignedProperties"), SignedPropertiesId(Index),
                                  NoAttr, AllPrefixes,
                                  Then(SignatureProperties, DataProperties(fs)))
           /\ Qualifying(fs, u) = Element(Xa("QualifyingProperties"), NoId,
                                     <<"#", SignatureId(Index)>>, {},
                                     Then(Properties(fs), u))
           /\ Body(fs, k0, u) = Then(InfoOf(fs, k0), Then(ValueOf(fs, k0),
                                     Then(KeyInfo, ObjectOf(fs, u))))
           /\ XadesText(fs, k0, u) = Element(ContainerTag, NoId, NoAttr, AllPrefixes,
                                             SignatureText(fs, k0, u))
  BY PropertiesAre DEF Properties, SignatureProperties, DataProperties, Qualifying,
       Body, InfoOf, ObjectOf, XadesText, SignatureText, ContainerTag

(* They are nested. *)
LEMMA PiecesAreNested ==
    ASSUME NEW fs, Len(fs) \in Nat, NEW k0, NEW u, Nested(u)
    PROVE  /\ Nested(Formats(fs)) /\ Nested(DataProperties(fs))
           /\ Nested(SignatureProperties) /\ Nested(Properties(fs))
           /\ Nested(Then(SignatureProperties, DataProperties(fs)))
           /\ Nested(Then(Properties(fs), u)) /\ Nested(Qualifying(fs, u))
           /\ Nested(ObjectOf(fs, u)) /\ Nested(KeyInfo) /\ Nested(ValueOf(fs, k0))
           /\ Nested(Then(KeyInfo, ObjectOf(fs, u)))
           /\ Nested(Then(ValueOf(fs, k0), Then(KeyInfo, ObjectOf(fs, u))))
           /\ Nested(Methods(k0)) /\ Nested(RefsOf(fs))
           /\ Nested(Then(Methods(k0), RefsOf(fs))) /\ Nested(InfoOf(fs, k0))
           /\ Nested(Body(fs, k0, u)) /\ Nested(SignatureText(fs, k0, u))
           /\ Nested(XadesText(fs, k0, u))
  <1>1. Nested(Formats(fs)) /\ Nested(RefsOf(fs))
    BY FormatsAre, RefsAre DEF Flat, Listed
  <1>2. Nested(DataProperties(fs)) /\ Nested(SignatureProperties) /\ Nested(Methods(k0))
    BY <1>1, NestedElement, NestedNone, NestedText, NestedJoin
       DEF DataProperties, SignatureProperties, Methods, Leaf
  <1>3. /\ Nested(Properties(fs)) /\ Nested(Qualifying(fs, u))
        /\ Nested(ValueOf(fs, k0)) /\ Nested(InfoOf(fs, k0))
        /\ Nested(Body(fs, k0, u)) /\ Nested(XadesText(fs, k0, u)) /\ Nested(KeyInfo)
    BY BodyIsNested, PartsAreNested DEF Properties, InfoOf
  <1>4. Nested(ObjectOf(fs, u)) /\ Nested(SignatureText(fs, k0, u))
    BY <1>3, NestedElement DEF ObjectOf, SignatureText
  <1> QED
    BY <1>1, <1>2, <1>3, <1>4, NestedJoin

(* Where they stand in it. *)
LEMMA XadesStands ==
    ASSUME NEW fs, Len(fs) \in Nat, NEW k0, NEW u, Nested(u)
    PROVE  LET text == XadesText(fs, k0, u)
           IN  /\ StandsAt(text, 1, SignatureText(fs, k0, u))
               /\ StandsAt(text, 2, Body(fs, k0, u))
               /\ StandsAt(text, 2, InfoOf(fs, k0))
               /\ StandsAt(text, 3, Then(Methods(k0), RefsOf(fs)))
               /\ StandsAt(text, 3, Methods(k0))
               /\ StandsAt(text, 7, RefsOf(fs))
               /\ StandsAt(text, 2 + Len(InfoOf(fs, k0)), ValueOf(fs, k0))
               /\ \E p, q : /\ StandsAt(text, p, Properties(fs)) /\ StandsAt(text, q, u)
                            /\ p \in Nat /\ q \in Nat
  <1> DEFINE text == XadesText(fs, k0, u)
             sig == SignatureText(fs, k0, u)
             body == Body(fs, k0, u)
             info == InfoOf(fs, k0)
             meth == Methods(k0)
             refs == RefsOf(fs)
             mr == Then(meth, refs)
             val == ValueOf(fs, k0)
             obj == ObjectOf(fs, u)
             ko == Then(KeyInfo, obj)
             vko == Then(val, ko)
             qua == Qualifying(fs, u)
             prop == Properties(fs)
             pu == Then(prop, u)
  <1>1. /\ Nested(text) /\ Nested(sig) /\ Nested(body) /\ Nested(info) /\ Nested(meth)
        /\ Nested(refs) /\ Nested(mr) /\ Nested(val) /\ Nested(obj) /\ Nested(ko)
        /\ Nested(vko) /\ Nested(qua) /\ Nested(prop) /\ Nested(pu) /\ Nested(KeyInfo)
    BY PiecesAreNested
  <1>2. /\ text = Element(ContainerTag, NoId, NoAttr, AllPrefixes, sig)
        /\ sig = Element(Ds("Signature"), SignatureId(Index), NoAttr, {}, body)
        /\ body = Then(info, vko)
        /\ info = Element(Ds("SignedInfo"), NoId, NoAttr, AllPrefixes, mr)
        /\ obj = Element(Ds("Object"), NoId, NoAttr, {}, qua)
        /\ qua = Element(Xa("QualifyingProperties"), NoId, <<"#", SignatureId(Index)>>,
                         {}, pu)
    BY PiecesAre, XadesInfoIs DEF SignatureText, ObjectOf, InfoOf
  <1>3. Len(meth) = 4
    <2> DEFINE c == <<>>
               a == Element(Ds("CanonicalizationMethod"), NoId, C14nUri, {}, c)
               b == Element(Ds("SignatureMethod"), NoId, SignatureMethodUri(k0), {}, c)
    <2>1. IsText(c)
      BY ShortTexts
    <2>2. Len(c) = 0
      OBVIOUS
    <2>3. meth = Then(a, b)
      BY DEF Methods
    <2> HIDE DEF c, meth
    <2>4. IsText(a) /\ Len(a) = Len(c) + 2
      BY <2>1, ElementIs
    <2>5. IsText(b) /\ Len(b) = Len(c) + 2
      BY <2>1, ElementIs
    <2> HIDE DEF a, b
    <2>6. Len(Then(a, b)) = Len(a) + Len(b)
      BY <2>4, <2>5, Join
    <2> QED
      BY <2>2, <2>3, <2>4, <2>5, <2>6
  <1> HIDE DEF text, sig, body, info, meth, refs, mr, val, obj, ko, vko, qua, prop, pu
  <1>4. StandsAt(text, 1, sig)
    BY <1>1, <1>2, StandsInElement
  <1>5. StandsAt(text, 2, body)
    <2>1. StandsAt(sig, 1, body)
      BY <1>1, <1>2, StandsInElement
    <2>2. StandsAt(text, 1 + 1, body)
      BY <1>4, <2>1, StandsDeeper
    <2>3. 1 + 1 = 2
      OBVIOUS
    <2> QED
      BY <2>2, <2>3
  <1>6. StandsAt(text, 2, info)
    <2>1. StandsAt(body, 0, info)
      BY <1>1, <1>2, StandsFirst
    <2>2. StandsAt(text, 2 + 0, info)
      BY <1>5, <2>1, StandsDeeper
    <2>3. 2 + 0 = 2
      OBVIOUS
    <2> QED
      BY <2>2, <2>3
  <1>7. StandsAt(text, 3, mr)
    <2>1. StandsAt(info, 1, mr)
      BY <1>1, <1>2, StandsInElement
    <2>2. StandsAt(text, 2 + 1, mr)
      BY <1>6, <2>1, StandsDeeper
    <2>3. 2 + 1 = 3
      OBVIOUS
    <2> QED
      BY <2>2, <2>3
  <1>8. StandsAt(text, 3, meth)
    <2>1. StandsAt(mr, 0, meth)
      BY <1>1, StandsFirst DEF mr
    <2>2. StandsAt(text, 3 + 0, meth)
      BY <1>7, <2>1, StandsDeeper
    <2>3. 3 + 0 = 3
      OBVIOUS
    <2> QED
      BY <2>2, <2>3
  <1>9. StandsAt(text, 7, refs)
    <2>1. StandsAt(mr, Len(meth), refs)
      BY <1>1, StandsSecond DEF mr
    <2>2. StandsAt(text, 3 + Len(meth), refs)
      BY <1>7, <2>1, StandsDeeper
    <2>3. 3 + Len(meth) = 7
      BY <1>3
    <2> QED
      BY <2>2, <2>3
  <1>10. StandsAt(text, 2 + Len(info), vko)
    <2>1. StandsAt(body, Len(info), vko)
      BY <1>1, <1>2, StandsSecond
    <2> QED
      BY <1>5, <2>1, StandsDeeper
  <1>11. Len(info) \in Nat
    BY <1>1, TextIsSequence DEF Nested
  <1> DEFINE at == 2 + Len(info)
  <1>12. at \in Nat
    BY <1>11
  <1> HIDE DEF at
  <1>13. StandsAt(text, at, val)
    <2>1. StandsAt(vko, 0, val)
      BY <1>1, StandsFirst DEF vko
    <2>2. StandsAt(text, at + 0, val)
      BY <1>10, <2>1, StandsDeeper DEF at
    <2>3. at + 0 = at
      BY <1>12
    <2> QED
      BY <2>2, <2>3
  <1>14. \E p : StandsAt(text, p, obj)
    <2>1. StandsAt(vko, Len(val), ko)
      BY <1>1, StandsSecond DEF vko
    <2>2. StandsAt(text, at + Len(val), ko)
      BY <1>10, <2>1, StandsDeeper DEF at
    <2>3. StandsAt(ko, Len(KeyInfo), obj)
      BY <1>1, StandsSecond DEF ko
    <2> QED
      BY <2>2, <2>3, StandsDeeper
  <1>15. \E p : StandsAt(text, p, pu)
    <2>1. PICK p : StandsAt(text, p, obj)
      BY <1>14
    <2>2. StandsAt(obj, 1, qua)
      BY <1>1, <1>2, StandsInElement
    <2>3. StandsAt(qua, 1, pu)
      BY <1>1, <1>2, StandsInElement
    <2>4. StandsAt(text, p + 1, qua)
      BY <2>1, <2>2, StandsDeeper
    <2> QED
      BY <2>3, <2>4, StandsDeeper
  <1>16. \E p : StandsAt(text, p, prop)
    <2>1. StandsAt(pu, 0, prop)
      BY <1>1, StandsFirst DEF pu
    <2> QED
      BY <1>15, <2>1, StandsDeeper
  <1>17. \E q : StandsAt(text, q, u)
    <2>1. StandsAt(pu, Len(prop), u)
      BY <1>1, StandsSecond DEF pu
    <2> QED
      BY <1>15, <2>1, StandsDeeper
  <1>18. \A p, s : StandsAt(text, p, s) => p \in Nat
    BY DEF StandsAt
  <1> QED
    BY <1>4, <1>5, <1>6, <1>7, <1>8, <1>9, <1>13, <1>16, <1>17, <1>18
       DEF text, sig, body, info, meth, refs, mr, val, prop, at

-----------------------------------------------------------------------------
(***************************************************************************)
(* Its names, its Ids, its counts and the structs that it fills.           *)
(***************************************************************************)
(* So the document is made of them, *)
LEMMA XadesIsMade ==
    ASSUME NEW fs, Len(fs) \in Nat, NEW k0, NEW u, Fits(u)
    PROVE  Made(XadesText(fs, k0, u), XadesNames, AllPrefixes)
  <1> DEFINE N == XadesNames
             A == AllPrefixes
  <1>1. {} \subseteq A /\ A \subseteq A
    OBVIOUS
  <1>2. Made(InfoOf(fs, k0), N, A)
    <2>1. Made(InfoOf(fs, k0), InfoNames, A)
      BY MadeXadesInfo DEF InfoOf
    <2> HIDE DEF N, A
    <2> QED
      BY <1>1, <2>1, MadeMore, NamesIn DEF N
  <1>3. Made(ValueOf(fs, k0), N, A)
    <2>1. \A x : Made(<<Text(x)>>, N, A)
      BY MadeText
    <2>2. PICK x : ValueOf(fs, k0)
              = Element(Ds("SignatureValue"), SignatureValueId(Index), NoAttr, {}, <<Text(x)>>)
      BY DEF ValueOf, SignatureValue
    <2> DEFINE c == <<Text(x)>>
    <2>3. Made(c, N, A)
      BY <2>1
    <2> HIDE DEF c, A
    <2> QED
      BY <1>1, <2>2, <2>3, NamesIn, MadeElement DEF c
  <1>4. Made(KeyInfo, N, A)
    BY NamesIn, MadeLeaf DEF KeyInfo
  <1>5. Made(Then(Properties(fs), u), N, A)
    <2>1. Made(Properties(fs), N, A)
      BY MadeSignedProperties DEF Properties
    <2>2. Made(u, N, A)
      <3>1. Made(u, UnsignedNames, {})
        BY DEF Fits
      <3> HIDE DEF N, A
      <3> QED
        BY <1>1, <3>1, MadeMore, NamesIn DEF N
    <2> QED
      BY <2>1, <2>2, MadeJoin
  <1> HIDE DEF A
  <1>6. Made(ObjectOf(fs, u), N, A)
    <2>1. Made(Qualifying(fs, u), N, A)
      <3> DEFINE c == Then(Properties(fs), u)
      <3>1. Made(c, N, A)
        BY <1>5
      <3>2. Qualifying(fs, u) = Element(Xa("QualifyingProperties"), NoId,
                                   <<"#", SignatureId(Index)>>, {}, c)
        BY PiecesAre
      <3> HIDE DEF c
      <3> QED
        BY <1>1, <3>1, <3>2, NamesIn, MadeElement
    <2> QED
      BY <1>1, <2>1, NamesIn, MadeElement DEF ObjectOf
  <1>7. Made(Body(fs, k0, u), N, A)
    <2>1. Made(Then(KeyInfo, ObjectOf(fs, u)), N, A)
      BY <1>4, <1>6, MadeJoin
    <2>2. Made(Then(ValueOf(fs, k0), Then(KeyInfo, ObjectOf(fs, u))), N, A)
      BY <1>3, <2>1, MadeJoin
    <2> DEFINE t == Then(ValueOf(fs, k0), Then(KeyInfo, ObjectOf(fs, u)))
    <2>3. Made(t, N, A)
      BY <2>2
    <2> HIDE DEF t
    <2>4. Made(Then(InfoOf(fs, k0), t), N, A)
      BY <1>2, <2>3, MadeJoin
    <2> QED
      BY <2>4, PiecesAre DEF t
  <1>8. Made(SignatureText(fs, k0, u), N, A)
    BY <1>1, <1>7, NamesIn, MadeElement DEF SignatureText
  <1>9. XadesText(fs, k0, u)
          = Element(ContainerTag, NoId, NoAttr, AllPrefixes, SignatureText(fs, k0, u))
    BY PiecesAre
  <1>10. AllPrefixes \subseteq A
    BY DEF A
  <1>11. Made(XadesText(fs, k0, u), N, A)
    BY <1>8, <1>9, <1>10, NamesIn, MadeElement
  <1> QED
    BY <1>11 DEF A

(* and it parses, with one root. *)
LEMMA XadesParses ==
    ASSUME NEW fs, Len(fs) \in Nat, NEW k0, NEW u, Fits(u)
    PROVE  LET text == XadesText(fs, k0, u)
           IN  IsWellFormed(Parse(text)) /\ OneRoot(text, AllPrefixes)
  <1> DEFINE c == SignatureText(fs, k0, u)
  <1>1. XadesText(fs, k0, u) = Element(ContainerTag, NoId, NoAttr, AllPrefixes, c)
    BY PiecesAre
  <1>2. Nested(c)
    BY PiecesAreNested DEF Fits
  <1>3. Made(XadesText(fs, k0, u), XadesNames, AllPrefixes)
    BY XadesIsMade
  <1>4. Declared(XadesNames, AllPrefixes)
    BY NamesIn DEF Declared
  <1> HIDE DEF c
  <1> QED
    BY <1>1, <1>2, <1>3, <1>4, DocumentParses

(* How many elements of a name it has, by its parts; *)
LEMMA XadesCounts ==
    ASSUME NEW fs, Len(fs) \in Nat, NEW k0, NEW u, Nested(u), NEW local
    PROVE  Count(XadesText(fs, k0, u), local)
             = One(ContainerTag, local) + (One(Ds("Signature"), local)
                 + (Count(InfoOf(fs, k0), local)
                      + (One(Ds("SignatureValue"), local) + (One(Ds("KeyInfo"), local)
                           + (One(Ds("Object"), local)
                                + (One(Xa("QualifyingProperties"), local)
                                     + (Count(Properties(fs), local)
                                          + Count(u, local))))))))
  <1> DEFINE text == XadesText(fs, k0, u)
             sig == SignatureText(fs, k0, u)
             body == Body(fs, k0, u)
             info == InfoOf(fs, k0)
             val == ValueOf(fs, k0)
             obj == ObjectOf(fs, u)
             ko == Then(KeyInfo, obj)
             vko == Then(val, ko)
             qua == Qualifying(fs, u)
             prop == Properties(fs)
             pu == Then(prop, u)
  <1>1. /\ IsText(sig) /\ IsText(body) /\ IsText(info) /\ IsText(val) /\ IsText(obj)
        /\ IsText(ko) /\ IsText(vko) /\ IsText(qua) /\ IsText(prop) /\ IsText(pu)
        /\ IsText(u) /\ IsText(KeyInfo)
    BY PiecesAreNested DEF Nested
  <1>2. /\ text = Element(ContainerTag, NoId, NoAttr, AllPrefixes, sig)
        /\ sig = Element(Ds("Signature"), SignatureId(Index), NoAttr, {}, body)
        /\ body = Then(info, vko)
        /\ obj = Element(Ds("Object"), NoId, NoAttr, {}, qua)
        /\ qua = Element(Xa("QualifyingProperties"), NoId, <<"#", SignatureId(Index)>>,
                         {}, pu)
    BY PiecesAre DEF SignatureText, ObjectOf
  <1>3. Count(KeyInfo, local) = One(Ds("KeyInfo"), local)
    BY CountSimple DEF KeyInfo, Leaf
  <1>4. Count(val, local) = One(Ds("SignatureValue"), local)
    BY CountSimple DEF ValueOf, SignatureValue
  <1> HIDE DEF text, sig, body, info, val, obj, ko, vko, qua, prop, pu
  <1>5. Count(pu, local) = Count(prop, local) + Count(u, local)
    BY <1>1, CountJoin DEF pu
  <1>6. Count(qua, local) = One(Xa("QualifyingProperties"), local) + Count(pu, local)
    BY <1>1, <1>2, CountElement
  <1>7. Count(obj, local) = One(Ds("Object"), local) + Count(qua, local)
    BY <1>1, <1>2, CountElement
  <1>8. Count(ko, local) = Count(KeyInfo, local) + Count(obj, local)
    BY <1>1, CountJoin DEF ko
  <1>9. Count(vko, local) = Count(val, local) + Count(ko, local)
    BY <1>1, CountJoin DEF vko
  <1>10. Count(body, local) = Count(info, local) + Count(vko, local)
    BY <1>1, <1>2, CountJoin
  <1>11. Count(sig, local) = One(Ds("Signature"), local) + Count(body, local)
    BY <1>1, <1>2, CountElement
  <1>12. Count(text, local) = One(ContainerTag, local) + Count(sig, local)
    BY <1>1, <1>2, CountElement
  <1> QED
    BY <1>3, <1>4, <1>5, <1>6, <1>7, <1>8, <1>9, <1>10, <1>11, <1>12
       DEF text, info, prop

(* in the SignedInfo; *)
LEMMA InfoCounts ==
    ASSUME NEW fs, Len(fs) \in Nat, NEW k0, NEW local
    PROVE  Count(InfoOf(fs, k0), local)
             = One(Ds("SignedInfo"), local)
                 + (One(Ds("CanonicalizationMethod"), local)
                      + One(Ds("SignatureMethod"), local)
                      + Count(RefsOf(fs), local))
  <1> DEFINE a == Element(Ds("CanonicalizationMethod"), NoId, C14nUri, {}, <<>>)
             b == Element(Ds("SignatureMethod"), NoId, SignatureMethodUri(k0), {}, <<>>)
             meth == Methods(k0)
             refs == RefsOf(fs)
             mr == Then(meth, refs)
  <1>1. /\ Count(a, local) = One(Ds("CanonicalizationMethod"), local)
        /\ Count(b, local) = One(Ds("SignatureMethod"), local)
    <2> DEFINE nothing == <<>>
               none == {}
    <2>1. nothing \in {<<>>, <<Text(0)>>}
      OBVIOUS
    <2> HIDE DEF none
    <2>2. \A name, attr :
             Count(Element(name, NoId, attr, none, nothing), local) = One(name, local)
      BY <2>1, CountSimple
    <2> QED
      BY <2>2, Zenon DEF none
  <1>2. Nested(a) /\ Nested(b)
    <2> DEFINE nothing == <<>>
    <2>1. Nested(nothing)
      BY NestedNone
    <2> HIDE DEF nothing
    <2>2. \A name, attr : Nested(Element(name, NoId, attr, {}, nothing))
      BY <2>1, NestedElement
    <2> QED
      BY <2>2, Zenon DEF nothing
  <1>3. Nested(refs) /\ Nested(meth) /\ Nested(mr)
    BY NestedNone, PiecesAreNested
  <1>4. meth = Then(a, b)
    BY DEF Methods
  <1>5. InfoOf(fs, k0) = Element(Ds("SignedInfo"), NoId, NoAttr, AllPrefixes, mr)
    BY XadesInfoIs DEF InfoOf
  <1> HIDE DEF a, b, meth, refs
  <1>6. IsText(a) /\ IsText(b) /\ IsText(meth) /\ IsText(refs) /\ IsText(mr)
    BY <1>2, <1>3 DEF Nested
  <1>7. Count(meth, local) = Count(a, local) + Count(b, local)
    BY <1>4, <1>6, CountJoin
  <1>8. Count(mr, local) = Count(meth, local) + Count(refs, local)
    BY <1>6, CountJoin
  <1> HIDE DEF mr
  <1>9. Count(InfoOf(fs, k0), local) = One(Ds("SignedInfo"), local) + Count(mr, local)
    BY <1>5, <1>6, CountElement
  <1> QED
    BY <1>1, <1>7, <1>8, <1>9 DEF refs

(* in the SignedProperties. *)
LEMMA PropertiesCounts ==
    ASSUME NEW fs, Len(fs) \in Nat, NEW local
    PROVE  Count(Properties(fs), local)
             = One(Xa("SignedProperties"), local)
                 + (One(Xa("SignedSignatureProperties"), local)
                      + (One(Xa("SignedDataObjectProperties"), local)
                           + Count(Formats(fs), local)))
  <1> DEFINE a == SignatureProperties
             r == Formats(fs)
             b == DataProperties(fs)
             ab == Then(a, b)
  <1>1. PICK x, attr : a = Element(Xa("SignedSignatureProperties"), NoId, attr, {},
                                   <<Text(x)>>)
    BY DEF SignatureProperties, Leaf
  <1>2. IsText(a) /\ IsText(b) /\ IsText(r) /\ IsText(ab)
    BY NestedNone, PiecesAreNested DEF Nested
  <1>3. b = Element(Xa("SignedDataObjectProperties"), NoId, NoAttr, {}, r)
    BY DEF DataProperties
  <1>4. Properties(fs) = Element(Xa("SignedProperties"), SignedPropertiesId(Index),
                                 NoAttr, AllPrefixes, ab)
    BY PiecesAre
  <1> HIDE DEF a, b, r
  <1>5. Count(a, local) = One(Xa("SignedSignatureProperties"), local)
    BY <1>1, CountSimple
  <1>6. Count(b, local) = One(Xa("SignedDataObjectProperties"), local) + Count(r, local)
    BY <1>2, <1>3, CountElement
  <1>7. Count(ab, local) = Count(a, local) + Count(b, local)
    BY <1>2, CountJoin
  <1> HIDE DEF ab
  <1>8. Count(Properties(fs), local) = One(Xa("SignedProperties"), local) + Count(ab, local)
    BY <1>2, <1>4, CountElement
  <1> QED
    BY <1>5, <1>6, <1>7, <1>8 DEF r

-----------------------------------------------------------------------------
(***************************************************************************)
(* No Id occurs twice in it.                                               *)
(***************************************************************************)
(* The Ids of the references. *)
ReferenceIds(fs) == {XadesRef(fs, k).id : k \in 1..(Len(fs) + 1)}

(* The others. *)
OtherIds ==
    {NoId, SignatureId(Index), SignatureValueId(Index), SignedPropertiesId(Index)}
      \cup UnsignedIds

(* They are apart. *)
LEMMA ReferenceIdsAreOthers ==
    ASSUME NEW fs, Len(fs) \in Nat
    PROVE  ReferenceIds(fs) \cap OtherIds = {}
  <1>1. ASSUME NEW id \in ReferenceIds(fs)
        PROVE  id[1] \in {"S-RefId", "S-SignedPropertiesRef"}
    <2>1. PICK k \in 1..(Len(fs) + 1) : id = XadesRef(fs, k).id
      BY DEF ReferenceIds
    <2>2. XadesId(fs, k, id)
      BY <2>1, XadesRefId
    <2> QED
      BY <2>2 DEF XadesId, RefId
  <1>2. ASSUME NEW id \in OtherIds
        PROVE  id[1] \notin {"S-RefId", "S-SignedPropertiesRef"}
    <2> DEFINE a == <<"S-T0", Index>>
               b == <<"S-CA-CERT", Index>>
               c == <<"N", Index>>
    <2>1. a[1] = "S-T0" /\ b[1] = "S-CA-CERT" /\ c[1] = "N"
      OBVIOUS
    <2>2. NoId[1] = "no Id"
      BY DEF NoId
    <2>3. /\ SignatureId(Index)[1] = "S" /\ SignatureValueId(Index)[1] = "S-SIG"
          /\ SignedPropertiesId(Index)[1] = "SP"
      BY DEF SignatureId, SignatureValueId, SignedPropertiesId
    <2>4. \/ id = NoId \/ id = a \/ id = b \/ id = c
          \/ id = SignatureId(Index) \/ id = SignatureValueId(Index)
          \/ id = SignedPropertiesId(Index)
      BY DEF OtherIds, UnsignedIds
    <2> HIDE DEF a, b, c
    <2> QED
      BY <2>1, <2>2, <2>3, <2>4
  <1> QED
    BY <1>1, <1>2

(* So no Id occurs twice in the document. *)
LEMMA XadesIds ==
    ASSUME NEW fs, Len(fs) \in Nat, NEW k0, NEW u, Fits(u)
    PROVE  IdsAreUnique(XadesText(fs, k0, u))
  <1> DEFINE sig == SignatureText(fs, k0, u)
             body == Body(fs, k0, u)
             info == InfoOf(fs, k0)
             val == ValueOf(fs, k0)
             obj == ObjectOf(fs, u)
             qua == Qualifying(fs, u)
             prop == Properties(fs)
             dataProps == DataProperties(fs)
             R == ReferenceIds(fs)
             O == {NoId, SignedPropertiesId(Index)} \cup UnsignedIds
  <1>1. IdsWithin(info, {NoId} \cup R)
    <2> DEFINE a == Element(Ds("CanonicalizationMethod"), NoId, C14nUri, {}, <<>>)
               b == Element(Ds("SignatureMethod"), NoId, SignatureMethodUri(k0), {}, <<>>)
               meth == Methods(k0)
               refs == RefsOf(fs)
               mr == Then(meth, refs)
    <2>1. IdsWithin(a, {NoId}) /\ IdsWithin(b, {NoId})
      BY WithinSimple
    <2>2. meth = Then(a, b)
      BY DEF Methods
    <2>3. IdsWithin(refs, R)
      <3>1. Nested(refs)
        BY PiecesAreNested, NestedNone
      <3>2. IdsAreUnique(refs) /\ Ids(refs) = R
        BY RefsAre DEF ReferenceIds
      <3> QED
        BY <3>1, <3>2 DEF IdsWithin, Nested
    <2>4. info = Element(Ds("SignedInfo"), NoId, NoAttr, AllPrefixes, mr)
      BY XadesInfoIs DEF InfoOf
    <2> HIDE DEF a, b, meth, refs, R
    <2>5. IdsWithin(meth, {NoId})
      <3>1. IdsWithin(meth, {NoId} \cup {NoId})
        BY <2>1, <2>2, WithinJoin
      <3> QED
        BY <3>1
    <2>6. IdsWithin(mr, {NoId} \cup R)
      BY <2>3, <2>5, WithinJoin DEF mr
    <2> DEFINE S == {NoId} \cup R
    <2>7. NoId \in S
      OBVIOUS
    <2> HIDE DEF mr, info, S
    <2>8. IdsWithin(mr, S)
      BY <2>6 DEF S
    <2>9. IdsWithin(info, S)
      BY <2>4, <2>7, <2>8, WithinPlain
    <2> QED
      BY <2>9 DEF S
  <1>2. IdsWithin(val, {SignatureValueId(Index)})
    BY WithinSimple DEF ValueOf, SignatureValue
  <1>3. IdsWithin(KeyInfo, {NoId})
    BY WithinSimple DEF KeyInfo, Leaf
  <1>4. IdsWithin(dataProps, {NoId})
    <2> DEFINE r == Formats(fs)
    <2>1. IdsWithin(r, {NoId})
      BY FormatsAre, PiecesAreNested, NestedNone DEF IdsWithin, Nested
    <2>2. dataProps = Element(Xa("SignedDataObjectProperties"), NoId, NoAttr, {}, r)
      BY DEF DataProperties
    <2> HIDE DEF r, dataProps
    <2> DEFINE S == {NoId}
    <2>3. IdsWithin(r, S) /\ NoId \in S
      BY <2>1
    <2> HIDE DEF S
    <2>4. IdsWithin(dataProps, S)
      BY <2>2, <2>3, WithinPlain
    <2> QED
      BY <2>4 DEF S
  <1>5. IdsWithin(prop, {NoId, SignedPropertiesId(Index)})
    <2> DEFINE a == SignatureProperties
               ab == Then(a, dataProps)
    <2>1. IdsWithin(a, {NoId})
      BY WithinSimple DEF SignatureProperties, Leaf
    <2>2. prop = Element(Xa("SignedProperties"), SignedPropertiesId(Index),
                         NoAttr, AllPrefixes, ab)
      BY PiecesAre
    <2>3. SignedPropertiesId(Index) # NoId
      BY DEF SignedPropertiesId, NoId
    <2> HIDE DEF a, dataProps, prop
    <2>4. IdsWithin(ab, {NoId} \cup {NoId})
      BY <1>4, <2>1, WithinJoin
    <2> HIDE DEF ab
    <2> DEFINE S == {NoId}
               T == {NoId, SignedPropertiesId(Index)}
               id == SignedPropertiesId(Index)
    <2>5. IdsWithin(ab, S) /\ id \notin S /\ S \subseteq T /\ id \in T
      BY <2>3, <2>4
    <2>6. prop = Element(Xa("SignedProperties"), id, NoAttr, AllPrefixes, ab)
      BY <2>2
    <2> HIDE DEF S, T, id
    <2>7. IdsWithin(prop, T)
      BY <2>5, <2>6, WithinNamed
    <2> QED
      BY <2>7 DEF T
  <1>6. IdsWithin(u, UnsignedIds)
    BY DEF Fits, IdsWithin, Nested
  <1> HIDE DEF info, val, prop, dataProps, R
  <1>7. IdsWithin(obj, O)
    <2> DEFINE pu == Then(prop, u)
    <2>1. {NoId, SignedPropertiesId(Index)} \cap UnsignedIds \subseteq {NoId}
      BY DEF SignedPropertiesId, UnsignedIds, NoId
    <2>2. IdsWithin(pu, {NoId, SignedPropertiesId(Index)} \cup UnsignedIds)
      BY <1>5, <1>6, <2>1, WithinJoin
    <2>3. qua = Element(Xa("QualifyingProperties"), NoId, <<"#", SignatureId(Index)>>,
                        {}, pu)
      BY PiecesAre DEF prop
    <2>4. obj = Element(Ds("Object"), NoId, NoAttr, {}, qua)
      BY DEF ObjectOf
    <2>5. IdsWithin(pu, O)
      BY <2>2
    <2> HIDE DEF pu, qua, obj
    <2>6. NoId \in O
      OBVIOUS
    <2> HIDE DEF O
    <2>7. IdsWithin(qua, O)
      BY <2>3, <2>5, <2>6, WithinPlain
    <2> QED
      BY <2>4, <2>6, <2>7, WithinPlain
  <1>8. IdsWithin(body, (OtherIds \ {SignatureId(Index)}) \cup R)
    <2> DEFINE ko == Then(KeyInfo, obj)
               vko == Then(val, ko)
    <2>1. IdsWithin(ko, {NoId} \cup O)
      <3>1. {NoId} \cap O \subseteq {NoId}
        OBVIOUS
      <3> HIDE DEF O, obj
      <3> QED
        BY <1>3, <1>7, <3>1, WithinJoin
    <2>2. {NoId} \cup O = O
      OBVIOUS
    <2>3. {SignatureValueId(Index)} \cap O \subseteq {NoId}
      BY DEF SignatureValueId, SignedPropertiesId, UnsignedIds, NoId
    <2>4. ({NoId} \cup R) \cap ({SignatureValueId(Index)} \cup O) \subseteq {NoId}
      BY ReferenceIdsAreOthers DEF R, OtherIds
    <2>5. ({NoId} \cup R) \cup ({SignatureValueId(Index)} \cup O)
             \subseteq (OtherIds \ {SignatureId(Index)}) \cup R
      <3>1. SignatureId(Index) \notin {SignatureValueId(Index)} \cup O
        BY DEF SignatureId, SignatureValueId, SignedPropertiesId, UnsignedIds, NoId
      <3>2. O \subseteq OtherIds /\ SignatureValueId(Index) \in OtherIds /\ NoId \in O
        BY DEF OtherIds
      <3> HIDE DEF O
      <3> QED
        BY <3>1, <3>2
    <2>6. body = Then(info, vko)
      BY PiecesAre DEF info, val
    <2> HIDE DEF O, obj, ko
    <2>7. IdsWithin(ko, O)
      BY <2>1, <2>2
    <2>8. IdsWithin(vko, {SignatureValueId(Index)} \cup O)
      BY <1>2, <2>3, <2>7, WithinJoin
    <2> HIDE DEF vko, body
    <2>9. IdsWithin(body, ({NoId} \cup R) \cup ({SignatureValueId(Index)} \cup O))
      BY <1>1, <2>4, <2>6, <2>8, WithinJoin
    <2> QED
      BY <2>5, <2>9 DEF IdsWithin
  <1>9. SignatureId(Index) \notin (OtherIds \ {SignatureId(Index)}) \cup R
    BY ReferenceIdsAreOthers DEF R, OtherIds
  <1>10. /\ sig = Element(Ds("Signature"), SignatureId(Index), NoAttr, {}, body)
         /\ XadesText(fs, k0, u) = Element(ContainerTag, NoId, NoAttr, AllPrefixes, sig)
    BY PiecesAre DEF SignatureText
  <1> DEFINE text == XadesText(fs, k0, u)
             all == (OtherIds \ {SignatureId(Index)}) \cup R
             sall == {SignatureId(Index)} \cup all
  <1> HIDE DEF body, sig, all, sall, text
  <1>11. IdsWithin(body, all) /\ SignatureId(Index) \notin all
    BY <1>8, <1>9 DEF all
  <1>12. sig = Element(Ds("Signature"), SignatureId(Index), NoAttr, {}, body)
    BY <1>10
  <1>13. text = Element(ContainerTag, NoId, NoAttr, AllPrefixes, sig)
    BY <1>10 DEF text
  <1>14. all \subseteq sall /\ SignatureId(Index) \in sall
    BY DEF sall
  <1>15. NoId \in sall
    BY DEF sall, all, OtherIds, SignatureId, NoId
  <1>16. IdsWithin(sig, sall)
    BY <1>11, <1>12, <1>14, WithinNamed
  <1>17. IdsWithin(text, sall)
    BY <1>13, <1>15, <1>16, WithinPlain
  <1> QED
    BY <1>17 DEF IdsWithin, text

-----------------------------------------------------------------------------
(***************************************************************************)
(* It fills the structs just when there is one DataObjectFormat in it.     *)
(***************************************************************************)
(* The fields that the structs of the reader require. *)
LEMMA RequiredAre ==
    /\ {"XAdESSignatures", "Signature", "SignedInfo", "Object", "QualifyingProperties",
        "SignedProperties", "SignedDataObjectProperties"} \subseteq DOMAIN RequiredFields
    /\ RequiredFields["XAdESSignatures"] = {"Signature"}
    /\ RequiredFields["Signature"] = {"SignedInfo", "SignatureValue", "KeyInfo", "Object"}
    /\ RequiredFields["SignedInfo"] = {"CanonicalizationMethod", "SignatureMethod"}
    /\ RequiredFields["Object"] = {"QualifyingProperties"}
    /\ RequiredFields["QualifyingProperties"] = {"SignedProperties"}
    /\ RequiredFields["SignedProperties"]
         = {"SignedSignatureProperties", "SignedDataObjectProperties"}
    /\ RequiredFields["SignedDataObjectProperties"] = {"DataObjectFormat"}
  BY DEF RequiredFields

(* The SignedProperties fill the structs when there is one data file only:  *)
(* the reader takes one DataObjectFormat.                                   *)
LEMMA PropertiesFill ==
    ASSUME NEW fs, Len(fs) \in Nat
    PROVE  Fills(Properties(fs)) <=> Len(fs) = 1
  <1> DEFINE r == Formats(fs)
             b == DataProperties(fs)
             ab == Then(SignatureProperties, b)
             n == Len(fs)
  <1>1. Nested(r) /\ Nested(b) /\ Nested(SignatureProperties) /\ Nested(ab)
    BY PiecesAreNested, NestedNone
  <1>2. /\ Fills(r) /\ Tally(r, "DataObjectFormat") = n /\ n \in Nat
        /\ \A local : local # "DataObjectFormat" => Tally(r, local) = 0
    BY FormatsAre
  <1>3. /\ b = Element(Xa("SignedDataObjectProperties"), NoId, NoAttr, {}, r)
        /\ Properties(fs) = Element(Xa("SignedProperties"), SignedPropertiesId(Index),
                                    NoAttr, AllPrefixes, ab)
    BY PiecesAre DEF DataProperties
  <1>4. Simple(Xa("SignedSignatureProperties"))
    BY DEF Simple, Xa, RequiredFields
  <1>5. Fills(SignatureProperties)
    BY <1>4, SimpleFills DEF SignatureProperties, Leaf
  <1>6. \A local : Tally(SignatureProperties, local)
                     = One(Xa("SignedSignatureProperties"), local)
    BY NestedText, TallyOne DEF SignatureProperties, Leaf
  <1> HIDE DEF r, b, ab, n
  <1>7. Fills(b) <=> n = 1
    <2>1. AtMostOnce(r)
      BY <1>2 DEF AtMostOnce, OptionalFields
    <2>2. Holds("SignedDataObjectProperties", r, Tops(r)) <=> Once(r, {"DataObjectFormat"})
      <3>1. "SignedDataObjectProperties" \in DOMAIN RequiredFields
        BY RequiredAre
      <3>2. Holds("SignedDataObjectProperties", r, Tops(r))
              <=> Once(r, RequiredFields["SignedDataObjectProperties"])
        BY <2>1, <3>1, HoldsByTally
      <3> QED
        BY <3>2, RequiredAre
    <2>3. Fills(b) <=> Holds("SignedDataObjectProperties", r, Tops(r))
      BY <1>1, <1>2, <1>3, FillsElement DEF Xa
    <2> QED
      BY <1>2, <2>2, <2>3 DEF Once
  <1>8. \A local : Tally(ab, local) = One(Xa("SignedSignatureProperties"), local)
                                        + One(Xa("SignedDataObjectProperties"), local)
    <2>1. \A local : Tally(b, local) = One(Xa("SignedDataObjectProperties"), local)
      BY <1>1, <1>3, TallyOne
    <2>2. \A local : Tally(ab, local) = Tally(SignatureProperties, local) + Tally(b, local)
      BY <1>1, TallyJoin DEF ab
    <2> QED
      BY <1>6, <2>1, <2>2
  <1>9. Holds("SignedProperties", ab, Tops(ab))
    <2>1. AtMostOnce(ab)
      BY <1>8 DEF AtMostOnce, OptionalFields, One, Xa
    <2>2. Once(ab, {"SignedSignatureProperties", "SignedDataObjectProperties"})
      BY <1>8 DEF Once, One, Xa
    <2> QED
      BY <2>1, <2>2, RequiredAre, HoldsByTally
  <1>10. Fills(ab) <=> Fills(SignatureProperties) /\ Fills(b)
    BY <1>1, FillsJoin DEF ab
  <1>11. Fills(Properties(fs)) <=> Fills(ab) /\ Holds("SignedProperties", ab, Tops(ab))
    BY <1>1, <1>3, FillsElement DEF Xa
  <1> QED
    BY <1>5, <1>7, <1>9, <1>10, <1>11 DEF n

(* The SignedInfo always does. *)
LEMMA InfoFills ==
    ASSUME NEW fs, Len(fs) \in Nat, NEW k0
    PROVE  Fills(InfoOf(fs, k0))
  <1> DEFINE a == Element(Ds("CanonicalizationMethod"), NoId, C14nUri, {}, <<>>)
             b == Element(Ds("SignatureMethod"), NoId, SignatureMethodUri(k0), {}, <<>>)
             meth == Methods(k0)
             refs == RefsOf(fs)
             mr == Then(meth, refs)
  <1>1. /\ Simple(Ds("CanonicalizationMethod")) /\ Simple(Ds("SignatureMethod"))
    BY DEF Simple, Ds, RequiredFields
  <1>2. Fills(a) /\ Fills(b)
    BY <1>1, SimpleFills
  <1>3. Nested(a) /\ Nested(b) /\ Nested(meth) /\ Nested(refs) /\ Nested(mr)
    BY NestedNone, NestedElement, PiecesAreNested
  <1>4. /\ \A local : Tally(a, local) = One(Ds("CanonicalizationMethod"), local)
        /\ \A local : Tally(b, local) = One(Ds("SignatureMethod"), local)
    BY NestedNone, TallyOne
  <1>5. /\ Fills(refs) /\ Tally(refs, "Reference") \in Nat /\ Tally(refs, "Reference") > 0
        /\ \A local : local # "Reference" => Tally(refs, local) = 0
    BY RefsAre
  <1>6. meth = Then(a, b)
    BY DEF Methods
  <1>7. InfoOf(fs, k0) = Element(Ds("SignedInfo"), NoId, NoAttr, AllPrefixes, mr)
    BY XadesInfoIs DEF InfoOf
  <1> HIDE DEF a, b, meth, refs
  <1>8. Fills(mr)
    <2>1. Fills(meth)
      BY <1>2, <1>3, <1>6, FillsJoin
    <2> QED
      BY <1>3, <1>5, <2>1, FillsJoin
  <1>9. \A local : Tally(mr, local) = One(Ds("CanonicalizationMethod"), local)
                     + One(Ds("SignatureMethod"), local) + Tally(refs, local)
    <2>1. \A local : Tally(meth, local) = Tally(a, local) + Tally(b, local)
      BY <1>3, <1>6, TallyJoin
    <2>2. \A local : Tally(mr, local) = Tally(meth, local) + Tally(refs, local)
      BY <1>3, TallyJoin
    <2> QED
      BY <1>4, <2>1, <2>2
  <1> HIDE DEF mr
  <1>10. Holds("SignedInfo", mr, Tops(mr))
    <2>1. AtMostOnce(mr)
      BY <1>5, <1>9 DEF AtMostOnce, OptionalFields, One, Ds
    <2>2. Once(mr, {"CanonicalizationMethod", "SignatureMethod"})
      BY <1>5, <1>9 DEF Once, One, Ds
    <2>3. Tally(mr, "Reference") > 0
      BY <1>5, <1>9 DEF One, Ds
    <2> QED
      BY <2>1, <2>2, <2>3, RequiredAre, HoldsByTally
  <1> QED
    BY <1>3, <1>7, <1>8, <1>10, FillsElement DEF Ds

(* So the document fills them when there is one file. *)
LEMMA XadesFills ==
    ASSUME NEW fs, Len(fs) \in Nat, NEW k0, NEW u, Fits(u)
    PROVE  Fills(XadesText(fs, k0, u)) <=> Len(fs) = 1
  <1> DEFINE text == XadesText(fs, k0, u)
             sig == SignatureText(fs, k0, u)
             body == Body(fs, k0, u)
             info == InfoOf(fs, k0)
             val == ValueOf(fs, k0)
             obj == ObjectOf(fs, u)
             ko == Then(KeyInfo, obj)
             vko == Then(val, ko)
             qua == Qualifying(fs, u)
             prop == Properties(fs)
             pu == Then(prop, u)
  <1>1. Nested(u) /\ Fills(u)
    BY DEF Fits
  <1>2. /\ Nested(sig) /\ Nested(body) /\ Nested(info) /\ Nested(val) /\ Nested(obj)
        /\ Nested(ko) /\ Nested(vko) /\ Nested(qua) /\ Nested(prop) /\ Nested(pu)
        /\ Nested(KeyInfo)
    BY <1>1, PiecesAreNested
  <1>3. /\ text = Element(ContainerTag, NoId, NoAttr, AllPrefixes, sig)
        /\ sig = Element(Ds("Signature"), SignatureId(Index), NoAttr, {}, body)
        /\ body = Then(info, vko)
        /\ obj = Element(Ds("Object"), NoId, NoAttr, {}, qua)
        /\ qua = Element(Xa("QualifyingProperties"), NoId, <<"#", SignatureId(Index)>>,
                         {}, pu)
    BY PiecesAre DEF SignatureText, ObjectOf
  <1>4. Fills(KeyInfo) /\ Fills(val)
    <2>1. Simple(Ds("KeyInfo")) /\ Simple(Ds("SignatureValue"))
      BY DEF Simple, Ds, RequiredFields
    <2>2. Fills(KeyInfo)
      BY <2>1, SimpleFills DEF KeyInfo, Leaf
    <2>3. Fills(val)
      BY <2>1, SimpleFills DEF ValueOf, SignatureValue
    <2> QED
      BY <2>2, <2>3
  <1>5. /\ \A local : Tally(KeyInfo, local) = One(Ds("KeyInfo"), local)
        /\ \A local : Tally(val, local) = One(Ds("SignatureValue"), local)
    BY NestedText, TallyOne DEF KeyInfo, Leaf, ValueOf, SignatureValue
  <1>6. \A local : Tally(info, local) = One(Ds("SignedInfo"), local)
    <2>1. Nested(Then(Methods(k0), RefsOf(fs)))
      BY NestedNone, PiecesAreNested
    <2> QED
      BY <2>1, XadesInfoIs, TallyOne DEF InfoOf
  <1>7. \A local : Tally(prop, local) = One(Xa("SignedProperties"), local)
    <2>1. Nested(Then(SignatureProperties, DataProperties(fs)))
      BY NestedNone, PiecesAreNested
    <2> QED
      BY <2>1, PiecesAre, TallyOne
  <1>8. Fills(info) /\ (Fills(prop) <=> Len(fs) = 1)
    BY InfoFills, PropertiesFill
  <1> HIDE DEF text, sig, body, info, val, obj, ko, vko, qua, prop, pu
  <1>9. Fills(qua) <=> Fills(prop)
    <2>1. Fills(pu) <=> Fills(prop)
      BY <1>1, <1>2, FillsJoin DEF pu
    <2>2. \A local : /\ Tally(pu, local) = One(Xa("SignedProperties"), local)
                                             + Tally(u, local)
                     /\ Tally(u, local) \in Nat /\ Tally(u, local) <= 1
                     /\ (local # "UnsignedProperties" => Tally(u, local) = 0)
      BY <1>1, <1>2, <1>7, TallyJoin DEF pu, Fits
    <2>3. AtMostOnce(pu)
      BY <2>2 DEF AtMostOnce, OptionalFields, One, Xa
    <2>4. Once(pu, {"SignedProperties"})
      BY <2>2 DEF Once, One, Xa
    <2>5. Holds("QualifyingProperties", pu, Tops(pu))
      BY <2>3, <2>4, RequiredAre, HoldsByTally
    <2> QED
      BY <1>2, <1>3, <2>1, <2>5, FillsElement DEF Xa
  <1>10. Fills(obj) <=> Fills(qua)
    <2>1. \A local : Tally(qua, local) = One(Xa("QualifyingProperties"), local)
      BY <1>2, <1>3, TallyOne
    <2>2. AtMostOnce(qua) /\ Once(qua, {"QualifyingProperties"})
      BY <2>1 DEF AtMostOnce, Once, OptionalFields, One, Xa
    <2>3. Holds("Object", qua, Tops(qua))
      BY <2>2, RequiredAre, HoldsByTally
    <2> QED
      BY <1>2, <1>3, <2>3, FillsElement DEF Ds
  <1>11. Fills(sig) <=> Fills(obj)
    <2>1. Fills(body) <=> Fills(obj)
      BY <1>2, <1>3, <1>4, <1>8, FillsJoin DEF ko, vko
    <2>2. \A local : Tally(obj, local) = One(Ds("Object"), local)
      BY <1>2, <1>3, TallyOne
    <2>3. \A local : Tally(ko, local) = Tally(KeyInfo, local) + Tally(obj, local)
      BY <1>2, TallyJoin DEF ko
    <2>4. \A local : Tally(vko, local) = Tally(val, local) + Tally(ko, local)
      BY <1>2, TallyJoin DEF vko
    <2>5. \A local : Tally(body, local) = Tally(info, local) + Tally(vko, local)
      BY <1>2, <1>3, TallyJoin
    <2>6. \A local : Tally(body, local)
             = One(Ds("SignedInfo"), local) + (One(Ds("SignatureValue"), local)
                  + (One(Ds("KeyInfo"), local) + One(Ds("Object"), local)))
      BY <1>5, <1>6, <2>2, <2>3, <2>4, <2>5
    <2>7. AtMostOnce(body)
      BY <2>6 DEF AtMostOnce, OptionalFields, One, Ds
    <2>8. Once(body, {"SignedInfo", "SignatureValue", "KeyInfo", "Object"})
      BY <2>6 DEF Once, One, Ds
    <2>9. Holds("Signature", body, Tops(body))
      BY <2>7, <2>8, RequiredAre, HoldsByTally
    <2> QED
      BY <1>2, <1>3, <2>1, <2>9, FillsElement DEF Ds
  <1>12. Fills(text) <=> Fills(sig)
    <2>1. \A local : Tally(sig, local) = One(Ds("Signature"), local)
      BY <1>2, <1>3, TallyOne
    <2>2. AtMostOnce(sig) /\ Once(sig, {"Signature"})
      BY <2>1 DEF AtMostOnce, Once, OptionalFields, One, Ds
    <2>3. Holds("XAdESSignatures", sig, Tops(sig))
      BY <2>2, RequiredAre, HoldsByTally
    <2> QED
      BY <1>2, <1>3, <2>3, FillsElement DEF ContainerTag
  <1> QED
    BY <1>8, <1>9, <1>10, <1>11, <1>12 DEF text

-----------------------------------------------------------------------------
(***************************************************************************)
(* What TextFollowsDocument reads from it.                                 *)
(***************************************************************************)
(* What no unsigned text has. *)
LEMMA UnsignedHasNone ==
    ASSUME NEW u, Made(u, UnsignedNames, {})
    PROVE  /\ Count(u, "Reference") = 0 /\ Count(u, "DataObjectFormat") = 0
           /\ Count(u, "SignatureValue") = 0
  <1>1. IsText(u)
    BY DEF Made, Nested
  <1>2. \A name \in UnsignedNames :
           name[2] \notin {"Reference", "DataObjectFormat", "SignatureValue"}
    BY DEF UnsignedNames, Xa
  <1>3. \A local \in {"Reference", "DataObjectFormat", "SignatureValue"} :
           Positions(u, local) = {}
    BY <1>2, PositionsAbsent
  <1> QED
    BY <1>1, <1>3, CountIs

(* What TextFollowsDocument counts in the document, *)
LEMMA CountsOfXades ==
    ASSUME NEW fs, Len(fs) \in Nat, NEW k0, NEW l \in Levels, NEW issuer
    PROVE  LET text == XadesText(fs, k0, UnsignedOf(l, issuer))
           IN  /\ Count(text, "Reference") = Len(fs) + 1
               /\ Count(text, "DataObjectFormat") = Len(fs)
               /\ Count(text, "SignatureValue") = 1
               /\ Count(text, "UnsignedSignatureProperties") = NumberOfBlocks(l)
  <1> DEFINE u == UnsignedOf(l, issuer)
             text == XadesText(fs, k0, u)
             U == "UnsignedSignatureProperties"
             n == Len(fs)
  <1>1. /\ Count(u, "Reference") = 0 /\ Count(u, "DataObjectFormat") = 0
        /\ Count(u, "SignatureValue") = 0 /\ Count(u, U) = NumberOfBlocks(l)
        /\ NumberOfBlocks(l) \in Nat /\ Nested(u)
    BY UnsignedTextIs, UnsignedHasNone DEF NumberOfBlocks
  <1>2. /\ Count(RefsOf(fs), "Reference") = n + 1
        /\ \A local : local # "Reference" => Count(RefsOf(fs), local) = 0
    <2>1. /\ Positions(RefsOf(fs), "Reference") = Spaced(0, n + 1) /\ n + 1 \in Nat
          /\ \A local : local # "Reference" => Positions(RefsOf(fs), local) = {}
      BY RefsAre
    <2>2. Cardinality(Spaced(0, n + 1)) = n + 1
      BY <2>1, SpacedCount
    <2> QED
      BY <2>1, <2>2, FS_EmptySet DEF Count
  <1>3. /\ Count(Formats(fs), "DataObjectFormat") = n /\ n \in Nat
        /\ \A local : local # "DataObjectFormat" => Count(Formats(fs), local) = 0
    BY FormatsAre
  <1> HIDE DEF u, text, n
  <1>4. ASSUME NEW local
        PROVE  Count(text, local)
                 = One(ContainerTag, local) + (One(Ds("Signature"), local)
                     + (Count(InfoOf(fs, k0), local)
                          + (One(Ds("SignatureValue"), local) + (One(Ds("KeyInfo"), local)
                               + (One(Ds("Object"), local)
                                    + (One(Xa("QualifyingProperties"), local)
                                         + (Count(Properties(fs), local)
                                              + Count(u, local))))))))
    BY <1>1, XadesCounts DEF text
  <1>5. ASSUME NEW local
        PROVE  Count(InfoOf(fs, k0), local)
                 = One(Ds("SignedInfo"), local)
                     + (One(Ds("CanonicalizationMethod"), local)
                          + One(Ds("SignatureMethod"), local)
                          + Count(RefsOf(fs), local))
    BY InfoCounts
  <1>6. ASSUME NEW local
        PROVE  Count(Properties(fs), local)
                 = One(Xa("SignedProperties"), local)
                     + (One(Xa("SignedSignatureProperties"), local)
                          + (One(Xa("SignedDataObjectProperties"), local)
                               + Count(Formats(fs), local)))
    BY PropertiesCounts
  <1>7. Count(text, "Reference") = n + 1
    BY <1>1, <1>2, <1>3, <1>4, <1>5, <1>6 DEF One, Ds, Xa, ContainerTag
  <1>8. Count(text, "DataObjectFormat") = n
    BY <1>1, <1>2, <1>3, <1>4, <1>5, <1>6 DEF One, Ds, Xa, ContainerTag
  <1>9. Count(text, "SignatureValue") = 1
    BY <1>1, <1>2, <1>3, <1>4, <1>5, <1>6 DEF One, Ds, Xa, ContainerTag
  <1>10. Count(text, U) = NumberOfBlocks(l)
    BY <1>1, <1>2, <1>3, <1>4, <1>5, <1>6 DEF One, Ds, Xa, ContainerTag
  <1> QED
    BY <1>7, <1>8, <1>9, <1>10 DEF text, u, n

(* and what it reads from the references. *)
LEMMA XadesReferences ==
    ASSUME NEW fs, Len(fs) \in Nat, NEW k0, NEW l \in Levels, NEW issuer
    PROVE  LET text == XadesText(fs, k0, UnsignedOf(l, issuer))
               refs == Positions(text, "Reference")
           IN  /\ Cardinality(refs) = Len(fs) + 1
               /\ \A k \in 1..Len(fs) :
                     /\ text[Nth(refs, k)].attr = fs[k].name
                     /\ text[Nth(refs, k) + 1].data = fs[k].content
  <1> DEFINE u == UnsignedOf(l, issuer)
             text == XadesText(fs, k0, u)
             r == RefsOf(fs)
             n == Len(fs) + 1
  <1>1. Nested(u)
    BY UnsignedTextIs
  <1>2. StandsAt(text, 7, r)
    BY <1>1, XadesStands
  <1>3. /\ n \in Nat /\ Listed(r, n, XadesRefs(fs))
        /\ Positions(r, "Reference") = Spaced(0, n)
    BY RefsAre
  <1>4. Count(text, "Reference") = n
    BY CountsOfXades
  <1>5. Cardinality(Spaced(0, n)) = n
    BY <1>3, SpacedCount
  <1> HIDE DEF u, text, r, n
  <1>6. Positions(text, "Reference") = Spaced(7, n)
    <2>1. Positions(text, "Reference") = Moved(Positions(r, "Reference"), 7)
      BY <1>2, <1>3, <1>4, <1>5, StandsPositions DEF Count
    <2>2. Moved(Spaced(0, n), 7) = Spaced(7 + 0, n)
      BY <1>3, SpacedMoved
    <2> QED
      BY <1>3, <2>1, <2>2
  <1>7. ASSUME NEW k \in 1..Len(fs)
        PROVE  /\ text[Nth(Spaced(7, n), k)].attr = fs[k].name
               /\ text[Nth(Spaced(7, n), k) + 1].data = fs[k].content
    <2>1. k \in 1..n /\ k <= Len(fs)
      BY DEF n
    <2>2. Nth(Spaced(7, n), k) = 7 + 3 * k - 2
      BY <1>3, <2>1, SpacedNth
    <2>3. /\ XadesRefs(fs)[k].attr = fs[k].name /\ XadesRefs(fs)[k].data = fs[k].content
      BY <2>1 DEF XadesRefs, XadesRef, n
    <2>4. IsItem(XadesRefs(fs)[k], r[3 * k - 2], r[3 * k - 1], r[3 * k])
          /\ Len(r) = 3 * n
      BY <1>3, <2>1 DEF Listed
    <2>5. 3 * k - 2 \in 1..Len(r) /\ 3 * k - 1 \in 1..Len(r)
      BY <1>3, <2>1, <2>4
    <2>6. text[7 + (3 * k - 2)] = r[3 * k - 2] /\ text[7 + (3 * k - 1)] = r[3 * k - 1]
      BY <1>2, <2>5 DEF StandsAt
    <2>7. 7 + 3 * k - 2 = 7 + (3 * k - 2) /\ (7 + 3 * k - 2) + 1 = 7 + (3 * k - 1)
      BY <2>1, <1>3
    <2>8. r[3 * k - 2].attr = fs[k].name /\ r[3 * k - 1].data = fs[k].content
      BY <2>3, <2>4 DEF IsItem, Open, Text
    <2> QED
      BY <2>2, <2>6, <2>7, <2>8
  <1> QED
    BY <1>4, <1>6, <1>7 DEF Count, text, u, n

(* The unsigned values of level l, in the document of the container         *)
(* modules.                                                                 *)
UnsignedData(l, issuer) ==
    IF l = "BES" THEN <<>>
    ELSE IF l = "T" THEN <<TimeStamp(Index)>>
    ELSE <<TimeStamp(Index), issuer, OcspResponse(Index)>>

(* They are the pieces of text of the parts. *)
LEMMA UnsignedDataIs ==
    ASSUME NEW l \in {"T", "LT"}, NEW issuer
    PROVE  [k \in 1..NumberOf(l) |-> PartList(issuer)[k].data] = UnsignedData(l, issuer)
  <1> DEFINE list == PartList(issuer)
             a == TimeStamp(Index)
             b == issuer
             c == OcspResponse(Index)
  <1>1. list[1].data = a /\ list[2].data = b /\ list[3].data = c
    BY DEF PartList
  <1> HIDE DEF list, a, b, c
  <1>2. CASE l = "T"
    <2>1. [k \in 1..1 |-> list[k].data] = <<list[1].data>>
      OBVIOUS
    <2> QED
      BY <1>1, <1>2, <2>1 DEF NumberOf, UnsignedData, list, a, b, c
  <1>3. CASE l = "LT"
    <2>1. [k \in 1..3 |-> list[k].data] = <<list[1].data, list[2].data, list[3].data>>
      OBVIOUS
    <2> QED
      BY <1>1, <1>3, <2>1 DEF NumberOf, UnsignedData, list, a, b, c
  <1> QED
    BY <1>2, <1>3

(* UnsignedTexts, where there is no unsigned text *)
LEMMA NoUnsignedTexts ==
    ASSUME NEW text, Positions(text, "UnsignedSignatureProperties") = {}
    PROVE  UnsignedTexts(text) = <<>>
  BY DEF UnsignedTexts

(* and where there is one. *)
LEMMA UnsignedTextsAt ==
    ASSUME NEW text, NEW p \in Nat, p \in Elements(text),
           Positions(text, "UnsignedSignatureProperties") = {p}
    PROVE  UnsignedTexts(text)
             = [k \in 1..Cardinality(Inside(text, p)) |->
                   text[Nth(Inside(text, p), k) + 1].data]
  <1>1. First({p}) = p
    BY FirstIs
  <1>2. Children(Parse(text), p) = Inside(text, p)
    BY ChildrenAreInside
  <1>3. \A k : TextOf(Parse(text), k) = text[k + 1].data
    BY ParseIs DEF TextOf
  <1> QED
    BY <1>1, <1>2, <1>3 DEF UnsignedTexts

(* What TextFollowsDocument reads from it. *)
LEMMA XadesUnsigned ==
    ASSUME NEW fs, Len(fs) \in Nat, NEW k0, NEW l \in Levels, NEW issuer
    PROVE  UnsignedTexts(XadesText(fs, k0, UnsignedOf(l, issuer)))
             = UnsignedData(l, issuer)
  <1> DEFINE u == UnsignedOf(l, issuer)
             text == XadesText(fs, k0, u)
             U == "UnsignedSignatureProperties"
  <1>1. Nested(u)
    BY UnsignedTextIs
  <1>2. Count(text, U) = NumberOfBlocks(l)
    BY CountsOfXades
  <1>3. IsText(text)
    BY <1>1, PiecesAreNested DEF Nested
  <1>4. CASE l = "BES"
    <2>1. Positions(text, U) = {}
      BY <1>2, <1>3, <1>4, CountIs DEF NumberOfBlocks
    <2> QED
      BY <1>4, <2>1, NoUnsignedTexts DEF UnsignedData
  <1>5. CASE l # "BES"
    <2> DEFINE c == PartsOf(l, issuer)
               n == NumberOf(l)
               list == PartList(issuer)
               name == Xa("UnsignedSignatureProperties")
               E == Element(name, NoId, NoAttr, {}, c)
    <2>1. l \in {"T", "LT"}
      BY <1>5 DEF Levels
    <2>2. /\ u = UnsignedBlock(c) /\ n \in Nat
      BY <1>5, UnsignedIs DEF NumberOf
    <2>3. Nested(c) /\ StandsAt(u, 1, E)
      BY <2>1, <2>2, BlockIs
    <2>4. PICK q \in Nat : StandsAt(text, q, u)
      BY <1>1, XadesStands
    <2>5. Listed(c, n, list)
      BY <2>1, PartsListed
    <2>6. name[2] = U
      BY DEF Xa
    <2> HIDE DEF u, text, c, n, list, name
    <2>7. StandsAt(text, q + 1, E)
      BY <2>3, <2>4, StandsDeeper
    <2> DEFINE p == (q + 1) + 1
    <2>8. /\ Inside(text, p) = Moved(Tops(c), p) /\ p \in Elements(text)
          /\ text[p] = Open(name, NoId, NoAttr, {}) /\ StandsAt(text, p, c)
      BY <2>3, <2>7, InsideStanding
    <2>9. p \in Nat
      OBVIOUS
    <2> HIDE DEF p, E
    <2>10. Positions(text, U) = {p}
      <3>1. p \in Positions(text, U)
        BY <2>6, <2>8 DEF Positions, Open
      <3>2. Count(text, U) = 1
        BY <1>2, <1>5 DEF NumberOfBlocks
      <3> QED
        BY <1>3, <3>1, <3>2, CountIs
    <2>11. Inside(text, p) = Spaced(p, n)
      <3>1. Tops(c) = Spaced(0, n)
        BY <2>5 DEF Listed, Flat
      <3>2. Moved(Spaced(0, n), p) = Spaced(p + 0, n)
        BY <2>2, <2>9, SpacedMoved
      <3> QED
        BY <2>8, <2>9, <3>1, <3>2
    <2>12. Cardinality(Spaced(p, n)) = n
      BY <2>2, <2>9, SpacedCount
    <2>13. ASSUME NEW k \in 1..n
           PROVE  text[Nth(Spaced(p, n), k) + 1].data = list[k].data
      <3>1. Nth(Spaced(p, n), k) = p + 3 * k - 2
        BY <2>2, <2>9, SpacedNth
      <3>2. IsItem(list[k], c[3 * k - 2], c[3 * k - 1], c[3 * k]) /\ Len(c) = 3 * n
        BY <2>5 DEF Listed
      <3>3. 3 * k - 1 \in 1..Len(c)
        BY <2>2, <3>2
      <3>4. text[p + (3 * k - 1)] = c[3 * k - 1]
        BY <2>8, <3>3 DEF StandsAt
      <3>5. (p + 3 * k - 2) + 1 = p + (3 * k - 1)
        BY <2>2, <2>9
      <3> QED
        BY <3>1, <3>2, <3>4, <3>5 DEF IsItem, Text
    <2>14. UnsignedTexts(text) = [k \in 1..n |-> list[k].data]
      <3>1. UnsignedTexts(text)
               = [k \in 1..Cardinality(Inside(text, p)) |->
                     text[Nth(Inside(text, p), k) + 1].data]
        BY <2>8, <2>9, <2>10, UnsignedTextsAt
      <3>2. UnsignedTexts(text) = [k \in 1..n |-> text[Nth(Spaced(p, n), k) + 1].data]
        BY <2>11, <2>12, <3>1
      <3> QED
        BY <2>13, <3>2
    <2> QED
      BY <2>1, <2>14, UnsignedDataIs DEF text, u, n, list
  <1> QED
    BY <1>4, <1>5

-----------------------------------------------------------------------------
(***************************************************************************)
(* The invariant: a XAdES document is, as it was signed last, the text of  *)
(* its level, and the document of the container modules goes with it.      *)
(***************************************************************************)
(* The issuer of the certificate that is being added. *)
Issuer == IssuerCertificate(signer, Index)

(* The document of the container modules at level l. *)
XadesDocument(l) ==
    [BuildXadesBasicSignature(files, signer, Index)
        EXCEPT !.unsigned = UnsignedData(l, Issuer)]

(* The text and this document, as they were signed last. *)
IsXadesSigned ==
    /\ signed = XadesText(files, key, UnsignedOf(level, Issuer))
    /\ doc = XadesDocument(level)

(* The invariant. *)
SignedInv ==
    /\ edits \in Nat /\ files \in Seq(Files) /\ data \in Seq(Files)
    /\ level \in {"none", "refused", "enveloping"} \cup Levels
    /\ level \in Levels => form = "xades"
    /\ level \in {"enveloping", "refused"} => form = "enveloping"
    /\ level \in Levels => IsXadesSigned
    /\ edits = 0 => xml = signed /\ data = files

(* One and two are three. *)
LEMMA ThreeTogether ==
    ASSUME NEW a, NEW b, NEW c
    PROVE  <<a>> \o <<b, c>> = <<a, b, c>>
  <1> DEFINE S == {a, b, c}
             x == <<a>>
             y == <<b, c>>
             s == x \o y
             t == <<a, b, c>>
  <1>1. x \in Seq(S) /\ y \in Seq(S) /\ Len(x) = 1 /\ Len(y) = 2
    OBVIOUS
  <1>2. s \in Seq(S) /\ Len(s) = 3 /\ s[1] = a /\ s[2] = b /\ s[3] = c
    OBVIOUS
  <1>3. t \in Seq(S) /\ Len(t) = 3 /\ t[1] = a /\ t[2] = b /\ t[3] = c
    OBVIOUS
  <1> HIDE DEF S, s, t
  <1>4. \A k \in 1..Len(s) : s[k] = t[k]
    <2>1. \A k \in 1..3 : k = 1 \/ k = 2 \/ k = 3
      OBVIOUS
    <2> QED
      BY <1>2, <1>3, <2>1
  <1>5. s = t
    BY <1>2, <1>3, <1>4, SeqEqual
  <1> QED
    BY <1>5 DEF s, t

(* What the upgrades make of the document. *)
LEMMA DocumentBes ==
    /\ XadesDocument("BES") = BuildXadesBasicSignature(files, signer, Index)
    /\ UpgradeBesToT(XadesDocument("BES"), TimeStamp(Index)) = XadesDocument("T")
    /\ UpgradeTToLT(XadesDocument("T"), Issuer, OcspResponse(Index)) = XadesDocument("LT")
  <1> DEFINE b == BuildXadesBasicSignature(files, signer, Index)
  <1>1. b.unsigned = <<>> /\ b = [b EXCEPT !.unsigned = b.unsigned]
    BY DEF BuildXadesBasicSignature
  <1>2. \A x, y : [[b EXCEPT !.unsigned = x] EXCEPT !.unsigned = y]
                     = [b EXCEPT !.unsigned = y]
    BY DEF BuildXadesBasicSignature
  <1>3. \A x : [b EXCEPT !.unsigned = x].unsigned = x
    BY DEF BuildXadesBasicSignature
  <1> HIDE DEF b
  <1>4. XadesDocument("BES") = b
    BY <1>1 DEF XadesDocument, UnsignedData, b
  <1>5. XadesDocument("T") = [b EXCEPT !.unsigned = <<TimeStamp(Index)>>]
    BY DEF XadesDocument, UnsignedData, b
  <1>6. XadesDocument("LT")
          = [b EXCEPT !.unsigned = <<TimeStamp(Index), Issuer, OcspResponse(Index)>>]
    BY DEF XadesDocument, UnsignedData, b
  <1>7. UpgradeBesToT(b, TimeStamp(Index)) = XadesDocument("T")
    BY <1>5 DEF UpgradeBesToT
  <1>8. UpgradeTToLT(XadesDocument("T"), Issuer, OcspResponse(Index)) = XadesDocument("LT")
    <2> DEFINE x == <<TimeStamp(Index)>>
               y == <<Issuer, OcspResponse(Index)>>
               d == [b EXCEPT !.unsigned = x]
    <2>1. x \o y = <<TimeStamp(Index), Issuer, OcspResponse(Index)>>
      BY ThreeTogether
    <2> HIDE DEF x, y
    <2>2. d.unsigned = x /\ [d EXCEPT !.unsigned = x \o y] = [b EXCEPT !.unsigned = x \o y]
      BY <1>2, <1>3
    <2>3. UpgradeTToLT(d, Issuer, OcspResponse(Index)) = [d EXCEPT !.unsigned = x \o y]
      BY <2>2 DEF UpgradeTToLT, y
    <2>4. XadesDocument("T") = d
      BY <1>5 DEF x
    <2> HIDE DEF d
    <2>5. UpgradeTToLT(XadesDocument("T"), Issuer, OcspResponse(Index))
            = [b EXCEPT !.unsigned = x \o y]
      BY <2>2, <2>3, <2>4 DEF d
    <2> QED
      BY <1>6, <2>1, <2>5
  <1> QED
    BY <1>4, <1>7, <1>8 DEF b

(* It holds at first, *)
LEMMA SignedInit == SigningInit => SignedInv
  <1> SUFFICES ASSUME SigningInit PROVE SignedInv
    OBVIOUS
  <1>1. /\ edits = 0 /\ files = <<>> /\ data = <<>> /\ level = "none"
        /\ xml = <<>> /\ signed = <<>>
    BY DEF SigningInit
  <1>2. <<>> \in Seq(Files)
    BY EmptySeq
  <1> QED
    BY <1>1, <1>2 DEF SignedInv, Levels

(* Data files that are changed or lost on the way are data files. *)
LEMMA ChangedData ==
    ASSUME NEW s \in Seq(Files), NEW k \in 1..Len(s), NEW c \in Contents
    PROVE  Seqs!RemoveAt(s, k) \in Seq(Files) /\ [s EXCEPT ![k].content = c] \in Seq(Files)
  <1>1. Seqs!RemoveAt(s, k) \in Seq(Files)
    <2>1. Seqs!RemoveAt(s, k) = SubSeq(s, 1, k - 1) \o SubSeq(s, k + 1, Len(s))
      BY DEF Seqs!RemoveAt
    <2>2. \A j \in 1..(k - 1) : s[j] \in Files
      OBVIOUS
    <2>3. \A j \in (k + 1)..Len(s) : s[j] \in Files
      OBVIOUS
    <2>4. SubSeq(s, 1, k - 1) \in Seq(Files)
      BY <2>2, SubSeqProperties
    <2>5. SubSeq(s, k + 1, Len(s)) \in Seq(Files)
      BY <2>3, SubSeqProperties
    <2> QED
      BY <2>1, <2>4, <2>5, ConcatProperties
  <1>2. [s EXCEPT ![k].content = c] \in Seq(Files)
    <2>1. [s EXCEPT ![k].content = c] = [s EXCEPT ![k] = [s[k] EXCEPT !.content = c]]
      OBVIOUS
    <2>2. s[k] \in Files
      OBVIOUS
    <2>3. [s[k] EXCEPT !.content = c] \in Files
      BY <2>2 DEF Files
    <2> QED
      BY <2>1, <2>3, ExceptSeq
  <1> QED
    BY <1>1, <1>2

(* it is kept by every step, *)
LEMMA SignedStep == SignedInv /\ [SigningNext]_signingVars => SignedInv'
  <1> SUFFICES ASSUME SignedInv, [SigningNext]_signingVars
               PROVE  SignedInv'
    OBVIOUS
  <1>1. /\ edits \in Nat /\ files \in Seq(Files) /\ data \in Seq(Files)
        /\ level \in {"none", "refused", "enveloping"} \cup Levels
        /\ level \in Levels => form = "xades"
        /\ level \in {"enveloping", "refused"} => form = "enveloping"
        /\ level \in Levels => IsXadesSigned
        /\ edits = 0 => xml = signed /\ data = files
    BY DEF SignedInv
  <1>2. ASSUME NEW file \in Files, AddFile(file)
        PROVE  SignedInv'
    <2>1. /\ level = "none" /\ UNCHANGED <<form, level, edits, xml, signed>>
          /\ files' = Append(files, file) /\ data' = files'
      BY <1>2 DEF AddFile
    <2>2. files' \in Seq(Files)
      BY <1>1, <2>1, AppendProperties
    <2> QED
      BY <1>1, <2>1, <2>2 DEF SignedInv, Levels
  <1>3. ASSUME NEW name \in PayloadNames, Fill(name)
        PROVE  SignedInv'
    <2>1. level = "none" /\ UNCHANGED <<form, files, data, level, edits, xml, signed>>
      BY <1>3 DEF Fill
    <2> QED
      BY <1>1, <2>1 DEF SignedInv, Levels
  <1>4. CASE Sign
    <2> DEFINE text == BuildXadesXml(files, key, Index)
    <2>1. /\ form = "xades" /\ level = "none"
          /\ UNCHANGED <<form, key, signer, files, data, edits>>
          /\ xml' = text /\ signed' = text /\ level' = "BES"
          /\ doc' = BuildXadesBasicSignature(files, signer, Index)
      BY <1>4 DEF Sign, Make, Done, job
    <2>2. text = XadesText(files, key, UnsignedOf("BES", Issuer))
      <3>1. Len(files) \in Nat
        BY <1>1
      <3> QED
        BY <3>1, BesTextIs DEF UnsignedOf
    <2> HIDE DEF text
    <2>3. IsXadesSigned'
      BY <2>1, <2>2, DocumentBes DEF IsXadesSigned, XadesDocument, Issuer
    <2> QED
      BY <1>1, <2>1, <2>3 DEF SignedInv, Levels
  <1>5. CASE Stamp
    <2> DEFINE r == PasteTimeStamp(xml, Index)
               d == UpgradeBesToT(doc, TimeStamp(Index))
    <2>1. /\ level = "BES" /\ edits = 0
          /\ UNCHANGED <<form, key, signer, files, data, edits>>
          /\ xml' = (IF r.ok THEN r.xml ELSE xml) /\ signed' = xml'
          /\ doc' = (IF r.ok THEN d ELSE doc)
          /\ level' = IF r.ok THEN "T" ELSE "refused"
      BY <1>5 DEF Stamp, Make, job
    <2>2. IsXadesSigned /\ xml = signed /\ form = "xades" /\ data = files
      BY <1>1, <2>1 DEF Levels
    <2>3. r.ok /\ r.xml = XadesText(files, key, UnsignedOf("T", Issuer))
      <3>1. Len(files) \in Nat
        BY <1>1
      <3>2. r = Done(XadesText(files, key, UnsignedOf("T", Issuer)))
        BY <2>1, <2>2, <3>1, BesToT DEF IsXadesSigned
      <3> HIDE DEF r
      <3> QED
        BY <3>2 DEF Done
    <2>4. d = XadesDocument("T")
      BY <2>1, <2>2, DocumentBes DEF IsXadesSigned
    <2> HIDE DEF r, d
    <2>5. IsXadesSigned'
      BY <2>1, <2>3, <2>4 DEF IsXadesSigned, XadesDocument, Issuer
    <2> QED
      BY <1>1, <2>1, <2>2, <2>3, <2>5 DEF SignedInv, Levels
  <1>6. CASE AddValues
    <2> DEFINE r == PasteValues(xml, Issuer, Index)
               d == UpgradeTToLT(doc, Issuer, OcspResponse(Index))
    <2>1. /\ level = "T" /\ edits = 0
          /\ UNCHANGED <<form, key, signer, files, data, edits>>
          /\ xml' = (IF r.ok THEN r.xml ELSE xml) /\ signed' = xml'
          /\ doc' = (IF r.ok THEN d ELSE doc)
          /\ level' = IF r.ok THEN "LT" ELSE "refused"
      BY <1>6 DEF AddValues, Make, job, Issuer
    <2>2. IsXadesSigned /\ xml = signed /\ form = "xades" /\ data = files
      BY <1>1, <2>1 DEF Levels
    <2>3. r.ok /\ r.xml = XadesText(files, key, UnsignedOf("LT", Issuer))
      <3>1. Len(files) \in Nat
        BY <1>1
      <3>2. r = Done(XadesText(files, key, UnsignedOf("LT", Issuer)))
        BY <2>1, <2>2, <3>1, TToLT DEF IsXadesSigned
      <3> HIDE DEF r
      <3> QED
        BY <3>2 DEF Done
    <2>4. d = XadesDocument("LT")
      BY <2>1, <2>2, DocumentBes DEF IsXadesSigned
    <2> HIDE DEF r, d
    <2>5. IsXadesSigned'
      BY <2>1, <2>3, <2>4 DEF IsXadesSigned, XadesDocument, Issuer
    <2> QED
      BY <1>1, <2>1, <2>2, <2>3, <2>5 DEF SignedInv, Levels
  <1>7. CASE Envelop
    <2>1. /\ form = "enveloping" /\ level = "none"
          /\ UNCHANGED <<form, files, data, edits>> /\ signed' = xml'
          /\ level' \in {"enveloping", "refused"}
      BY <1>7 DEF Envelop, Make, job
    <2> QED
      BY <1>1, <2>1 DEF SignedInv, Levels
  <1>8. CASE Alter \/ LoseElement \/ ChangeData
    <2>1. /\ edits' = edits + 1
          /\ UNCHANGED <<form, key, signer, files, signed, doc, level>>
      BY <1>8 DEF Alter, LoseElement, ChangeData, Edited, job
    <2>2. edits' \in Nat /\ edits' # 0
      BY <1>1, <2>1
    <2>3. IsXadesSigned => IsXadesSigned'
      BY <2>1 DEF IsXadesSigned, XadesDocument, Issuer
    <2>4. data' \in Seq(Files)
      <3>1. CASE Alter \/ LoseElement
        BY <1>1, <3>1 DEF Alter, LoseElement
      <3>2. CASE ChangeData
        <4>1. PICK k \in 1..Len(data) :
                 \/ data' = Seqs!RemoveAt(data, k)
                 \/ \E c \in Contents : data' = [data EXCEPT ![k].content = c]
          BY <3>2 DEF ChangeData
        <4>2. data \in Seq(Files)
          BY <1>1
        <4>3. data[k] \in Files
          BY <4>2
        <4>4. data[k].content \in Contents
          BY <4>3 DEF Files
        <4>5. Seqs!RemoveAt(data, k) \in Seq(Files)
          BY <4>2, <4>4, ChangedData
        <4>6. \A c \in Contents : [data EXCEPT ![k].content = c] \in Seq(Files)
          BY <4>2, ChangedData
        <4> QED
          BY <4>1, <4>5, <4>6
      <3> QED
        BY <1>8, <3>1, <3>2
    <2> QED
      BY <1>1, <2>1, <2>2, <2>3, <2>4 DEF SignedInv
  <1>9. CASE UNCHANGED signingVars
    <2>1. UNCHANGED <<form, key, signer, files, data, signed, doc, xml, level, edits>>
      BY <1>9 DEF signingVars, job
    <2>2. IsXadesSigned => IsXadesSigned'
      BY <2>1 DEF IsXadesSigned, XadesDocument, Issuer
    <2> QED
      BY <1>1, <2>1, <2>2 DEF SignedInv
  <1> QED
    BY <1>2, <1>3, <1>4, <1>5, <1>6, <1>7, <1>8, <1>9 DEF SigningNext

(* so it holds always. *)
LEMMA SignedAlways == SigningSpec => []SignedInv
  BY SignedInit, SignedStep, PTL DEF SigningSpec

(* What it says of a XAdES document that has been signed. *)
LEMMA SignedLevel ==
    ASSUME SignedInv, form = "xades", IsSigned
    PROVE  /\ level \in Levels /\ IsXadesSigned /\ Len(files) \in Nat
           /\ Fits(UnsignedOf(level, Issuer))
           /\ edits = 0 => xml = signed /\ data = files
  <1>1. level \in Levels
    BY DEF SignedInv, IsSigned, Levels
  <1>2. Len(files) \in Nat
    BY DEF SignedInv
  <1> QED
    BY <1>1, <1>2, UnsignedFits DEF SignedInv

(***************************************************************************)
(* The text of a document says what the container modules hold of it, with *)
(* any number of data files and at every level (xades.rs).                 *)
(***************************************************************************)
THEOREM TextsFollow == SigningSpec => []TextFollowsDocument
  <1>1. SignedInv => TextFollowsDocument
    <2> SUFFICES ASSUME SignedInv, form = "xades", IsSigned, edits = 0
                 PROVE  LET refs == Positions(xml, "Reference")
                        IN  /\ IsWellFormed(Parse(xml)) /\ IdsAreUnique(xml)
                            /\ Cardinality(refs) = Len(doc.refs) + 1
                            /\ \A k \in 1..Len(doc.refs) :
                                  /\ xml[Nth(refs, k)].attr = doc.refs[k].uri
                                  /\ xml[Nth(refs, k) + 1].data = doc.refs[k].digest
                            /\ Cardinality(Positions(xml, "DataObjectFormat"))
                                 = doc.formats
                            /\ UnsignedTexts(xml) = doc.unsigned
      BY DEF TextFollowsDocument
    <2> DEFINE u == UnsignedOf(level, Issuer)
               text == XadesText(files, key, u)
               n == Len(files)
               refs == Positions(text, "Reference")
    <2>1. /\ level \in Levels /\ n \in Nat /\ Fits(u) /\ xml = text
          /\ doc = XadesDocument(level)
      BY SignedLevel DEF IsXadesSigned
    <2>2. /\ doc.refs = [k \in 1..n |-> [uri |-> files[k].name, digest |-> files[k].content]]
          /\ doc.formats = n /\ doc.unsigned = UnsignedData(level, Issuer)
      BY <2>1 DEF XadesDocument, BuildXadesBasicSignature
    <2>3. /\ Len(doc.refs) = n
          /\ \A k \in 1..n : doc.refs[k].uri = files[k].name
                             /\ doc.refs[k].digest = files[k].content
      BY <2>1, <2>2
    <2>4. IsWellFormed(Parse(text))
      BY <2>1, XadesParses
    <2>5. IdsAreUnique(text)
      BY <2>1, XadesIds
    <2>6. /\ Cardinality(refs) = n + 1
          /\ \A k \in 1..n :
                /\ text[Nth(refs, k)].attr = files[k].name
                /\ text[Nth(refs, k) + 1].data = files[k].content
      BY <2>1, XadesReferences
    <2>7. Cardinality(Positions(text, "DataObjectFormat")) = n
      BY <2>1, CountsOfXades DEF Count
    <2>8. UnsignedTexts(text) = UnsignedData(level, Issuer)
      BY <2>1, XadesUnsigned
    <2> HIDE DEF text, u, n
    <2> QED
      BY <2>1, <2>2, <2>3, <2>4, <2>5, <2>6, <2>7, <2>8
  <1> QED
    BY <1>1, SignedAlways, PTL

(***************************************************************************)
(* The structs of the reader fit the text at every level just when the     *)
(* container modules say that they do (reader.rs, parse_signature).        *)
(***************************************************************************)
THEOREM StructsAreFilled == SigningSpec => []ReaderFillsStructs
  <1>1. SignedInv => ReaderFillsStructs
    <2> SUFFICES ASSUME SignedInv, form = "xades", IsSigned, edits = 0
                 PROVE  FillsTheStructs(Parse(xml)) <=> ParsesAsSignature(doc)
      BY DEF ReaderFillsStructs
    <2> DEFINE u == UnsignedOf(level, Issuer)
               text == XadesText(files, key, u)
               n == Len(files)
    <2>1. /\ n \in Nat /\ Fits(u) /\ xml = text /\ doc = XadesDocument(level)
      BY SignedLevel DEF IsXadesSigned
    <2>2. doc.formats = n
      BY <2>1 DEF XadesDocument, BuildXadesBasicSignature
    <2>3. Fills(text) <=> n = 1
      BY <2>1, XadesFills
    <2> HIDE DEF text, n
    <2> QED
      BY <2>1, <2>2, <2>3, FillsByText DEF ParsesAsSignature
  <1> QED
    BY <1>1, SignedAlways, PTL

-----------------------------------------------------------------------------
(***************************************************************************)
(* A SignedInfo, where it stands in a text.                                *)
(***************************************************************************)
(* A SignedInfo of two methods and a list of references, where it stands. *)
LEMMA InfoStands ==
    ASSUME NEW text, NEW p, NEW ns, NEW k0, NEW r, NEW n \in Nat, NEW list,
           StandsAt(text, p, Element(Ds("SignedInfo"), NoId, NoAttr, ns,
                                     Then(Methods(k0), r))),
           Listed(r, n, list), \A k \in 1..n : list[k].name[2] = "Reference"
    PROVE  /\ p \in Nat /\ p + 1 \in Elements(text)
           /\ InsideNamed(text, p + 1, "CanonicalizationMethod") = {p + 2}
           /\ InsideNamed(text, p + 1, "SignatureMethod") = {p + 4}
           /\ InsideNamed(text, p + 1, "Reference") = Spaced(p + 5, n)
           /\ text[p + 2].attr = C14nUri /\ text[p + 4].attr = SignatureMethodUri(k0)
           /\ \A k \in 1..n : IsItem(list[k], text[p + 5 + (3 * k - 2)],
                                     text[p + 5 + (3 * k - 1)], text[p + 5 + 3 * k])
  <1> DEFINE a == Element(Ds("CanonicalizationMethod"), NoId, C14nUri, {}, <<>>)
             b == Element(Ds("SignatureMethod"), NoId, SignatureMethodUri(k0), {}, <<>>)
             meth == Methods(k0)
             c == Then(meth, r)
             none == <<>>
             info == Element(Ds("SignedInfo"), NoId, NoAttr, ns, c)
  <1>1. StandsAt(text, p, info)
    OBVIOUS
  <1>2. Nested(none) /\ IsText(none) /\ Len(none) = 0
    BY NestedNone, ShortTexts
  <1>3. /\ a = Element(Ds("CanonicalizationMethod"), NoId, C14nUri, {}, none)
        /\ b = Element(Ds("SignatureMethod"), NoId, SignatureMethodUri(k0), {}, none)
        /\ meth = Then(a, b)
    BY DEF Methods
  <1> HIDE DEF none, a, b, meth, c
  <1>4. Nested(a) /\ Nested(b) /\ Tops(a) = {1} /\ Tops(b) = {1}
    BY <1>2, <1>3, NestedElement, TopsOfElement
  <1>5. /\ Len(a) = 2 /\ a[1] = Open(Ds("CanonicalizationMethod"), NoId, C14nUri, {})
        /\ Len(b) = 2
        /\ b[1] = Open(Ds("SignatureMethod"), NoId, SignatureMethodUri(k0), {})
    <2>1. IsText(none)
      BY <1>2
    <2>2. /\ Len(a) = Len(none) + 2
          /\ a[1] = Open(Ds("CanonicalizationMethod"), NoId, C14nUri, {})
      BY <1>3, <2>1, ElementIs
    <2>3. /\ Len(b) = Len(none) + 2
          /\ b[1] = Open(Ds("SignatureMethod"), NoId, SignatureMethodUri(k0), {})
      BY <1>3, <2>1, ElementIs
    <2> QED
      BY <1>2, <2>2, <2>3
  <1>6. /\ Nested(meth) /\ Tops(meth) = {1} \cup Moved({1}, Len(a))
    BY <1>3, <1>4, NestedJoin, TopsJoin
  <1>7. Len(meth) = 4 /\ meth[1] = a[1] /\ meth[3] = b[1]
    <2>1. IsText(a) /\ IsText(b)
      BY <1>4 DEF Nested
    <2>2. Len(meth) = Len(a) + Len(b)
      BY <1>3, <2>1, Join
    <2>3. 1 \in 1..Len(a) /\ 1 \in 1..Len(b)
      BY <1>5
    <2>4. meth[1] = a[1]
      BY <1>3, <2>1, <2>3, JoinFirst
    <2>5. meth[Len(a) + 1] = b[1]
      BY <1>3, <2>1, <2>3, JoinSecond
    <2> QED
      BY <1>5, <2>2, <2>4, <2>5
  <1>8. Nested(r) /\ Tops(r) = Spaced(0, n) /\ Len(r) = 3 * n
    BY DEF Listed, Flat
  <1>9. Nested(c) /\ Tops(c) = Tops(meth) \cup Moved(Tops(r), Len(meth))
    BY <1>6, <1>8, NestedJoin, TopsJoin DEF c
  <1>10. StandsAt(c, 0, meth) /\ StandsAt(c, Len(meth), r)
    BY <1>6, <1>8, StandsFirst, StandsSecond DEF c
  <1>11. /\ Inside(text, p + 1) = Moved(Tops(c), p + 1) /\ p + 1 \in Elements(text)
         /\ StandsAt(text, p + 1, c)
    <2>1. Nested(c) /\ StandsAt(text, p, Element(Ds("SignedInfo"), NoId, NoAttr, ns, c))
      BY <1>1, <1>9
    <2> HIDE DEF info
    <2> QED
      BY <2>1, InsideStanding
  <1>12. p \in Nat
    BY <1>1 DEF StandsAt
  <1>13. StandsAt(text, (p + 1) + 0, meth) /\ StandsAt(text, (p + 1) + Len(meth), r)
    BY <1>10, <1>11, StandsDeeper
  <1>14. (p + 1) + 0 = p + 1 /\ (p + 1) + Len(meth) = p + 5
    BY <1>7, <1>12
  <1>15. StandsAt(text, p + 1, meth) /\ StandsAt(text, p + 5, r)
    BY <1>13, <1>14
  <1>16. text[p + 2] = a[1] /\ text[p + 4] = b[1]
    <2>1. 1 \in 1..Len(meth) /\ 3 \in 1..Len(meth)
      BY <1>7
    <2>2. text[(p + 1) + 1] = meth[1] /\ text[(p + 1) + 3] = meth[3]
      BY <1>15, <2>1 DEF StandsAt
    <2>3. (p + 1) + 1 = p + 2 /\ (p + 1) + 3 = p + 4
      BY <1>12
    <2> QED
      BY <1>7, <2>2, <2>3
  <1>17. ASSUME NEW k \in 1..n
         PROVE  IsItem(list[k], text[p + 5 + (3 * k - 2)],
                       text[p + 5 + (3 * k - 1)], text[p + 5 + 3 * k])
    <2>1. IsItem(list[k], r[3 * k - 2], r[3 * k - 1], r[3 * k])
      BY DEF Listed
    <2>2. 3 * k - 2 \in 1..Len(r) /\ 3 * k - 1 \in 1..Len(r) /\ 3 * k \in 1..Len(r)
      BY <1>8
    <2>3. /\ text[p + 5 + (3 * k - 2)] = r[3 * k - 2]
          /\ text[p + 5 + (3 * k - 1)] = r[3 * k - 1]
          /\ text[p + 5 + 3 * k] = r[3 * k]
      BY <1>15, <2>2 DEF StandsAt
    <2> QED
      BY <2>1, <2>3
  <1>18. Inside(text, p + 1) = {p + 2, p + 4} \cup Spaced(p + 5, n)
    <2>1. Moved(Spaced(0, n), 4) = Spaced(4 + 0, n)
      BY SpacedMoved
    <2>2. Tops(c) = {1, 3} \cup Spaced(4, n)
      <3>1. Moved({1}, 2) = {3}
        BY DEF Moved
      <3> QED
        BY <1>5, <1>6, <1>7, <1>8, <1>9, <2>1, <3>1
    <2>3. Moved(Spaced(4, n), p + 1) = Spaced((p + 1) + 4, n)
      BY <1>12, SpacedMoved
    <2>4. Moved({1, 3} \cup Spaced(4, n), p + 1)
            = {(p + 1) + 1, (p + 1) + 3} \cup Moved(Spaced(4, n), p + 1)
      BY DEF Moved
    <2>5. (p + 1) + 1 = p + 2 /\ (p + 1) + 3 = p + 4 /\ (p + 1) + 4 = p + 5
      BY <1>12
    <2> QED
      BY <1>11, <2>2, <2>3, <2>4, <2>5
  <1>19. /\ text[p + 2].name[2] = "CanonicalizationMethod" /\ text[p + 2].attr = C14nUri
         /\ text[p + 4].name[2] = "SignatureMethod"
         /\ text[p + 4].attr = SignatureMethodUri(k0)
    BY <1>5, <1>16 DEF Open, Ds
  <1>20. ASSUME NEW j \in Spaced(p + 5, n)
         PROVE  text[j].name[2] = "Reference"
    <2>1. PICK k \in 1..n : j = p + 5 + 3 * k - 2
      BY DEF Spaced
    <2>2. p + 5 + 3 * k - 2 = p + 5 + (3 * k - 2)
      BY <1>12
    <2>3. text[j] = Open(list[k].name, list[k].id, list[k].attr, {})
      BY <1>17, <2>1, <2>2 DEF IsItem
    <2> QED
      BY <2>3 DEF Open
  <1>21. /\ InsideNamed(text, p + 1, "CanonicalizationMethod") = {p + 2}
         /\ InsideNamed(text, p + 1, "SignatureMethod") = {p + 4}
         /\ InsideNamed(text, p + 1, "Reference") = Spaced(p + 5, n)
    BY <1>18, <1>19, <1>20 DEF InsideNamed, Named
  <1> QED
    BY <1>11, <1>12, <1>17, <1>19, <1>21

(* The same, in one word. *)
InfoAt(text, p, k0, n, list) ==
    /\ p \in Nat /\ p + 1 \in Elements(text)
    /\ InsideNamed(text, p + 1, "CanonicalizationMethod") = {p + 2}
    /\ InsideNamed(text, p + 1, "SignatureMethod") = {p + 4}
    /\ InsideNamed(text, p + 1, "Reference") = Spaced(p + 5, n)
    /\ text[p + 2].attr = C14nUri /\ text[p + 4].attr = SignatureMethodUri(k0)
    /\ \A k \in 1..n : IsItem(list[k], text[p + 5 + (3 * k - 2)],
                              text[p + 5 + (3 * k - 1)], text[p + 5 + 3 * k])

(* The first n of list are references. *)
NamedReference(list, n) == \A k \in 1..n : list[k].name[2] = "Reference"

(* That is where its parts are. *)
LEMMA InfoIsAt ==
    ASSUME NEW text, NEW p, NEW ns, NEW k0, NEW r, NEW n \in Nat, NEW list,
           StandsAt(text, p, Element(Ds("SignedInfo"), NoId, NoAttr, ns,
                                     Then(Methods(k0), r))),
           Listed(r, n, list), NamedReference(list, n)
    PROVE  InfoAt(text, p, k0, n, list)
  <1>1. \A k \in 1..n : list[k].name[2] = "Reference"
    BY DEF NamedReference
  <1> HIDE DEF NamedReference
  <1> QED
    BY <1>1, InfoStands DEF InfoAt

-----------------------------------------------------------------------------
(***************************************************************************)
(* What verify_signature makes of such a signature.                        *)
(***************************************************************************)
(* A SignedInfo with the references r that declares ns. *)
InfoOn(k0, ns, r) ==
    Element(Ds("SignedInfo"), NoId, NoAttr, ns, Then(Methods(k0), r))

(* The value of one. *)
ValueOn(vid, k0, info) ==
    SignatureValue(vid, SignWith(k0, CanonicalizeXml(info)[1]))

-----------------------------------------------------------------------------
(***************************************************************************)
(* The signature of a XAdES document verifies as far as its references do. *)
(***************************************************************************)
(* A XAdES document has one signature. *)
LEMMA OneSignature ==
    ASSUME NEW fs, Len(fs) \in Nat, NEW k0, NEW l \in Levels, NEW issuer
    PROVE  Count(XadesText(fs, k0, UnsignedOf(l, issuer)), "Signature") = 1
  <1> DEFINE u == UnsignedOf(l, issuer)
             S == "Signature"
  <1>1. Nested(u) /\ Made(u, UnsignedNames, {})
    BY UnsignedTextIs
  <1> HIDE DEF u
  <1>2. Count(u, S) = 0
    <2>1. \A name \in UnsignedNames : name[2] # S
      BY DEF UnsignedNames, Xa
    <2>2. Positions(u, S) = {}
      BY <1>1, <2>1, PositionsAbsent
    <2>3. IsText(u)
      BY <1>1 DEF Nested
    <2> HIDE DEF S
    <2> QED
      BY <2>2, <2>3, CountIs
  <1>3. Count(RefsOf(fs), S) = 0
    <2>1. Positions(RefsOf(fs), S) = {}
      BY RefsAre
    <2> QED
      BY <2>1, FS_EmptySet DEF Count
  <1>4. Count(Formats(fs), S) = 0
    BY FormatsAre
  <1>5. Count(InfoOf(fs, k0), S)
          = One(Ds("SignedInfo"), S)
              + (One(Ds("CanonicalizationMethod"), S) + One(Ds("SignatureMethod"), S)
                   + Count(RefsOf(fs), S))
    BY InfoCounts
  <1>6. Count(Properties(fs), S)
          = One(Xa("SignedProperties"), S)
              + (One(Xa("SignedSignatureProperties"), S)
                   + (One(Xa("SignedDataObjectProperties"), S)
                        + Count(Formats(fs), S)))
    BY PropertiesCounts
  <1>7. Count(XadesText(fs, k0, u), S)
          = One(ContainerTag, S) + (One(Ds("Signature"), S)
              + (Count(InfoOf(fs, k0), S)
                   + (One(Ds("SignatureValue"), S) + (One(Ds("KeyInfo"), S)
                        + (One(Ds("Object"), S)
                             + (One(Xa("QualifyingProperties"), S)
                                  + (Count(Properties(fs), S) + Count(u, S))))))))
    BY <1>1, XadesCounts
  <1>8. Count(InfoOf(fs, k0), S) = 0 /\ Count(Properties(fs), S) = 0
    BY <1>3, <1>4, <1>5, <1>6 DEF One, Ds, Xa
  <1>9. Count(XadesText(fs, k0, u), S) = 1
    BY <1>2, <1>7, <1>8 DEF One, Ds, Xa, ContainerTag
  <1> QED
    BY <1>9 DEF u

(* Its SignedInfo, cut out for signing, parses. *)
LEMMA InfoParses ==
    ASSUME NEW fs, Len(fs) \in Nat, NEW k0
    PROVE  /\ InfoOf(fs, k0) = InfoOn(k0, AllPrefixes, RefsOf(fs))
           /\ OneRoot(InfoOf(fs, k0), AllPrefixes)
           /\ IsWellFormed(Parse(InfoOf(fs, k0)))
  <1> DEFINE c == Then(Methods(k0), RefsOf(fs))
             info == Element(Ds("SignedInfo"), NoId, NoAttr, AllPrefixes, c)
  <1>1. InfoOf(fs, k0) = info
    BY XadesInfoIs DEF InfoOf
  <1>2. Made(InfoOf(fs, k0), InfoNames, AllPrefixes)
    BY MadeXadesInfo DEF InfoOf
  <1>3. Nested(c)
    <2> DEFINE none == <<>>
    <2>1. Nested(none)
      BY NestedNone
    <2> HIDE DEF none, c
    <2>2. Nested(Then(Methods(k0), RefsOf(fs))) /\ Nested(Qualifying(fs, none))
      BY <2>1, PiecesAreNested
    <2> QED
      BY <2>2 DEF c
  <1>4. Declared(InfoNames, AllPrefixes)
    BY NamesIn DEF Declared
  <1> HIDE DEF c
  <1>5. Made(info, InfoNames, AllPrefixes)
    BY <1>1, <1>2
  <1>6. IsWellFormed(Parse(info)) /\ OneRoot(info, AllPrefixes)
    BY <1>3, <1>4, <1>5, DocumentParses
  <1>7. info = InfoOn(k0, AllPrefixes, RefsOf(fs))
    BY DEF InfoOn, c
  <1> HIDE DEF info
  <1> QED
    BY <1>1, <1>6, <1>7

(* No data file is what digests of elements are made of: the values for     *)
(* file contents are apart from the digests of the model.                   *)
FilesAreNoElements == \A c \in Contents : \A x : c # Sha256(x)

-----------------------------------------------------------------------------
(***************************************************************************)
(* What sign_enveloping returns, when it does.                             *)
(***************************************************************************)
(* The digest of the object, *)
EnvelopeDigest(content, id) == Sha256(CanonicalizeXml(Object(content, id))[1])

(* the SignedInfo with it, *)
EnvelopeInfo(content, id, k0) == EnvelopingInfo(k0, id, EnvelopeDigest(content, id))

(* and the signature. *)
EnvelopeOf(content, id, k0) ==
    EnvelopingXml(content, id, EnvelopeInfo(content, id, k0),
                  SignWith(k0, CanonicalizeXml(EnvelopeInfo(content, id, k0))[1]))

(* That is what sign_enveloping returns (envelope.rs). *)
LEMMA EnvelopeIs ==
    ASSUME NEW names, NEW content, Made(content, names, {}), NoIds(content),
           NEW id, NEW k0, SignEnveloping(content, id, k0).ok
    PROVE  /\ k0.kind = "Rsa" /\ ~ NeedsEscape(id) /\ ~ Unfit(content)
           /\ SignEnveloping(content, id, k0).xml = EnvelopeOf(content, id, k0)
  <1> DEFINE r == SignEnveloping(content, id, k0)
             info == EnvelopingInfo(k0, id, <<>>)
             object == ExtractObject(EnvelopingXml(content, id, info, <<>>), id)
             canonical == CanonicalizeXml(object)
             info2 == EnvelopingInfo(k0, id, Sha256(canonical[1]))
             final == EnvelopingXml(content, id, info2,
                                    SignWith(k0, CanonicalizeXml(info2)[1]))
  <1>1. k0.kind = "Rsa" /\ ~ NeedsEscape(id) /\ ~ Unfit(content)
    BY SignEnvelopingRefuses
  <1>2. r = IF k0.kind # "Rsa" THEN Refused("UnsupportedError")
            ELSE IF object = <<>> THEN Refused("GeneralError")
            ELSE IF canonical = <<>> THEN Refused("CanonicalizationError")
            ELSE Done(final)
    BY DEF SignEnveloping
  <1>3. Made(info, InfoNames, {"ds"})
    BY MadeEnvelopingInfo
  <1>4. r.ok
    OBVIOUS
  <1> HIDE DEF r, info
  <1>5. Extracted(Object(content, id), object)
    BY <1>1, <1>3, ObjectIsExtracted
  <1>6. \A k \in Elements(content) : content[k].name # Ds("Object")
    BY <1>1 DEF Unfit
  <1> HIDE DEF object
  <1>7. object = Object(content, id)
    BY <1>5, <1>6, WholeCut
  <1>8. final = EnvelopeOf(content, id, k0)
    BY <1>7 DEF EnvelopeOf, EnvelopeInfo, EnvelopeDigest
  <1> HIDE DEF canonical, final
  <1>9. r.xml = final
    BY <1>2, <1>4 DEF Done, Refused
  <1> QED
    BY <1>1, <1>8, <1>9 DEF r

-----------------------------------------------------------------------------
(***************************************************************************)
(* Its one reference.                                                      *)
(***************************************************************************)
(* Its reference, as an item. *)
EnvelopeRef(content, id) ==
    [name |-> Ds("Reference"), id |-> NoId, attr |-> <<"#", Written(id)>>,
     data |-> EnvelopeDigest(content, id)]

(* The text of it *)
OneRef(content, id) == Seqs!FlattenSeq([k \in 1..1 |-> Item(EnvelopeRef(content, id))])

(* and the list. *)
OneList(content, id) == [k \in 1..1 |-> EnvelopeRef(content, id)]

(* The SignedInfo is one of a list of one. *)
LEMMA OneRefIs ==
    ASSUME NEW content, NEW id, NEW k0
    PROVE  /\ EnvelopeInfo(content, id, k0) = InfoOn(k0, {"ds"}, OneRef(content, id))
           /\ Listed(OneRef(content, id), 1, OneList(content, id))
  <1> DEFINE x == EnvelopeRef(content, id)
             f == [k \in 1..1 |-> Item(x)]
             list == OneList(content, id)
             refs == <<Item(x)>>
             r == Seqs!FlattenSeq(f)
  <1>1. refs = f
    OBVIOUS
  <1>2. Reference(NoId, <<"#", Written(id)>>, EnvelopeDigest(content, id)) = Item(x)
    BY DEF Reference, Item, EnvelopeRef
  <1>3. EnvelopeInfo(content, id, k0) = SignedInfo({"ds"}, SignatureMethodUri(k0), refs)
    BY <1>2 DEF EnvelopeInfo, EnvelopingInfo
  <1> HIDE DEF refs
  <1>4. EnvelopeInfo(content, id, k0) = InfoOn(k0, {"ds"}, r)
    BY <1>1, <1>3 DEF SignedInfo, InfoOn, Methods, Then
  <1>5. 1 \in Nat /\ f = [k \in 1..1 |-> f[k]]
        /\ \A k \in 1..1 : f[k] = Item(list[k]) /\ list[k] = x /\ f[k] = Item(x)
    BY DEF OneList
  <1>6. IsText(Item(x))
    BY ItemIs
  <1> HIDE DEF f, list, x
  <1>7. PICK g : Builds(g, f, 1)
    BY <1>5, <1>6, FlattenBySteps
  <1>8. Listed(g[1], 1, list)
    BY <1>5, <1>7, ListedBuilds
  <1>9. g[1] = r
    BY <1>7 DEF Builds
  <1> QED
    BY <1>4, <1>8, <1>9 DEF OneRef, f, x, list

(* It parses. *)
LEMMA EnvelopeInfoParses ==
    ASSUME NEW content, NEW id, NEW k0
    PROVE  LET info == EnvelopeInfo(content, id, k0)
           IN  /\ OneRoot(info, {"ds"}) /\ IsWellFormed(Parse(info)) /\ Nested(info)
               /\ Nested(Then(Methods(k0), OneRef(content, id)))
               /\ Made(info, InfoNames, {"ds"}) /\ IdsWithin(info, {NoId})
  <1> DEFINE r == OneRef(content, id)
             c == Then(Methods(k0), r)
             ns == {"ds"}
             info == Element(Ds("SignedInfo"), NoId, NoAttr, ns, c)
             S == {NoId}
             none == <<>>
             a == Element(Ds("CanonicalizationMethod"), NoId, C14nUri, {}, none)
             b == Element(Ds("SignatureMethod"), NoId, SignatureMethodUri(k0), {}, none)
  <1>1. EnvelopeInfo(content, id, k0) = info
    BY OneRefIs DEF InfoOn
  <1>2. Made(EnvelopeInfo(content, id, k0), InfoNames, ns)
    BY MadeEnvelopingInfo DEF EnvelopeInfo
  <1>3. Listed(r, 1, OneList(content, id)) /\ 1 \in Nat
    BY OneRefIs
  <1>4. Nested(none) /\ IsText(none)
    BY NestedNone, ShortTexts
  <1>5. Methods(k0) = Then(a, b)
    BY DEF Methods
  <1>6. none \in {<<>>, <<Text(1)>>}
    OBVIOUS
  <1> HIDE DEF r, none, c
  <1>7. Nested(a) /\ Nested(b)
    BY <1>4, NestedElement
  <1>8. Nested(r)
    BY <1>3 DEF Listed, Flat
  <1> HIDE DEF a, b
  <1>9. Nested(c)
    BY <1>5, <1>7, <1>8, NestedJoin DEF c
  <1>10. IdsWithin(a, S) /\ IdsWithin(b, S)
    BY <1>6, WithinSimple DEF a, b
  <1>11. IdsWithin(r, S)
    <2> DEFINE list == OneList(content, id)
    <2>1. \A j, k \in 1..1 : list[j].id = list[k].id => j = k
      OBVIOUS
    <2>2. \A k \in 1..1 : list[k].id = NoId
      BY DEF OneList, EnvelopeRef
    <2> HIDE DEF list
    <2>3. IdsAreUnique(r) /\ Ids(r) \subseteq {list[k].id : k \in 1..1}
      BY <1>3, <2>1, ListedIds DEF list
    <2>4. Ids(r) \subseteq S
      BY <2>2, <2>3
    <2> QED
      BY <1>8, <2>3, <2>4 DEF IdsWithin, Nested
  <1>12. IdsWithin(c, S)
    <2>1. S \cap S \subseteq {NoId} /\ S \cup S = S
      OBVIOUS
    <2> HIDE DEF S
    <2>2. IdsWithin(Then(a, b), S \cup S)
      BY <1>10, <2>1, WithinJoin
    <2>3. IdsWithin(Methods(k0), S)
      BY <1>5, <2>1, <2>2
    <2>4. IdsWithin(Then(Methods(k0), r), S \cup S)
      BY <1>11, <2>1, <2>3, WithinJoin
    <2> QED
      BY <2>1, <2>4 DEF c
  <1>13. IdsWithin(info, S)
    <2>1. NoId \in S
      OBVIOUS
    <2> HIDE DEF S
    <2> QED
      BY <1>12, <2>1, WithinPlain
  <1>14. Declared(InfoNames, ns)
    <2>1. ASSUME NEW name \in InfoNames
          PROVE  name[1] = "ds"
      BY DEF InfoNames, Ds
    <2>2. "ds" \in {""} \cup ns
      OBVIOUS
    <2> HIDE DEF ns
    <2> QED
      BY <2>1, <2>2 DEF Declared
  <1>15. Made(info, InfoNames, ns)
    BY <1>1, <1>2
  <1> HIDE DEF ns
  <1>16. IsWellFormed(Parse(info)) /\ OneRoot(info, ns)
    BY <1>9, <1>14, <1>15, DocumentParses
  <1>17. Nested(info)
    BY <1>15 DEF Made
  <1> HIDE DEF info, S
  <1> QED
    BY <1>1, <1>9, <1>13, <1>15, <1>16, <1>17 DEF ns, S, c, r

(* The parts of the signature. *)
EnvelopeValue(content, id, k0) ==
    ValueOn(NoId, k0, EnvelopeInfo(content, id, k0))

(* The key, in the signature. *)
RsaKeyInfo == Leaf(Ds("KeyInfo"), <<"RSAKeyValue", 0>>)

(* What is in it. *)
EnvelopeBody(content, id, k0) ==
    Then(EnvelopeInfo(content, id, k0),
         Then(EnvelopeValue(content, id, k0), Then(RsaKeyInfo, Object(content, id))))

(* How it is put together of them. *)
LEMMA EnvelopeTextIs ==
    ASSUME NEW content, Nested(content), NEW id, NEW k0
    PROVE  EnvelopeOf(content, id, k0)
             = Element(Ds("Signature"), NoId, NoAttr, {"ds"},
                       EnvelopeBody(content, id, k0))
  <1> DEFINE info == EnvelopeInfo(content, id, k0)
             val == EnvelopeValue(content, id, k0)
             obj == Object(content, id)
             t == <<Text(SignWith(k0, CanonicalizeXml(info)[1]))>>
             x == <<Text(<<"RSAKeyValue", 0>>)>>
             Wrap(c) == Element(Ds("Signature"), NoId, NoAttr, {"ds"}, c)
  <1>1. val = Element(Ds("SignatureValue"), NoId, NoAttr, {}, t)
    BY DEF EnvelopeValue, ValueOn, SignatureValue
  <1>2. RsaKeyInfo = Element(Ds("KeyInfo"), NoId, NoAttr, {}, x)
    BY DEF RsaKeyInfo, Leaf
  <1>3. EnvelopeOf(content, id, k0) = Wrap(((info \o val) \o RsaKeyInfo) \o obj)
    BY DEF EnvelopeOf, EnvelopingXml, RsaKeyInfo, EnvelopeValue, ValueOn
  <1>4. Nested(t) /\ Nested(x)
    BY NestedText
  <1>5. IsText(info) /\ IsText(val) /\ IsText(RsaKeyInfo) /\ IsText(obj)
    <2>1. Nested(info)
      BY EnvelopeInfoParses
    <2> HIDE DEF t, x, info, val
    <2>2. Nested(val) /\ Nested(RsaKeyInfo) /\ Nested(obj)
      BY <1>1, <1>2, <1>4, NestedElement DEF Object
    <2> QED
      BY <2>1, <2>2 DEF Nested
  <1> HIDE DEF info, val, obj, Wrap
  <1>6. Then(Then(Then(info, val), RsaKeyInfo), obj)
          = Then(info, Then(val, Then(RsaKeyInfo, obj)))
    <2>1. IsText(Then(info, val)) /\ IsText(Then(RsaKeyInfo, obj))
      BY <1>5, Join
    <2>2. Then(Then(Then(info, val), RsaKeyInfo), obj)
            = Then(Then(info, val), Then(RsaKeyInfo, obj))
      BY <1>5, <2>1, Regroup
    <2>3. Then(Then(info, val), Then(RsaKeyInfo, obj))
            = Then(info, Then(val, Then(RsaKeyInfo, obj)))
      BY <1>5, <2>1, Regroup
    <2> QED
      BY <2>2, <2>3
  <1>7. ((info \o val) \o RsaKeyInfo) \o obj = Then(Then(Then(info, val), RsaKeyInfo), obj)
    BY DEF Then
  <1> QED
    BY <1>3, <1>6, <1>7 DEF EnvelopeBody, info, val, obj, Wrap

(* What they are, when the Id need not be escaped. *)
LEMMA EnvelopeParts ==
    ASSUME NEW names, NEW content, Made(content, names, {}), NoIds(content),
           NEW id, NEW k0, ~ NeedsEscape(id), id # NoId
    PROVE  LET S == {NoId, id}
           IN  /\ Written(id) = id
               /\ IdsWithin(EnvelopeValue(content, id, k0), {NoId})
               /\ IdsWithin(RsaKeyInfo, {NoId})
               /\ IdsWithin(Object(content, id), S)
               /\ IsElement(RsaKeyInfo, Ds("KeyInfo"))
               /\ IsElement(Object(content, id), Ds("Object"))
               /\ IsElement(EnvelopeValue(content, id, k0), Ds("SignatureValue"))
  <1> DEFINE S == {NoId, id}
             N == {NoId}
             value == SignWith(k0, CanonicalizeXml(EnvelopeInfo(content, id, k0))[1])
             t1 == <<Text(value)>>
             t2 == <<Text(<<"RSAKeyValue", 0>>)>>
             none == {}
             ns == {"ds"}
  <1>1. Written(id) = id
    BY DEF Written
  <1>2. Nested(content) /\ IsText(content)
    BY DEF Made, Nested
  <1>3. Nested(t1) /\ Nested(t2)
    BY NestedText
  <1>4. t1 \in {<<>>, <<Text(value)>>} /\ t2 \in {<<>>, <<Text(<<"RSAKeyValue", 0>>)>>}
    OBVIOUS
  <1>5. EnvelopeValue(content, id, k0)
          = Element(Ds("SignatureValue"), NoId, NoAttr, none, t1)
    BY DEF EnvelopeValue, ValueOn, SignatureValue
  <1>6. RsaKeyInfo = Element(Ds("KeyInfo"), NoId, NoAttr, none, t2)
    BY DEF RsaKeyInfo, Leaf
  <1>7. Object(content, id) = Element(Ds("Object"), id, NoAttr, ns, content)
    BY <1>1 DEF Object
  <1>8. IdsWithin(content, N)
    <2>1. Ids(content) \subseteq N /\ IdsAreUnique(content)
      BY DEF NoIds, Ids, IdsAreUnique
    <2> QED
      BY <1>2, <2>1 DEF IdsWithin
  <1>9. id \notin N /\ N \subseteq S /\ id \in S
    OBVIOUS
  <1> DEFINE v == <<"RSAKeyValue", 0>>
  <1>10. t2 \in {<<>>, <<Text(v)>>}
    BY <1>4
  <1> HIDE DEF v, ns, none, value, t1, t2, S
  <1>11. IdsWithin(EnvelopeValue(content, id, k0), {NoId})
         /\ IdsWithin(RsaKeyInfo, {NoId})
    BY <1>4, <1>5, <1>6, <1>10, WithinSimple
  <1> HIDE DEF N
  <1>12. IdsWithin(Object(content, id), S)
    BY <1>7, <1>8, <1>9, WithinNamed
  <1>13. /\ IsElement(RsaKeyInfo, Ds("KeyInfo"))
         /\ IsElement(Object(content, id), Ds("Object"))
         /\ IsElement(EnvelopeValue(content, id, k0), Ds("SignatureValue"))
    BY <1>2, <1>3, <1>5, <1>6, <1>7 DEF IsElement
  <1> QED
    BY <1>1, <1>11, <1>12, <1>13 DEF S

(* The signature parses, and no Id is in it twice. *)
LEMMA EnvelopeParses ==
    ASSUME NEW names, NEW content, Made(content, names, {}), NoIds(content),
           ~ Unfit(content), NEW id, NEW k0, ~ NeedsEscape(id), id # NoId
    PROVE  LET text == EnvelopeOf(content, id, k0)
           IN  /\ IsWellFormed(Parse(text)) /\ OneRoot(text, {"ds"})
               /\ IdsAreUnique(text) /\ Nested(text)
               /\ Nested(EnvelopeBody(content, id, k0))
  <1> DEFINE info == EnvelopeInfo(content, id, k0)
             val == EnvelopeValue(content, id, k0)
             obj == Object(content, id)
             ko == Then(RsaKeyInfo, obj)
             vko == Then(val, ko)
             body == Then(info, vko)
             N == {NoId}
             S == {NoId, id}
             ns == {"ds"}
             all == {x \in names : x[1] \in {""} \cup ns}
                      \cup {Ds("Signature"), Ds("SignatureValue"), Ds("KeyInfo"),
                            Ds("Object")}
                      \cup InfoNames
             text == Element(Ds("Signature"), NoId, NoAttr, ns, body)
  <1>1. EnvelopeOf(content, id, k0) = text /\ EnvelopeBody(content, id, k0) = body
    <2>1. Nested(content)
      BY DEF Made
    <2> QED
      BY <2>1, EnvelopeTextIs DEF EnvelopeBody
  <1>2. IdsWithin(info, N) /\ Made(info, InfoNames, ns) /\ Nested(info)
    BY EnvelopeInfoParses
  <1>3. /\ IdsWithin(val, N) /\ IdsWithin(RsaKeyInfo, N) /\ IdsWithin(obj, S)
        /\ IsElement(RsaKeyInfo, Ds("KeyInfo")) /\ IsElement(obj, Ds("Object"))
        /\ IsElement(val, Ds("SignatureValue")) /\ Written(id) = id
    BY EnvelopeParts
  <1>4. IdsWithin(text, S)
    <2>1. N \cap S \subseteq {NoId} /\ N \cup S = S /\ NoId \in S
      OBVIOUS
    <2> HIDE DEF N, S, info, val, obj, ns
    <2>2. IdsWithin(ko, N \cup S)
      BY <1>3, <2>1, WithinJoin
    <2>3. IdsWithin(ko, S)
      BY <2>1, <2>2
    <2> HIDE DEF ko
    <2>4. IdsWithin(vko, N \cup S)
      BY <1>3, <2>1, <2>3, WithinJoin
    <2>5. IdsWithin(vko, S)
      BY <2>1, <2>4
    <2> HIDE DEF vko
    <2>6. IdsWithin(body, N \cup S)
      BY <1>2, <2>1, <2>5, WithinJoin
    <2>7. IdsWithin(body, S)
      BY <2>1, <2>6
    <2> HIDE DEF body
    <2> QED
      BY <2>1, <2>7, WithinPlain
  <1>5. Nested(RsaKeyInfo) /\ Nested(val) /\ Nested(obj)
    BY <1>3, ElementOf
  <1>6. Made(content, all, ns)
    <2>1. \A k \in Elements(content) :
             content[k].name \in names /\ content[k].name[1] \in {""} \cup ns
      BY DEF Unfit, Made
    <2>2. \A k \in Elements(content) : content[k].name \in all /\ content[k].ns \subseteq ns
      BY <2>1 DEF Made
    <2> HIDE DEF all
    <2> QED
      BY <2>2 DEF Made
  <1>7. /\ InfoNames \subseteq all /\ Ds("Signature") \in all
        /\ Ds("SignatureValue") \in all /\ Ds("KeyInfo") \in all /\ Ds("Object") \in all
        /\ ns \subseteq ns /\ {} \subseteq ns
    OBVIOUS
  <1>8. Declared(all, ns)
    <2>1. ASSUME NEW name \in InfoNames
          PROVE  name[1] = "ds"
      BY DEF InfoNames, Ds
    <2>2. \A local : Ds(local)[1] = "ds"
      BY DEF Ds
    <2>3. "ds" \in {""} \cup ns
      OBVIOUS
    <2> HIDE DEF ns
    <2>4. ASSUME NEW name \in all
          PROVE  name[1] \in {""} \cup ns
      <3>1. CASE name \in {Ds("Signature"), Ds("SignatureValue"), Ds("KeyInfo"),
                           Ds("Object")}
        <4>1. name[1] = "ds"
          BY <2>2, <3>1
        <4> QED
          BY <2>3, <4>1
      <3>2. CASE name \in InfoNames
        BY <2>1, <2>3, <3>2
      <3>3. CASE name \in {x \in names : x[1] \in {""} \cup ns}
        BY <3>3
      <3> QED
        BY <3>1, <3>2, <3>3
    <2> QED
      BY <2>4 DEF Declared
  <1>9. Made(val, all, ns) /\ Made(RsaKeyInfo, all, ns) /\ Made(obj, all, ns)
    <2> DEFINE value == SignWith(k0, CanonicalizeXml(info)[1])
               t == <<Text(value)>>
    <2>1. val = Element(Ds("SignatureValue"), NoId, NoAttr, {}, t)
      BY DEF EnvelopeValue, ValueOn, SignatureValue
    <2>2. obj = Element(Ds("Object"), Written(id), NoAttr, ns, content)
      BY DEF Object
    <2> HIDE DEF value, all, ns, val, obj
    <2>3. Made(t, all, ns)
      BY MadeText
    <2> HIDE DEF t
    <2>4. Made(val, all, ns)
      BY <1>7, <2>1, <2>3, MadeElement
    <2>5. Made(obj, all, ns)
      BY <1>6, <1>7, <2>2, MadeElement
    <2>6. Made(RsaKeyInfo, all, ns)
      BY <1>7, MadeLeaf DEF RsaKeyInfo
    <2> QED
      BY <2>4, <2>5, <2>6
  <1> HIDE DEF all, info, val, obj, N, S
  <1>10. Made(info, all, ns)
    BY <1>2, <1>7, MadeMore
  <1> HIDE DEF ns
  <1>11. Made(ko, all, ns)
    BY <1>9, MadeJoin
  <1> HIDE DEF ko
  <1>12. Made(vko, all, ns)
    BY <1>9, <1>11, MadeJoin
  <1> HIDE DEF vko
  <1>13. Made(body, all, ns)
    BY <1>10, <1>12, MadeJoin
  <1>14. Nested(body)
    BY <1>13 DEF Made
  <1> HIDE DEF body
  <1>15. Made(text, all, ns)
    BY <1>7, <1>13, MadeElement
  <1>16. IsWellFormed(Parse(text)) /\ OneRoot(text, ns)
    BY <1>8, <1>14, <1>15, DocumentParses
  <1>17. Nested(text) /\ IdsAreUnique(text)
    BY <1>4, <1>15 DEF Made, IdsWithin
  <1> QED
    BY <1>1, <1>14, <1>16, <1>17 DEF ns

-----------------------------------------------------------------------------
(***************************************************************************)
(* The signature value, where a verifier finds it.                         *)
(***************************************************************************)
(* A XAdES document has a value, in one root. *)
LEMMA ValueStands ==
    ASSUME NEW fs, Len(fs) \in Nat, NEW k0, NEW l \in Levels, NEW issuer
    PROVE  LET text == XadesText(fs, k0, UnsignedOf(l, issuer))
           IN  OneRoot(text, AllPrefixes) /\ \E k : ValueAt(text, k)
  <1> DEFINE u == UnsignedOf(l, issuer)
             text == XadesText(fs, k0, u)
             v == SignWith(k0, CanonicalizeXml(XadesSignedInfo(fs, k0, Index))[1])
             t == <<Text(v)>>
             val == ValueOf(fs, k0)
             q == 2 + Len(InfoOf(fs, k0))
  <1>1. Fits(u) /\ Nested(u)
    BY UnsignedFits DEF Fits
  <1>2. OneRoot(text, AllPrefixes) /\ IsText(text)
    BY <1>1, XadesParses DEF OneRoot
  <1>3. Count(text, "SignatureValue") = 1
    BY CountsOfXades
  <1>4. val = Element(Ds("SignatureValue"), SignatureValueId(Index), NoAttr, {}, t)
    BY DEF ValueOf, SignatureValue
  <1>5. StandsAt(text, q, val)
    BY <1>1, XadesStands
  <1>6. Nested(t) /\ IsText(t) /\ Len(t) = 1 /\ t[1] = Text(v)
    BY NestedText, ShortTexts
  <1>7. IsText(InfoOf(fs, k0))
    BY <1>1, PiecesAreNested DEF Nested
  <1>8. Len(InfoOf(fs, k0)) \in Nat
    BY <1>7, TextIsSequence
  <1> HIDE DEF text, v, t, val
  <1>9. /\ Len(val) = 3 /\ val[2] = Text(v) /\ val[3] = Close(Ds("SignatureValue"))
    <2>1. /\ Len(val) = Len(t) + 2 /\ val[Len(t) + 2] = Close(Ds("SignatureValue"))
          /\ \A k \in 1..Len(t) : val[k + 1] = t[k]
      <3>1. IsText(t)
        BY <1>6
      <3> DEFINE id == SignatureValueId(Index)
                 tag == Ds("SignatureValue")
      <3>2. val = Element(tag, id, NoAttr, {}, t)
        BY <1>4
      <3> HIDE DEF id, tag
      <3>3. /\ Len(val) = Len(t) + 2 /\ val[Len(t) + 2] = Close(tag)
            /\ \A k \in 1..Len(t) : val[k + 1] = t[k]
        BY <3>1, <3>2, ElementIs
      <3> QED
        BY <3>3 DEF tag
    <2> QED
      BY <1>6, <2>1
  <1>10. q \in Nat /\ q + 3 <= Len(text)
    BY <1>5, <1>9 DEF StandsAt
  <1>11. text[q + 2] = Text(v) /\ text[q + 3] = Close(Ds("SignatureValue"))
    <2>1. 2 \in 1..Len(val) /\ 3 \in 1..Len(val)
      BY <1>9
    <2> HIDE DEF q
    <2> QED
      BY <1>5, <1>9, <2>1 DEF StandsAt
  <1>12. 1 < q + 1
    BY <1>8
  <1> HIDE DEF q
  <1>13. q + 1 \in Elements(text) /\ text[q + 1] = ValueTag
    <2>1. StandsAt(text, q, Element(Ds("SignatureValue"), SignatureValueId(Index),
                                    NoAttr, {}, t))
      BY <1>4, <1>5
    <2> QED
      BY <1>6, <2>1, InsideStanding DEF ValueTag
  <1>14. Positions(text, "SignatureValue") = {q + 1}
    <2>1. q + 1 \in Positions(text, "SignatureValue")
      BY <1>13 DEF Positions, ValueTag, Open, Ds
    <2> QED
      BY <1>2, <1>3, <2>1, CountIs
  <1> DEFINE k == q + 1
  <1>15. /\ k \in Nat /\ 1 < k /\ k + 2 <= Len(text) /\ k + 1 = q + 2 /\ k + 2 = q + 3
    <2>1. Len(text) \in Nat
      BY <1>2, TextIsSequence
    <2> QED
      BY <1>10, <1>12, <2>1
  <1>16. \A j \in Elements(text) : text[j].name[2] = "SignatureValue" => k <= j
    <2> SUFFICES ASSUME NEW j \in Elements(text), text[j].name[2] = "SignatureValue"
                 PROVE  k <= j
      OBVIOUS
    <2>1. j \in Positions(text, "SignatureValue")
      BY DEF Positions
    <2>2. j = k
      BY <1>14, <2>1
    <2> QED
      BY <1>15, <2>2
  <1>17. ValueAt(text, k)
    <2>1. Text(v).kind = "text" /\ Text(v) = Text(Text(v).data)
      BY DEF Text
    <2> HIDE DEF k
    <2> QED
      BY <1>11, <1>13, <1>15, <1>16, <2>1 DEF k, ValueAt
  <1> QED
    BY <1>2, <1>17 DEF text, u

(* What is stamped is the canonical form of the first value there is. *)
LEMMA ValueIsStamped ==
    ASSUME NEW text, OneRoot(text, AllPrefixes), NEW k, ValueAt(text, k)
    PROVE  LET j == First(Positions(text, "SignatureValue"))
           IN  Canonical(Parse(text), j)
                 = CanonicalSignatureValue(SignatureValueId(Index), text[j + 1].data)
  <1> DEFINE S == Positions(text, "SignatureValue")
             v == text[k + 1].data
  <1>1. k \in S
    <2>1. /\ k \in Nat /\ 1 < k /\ k + 2 <= Len(text) /\ text[k] = ValueTag
          /\ Len(text) \in Nat
      BY TextIsSequence DEF ValueAt, OneRoot
    <2>2. text[k].kind = "open" /\ text[k].name[2] = "SignatureValue"
      BY <2>1 DEF ValueTag, Open, Ds
    <2>3. k \in 1..Len(text)
      BY <2>1
    <2>4. k \in Elements(text)
      BY <2>2, <2>3, ElementsOf
    <2> QED
      BY <2>2, <2>4 DEF Positions
  <1>2. First(S) = k
    <2>1. S \subseteq Nat /\ S # {}
      BY <1>1, ElementsOf DEF Positions
    <2>2. First(S) \in S /\ \A i \in S : First(S) <= i
      BY <2>1, FirstIs
    <2>3. k <= First(S) /\ First(S) <= k
      BY <1>1, <2>2 DEF ValueAt, Positions
    <2>4. k \in Nat /\ First(S) \in Nat
      BY <1>1, <2>1, <2>2
    <2> HIDE DEF S
    <2> QED
      BY <2>3, <2>4
  <1>3. Canonical(Parse(text), k) = ValueForm(SignatureValueId(Index), v)
    BY ValueIsCanonical
  <1>4. CanonicalSignatureValue(SignatureValueId(Index), v)
          = ValueForm(SignatureValueId(Index), v)
    BY ValueStandsAlone
  <1> QED
    BY <1>2, <1>3, <1>4

-----------------------------------------------------------------------------
(***************************************************************************)
(* The invariant for enveloping signatures: a payload is nested whatever   *)
(* it is filled with, and the outcome of Envelop is kept.                  *)
(***************************************************************************)
(* The outcome of sign_enveloping. *)
Enveloped == SignEnveloping(payload, objectId, key)

(* The invariant. *)
EnvelopedInv ==
    /\ SignedInv
    /\ form = "enveloping" => objectId \in ObjectIds
    /\ Made(payload, PayloadNames, {}) /\ NoIds(payload)
    /\ level = "enveloping" => Enveloped.ok /\ signed = Enveloped.xml
    /\ level = "refused" => ~ Enveloped.ok

(* It holds at first, *)
LEMMA EnvelopedInit == SigningInit => EnvelopedInv
  <1> SUFFICES ASSUME SigningInit PROVE EnvelopedInv
    OBVIOUS
  <1>1. payload = <<>> /\ level = "none" /\ (form = "enveloping" => objectId \in ObjectIds)
    BY DEF SigningInit
  <1>2. Made(<<>>, PayloadNames, {})
    BY MadeNone
  <1>3. NoIds(<<>>)
    BY ShortTexts DEF NoIds, Elements
  <1> QED
    BY <1>1, <1>2, <1>3, SignedInit DEF EnvelopedInv

(* it is kept by every step, *)
LEMMA EnvelopedStep == EnvelopedInv /\ [SigningNext]_signingVars => EnvelopedInv'
  <1> SUFFICES ASSUME EnvelopedInv, [SigningNext]_signingVars
               PROVE  EnvelopedInv'
    OBVIOUS
  <1>1. /\ SignedInv /\ (form = "enveloping" => objectId \in ObjectIds)
        /\ Made(payload, PayloadNames, {}) /\ NoIds(payload)
        /\ level = "enveloping" => Enveloped.ok /\ signed = Enveloped.xml
        /\ level = "refused" => ~ Enveloped.ok
    BY DEF EnvelopedInv
  <1>2. SignedInv'
    BY <1>1, SignedStep
  <1>3. ASSUME NEW file \in Files, AddFile(file)
        PROVE  EnvelopedInv'
    <2>1. level' = "none" /\ UNCHANGED <<form, objectId, payload>>
      BY <1>3 DEF AddFile
    <2> QED
      BY <1>1, <1>2, <2>1 DEF EnvelopedInv, Made, NoIds
  <1>4. ASSUME NEW name \in PayloadNames, Fill(name)
        PROVE  EnvelopedInv'
    <2> DEFINE x == <<"field", Len(payload)>>
    <2>1. /\ level' = "none" /\ UNCHANGED <<form, objectId>>
          /\ \/ payload' = Then(payload, Leaf(name, x))
             \/ payload' = Element(name, NoId, NoAttr, {}, payload)
      BY <1>4 DEF Fill, Then
    <2>2. /\ Made(Then(payload, Leaf(name, x)), PayloadNames, {})
          /\ NoIds(Then(payload, Leaf(name, x)))
          /\ Made(Element(name, NoId, NoAttr, {}, payload), PayloadNames, {})
          /\ NoIds(Element(name, NoId, NoAttr, {}, payload))
      BY <1>1, FilledPayload
    <2>3. \A s : Made(s, PayloadNames, {}) /\ NoIds(s) /\ payload' = s
                   => Made(payload', PayloadNames, {}) /\ NoIds(payload')
      OBVIOUS
    <2>4. Made(payload', PayloadNames, {}) /\ NoIds(payload')
      BY <2>1, <2>2, <2>3, Zenon
    <2> QED
      BY <1>1, <1>2, <2>1, <2>4 DEF EnvelopedInv
  <1>5. CASE Sign \/ Stamp \/ AddValues
    <2>1. form = "xades" /\ UNCHANGED <<form, objectId, payload>>
      BY <1>1, <1>5 DEF Sign, Stamp, AddValues, Make, job, SignedInv, Levels
    <2>2. level' \notin {"enveloping", "refused"}
      BY <1>2, <2>1 DEF SignedInv
    <2> QED
      BY <1>1, <1>2, <2>1, <2>2 DEF EnvelopedInv, Made, NoIds
  <1>6. CASE Envelop
    <2> DEFINE r == Enveloped
    <2>1. /\ level' = IF r.ok THEN "enveloping" ELSE "refused"
          /\ r.ok => signed' = r.xml
          /\ UNCHANGED <<form, key, objectId, payload>>
      BY <1>6 DEF Envelop, Make, job, Enveloped
    <2>2. r.ok \in BOOLEAN
      BY <1>1, SignEnvelopingRefuses DEF Enveloped
    <2>3. Enveloped' = r
      BY <2>1 DEF Enveloped
    <2> HIDE DEF r
    <2> QED
      BY <1>1, <1>2, <2>1, <2>2, <2>3 DEF EnvelopedInv, Made, NoIds
  <1>7. CASE Alter \/ LoseElement \/ ChangeData \/ UNCHANGED signingVars
    <2>1. UNCHANGED <<form, key, objectId, payload, level, signed>>
      BY <1>7 DEF Alter, LoseElement, ChangeData, Edited, job, signingVars
    <2>2. Enveloped' = Enveloped
      BY <2>1 DEF Enveloped
    <2> QED
      BY <1>1, <1>2, <2>1, <2>2 DEF EnvelopedInv, Made, NoIds
  <1> QED
    BY <1>3, <1>4, <1>5, <1>6, <1>7 DEF SigningNext

(* so it holds always. *)
LEMMA EnvelopedAlways == SigningSpec => []EnvelopedInv
  BY EnvelopedInit, EnvelopedStep, PTL DEF SigningSpec

(***************************************************************************)
(* What the TSA is given to stamp is what a verifier finds in the          *)
(* document, with whatever files and certificates it was made.             *)
(***************************************************************************)
THEOREM StampsCover == SigningSpec => []StampCoversValue
  <1>1. SignedInv => StampCoversValue
    <2> SUFFICES ASSUME SignedInv, form = "xades", IsSigned, edits = 0
                 PROVE  LET k == First(Positions(xml, "SignatureValue"))
                        IN  Canonical(Parse(xml), k)
                              = CanonicalSignatureValue(SignatureValueId(Index),
                                                        xml[k + 1].data)
      BY DEF StampCoversValue, Positions
    <2> DEFINE text == XadesText(files, key, UnsignedOf(level, Issuer))
    <2>1. level \in Levels /\ Len(files) \in Nat /\ xml = text
      BY SignedLevel DEF IsXadesSigned
    <2>2. OneRoot(text, AllPrefixes) /\ \E k : ValueAt(text, k)
      BY <2>1, ValueStands
    <2> HIDE DEF text
    <2> QED
      BY <2>1, <2>2, ValueIsStamped
  <1> QED
    BY <1>1, SignedAlways, PTL

(***************************************************************************)
(* sign_enveloping refuses what it cannot sign, and nothing else, whatever *)
(* the payload: what extract_object cuts out of the draft is the object as *)
(* it will stand in the document, or it does not parse.                    *)
(***************************************************************************)
THEOREM RefusalsAreKnown == SigningSpec => []EnvelopeRefusals
  <1>1. EnvelopedInv => EnvelopeRefusals
    <2> SUFFICES ASSUME EnvelopedInv, level \in {"enveloping", "refused"}
                 PROVE  level = "refused" <=> \/ key.kind # "Rsa" \/ NeedsEscape(objectId)
                                              \/ Unfit(payload)
      BY DEF EnvelopeRefusals, Unfit
    <2>1. level = "refused" <=> ~ Enveloped.ok
      BY DEF EnvelopedInv
    <2>2. Made(payload, PayloadNames, {}) /\ NoIds(payload)
      BY DEF EnvelopedInv
    <2> QED
      BY <2>1, <2>2, SignEnvelopingRefuses DEF Enveloped
  <1> QED
    BY <1>1, EnvelopedAlways, PTL

-----------------------------------------------------------------------------
(***************************************************************************)
(* Documents are regular as they are made.                                 *)
(***************************************************************************)
(* Nor are the other values of the model. *)
LEMMA ConstantsAreNoValues ==
    /\ NoValue(<<"certificate", Index>>) /\ NoValue(<<"signing certificate", Index>>)
    /\ NoValue(TimeStamp(Index)) /\ NoValue(OcspResponse(Index))
    /\ \A x : NoValue(Sha256(x))
    /\ \A x : NoValue(IssuerCertificate(x, Index))
  <1>1. NoValue(<<"certificate", Index>>) /\ NoValue(<<"signing certificate", Index>>)
    BY TaggedIsNoValue
  <1>2. NoValue(TimeStamp(Index)) /\ NoValue(OcspResponse(Index))
    BY TaggedIsNoValue DEF TimeStamp, OcspResponse
  <1>3. \A x : NoValue(Sha256(x))
    BY TaggedIsNoValue DEF Sha256
  <1>4. \A x : NoValue(IssuerCertificate(x, Index))
    <2>1. NoValue(<<"issuer certificate", Index>>)
          /\ NoValue(<<"signer certificate", Index>>)
      BY TaggedIsNoValue
    <2> QED
      BY <2>1 DEF IssuerCertificate
  <1> QED
    BY <1>1, <1>2, <1>3, <1>4

(* What the names of the documents declare. *)
LEMMA PrefixesAre ==
    /\ PrefixesOf(ContainerTag) = AllPrefixes
    /\ PrefixesOf(Ds("SignedInfo")) = AllPrefixes
    /\ PrefixesOf(Xa("SignedProperties")) = AllPrefixes
    /\ \A name : name[2] \notin {"XAdESSignatures", "SignedInfo", "SignedProperties"}
         => PrefixesOf(name) = {}
  <1>1. /\ PrefixesOf(ContainerTag) = AllPrefixes
        /\ PrefixesOf(Ds("SignedInfo")) = AllPrefixes
        /\ PrefixesOf(Xa("SignedProperties")) = AllPrefixes
    BY DEF PrefixesOf
  <1>2. /\ ContainerTag[2] = "XAdESSignatures" /\ Ds("SignedInfo")[2] = "SignedInfo"
        /\ Xa("SignedProperties")[2] = "SignedProperties"
    BY DEF ContainerTag, Ds, Xa
  <1>3. ASSUME NEW name,
               name[2] \notin {"XAdESSignatures", "SignedInfo", "SignedProperties"}
        PROVE  PrefixesOf(name) = {}
    <2>1. name \notin {ContainerTag, Ds("SignedInfo"), Xa("SignedProperties")}
      BY <1>2, <1>3
    <2> QED
      BY <2>1 DEF PrefixesOf
  <1> QED
    BY <1>1, <1>3

(* A SignedInfo is regular, *)
LEMMA RegularInfo ==
    ASSUME TextsAreNoValues, NEW fs \in Seq(Files), NEW k0, NEW v
    PROVE  Regular(InfoOf(fs, k0), v)
  <1> DEFINE c1 == Ds("CanonicalizationMethod")
             c2 == Ds("SignatureMethod")
             n == Len(fs) + 1
             f == [k \in 1..n |-> Item(XadesRef(fs, k))]
             info == Ds("SignedInfo")
             all == Then(Methods(k0), RefsOf(fs))
  <1>1. PrefixesOf(c1) = {} /\ PrefixesOf(c2) = {} /\ PrefixesOf(Ds("Reference")) = {}
    <2>1. c1[2] = "CanonicalizationMethod" /\ c2[2] = "SignatureMethod"
          /\ Ds("Reference")[2] = "Reference"
      BY DEF Ds
    <2> HIDE DEF c1, c2
    <2> QED
      BY <2>1, PrefixesAre
  <1>2. Regular(Methods(k0), v)
    <2> DEFINE a == Element(c1, NoId, C14nUri, {}, <<>>)
               b == Element(c2, NoId, SignatureMethodUri(k0), {}, <<>>)
    <2>1. NoValue(<<"certificate", Index>>)
      BY ConstantsAreNoValues
    <2>2. Regular(a, v) /\ Regular(b, v)
      <3> HIDE DEF c1, c2
      <3> QED
        BY <1>1, <2>1, RegularLeaf
    <2>3. Methods(k0) = Then(a, b)
      BY DEF Methods
    <2> HIDE DEF a, b
    <2> QED
      BY <2>2, <2>3, RegularJoin
  <1>3. n \in Nat
    OBVIOUS
  <1>4. ASSUME NEW k \in 1..n
        PROVE  Regular(f[k], v)
    <2> DEFINE x == XadesRef(fs, k)
    <2>1. x.name = Ds("Reference")
      BY DEF XadesRef
    <2>2. NoValue(x.data)
      <3>1. CASE k <= Len(fs)
        <4>1. k \in 1..Len(fs)
          BY <3>1
        <4>2. fs[k] \in Files
          BY <4>1
        <4>3. fs[k].content \in Contents
          BY <4>2 DEF Files
        <4>4. x.data = fs[k].content
          BY <3>1 DEF XadesRef
        <4> QED
          BY <4>3, <4>4 DEF TextsAreNoValues
      <3>2. CASE ~ (k <= Len(fs))
        <4>1. x.data = SignedPropertiesDigest(fs, Index)
          BY <3>2 DEF XadesRef
        <4>2. \A y : NoValue(Sha256(y))
          BY ConstantsAreNoValues
        <4> QED
          BY <4>1, <4>2 DEF SignedPropertiesDigest
      <3> QED
        BY <3>1, <3>2
    <2> HIDE DEF x
    <2>3. Regular(Element(x.name, x.id, x.attr, {}, <<Text(x.data)>>), v)
      <3> DEFINE y == x.data
                 name == x.name
      <3>1. PrefixesOf(name) = {} /\ NoValue(y)
        BY <1>1, <2>1, <2>2
      <3> HIDE DEF y, name
      <3>2. Regular(Element(name, x.id, x.attr, {}, <<Text(y)>>), v)
        BY <3>1, RegularLeaf
      <3> QED
        BY <3>2 DEF y, name
    <2>4. f[k] = Item(x)
      BY DEF x
    <2> QED
      BY <2>3, <2>4 DEF Item
  <1>5. f = [k \in 1..n |-> f[k]]
    OBVIOUS
  <1>6. RefsOf(fs) = Seqs!FlattenSeq(f)
    BY DEF RefsOf
  <1> HIDE DEF f, n, c1, c2
  <1>7. Regular(RefsOf(fs), v)
    BY <1>3, <1>4, <1>5, <1>6, RegularFlatten
  <1>8. Regular(all, v)
    BY <1>2, <1>7, RegularJoin
  <1>9. InfoOf(fs, k0) = Element(info, NoId, NoAttr, AllPrefixes, all)
    BY XadesInfoIs DEF InfoOf
  <1>10. PrefixesOf(info) = AllPrefixes
    BY PrefixesAre
  <1> HIDE DEF all, info
  <1> QED
    BY <1>8, <1>9, <1>10, RegularElement

(* and so are the SignedProperties, *)
LEMMA RegularProperties ==
    ASSUME NEW fs, Len(fs) \in Nat, NEW v
    PROVE  Regular(Properties(fs), v)
  <1> DEFINE n == Len(fs)
             f == [k \in 1..n |-> Format(k)]
             data1 == Xa("SignedDataObjectProperties")
             one == Xa("DataObjectFormat")
             sp == Xa("SignedProperties")
             ssp == Xa("SignedSignatureProperties")
             all == Then(SignatureProperties, DataProperties(fs))
             r == Formats(fs)
  <1>1. PrefixesOf(data1) = {} /\ PrefixesOf(one) = {} /\ PrefixesOf(ssp) = {}
    <2>1. data1[2] = "SignedDataObjectProperties" /\ one[2] = "DataObjectFormat"
          /\ ssp[2] = "SignedSignatureProperties"
      BY DEF Xa
    <2> HIDE DEF data1, one, ssp
    <2> QED
      BY <2>1, PrefixesAre
  <1>2. NoValue(<<"signing certificate", Index>>)
    BY ConstantsAreNoValues
  <1>3. ASSUME NEW k \in 1..n
        PROVE  Regular(f[k], v)
    <2>1. f[k] = Element(one, NoId, <<"#", RefId(Index, k)>>, {}, <<>>)
      BY DEF Format
    <2> HIDE DEF one, f
    <2>2. Regular(Element(one, NoId, <<"#", RefId(Index, k)>>, {}, <<>>), v)
      BY <1>1, <1>2, RegularLeaf
    <2> QED
      BY <2>1, <2>2
  <1>4. f = [k \in 1..n |-> f[k]]
    OBVIOUS
  <1>5. r = Seqs!FlattenSeq(f)
    BY DEF Formats
  <1>6. DataProperties(fs) = Element(data1, NoId, NoAttr, {}, r)
    BY DEF DataProperties
  <1>7. Properties(fs) = Element(sp, SignedPropertiesId(Index), NoAttr, AllPrefixes, all)
    BY PiecesAre
  <1>8. PrefixesOf(sp) = AllPrefixes
    BY PrefixesAre
  <1>9. Regular(SignatureProperties, v)
    <2>1. SignatureProperties
            = Element(ssp, NoId, NoAttr, {}, <<Text(<<"signing certificate", Index>>)>>)
      BY DEF SignatureProperties, Leaf
    <2> HIDE DEF ssp
    <2> QED
      BY <1>1, <1>2, <2>1, RegularLeaf
  <1> HIDE DEF f, n, data1, one, sp, ssp, r
  <1>10. Regular(r, v)
    BY <1>3, <1>4, <1>5, RegularFlatten DEF n
  <1>11. Regular(DataProperties(fs), v)
    BY <1>1, <1>6, <1>10, RegularElement
  <1>12. Regular(all, v)
    BY <1>9, <1>11, RegularJoin
  <1> HIDE DEF all
  <1> QED
    BY <1>7, <1>8, <1>12, RegularElement

(* the unsigned text *)
LEMMA RegularUnsigned ==
    ASSUME NEW l \in Levels, NEW issuer, NoValue(issuer), NEW v
    PROVE  Regular(UnsignedOf(l, issuer), v)
  <1> DEFINE up == Xa("UnsignedProperties")
             usp == Xa("UnsignedSignatureProperties")
             st == Xa("SignatureTimeStamp")
             cv == Xa("CertificateValues")
             rv == Xa("RevocationValues")
             parts == PartsOf(l, issuer)
  <1>1. /\ PrefixesOf(up) = {} /\ PrefixesOf(usp) = {} /\ PrefixesOf(st) = {}
        /\ PrefixesOf(cv) = {} /\ PrefixesOf(rv) = {}
    <2>1. /\ up[2] = "UnsignedProperties" /\ usp[2] = "UnsignedSignatureProperties"
          /\ st[2] = "SignatureTimeStamp" /\ cv[2] = "CertificateValues"
          /\ rv[2] = "RevocationValues"
      BY DEF Xa
    <2> HIDE DEF up, usp, st, cv, rv
    <2> QED
      BY <2>1, PrefixesAre
  <1>2. NoValue(TimeStamp(Index)) /\ NoValue(OcspResponse(Index))
    BY ConstantsAreNoValues
  <1>3. /\ StampPart = Element(st, <<"S-T0", Index>>, NoAttr, {},
                               <<Text(TimeStamp(Index))>>)
        /\ CertificatePart(issuer) = Element(cv, <<"S-CA-CERT", Index>>, NoAttr, {},
                                             <<Text(issuer)>>)
        /\ RevocationPart = Element(rv, <<"N", Index>>, NoAttr, {},
                                    <<Text(OcspResponse(Index))>>)
    BY DEF StampPart, CertificatePart, RevocationPart
  <1>4. UnsignedOf(l, issuer)
          = IF l = "BES" THEN <<>>
            ELSE Element(up, NoId, NoAttr, {}, Element(usp, NoId, NoAttr, {}, parts))
    BY UnsignedIs DEF UnsignedBlock
  <1> HIDE DEF up, usp, st, cv, rv
  <1>5. Regular(StampPart, v) /\ Regular(CertificatePart(issuer), v)
        /\ Regular(RevocationPart, v)
    BY <1>1, <1>2, <1>3, RegularLeaf
  <1>6. Regular(parts, v)
    BY <1>5, RegularJoin DEF PartsOf
  <1> HIDE DEF parts
  <1>7. Regular(Element(up, NoId, NoAttr, {}, Element(usp, NoId, NoAttr, {}, parts)), v)
    BY <1>1, <1>6, RegularElement
  <1> QED
    BY <1>4, <1>7, RegularNone

(* and the whole document. *)
LEMMA RegularXades ==
    ASSUME TextsAreNoValues, NEW fs \in Seq(Files), NEW k0, NEW l \in Levels,
           NEW issuer, NoValue(issuer)
    PROVE  Regular(XadesText(fs, k0, UnsignedOf(l, issuer)), ValueMade(fs, k0))
  <1> DEFINE v == ValueMade(fs, k0)
             u == UnsignedOf(l, issuer)
             sig == Ds("Signature")
             val == Ds("SignatureValue")
             ki == Ds("KeyInfo")
             obj == Ds("Object")
             qp == Xa("QualifyingProperties")
  <1>1. /\ PrefixesOf(sig) = {} /\ PrefixesOf(val) = {} /\ PrefixesOf(ki) = {}
        /\ PrefixesOf(obj) = {} /\ PrefixesOf(qp) = {}
    <2>1. /\ sig[2] = "Signature" /\ val[2] = "SignatureValue" /\ ki[2] = "KeyInfo"
          /\ obj[2] = "Object" /\ qp[2] = "QualifyingProperties"
      BY DEF Ds, Xa
    <2> HIDE DEF sig, val, ki, obj, qp
    <2> QED
      BY <2>1, PrefixesAre
  <1>2. Len(fs) \in Nat
    OBVIOUS
  <1>3. Regular(u, v) /\ Regular(InfoOf(fs, k0), v) /\ Regular(Properties(fs), v)
    BY <1>2, RegularUnsigned, RegularInfo, RegularProperties
  <1>4. ValueOf(fs, k0)
          = Element(val, SignatureValueId(Index), NoAttr, {}, <<Text(v)>>)
    BY DEF ValueOf, SignatureValue, ValueMade
  <1>5. KeyInfo = Element(ki, NoId, NoAttr, {}, <<Text(<<"certificate", Index>>)>>)
    BY DEF KeyInfo, Leaf
  <1>6. /\ ObjectOf(fs, u) = Element(obj, NoId, NoAttr, {}, Qualifying(fs, u))
        /\ SignatureText(fs, k0, u)
             = Element(sig, SignatureId(Index), NoAttr, {}, Body(fs, k0, u))
        /\ Qualifying(fs, u) = Element(qp, NoId, <<"#", SignatureId(Index)>>, {},
                                       Then(Properties(fs), u))
        /\ Body(fs, k0, u) = Then(InfoOf(fs, k0), Then(ValueOf(fs, k0),
                                  Then(KeyInfo, ObjectOf(fs, u))))
        /\ XadesText(fs, k0, u) = Element(ContainerTag, NoId, NoAttr, AllPrefixes,
                                          SignatureText(fs, k0, u))
    BY PiecesAre DEF ObjectOf, SignatureText
  <1>7. PrefixesOf(ContainerTag) = AllPrefixes
    BY PrefixesAre
  <1>8. NoValue(<<"certificate", Index>>)
    BY ConstantsAreNoValues
  <1> HIDE DEF v, u, sig, val, ki, obj, qp
  <1>9. Regular(ValueOf(fs, k0), v) /\ Regular(KeyInfo, v)
    <2> DEFINE x == <<"certificate", Index>>
               id == SignatureValueId(Index)
    <2>1. NoValue(x) /\ KeyInfo = Element(ki, NoId, NoAttr, {}, <<Text(x)>>)
      BY <1>5, <1>8
    <2>2. ValueOf(fs, k0) = Element(val, id, NoAttr, {}, <<Text(v)>>)
      BY <1>4
    <2> HIDE DEF x, id
    <2>3. Regular(Element(ki, NoId, NoAttr, {}, <<Text(x)>>), v)
      BY <1>1, <2>1, RegularLeaf
    <2>4. Regular(Element(val, id, NoAttr, {}, <<Text(v)>>), v)
      BY <1>1, RegularLeaf
    <2> QED
      BY <2>1, <2>2, <2>3, <2>4
  <1>10. Regular(Then(Properties(fs), u), v)
    BY <1>3, RegularJoin
  <1>11. Regular(Qualifying(fs, u), v)
    BY <1>1, <1>6, <1>10, RegularElement
  <1>12. Regular(ObjectOf(fs, u), v)
    BY <1>1, <1>6, <1>11, RegularElement
  <1>13. Regular(Body(fs, k0, u), v)
    BY <1>3, <1>6, <1>9, <1>12, RegularJoin
  <1>14. Regular(SignatureText(fs, k0, u), v)
    BY <1>1, <1>6, <1>13, RegularElement
  <1>15. Regular(XadesText(fs, k0, u), v)
    BY <1>6, <1>7, <1>14, RegularElement
  <1> QED
    BY <1>15 DEF v, u

-----------------------------------------------------------------------------
(***************************************************************************)
(* The invariant that a document is regular.                               *)
(***************************************************************************)
(* The text that is on its way is regular. *)
EditedInv ==
    /\ SignedInv
    /\ level \in Levels => Regular(xml, ValueMade(files, key))

(* It is so at first, *)
LEMMA EditedInit == SigningInit => EditedInv
  BY SignedInit DEF EditedInv, SigningInit, Levels

(* and after every step. *)
LEMMA EditedStep ==
    ASSUME TextsAreNoValues
    PROVE  EditedInv /\ [SigningNext]_signingVars => EditedInv'
  <1> SUFFICES ASSUME EditedInv, [SigningNext]_signingVars
               PROVE  EditedInv'
    OBVIOUS
  <1> DEFINE R == Regular(xml, ValueMade(files, key))
  <1>1. SignedInv /\ SignedInv'
    BY SignedStep DEF EditedInv
  <1>2. SUFFICES (level \in Levels => R)'
    BY <1>1 DEF EditedInv
  <1>3. level \in Levels => R
    BY DEF EditedInv
  <1>4. ASSUME level' \in Levels, xml' = signed'
        PROVE  R'
    <2>1. signed' = XadesText(files', key', UnsignedOf(level', Issuer'))
      BY <1>1, <1>4 DEF SignedInv, IsXadesSigned
    <2>2. files' \in Seq(Files)
      BY <1>1 DEF SignedInv
    <2>3. NoValue(Issuer')
      BY ConstantsAreNoValues DEF Issuer
    <2>4. Regular(XadesText(files', key', UnsignedOf(level', Issuer')),
                  ValueMade(files', key'))
      BY <1>4, <2>2, <2>3, RegularXades
    <2> QED
      BY <1>4, <2>1, <2>4
  <1>5. CASE \/ \E file \in Files : AddFile(file)
             \/ \E name \in PayloadNames : Fill(name)
    <2>1. level' = "none"
      BY <1>5 DEF AddFile, Fill
    <2> QED
      BY <2>1 DEF Levels
  <1>6. CASE Sign \/ Stamp \/ AddValues \/ Envelop
    <2>1. xml' = signed'
      BY <1>6 DEF Sign, Stamp, AddValues, Envelop, Make
    <2> QED
      BY <1>4, <2>1
  <1>7. CASE Alter \/ LoseElement \/ ChangeData
    <2>1. UNCHANGED <<files, key, level>>
      BY <1>7 DEF Alter, LoseElement, ChangeData, Edited, job
    <2> SUFFICES ASSUME level \in Levels
                 PROVE  Regular(xml', ValueMade(files, key))
      BY <2>1
    <2> DEFINE v == ValueMade(files, key)
    <2>2. Regular(xml, v)
      BY <1>3
    <2> HIDE DEF v
    <2>3. CASE Alter
      <3>1. PICK k \in 1..Len(xml) : \E token \in AlteredTokens(xml[k]) :
               xml' = [xml EXCEPT ![k] = token]
        BY <2>3 DEF Alter
      <3>2. PICK token \in AlteredTokens(xml[k]) : xml' = [xml EXCEPT ![k] = token]
        BY <3>1
      <3>3. Regular([xml EXCEPT ![k] = token], v)
        BY <2>2, RegularAltered
      <3> QED
        BY <3>2, <3>3 DEF v
    <2>4. CASE LoseElement
      <3>1. PICK k \in Elements(xml) :
               xml' = SubSeq(xml, 1, k - 1) \o SubSeq(xml, EndTag(xml, k) + 1, Len(xml))
        BY <2>4 DEF LoseElement
      <3> QED
        BY <2>2, <3>1, RegularWithout DEF v
    <2>5. CASE ChangeData
      <3>1. xml' = xml
        BY <2>5 DEF ChangeData
      <3> QED
        BY <2>2, <3>1 DEF v
    <2> QED
      BY <1>7, <2>3, <2>4, <2>5
  <1>8. CASE UNCHANGED signingVars
    <2>1. UNCHANGED <<xml, level, files, key>>
      BY <1>8 DEF signingVars, job
    <2> QED
      BY <1>3, <2>1
  <1> QED
    BY <1>5, <1>6, <1>7, <1>8 DEF SigningNext

-----------------------------------------------------------------------------
(***************************************************************************)
(* The parts that Survive looks for.                                       *)
(***************************************************************************)
(* A XAdES document has one SignedInfo and one SignedProperties. *)
LEMMA OnePart ==
    ASSUME NEW fs, Len(fs) \in Nat, NEW k0, NEW l \in Levels, NEW issuer,
           NEW S \in {"SignedInfo", "SignedProperties"}
    PROVE  Count(XadesText(fs, k0, UnsignedOf(l, issuer)), S) = 1
  <1> DEFINE u == UnsignedOf(l, issuer)
  <1>1. Nested(u) /\ Made(u, UnsignedNames, {})
    BY UnsignedTextIs
  <1> HIDE DEF u
  <1>2. Count(u, S) = 0
    <2>1. \A name \in UnsignedNames : name[2] # S
      BY DEF UnsignedNames, Xa
    <2>2. Positions(u, S) = {}
      BY <1>1, <2>1, PositionsAbsent
    <2>3. IsText(u)
      BY <1>1 DEF Nested
    <2> QED
      BY <2>2, <2>3, CountIs
  <1>3. Count(RefsOf(fs), S) = 0
    <2>1. Positions(RefsOf(fs), S) = {}
      BY RefsAre
    <2> QED
      BY <2>1, FS_EmptySet DEF Count
  <1>4. Count(Formats(fs), S) = 0
    BY FormatsAre
  <1>5. Count(InfoOf(fs, k0), S)
          = One(Ds("SignedInfo"), S)
              + (One(Ds("CanonicalizationMethod"), S) + One(Ds("SignatureMethod"), S)
                   + Count(RefsOf(fs), S))
    BY InfoCounts
  <1>6. Count(Properties(fs), S)
          = One(Xa("SignedProperties"), S)
              + (One(Xa("SignedSignatureProperties"), S)
                   + (One(Xa("SignedDataObjectProperties"), S)
                        + Count(Formats(fs), S)))
    BY PropertiesCounts
  <1>7. Count(XadesText(fs, k0, u), S)
          = One(ContainerTag, S) + (One(Ds("Signature"), S)
              + (Count(InfoOf(fs, k0), S)
                   + (One(Ds("SignatureValue"), S) + (One(Ds("KeyInfo"), S)
                        + (One(Ds("Object"), S)
                             + (One(Xa("QualifyingProperties"), S)
                                  + (Count(Properties(fs), S) + Count(u, S))))))))
    BY <1>1, XadesCounts
  <1>8. CASE S = "SignedInfo"
    <2>1. Count(InfoOf(fs, k0), S) = 1 /\ Count(Properties(fs), S) = 0
      BY <1>3, <1>4, <1>5, <1>6, <1>8 DEF One, Ds, Xa
    <2>2. Count(XadesText(fs, k0, u), S) = 1
      BY <1>2, <1>7, <1>8, <2>1 DEF One, Ds, Xa, ContainerTag
    <2> QED
      BY <2>2 DEF u
  <1>9. CASE S = "SignedProperties"
    <2>1. Count(InfoOf(fs, k0), S) = 0 /\ Count(Properties(fs), S) = 1
      BY <1>3, <1>4, <1>5, <1>6, <1>9 DEF One, Ds, Xa
    <2>2. Count(XadesText(fs, k0, u), S) = 1
      BY <1>2, <1>7, <1>9, <2>1 DEF One, Ds, Xa, ContainerTag
    <2> QED
      BY <2>2 DEF u
  <1> QED
    BY <1>8, <1>9

(* What Survive cuts out of it. *)
LEMMA XadesParts ==
    ASSUME NEW fs, Len(fs) \in Nat, NEW k0, NEW l \in Levels, NEW issuer
    PROVE  LET text == XadesText(fs, k0, UnsignedOf(l, issuer))
           IN  /\ PartOf(text, "SignedInfo") = InfoOf(fs, k0)
               /\ PartOf(text, "SignatureValue")[2] = Text(ValueMade(fs, k0))
               /\ PartOf(text, "SignedProperties") = Properties(fs)
  <1> DEFINE u == UnsignedOf(l, issuer)
             text == XadesText(fs, k0, u)
             info == InfoOf(fs, k0)
             val == ValueOf(fs, k0)
             props == Properties(fs)
             t == <<Text(ValueMade(fs, k0))>>
  <1>1. Fits(u) /\ Nested(u)
    BY UnsignedFits DEF Fits
  <1>2. Nested(Then(Methods(k0), RefsOf(fs)))
        /\ Nested(Then(SignatureProperties, DataProperties(fs)))
    BY <1>1, PiecesAreNested
  <1>3. info = Element(Ds("SignedInfo"), NoId, NoAttr, AllPrefixes,
                       Then(Methods(k0), RefsOf(fs)))
    BY XadesInfoIs DEF InfoOf
  <1>4. props = Element(Xa("SignedProperties"), SignedPropertiesId(Index), NoAttr,
                        AllPrefixes, Then(SignatureProperties, DataProperties(fs)))
    BY PiecesAre
  <1>5. val = Element(Ds("SignatureValue"), SignatureValueId(Index), NoAttr, {}, t)
    BY DEF ValueOf, SignatureValue, ValueMade
  <1>6. Nested(t) /\ IsText(t)
    BY NestedText, ShortTexts
  <1>7. Len(t) = 1 /\ t[1] = Text(ValueMade(fs, k0))
    BY ShortTexts
  <1> HIDE DEF t
  <1>8. /\ IsElement(info, Ds("SignedInfo"))
        /\ IsElement(props, Xa("SignedProperties"))
        /\ IsElement(val, Ds("SignatureValue"))
    BY <1>2, <1>3, <1>4, <1>5, <1>6 DEF IsElement
  <1>9. val[2] = Text(ValueMade(fs, k0))
    <2>1. \A k \in 1..Len(t) : val[k + 1] = t[k]
      <3> DEFINE id == SignatureValueId(Index)
                 tag == Ds("SignatureValue")
      <3>1. val = Element(tag, id, NoAttr, {}, t)
        BY <1>5
      <3> HIDE DEF id, tag, val
      <3>2. \A k \in 1..Len(t) : val[k + 1] = t[k]
        BY <1>6, <3>1, ElementIs
      <3> QED
        BY <3>2
    <2> QED
      BY <1>7, <2>1
  <1>10. StandsAt(text, 2, info) /\ StandsAt(text, 2 + Len(info), val)
         /\ \E p : StandsAt(text, p, props)
    BY <1>1, XadesStands
  <1>11. Count(text, "SignedInfo") = 1 /\ Count(text, "SignedProperties") = 1
         /\ Count(text, "SignatureValue") = 1
    BY OnePart, CountsOfXades
  <1>12. /\ "SignedInfo" = Ds("SignedInfo")[2]
         /\ "SignatureValue" = Ds("SignatureValue")[2]
         /\ "SignedProperties" = Xa("SignedProperties")[2]
    BY DEF Ds, Xa
  <1> HIDE DEF text, info, val, props
  <1>13. PartOf(text, "SignedInfo") = info
    BY <1>8, <1>10, <1>11, <1>12, PartIs
  <1>14. PartOf(text, "SignatureValue") = val
    BY <1>8, <1>10, <1>11, <1>12, PartIs
  <1>15. PartOf(text, "SignedProperties") = props
    BY <1>8, <1>10, <1>11, <1>12, PartIs
  <1> QED
    BY <1>9, <1>13, <1>14, <1>15 DEF text, u, info, props

(* What the digest of the SignedProperties is made of. *)
LEMMA PropertiesDigestIs ==
    ASSUME NEW fs, Len(fs) \in Nat
    PROVE  SignedPropertiesDigest(fs, Index) = Sha256(FormIn(Properties(fs), AllPrefixes))
  <1> DEFINE props == Properties(fs)
             id == SignedPropertiesId(Index)
             c == Then(SignatureProperties, DataProperties(fs))
             x == Element(Xa("SignedProperties"), id, NoAttr, AllPrefixes, c)
             none == <<>>
  <1>1. Nested(none)
    BY NestedNone
  <1>2. Nested(c) /\ Nested(props)
    BY <1>1, PiecesAreNested
  <1>3. props = x
    BY PiecesAre
  <1>4. Made(props, XadesNames, AllPrefixes)
    BY MadeSignedProperties DEF Properties
  <1>5. Declared(XadesNames, AllPrefixes)
    BY NamesIn DEF Declared
  <1> HIDE DEF c, props
  <1>6. IsWellFormed(Parse(x)) /\ OneRoot(x, AllPrefixes)
    <2>1. Made(x, XadesNames, AllPrefixes)
      BY <1>3, <1>4
    <2> HIDE DEF id
    <2> QED
      BY <1>2, <1>5, <2>1, DocumentParses
  <1>7. Nested(x)
    BY <1>2, <1>3
  <1> HIDE DEF x
  <1>8. CanonicalizeXml(x) = <<FormIn(x, AllPrefixes)>>
    BY <1>6, <1>7, CanonicalAlone
  <1> QED
    BY <1>3, <1>8 DEF SignedPropertiesDigest, props, Properties

-----------------------------------------------------------------------------
(***************************************************************************)
(* What an accepted text contains, whatever has become of it.              *)
(***************************************************************************)
(* There is one value that a key can have made, so the SignedInfo that it   *)
(* was made of is known.                                                    *)
LEMMA OnlyTheValue ==
    ASSUME NEW fs, NEW k0, NEW text, Regular(text, ValueMade(fs, k0)),
           NEW j \in 1..Len(text), text[j].kind = "text",
           NEW k, NEW y, text[j].data = SignWith(k, y)
    PROVE  /\ text[j] = Text(ValueMade(fs, k0)) /\ k = k0
           /\ y = CanonicalizeXml(InfoOf(fs, k0))[1]
  <1> DEFINE v == ValueMade(fs, k0)
             t == text[j]
             z == CanonicalizeXml(InfoOf(fs, k0))[1]
  <1>1. IsToken(t, v)
    BY DEF Regular
  <1>2. t.kind = "text" /\ t.data = SignWith(k, y)
    OBVIOUS
  <1>3. v = SignWith(k0, z)
    BY DEF ValueMade, InfoOf
  <1> HIDE DEF t, v, z
  <1>4. PICK x : t = Text(x) /\ (x = v \/ NoValue(x))
    <2>1. \A name : Close(name).kind = "close"
      BY DEF Close
    <2>2. \A name, id, attr, ns : Open(name, id, attr, ns).kind = "open"
      BY DEF Open
    <2> QED
      BY <1>1, <1>2, <2>1, <2>2 DEF IsToken
  <1>5. x = SignWith(k, y)
    BY <1>2, <1>4 DEF Text
  <1>6. x = v
    BY <1>4, <1>5 DEF NoValue
  <1>7. SignWith(k, y) = SignWith(k0, z)
    BY <1>3, <1>5, <1>6
  <1>8. k = k0 /\ y = z
    BY <1>7, ValuesDiffer
  <1> QED
    BY <1>4, <1>6, <1>8 DEF t, v, z

(* An accepted text has the SignedInfo that was signed, and the value, and  *)
(* the key is the signer's.                                                 *)
LEMMA AcceptedInfo ==
    ASSUME TextsAreNoValues, NEW fs \in Seq(Files), NEW k0,
           NEW text, Regular(text, ValueMade(fs, k0)),
           NEW k, NEW d, NEW a, NEW v, AcceptedWith(text, k, d, a, v)
    PROVE  /\ k = k0 /\ k.kind \in VerifiableKinds
           /\ Contains(text, <<Text(ValueMade(fs, k0))>>)
           /\ \E p : p + 1 = a /\ IsCopied(text, p, InfoOf(fs, k0))
  <1> DEFINE info == InfoOf(fs, k0)
             V == ValueMade(fs, k0)
             c == Canonical(Parse(text), a)
             j == v + 1
  <1>1. IsText(text) /\ Len(fs) \in Nat
    BY DEF Regular
  <1>2. Len(text) \in Nat
    BY <1>1, TextIsSequence
  <1>3. /\ a \in Elements(text) /\ v \in Elements(text)
        /\ EndTag(text, a) # 0 /\ EndTag(text, v) # 0
        /\ text[j].kind = "text" /\ k.kind \in VerifiableKinds
        /\ text[j].data = SignWith(k, c)
    BY DEF AcceptedWith
  <1>4. j \in 1..Len(text)
    <2>1. v \in 1..Len(text)
      BY <1>3, ElementsOf
    <2>2. EndTag(text, v) \in (v + 1)..Len(text)
      BY <1>2, <1>3, EndTagOfOpen
    <2> QED
      BY <1>2, <2>1, <2>2
  <1> HIDE DEF j, c, info
  <1>5. text[j] = Text(V) /\ k = k0 /\ c = CanonicalizeXml(info)[1]
    BY <1>3, <1>4, OnlyTheValue DEF info
  <1>6. Contains(text, <<Text(V)>>)
    <2>1. Contains(text, <<text[j]>>)
      BY <1>1, <1>4, OneTokenContained
    <2> QED
      BY <1>5, <2>1
  <1>7. CanonicalizeXml(info) = <<FormIn(info, AllPrefixes)>>
    <2>1. OneRoot(info, AllPrefixes) /\ IsWellFormed(Parse(info))
      BY <1>1, InfoParses DEF info
    <2>2. Nested(info)
      <3>1. Nested(<<>>)
        BY NestedNone
      <3> DEFINE none == <<>>
      <3>2. Nested(none)
        BY <3>1
      <3> HIDE DEF none
      <3> QED
        BY <1>1, <3>2, PiecesAreNested DEF info
    <2> QED
      BY <2>1, <2>2, CanonicalAlone
  <1>8. c = FormIn(info, AllPrefixes)
    BY <1>5, <1>7
  <1>9. Regular(info, V)
    BY RegularInfo DEF info
  <1> HIDE DEF V
  <1>10. \E p : p + 1 = a /\ IsCopied(text, p, info)
    <2>1. Canonical(Parse(text), a) = FormIn(info, AllPrefixes)
      BY <1>8 DEF c
    <2>2. Regular(text, V)
      BY DEF V
    <2> QED
      BY <1>3, <1>9, <2>1, <2>2, CanonicalGives
  <1> QED
    BY <1>3, <1>5, <1>6, <1>10 DEF info, V

(* The references of a copied SignedInfo are where the copy is. *)
LEMMA ReferencesOfCopy ==
    ASSUME NEW fs, Len(fs) \in Nat, NEW k0, NEW text, IsText(text),
           NEW p, IsCopied(text, p, InfoOf(fs, k0)), NEW k \in 1..(Len(fs) + 1)
    PROVE  \E j : /\ j \in InsideNamed(text, p + 1, "Reference")
                  /\ text[j].attr = XadesRef(fs, k).attr
                  /\ text[j + 1].data = XadesRef(fs, k).data
  <1> DEFINE info == InfoOf(fs, k0)
             n == Len(fs) + 1
             list == XadesRefs(fs)
             zero == 0
             m == 5 + 3 * k - 2
             none == <<>>
  <1>1. Nested(none)
    BY NestedNone
  <1> HIDE DEF none
  <1>2. Nested(info)
    BY <1>1, PiecesAreNested
  <1>3. n \in Nat /\ Listed(RefsOf(fs), n, list)
    BY RefsAre
  <1>4. NamedReference(list, n)
    BY DEF XadesRefs, XadesRef, Ds, NamedReference
  <1>5. info = Element(Ds("SignedInfo"), NoId, NoAttr, AllPrefixes,
                       Then(Methods(k0), RefsOf(fs)))
    BY XadesInfoIs DEF InfoOf
  <1>6. StandsAt(info, zero, info)
    BY <1>2, StandsWhole
  <1>7. list[k] = XadesRef(fs, k)
    BY DEF XadesRefs
  <1>8. 1 \in Elements(info)
    <2>1. IsElement(info, Ds("SignedInfo"))
      <3>1. Nested(Then(Methods(k0), RefsOf(fs)))
        BY <1>1, PiecesAreNested
      <3> QED
        BY <1>5, <3>1 DEF IsElement
    <2> HIDE DEF info
    <2> QED
      BY <2>1, ElementOf
  <1> HIDE DEF info, n, list, zero
  <1>9. InfoAt(info, zero, k0, n, list)
    BY <1>3, <1>4, <1>5, <1>6, InfoIsAt
  <1>10. k \in 1..n
    BY DEF n
  <1>11. /\ InsideNamed(info, 1, "Reference") = Spaced(5, n)
         /\ IsItem(list[k], info[m], info[m + 1], info[m + 2])
    <2>1. zero + 1 = 1 /\ zero + 5 = 5 /\ zero + 5 + (3 * k - 2) = m
          /\ zero + 5 + (3 * k - 1) = m + 1 /\ zero + 5 + 3 * k = m + 2
      BY <1>10 DEF zero
    <2>2. /\ InsideNamed(info, zero + 1, "Reference") = Spaced(zero + 5, n)
          /\ IsItem(list[k], info[zero + 5 + (3 * k - 2)],
                    info[zero + 5 + (3 * k - 1)], info[zero + 5 + 3 * k])
      BY <1>9, <1>10 DEF InfoAt
    <2> HIDE DEF m, zero
    <2> QED
      BY <2>1, <2>2
  <1>12. m \in Spaced(5, n)
    BY <1>10 DEF Spaced
  <1> HIDE DEF m
  <1>13. m \in InsideNamed(info, 1, "Reference")
    BY <1>11, <1>12
  <1>14. p + m \in InsideNamed(text, p + 1, "Reference")
    BY <1>2, <1>8, <1>13, ChildrenOfCopy DEF info
  <1>15. m \in Elements(info)
    BY <1>13 DEF InsideNamed, Named, Inside
  <1>16. /\ m \in 1..Len(info) /\ m + 1 \in 1..Len(info)
         /\ m \in Nat /\ Len(info) \in Nat
    <2>1. m \in 1..Len(info)
      BY <1>15, ElementsOf
    <2>2. EndTag(info, m) \in Nat /\ m < EndTag(info, m) /\ EndTag(info, m) <= Len(info)
      BY <1>2, <1>15, NestedEnds
    <2>3. Len(info) \in Nat
      BY <1>2, TextIsSequence DEF Nested
    <2> QED
      BY <2>1, <2>2, <2>3
  <1>17. p \in Nat /\ text[p + m] = info[m] /\ text[p + (m + 1)] = info[m + 1]
    BY <1>16 DEF IsCopied, info
  <1>18. info[m].attr = list[k].attr /\ info[m + 1].data = list[k].data
    BY <1>11 DEF IsItem, Open, Text
  <1>19. (p + m) + 1 = p + (m + 1)
    BY <1>16, <1>17
  <1>20. text[(p + m) + 1].data = list[k].data /\ text[p + m].attr = list[k].attr
    BY <1>17, <1>18, <1>19
  <1> DEFINE j == p + m
  <1>21. /\ j \in InsideNamed(text, p + 1, "Reference")
         /\ text[j].attr = list[k].attr /\ text[j + 1].data = list[k].data
    BY <1>14, <1>20
  <1> HIDE DEF j
  <1> QED
    BY <1>7, <1>21

-----------------------------------------------------------------------------
(***************************************************************************)
(* Whatever has become of a document: if it is accepted, then with the     *)
(* signer's key, and what was signed is still in it.                       *)
(***************************************************************************)
(* So each reference that was signed is found good. *)
LEMMA AcceptedReference ==
    ASSUME TextsAreNoValues, NEW fs \in Seq(Files), NEW k0,
           NEW text, Regular(text, ValueMade(fs, k0)), NEW key2,
           NEW d, NEW a, NEW v, AcceptedWith(text, key2, d, a, v),
           NEW k \in 1..(Len(fs) + 1)
    PROVE  \E j : /\ ReferenceResult(Parse(text), j, d) = "Ok"
                  /\ text[j].attr = XadesRef(fs, k).attr
                  /\ text[j + 1].data = XadesRef(fs, k).data
  <1>1. IsText(text) /\ Len(fs) \in Nat
    BY DEF Regular
  <1>2. PICK p : p + 1 = a /\ IsCopied(text, p, InfoOf(fs, k0))
    <2>1. /\ key2 = k0 /\ key2.kind \in VerifiableKinds
          /\ Contains(text, <<Text(ValueMade(fs, k0))>>)
          /\ \E p : p + 1 = a /\ IsCopied(text, p, InfoOf(fs, k0))
      BY AcceptedInfo
    <2> QED
      BY <2>1
  <1>3. PICK j : /\ j \in InsideNamed(text, p + 1, "Reference")
                 /\ text[j].attr = XadesRef(fs, k).attr
                 /\ text[j + 1].data = XadesRef(fs, k).data
    BY <1>1, <1>2, ReferencesOfCopy
  <1>4. j \in InsideNamed(text, a, "Reference")
    BY <1>2, <1>3
  <1>5. ReferenceResult(Parse(text), j, d) = "Ok"
    BY <1>4 DEF AcceptedWith
  <1> QED
    BY <1>3, <1>5

(* A data file that was signed is there, unchanged, *)
LEMMA AcceptedFile ==
    ASSUME FilesAreNoElements, NoAttr \notin FileNames, NEW d, Len(d) \in Nat,
           NEW file \in Files, NEW text, NEW j,
           ReferenceResult(Parse(text), j, d) = "Ok",
           text[j].attr = file.name, text[j + 1].data = file.content
    PROVE  /\ ~ IsFragment(file.name)
           /\ Resolves(d, [uri |-> file.name, digest |-> file.content])
  <1>1. file.name \in FileNames /\ file.content \in Contents
    BY DEF Files
  <1>2. ~ IsFragment(file.name)
    <2> SUFFICES ASSUME IsFragment(file.name)
                 PROVE  FALSE
      OBVIOUS
    <2>1. Sha256(Canonical(Parse(text), First(WithId(Parse(text), text[j].attr[2]))))
            = text[j + 1].data
      BY ElementReference
    <2> QED
      BY <1>1, <2>1 DEF FilesAreNoElements
  <1>3. Resolves(d, [uri |-> text[j].attr, digest |-> text[j + 1].data])
    BY <1>1, <1>2, FileReference
  <1> QED
    BY <1>2, <1>3

(* and the text contains the SignedProperties that were signed. *)
LEMMA AcceptedProperties ==
    ASSUME NEW fs, Len(fs) \in Nat, NEW v, NEW text, Regular(text, v),
           \A i \in Elements(text) : EndTag(text, i) # 0, NEW d, NEW j,
           ReferenceResult(Parse(text), j, d) = "Ok",
           text[j].attr = <<"#", SignedPropertiesId(Index)>>,
           text[j + 1].data = SignedPropertiesDigest(fs, Index)
    PROVE  Contains(text, Properties(fs))
  <1> DEFINE uri == text[j].attr
             targets == WithId(Parse(text), SignedPropertiesId(Index))
             props == Properties(fs)
             q == First(targets)
  <1>1. IsText(text)
    BY DEF Regular
  <1>2. uri = <<"#", SignedPropertiesId(Index)>>
    OBVIOUS
  <1> HIDE DEF uri
  <1>3. IsFragment(uri) /\ uri[2] = SignedPropertiesId(Index)
    BY <1>2 DEF IsFragment
  <1>4. /\ Cardinality(targets) = 1
        /\ Sha256(Canonical(Parse(text), q)) = text[j + 1].data
    <2>1. IsFragment(text[j].attr) /\ text[j].attr[2] = SignedPropertiesId(Index)
      BY <1>3 DEF uri
    <2> QED
      BY <2>1, ElementReference
  <1>5. Sha256(FormIn(props, AllPrefixes)) = text[j + 1].data
    BY PropertiesDigestIs
  <1>6. targets \subseteq Elements(text)
    BY ParseIs DEF WithId, Nodes
  <1> HIDE DEF targets, props
  <1>7. q \in Elements(text)
    <2>1. IsFiniteSet(targets) /\ Elements(text) \subseteq 1..Len(text)
          /\ Len(text) \in Nat
      <3>1. IsFiniteSet(Elements(text)) /\ Elements(text) \subseteq 1..Len(text)
            /\ Len(text) \in Nat
        BY <1>1, ElementNumbers
      <3> QED
        BY <1>6, <3>1, FS_Subset
    <2>2. \E x : targets = {x}
      BY <1>4, <2>1, FS_Singleton
    <2>3. PICK x : targets = {x}
      BY <2>2
    <2>4. x \in Elements(text) /\ x \in Nat
      BY <1>6, <2>1, <2>3
    <2>5. First({x}) = x
      BY <2>4, FirstOfOne
    <2> QED
      BY <2>3, <2>4, <2>5
  <1> HIDE DEF q
  <1>8. Canonical(Parse(text), q) = FormIn(props, AllPrefixes)
    <2> DEFINE x == Canonical(Parse(text), q)
               y == FormIn(props, AllPrefixes)
    <2>1. Sha256(x) = Sha256(y)
      BY <1>4, <1>5
    <2> HIDE DEF x, y
    <2>2. x = y
      BY <2>1 DEF Sha256
    <2> QED
      BY <2>2 DEF x, y
  <1>9. Regular(props, v)
    BY RegularProperties DEF props
  <1>10. EndTag(text, q) # 0
    BY <1>7
  <1>11. PICK p : p + 1 = q /\ IsCopied(text, p, props)
    BY <1>7, <1>8, <1>9, <1>10, CanonicalGives
  <1>12. IsText(props)
    BY <1>9 DEF Regular
  <1>13. Contains(text, props)
    BY <1>1, <1>11, <1>12, CopyIsWithin
  <1> QED
    BY <1>13 DEF props

(* What Survive asks of a text. *)
SaysWhatWasSigned(text, fs, k0) ==
    /\ Contains(text, InfoOf(fs, k0))
    /\ Contains(text, <<Text(ValueMade(fs, k0))>>)
    /\ Contains(text, Properties(fs))

(* All of this together. *)
LEMMA AcceptedText ==
    ASSUME FilesAreNoElements, TextsAreNoValues, NoAttr \notin FileNames,
           NEW fs \in Seq(Files), NEW k0,
           NEW text, Regular(text, ValueMade(fs, k0)),
           NEW k, NEW d, Len(d) \in Nat, VerifyXml(text, k, d) = "Ok"
    PROVE  /\ k = k0 /\ k.kind \in VerifiableKinds
           /\ SaysWhatWasSigned(text, fs, k0)
           /\ \A j \in 1..Len(fs) :
                 /\ ~ IsFragment(fs[j].name)
                 /\ Resolves(d, [uri |-> fs[j].name, digest |-> fs[j].content])
  <1> DEFINE n == Len(fs) + 1
  <1>1. IsText(text) /\ Len(fs) \in Nat /\ n \in 1..n
        /\ \A j \in 1..Len(fs) : fs[j] \in Files /\ j \in 1..n
    BY DEF Regular
  <1>2. PICK a, v : AcceptedWith(text, k, d, a, v)
    BY AcceptedIs
  <1>3. /\ k = k0 /\ k.kind \in VerifiableKinds
        /\ Contains(text, <<Text(ValueMade(fs, k0))>>)
        /\ \E p : p + 1 = a /\ IsCopied(text, p, InfoOf(fs, k0))
    BY <1>2, AcceptedInfo
  <1>4. Contains(text, InfoOf(fs, k0))
    <2>1. PICK p : IsCopied(text, p, InfoOf(fs, k0))
      BY <1>3
    <2>2. IsText(InfoOf(fs, k0))
      BY RegularInfo DEF Regular
    <2> QED
      BY <1>1, <2>1, <2>2, CopyIsWithin
  <1>5. ASSUME NEW j \in 1..n
        PROVE  \E i : /\ ReferenceResult(Parse(text), i, d) = "Ok"
                      /\ text[i].attr = XadesRef(fs, j).attr
                      /\ text[i + 1].data = XadesRef(fs, j).data
    BY <1>2, AcceptedReference
  <1>6. ASSUME NEW j \in 1..Len(fs)
        PROVE  /\ ~ IsFragment(fs[j].name)
               /\ Resolves(d, [uri |-> fs[j].name, digest |-> fs[j].content])
    <2> DEFINE file == fs[j]
    <2>1. PICK i : /\ ReferenceResult(Parse(text), i, d) = "Ok"
                   /\ text[i].attr = XadesRef(fs, j).attr
                   /\ text[i + 1].data = XadesRef(fs, j).data
      BY <1>1, <1>5
    <2>2. XadesRef(fs, j).attr = file.name /\ XadesRef(fs, j).data = file.content
      BY <1>1 DEF XadesRef
    <2>3. file \in Files
      BY <1>1
    <2> HIDE DEF file
    <2>4. text[i].attr = file.name /\ text[i + 1].data = file.content
      BY <2>1, <2>2
    <2>5. /\ ~ IsFragment(file.name)
          /\ Resolves(d, [uri |-> file.name, digest |-> file.content])
      BY <2>1, <2>3, <2>4, AcceptedFile
    <2> QED
      BY <2>5 DEF file
  <1>7. Contains(text, Properties(fs))
    <2>1. PICK i : /\ ReferenceResult(Parse(text), i, d) = "Ok"
                   /\ text[i].attr = XadesRef(fs, n).attr
                   /\ text[i + 1].data = XadesRef(fs, n).data
      BY <1>1, <1>5
    <2>2. /\ XadesRef(fs, n).attr = <<"#", SignedPropertiesId(Index)>>
          /\ XadesRef(fs, n).data = SignedPropertiesDigest(fs, Index)
      BY <1>1 DEF XadesRef
    <2>3. /\ text[i].attr = <<"#", SignedPropertiesId(Index)>>
          /\ text[i + 1].data = SignedPropertiesDigest(fs, Index)
      BY <2>1, <2>2
    <2>4. \A i2 \in Elements(text) : EndTag(text, i2) # 0
      BY <1>2 DEF AcceptedWith
    <2> QED
      BY <1>1, <2>1, <2>3, <2>4, AcceptedProperties
  <1> QED
    BY <1>3, <1>4, <1>6, <1>7 DEF SaysWhatWasSigned

-----------------------------------------------------------------------------
(***************************************************************************)
(* A XAdES document is orderly as it was made.                             *)
(***************************************************************************)
(* It is so in a XAdES document. *)
LEMMA HousesXades ==
    ASSUME TextsAreNoValues, NEW fs \in Seq(Files), NEW k0, NEW l \in Levels,
           NEW issuer, NoValue(issuer)
    PROVE  Houses(XadesText(fs, k0, UnsignedOf(l, issuer)), ValueMade(fs, k0))
  <1> DEFINE u == UnsignedOf(l, issuer)
             v == ValueMade(fs, k0)
             info == InfoOf(fs, k0)
             props == Properties(fs)
  <1>1. Len(fs) \in Nat /\ Nested(u)
    BY UnsignedFits DEF Fits
  <1>2. /\ Nested(props) /\ Nested(Then(props, u)) /\ Nested(Qualifying(fs, u))
        /\ Nested(ObjectOf(fs, u)) /\ Nested(KeyInfo) /\ Nested(ValueOf(fs, k0))
        /\ Nested(Then(KeyInfo, ObjectOf(fs, u)))
        /\ Nested(Then(ValueOf(fs, k0), Then(KeyInfo, ObjectOf(fs, u))))
        /\ Nested(info) /\ Nested(Body(fs, k0, u)) /\ Nested(SignatureText(fs, k0, u))
    BY <1>1, PiecesAreNested
  <1>3. Houses(info, v)
    <2>1. Regular(info, Altered)
      BY RegularInfo
    <2>2. Lacks(info, Text(v))
      BY <2>1, RegularLacks
    <2> QED
      BY <2>2, HousesNone
  <1>4. Houses(props, v)
    <2>1. Regular(props, Altered)
      BY <1>1, RegularProperties
    <2>2. Lacks(props, Text(v))
      BY <2>1, RegularLacks
    <2> QED
      BY <2>2, HousesNone
  <1>5. Houses(u, v)
    <2>1. Regular(u, Altered)
      BY RegularUnsigned
    <2>2. Lacks(u, Text(v))
      BY <2>1, RegularLacks
    <2> QED
      BY <2>2, HousesNone
  <1>6. Houses(KeyInfo, v)
    <2>1. KeyInfo = Element(Ds("KeyInfo"), NoId, NoAttr, {},
                            <<Text(<<"certificate", Index>>)>>)
      BY DEF KeyInfo, Leaf
    <2>2. PrefixesOf(Ds("KeyInfo")) = {}
      BY PrefixesAre DEF Ds
    <2>3. Regular(KeyInfo, Altered)
      BY <2>1, <2>2, ConstantsAreNoValues, RegularLeaf
    <2>4. Lacks(KeyInfo, Text(v))
      BY <2>3, RegularLacks
    <2> QED
      BY <2>4, HousesNone
  <1>7. Houses(ValueOf(fs, k0), v)
    <2> DEFINE c == <<Text(v)>>
               all == Element(Ds("SignatureValue"), SignatureValueId(Index), NoAttr, {}, c)
    <2>1. ValueOf(fs, k0) = all
      BY DEF ValueOf, ValueMade, SignatureValue
    <2>2. IsText(c) /\ Len(c) = 1
      BY ShortTexts
    <2> HIDE DEF c
    <2>3. /\ Len(all) = 3
          /\ all[1] = Open(Ds("SignatureValue"), SignatureValueId(Index), NoAttr, {})
          /\ all[3] = Close(Ds("SignatureValue"))
      <3>1. /\ Len(all) = Len(c) + 2
            /\ all[1] = Open(Ds("SignatureValue"), SignatureValueId(Index), NoAttr, {})
            /\ all[Len(c) + 2] = Close(Ds("SignatureValue"))
        <4>1. IsText(c)
          BY <2>2
        <4> QED
          BY <4>1, ElementIs
      <3>2. Len(c) + 2 = 3
        BY <2>2
      <3> QED
        BY <3>1, <3>2
    <2> HIDE DEF all
    <2>4. /\ all[1].kind = "open" /\ all[1].name[2] = "SignatureValue"
          /\ all[3].kind = "close"
      BY <2>3 DEF Open, Close, Ds
    <2>5. 1 \in Positions(all, "SignatureValue")
      BY <2>3, <2>4, ElementsOf DEF Positions
    <2>6. \A x : Text(x).kind = "text"
      BY DEF Text
    <2>7. \A k \in 1..Len(all) : all[k] = Text(v) => k = 2
      <3> HIDE DEF v
      <3> QED
        BY <2>3, <2>4, <2>6
    <2> HIDE DEF v
    <2> QED
      BY <2>1, <2>5, <2>7 DEF Houses
  <1> HIDE DEF v, info, props, u
  <1>8. Houses(Then(props, u), v)
    BY <1>1, <1>2, <1>4, <1>5, HousesJoin DEF Nested
  <1>9. Houses(Qualifying(fs, u), v)
    BY <1>2, <1>8, PiecesAre, HousesElement DEF Nested, props
  <1>10. Houses(ObjectOf(fs, u), v)
    BY <1>2, <1>9, HousesElement DEF Nested, ObjectOf
  <1>11. Houses(Then(KeyInfo, ObjectOf(fs, u)), v)
    BY <1>2, <1>6, <1>10, HousesJoin DEF Nested
  <1>12. Houses(Then(ValueOf(fs, k0), Then(KeyInfo, ObjectOf(fs, u))), v)
    BY <1>2, <1>7, <1>11, HousesJoin DEF Nested
  <1>13. Houses(Body(fs, k0, u), v)
    BY <1>2, <1>3, <1>12, PiecesAre, HousesJoin DEF Nested, info
  <1>14. Houses(SignatureText(fs, k0, u), v)
    BY <1>2, <1>13, HousesElement DEF Nested, SignatureText
  <1>15. Houses(XadesText(fs, k0, u), v)
    BY <1>2, <1>14, PiecesAre, HousesElement DEF Nested
  <1> QED
    BY <1>15 DEF u, v

(* The names that are there once are so in a XAdES document, *)
LEMMA XadesSoles ==
    ASSUME NEW fs, Len(fs) \in Nat, NEW k0, NEW l \in Levels, NEW issuer,
           NEW local \in SoleNames
    PROVE  LET text == XadesText(fs, k0, UnsignedOf(l, issuer))
           IN  \A i, j \in Positions(text, local) : i = j
  <1> DEFINE text == XadesText(fs, k0, UnsignedOf(l, issuer))
  <1>1. Count(text, local) = 1
    BY OneSignature, OnePart, CountsOfXades DEF SoleNames
  <1>2. IsText(text)
    <2>1. Nested(UnsignedOf(l, issuer))
      BY UnsignedFits DEF Fits
    <2>2. Nested(text)
      BY <2>1, PiecesAreNested
    <2> QED
      BY <2>2 DEF Nested
  <1> HIDE DEF text
  <1>3. \A k \in Positions(text, local) : Positions(text, local) = {k}
    BY <1>1, <1>2, CountIs
  <1> QED
    BY <1>3 DEF text

(* and where they lie. *)
LEMMA XadesLies ==
    ASSUME NEW fs, Len(fs) \in Nat, NEW k0, NEW l \in Levels, NEW issuer,
           NEW local \in InSignature
    PROVE  LET text == XadesText(fs, k0, UnsignedOf(l, issuer))
           IN  /\ 2 \in Positions(text, "Signature")
               /\ \A k \in Positions(text, local) : Around(text, k) = {1, 2}
  <1> DEFINE u == UnsignedOf(l, issuer)
             text == XadesText(fs, k0, u)
             info == InfoOf(fs, k0)
             val == ValueOf(fs, k0)
             obj == ObjectOf(fs, u)
             c == Then(info, Then(val, Then(KeyInfo, obj)))
             t == <<Text(ValueMade(fs, k0))>>
             p == 1
  <1>1. Fits(u) /\ Nested(u)
    BY UnsignedFits DEF Fits
  <1>2. /\ Nested(Then(Methods(k0), RefsOf(fs))) /\ Nested(Qualifying(fs, u))
        /\ Nested(Body(fs, k0, u)) /\ Nested(text)
    BY <1>1, PiecesAreNested
  <1>3. /\ IsElement(info, Ds("SignedInfo")) /\ IsElement(val, Ds("SignatureValue"))
        /\ IsElement(KeyInfo, Ds("KeyInfo")) /\ IsElement(obj, Ds("Object"))
    <2>1. info = Element(Ds("SignedInfo"), NoId, NoAttr, AllPrefixes,
                         Then(Methods(k0), RefsOf(fs)))
      BY XadesInfoIs DEF InfoOf
    <2>2. val = Element(Ds("SignatureValue"), SignatureValueId(Index), NoAttr, {}, t)
      BY DEF ValueOf, SignatureValue, ValueMade
    <2>3. KeyInfo = Element(Ds("KeyInfo"), NoId, NoAttr, {},
                            <<Text(<<"certificate", Index>>)>>)
      BY DEF KeyInfo, Leaf
    <2>4. obj = Element(Ds("Object"), NoId, NoAttr, {}, Qualifying(fs, u))
      BY DEF ObjectOf
    <2>5. Nested(t) /\ Nested(<<Text(<<"certificate", Index>>)>>)
      BY NestedText
    <2> HIDE DEF info, val, obj, t
    <2> QED
      BY <1>2, <2>1, <2>2, <2>3, <2>4, <2>5 DEF IsElement
  <1>4. StandsAt(text, p, SignatureText(fs, k0, u))
    BY <1>1, XadesStands
  <1>5. SignatureText(fs, k0, u)
          = Element(Ds("Signature"), SignatureId(Index), NoAttr, {}, c)
    BY PiecesAre DEF SignatureText
  <1>6. OneRoot(text, AllPrefixes)
    BY <1>1, XadesParses
  <1>7. \A i, j \in Positions(text, local) : i = j
    <2>1. local \in SoleNames
      BY DEF SoleNames, InSignature
    <2> QED
      BY <2>1, XadesSoles
  <1>8. Nested(c)
    BY <1>2, PiecesAre
  <1> HIDE DEF text, info, val, obj, c, u, p
  <1>9. FourAt(text, p, info, Ds("SignedInfo"), val, Ds("SignatureValue"),
               KeyInfo, Ds("KeyInfo"), obj, Ds("Object"))
    BY <1>3, <1>4, <1>5, FourInside DEF c
  <1>10. p + 1 \in Elements(text) /\ text[p + 1].name = Ds("Signature")
    <2>1. /\ p + 1 \in Elements(text)
          /\ text[p + 1] = Open(Ds("Signature"), SignatureId(Index), NoAttr, {})
      BY <1>4, <1>5, <1>8, InsideStanding
    <2> QED
      BY <2>1 DEF Open
  <1>11. 2 \in Elements(text) /\ text[2].name[2] = "Signature"
    BY <1>10 DEF p, Ds
  <1>12. PICK k \in Inside(text, 2) : k \in Positions(text, local)
    <2>1. \E k \in Inside(text, p + 1) : text[k].name = Ds(local)
      <3> DEFINE p1 == p + 1
                 p2 == p1 + Len(info)
                 p3 == p2 + Len(val)
                 p4 == p3 + Len(KeyInfo)
      <3>1. /\ Inside(text, p + 1) = {p1 + 1, p2 + 1, p3 + 1, p4 + 1}
            /\ text[p1 + 1].name = Ds("SignedInfo")
            /\ text[p2 + 1].name = Ds("SignatureValue")
        BY <1>9 DEF FourAt
      <3> HIDE DEF p1, p2, p3, p4
      <3> QED
        BY <3>1 DEF InSignature
    <2>2. p + 1 = 2
      BY DEF p
    <2>3. PICK k \in Inside(text, 2) : text[k].name = Ds(local)
      BY <2>1, <2>2
    <2>4. k \in Elements(text) /\ text[k].name[2] = local
      BY <2>3 DEF Inside, Ds
    <2> QED
      BY <2>4 DEF Positions
  <1>13. Around(text, k) = {2} \cup Around(text, 2)
    BY <1>12 DEF Inside
  <1>14. Around(text, 2) = {1}
    <2>1. 1 \in Elements(text) /\ EndTag(text, 1) = Len(text)
      BY <1>6 DEF OneRoot
    <2>2. EndTag(text, 2) \in Nat /\ 2 < EndTag(text, 2) /\ EndTag(text, 2) <= Len(text)
      BY <1>2, <1>11, NestedEnds
    <2>3. Len(text) \in Nat
      BY <1>2, TextIsSequence DEF Nested
    <2>4. 1 \in Around(text, 2)
      BY <2>1, <2>2, <2>3 DEF Around
    <2>5. \A i \in Around(text, 2) : i = 1
      <3>1. \A i \in Around(text, 2) : i \in Nat \ {0} /\ i < 2
        BY ElementsOf DEF Around
      <3> QED
        BY <3>1
    <2> QED
      BY <2>4, <2>5
  <1>15. Around(text, k) = {1, 2}
    BY <1>13, <1>14
  <1>16. \A j \in Positions(text, local) : j = k
    BY <1>7, <1>12
  <1>17. 2 \in Positions(text, "Signature")
    BY <1>11 DEF Positions
  <1> QED
    BY <1>15, <1>16, <1>17 DEF text, u

(* So a XAdES document is orderly. *)
LEMMA XadesIsOrderly ==
    ASSUME TextsAreNoValues, NEW fs \in Seq(Files), NEW k0, NEW l \in Levels,
           NEW issuer, NoValue(issuer)
    PROVE  Orderly(XadesText(fs, k0, UnsignedOf(l, issuer)), ValueMade(fs, k0))
  <1> DEFINE u == UnsignedOf(l, issuer)
             text == XadesText(fs, k0, u)
             v == ValueMade(fs, k0)
  <1>1. Fits(u) /\ Len(fs) \in Nat
    BY UnsignedFits
  <1>2. Made(text, XadesNames, AllPrefixes)
    BY <1>1, XadesIsMade
  <1>3. OneRoot(text, AllPrefixes)
    BY <1>1, XadesParses
  <1>4. \A local \in SoleNames : \A i, j \in Positions(text, local) : i = j
    BY <1>1, XadesSoles
  <1>5. \A local \in InSignature : \A k \in Positions(text, local) :
          2 \in Positions(text, "Signature") /\ Around(text, k) = {1, 2}
    BY <1>1, XadesLies
  <1>6. Houses(text, v)
    BY HousesXades
  <1>7. IdsAreUnique(text)
    BY <1>1, XadesIds
  <1> HIDE DEF text, v, u
  <1>8. SignedPropertiesId(Index) # NoId
    <2>1. SignedPropertiesId(Index)[1] # NoId[1]
      BY DEF SignedPropertiesId, NoId
    <2> QED
      BY <2>1
  <1>9. \A i, j \in Elements(text) :
          text[i].id = SignedPropertiesId(Index) /\ text[j].id = SignedPropertiesId(Index)
            => i = j
    BY <1>7, <1>8 DEF IdsAreUnique
  <1>10. Orderly(text, v)
    BY <1>2, <1>3, <1>4, <1>5, <1>6, <1>9 DEF Orderly, Houses
  <1> QED
    BY <1>10 DEF text, v, u

-----------------------------------------------------------------------------
(***************************************************************************)
(* A signed document stays orderly, whatever is changed on its way.        *)
(***************************************************************************)
(* The document on its way is orderly. *)
OrderlyInv ==
    /\ EditedInv
    /\ level \in Levels => Orderly(xml, ValueMade(files, key))

(* It is so at first, *)
LEMMA OrderlyInit == SigningInit => OrderlyInv
  BY EditedInit DEF OrderlyInv, SigningInit, Levels

(* So it is orderly after every step *)
LEMMA OrderlyStep ==
    ASSUME TextsAreNoValues
    PROVE  OrderlyInv /\ [SigningNext]_signingVars => OrderlyInv'
  <1> SUFFICES ASSUME OrderlyInv, [SigningNext]_signingVars
               PROVE  OrderlyInv'
    OBVIOUS
  <1> DEFINE R == Orderly(xml, ValueMade(files, key))
  <1>1. EditedInv /\ EditedInv' /\ SignedInv'
    BY EditedStep DEF OrderlyInv, EditedInv
  <1>2. SUFFICES (level \in Levels => R)'
    BY <1>1 DEF OrderlyInv
  <1>3. level \in Levels => R
    BY DEF OrderlyInv
  <1>4. ASSUME level' \in Levels, xml' = signed'
        PROVE  R'
    <2>1. signed' = XadesText(files', key', UnsignedOf(level', Issuer'))
      BY <1>1, <1>4 DEF SignedInv, IsXadesSigned
    <2>2. files' \in Seq(Files)
      BY <1>1 DEF SignedInv
    <2>3. NoValue(Issuer')
      BY ConstantsAreNoValues DEF Issuer
    <2>4. Orderly(XadesText(files', key', UnsignedOf(level', Issuer')),
                  ValueMade(files', key'))
      BY <1>4, <2>2, <2>3, XadesIsOrderly
    <2> QED
      BY <1>4, <2>1, <2>4
  <1>5. CASE \/ \E file \in Files : AddFile(file)
             \/ \E name \in PayloadNames : Fill(name)
    <2>1. level' = "none"
      BY <1>5 DEF AddFile, Fill
    <2> QED
      BY <2>1 DEF Levels
  <1>6. CASE Sign \/ Stamp \/ AddValues \/ Envelop
    <2>1. xml' = signed'
      BY <1>6 DEF Sign, Stamp, AddValues, Envelop, Make
    <2> QED
      BY <1>4, <2>1
  <1>7. CASE Alter \/ LoseElement \/ ChangeData
    <2>1. UNCHANGED <<files, key, level>>
      BY <1>7 DEF Alter, LoseElement, ChangeData, Edited, job
    <2> SUFFICES ASSUME level \in Levels
                 PROVE  Orderly(xml', ValueMade(files, key))
      BY <2>1
    <2> DEFINE v == ValueMade(files, key)
    <2>2. Orderly(xml, v) /\ Regular(xml, v)
      BY <1>1, <1>3 DEF EditedInv
    <2>3. v # Altered
      BY DEF TextsAreNoValues, NoValue, ValueMade
    <2> HIDE DEF v
    <2>4. CASE Alter
      <3>1. PICK k \in 1..Len(xml) : \E token \in AlteredTokens(xml[k]) :
               xml' = [xml EXCEPT ![k] = token]
        BY <2>4 DEF Alter
      <3>2. PICK token \in AlteredTokens(xml[k]) : xml' = [xml EXCEPT ![k] = token]
        BY <3>1
      <3>3. Orderly([xml EXCEPT ![k] = token], v)
        BY <2>2, <2>3, OrderlyAltered
      <3> QED
        BY <3>2, <3>3 DEF v
    <2>5. CASE LoseElement
      <3>1. PICK k \in Elements(xml) :
               xml' = SubSeq(xml, 1, k - 1) \o SubSeq(xml, EndTag(xml, k) + 1, Len(xml))
        BY <2>5 DEF LoseElement
      <3> QED
        BY <2>2, <2>3, <3>1, OrderlyLosing DEF v
    <2>6. CASE ChangeData
      <3>1. xml' = xml
        BY <2>6 DEF ChangeData
      <3> QED
        BY <2>2, <3>1 DEF v
    <2> QED
      BY <1>7, <2>4, <2>5, <2>6
  <1>8. CASE UNCHANGED signingVars
    <2>1. UNCHANGED <<xml, level, files, key>>
      BY <1>8 DEF signingVars, job
    <2> QED
      BY <1>3, <2>1
  <1> QED
    BY <1>5, <1>6, <1>7, <1>8 DEF SigningNext

(* and always. *)
LEMMA OrderlyAlways ==
    ASSUME TextsAreNoValues
    PROVE  SigningSpec => []OrderlyInv
  BY OrderlyInit, OrderlyStep, PTL DEF SigningSpec

-----------------------------------------------------------------------------
(***************************************************************************)
(* An orderly document is accepted when what was signed is still in it.    *)
(***************************************************************************)
(* The SignedProperties that it contains are what their Id names, and have  *)
(* their digest.                                                            *)
LEMMA PropertiesTarget ==
    ASSUME NEW text, NEW v, Orderly(text, v), OneRoot(text, AllPrefixes),
           NEW fs, Len(fs) \in Nat, NEW p, IsCopied(text, p, Properties(fs))
    PROVE  LET targets == WithId(Parse(text), SignedPropertiesId(Index))
           IN  /\ Cardinality(targets) = 1
               /\ Sha256(Canonical(Parse(text), First(targets)))
                    = SignedPropertiesDigest(fs, Index)
  <1> DEFINE id == SignedPropertiesId(Index)
             c == Then(SignatureProperties, DataProperties(fs))
             x == Element(Xa("SignedProperties"), id, NoAttr, AllPrefixes, c)
             q == p + 1
  <1>1. Nested(text) /\ IsText(text)
    BY OrderlyIsText
  <1>2. Nested(c)
    BY NestedNone, PiecesAreNested
  <1>3. Properties(fs) = x
    BY PiecesAre
  <1>4. \A i, j \in Elements(text) : text[i].id = id /\ text[j].id = id => i = j
    BY DEF Orderly
  <1> HIDE DEF c, id
  <1>5. Nested(x) /\ IsElement(x, Xa("SignedProperties"))
    BY <1>2, NestedElement DEF IsElement
  <1>6. IsCopied(text, p, x)
    BY <1>3
  <1>7. StandsAt(text, p, x)
    <2> HIDE DEF x
    <2> QED
      BY <1>1, <1>5, <1>6, CopyStands
  <1>8. p + 1 \in Elements(text)
        /\ text[p + 1] = Open(Xa("SignedProperties"), id, NoAttr, AllPrefixes)
    BY <1>2, <1>7, InsideStanding
  <1>9. EndTag(x, 1) = Len(x) /\ 1 \in Elements(x)
    BY <1>5, ElementOf
  <1> HIDE DEF x
  <1>10. Canonical(Parse(text), p + 1) = FormIn(x, AllPrefixes)
    BY <1>7, <1>9, CanonicalStanding
  <1>11. q \in Elements(text) /\ text[q].id = id
    BY <1>8 DEF Open
  <1>12. q \in Nat
    BY <1>11, ElementsOf
  <1> HIDE DEF q
  <1>13. WithId(Parse(text), id) = {q}
    <2>1. Parse(text).text = text /\ Nodes(Parse(text)) = Elements(text)
      BY ParseIs
    <2> QED
      BY <1>4, <1>11, <2>1 DEF WithId
  <1>14. First({q}) = q /\ Cardinality({q}) = 1
    BY <1>12, FirstOfOne, FS_Singleton
  <1>15. SignedPropertiesDigest(fs, Index) = Sha256(FormIn(x, AllPrefixes))
    BY <1>3, PropertiesDigestIs
  <1>16. /\ Cardinality(WithId(Parse(text), id)) = 1
         /\ Sha256(Canonical(Parse(text), First(WithId(Parse(text), id))))
              = SignedPropertiesDigest(fs, Index)
    BY <1>10, <1>13, <1>14, <1>15 DEF q
  <1> QED
    BY <1>16 DEF id

(* A verifier finds the SignedInfo that it contains, and the value. *)
LEMMA OrderlyIsFramed ==
    ASSUME NEW fs, Len(fs) \in Nat, NEW k0, NEW text,
           Orderly(text, ValueMade(fs, k0)), NEW p, IsCopied(text, p, InfoOf(fs, k0)),
           NEW h \in 1..Len(text), text[h] = Text(ValueMade(fs, k0))
    PROVE  /\ IsFramed(text, 2, p + 1, h - 1, p + 2, p + 4,
                       Spaced(p + 5, Len(fs) + 1))
           /\ InfoAt(text, p, k0, Len(fs) + 1, XadesRefs(fs))
           /\ text[p + 4].attr = SignatureMethodUri(k0)
           /\ Canonical(Parse(text), p + 1) = CanonicalizeXml(InfoOf(fs, k0))[1]
  <1> DEFINE v == ValueMade(fs, k0)
             info == InfoOf(fs, k0)
             n == Len(fs) + 1
             list == XadesRefs(fs)
             r == RefsOf(fs)
             R == Spaced(p + 5, n)
             a == p + 1
             g == h - 1
  <1>1. Orderly(text, v) /\ text[h] = Text(v)
    OBVIOUS
  <1>2. /\ info = InfoOn(k0, AllPrefixes, r)
        /\ OneRoot(info, AllPrefixes) /\ IsWellFormed(Parse(info))
    BY InfoParses
  <1>3. n \in Nat /\ n > 0 /\ Listed(r, n, list)
    BY RefsAre
  <1>4. NamedReference(list, n)
    BY DEF NamedReference, XadesRefs, XadesRef, Ds
  <1>5. Nested(info) /\ Nested(Then(Methods(k0), r))
    BY NestedNone, PiecesAreNested
  <1>6. info = Element(Ds("SignedInfo"), NoId, NoAttr, AllPrefixes,
                       Then(Methods(k0), r))
    BY <1>2 DEF InfoOn
  <1>7. IsElement(info, Ds("SignedInfo"))
    BY <1>5, <1>6 DEF IsElement
  <1>8. IsCopied(text, p, info)
    OBVIOUS
  <1> HIDE DEF v, info, n, list, r
  <1>9. Nested(text) /\ IsText(text) /\ Len(text) \in Nat
    BY <1>1, OrderlyIsText
  <1>10. StandsAt(text, p, info)
    BY <1>5, <1>8, <1>9, CopyStands
  <1>11. StandsAt(text, p, Element(Ds("SignedInfo"), NoId, NoAttr, AllPrefixes,
                                   Then(Methods(k0), r)))
    BY <1>6, <1>10
  <1>12. InfoAt(text, p, k0, n, list)
    BY <1>3, <1>4, <1>11, InfoIsAt
  <1>13. /\ p \in Nat /\ a \in Elements(text)
         /\ InsideNamed(text, a, "CanonicalizationMethod") = {p + 2}
         /\ InsideNamed(text, a, "SignatureMethod") = {p + 4}
         /\ InsideNamed(text, a, "Reference") = R
         /\ text[p + 2].attr = C14nUri /\ text[p + 4].attr = SignatureMethodUri(k0)
         /\ \A k \in 1..n : IsItem(list[k], text[p + 5 + (3 * k - 2)],
                                   text[p + 5 + (3 * k - 1)], text[p + 5 + 3 * k])
    BY <1>12 DEF InfoAt
  <1>14. 1 \in 1..Len(text)
    BY <1>9
  <1>15. IsWellFormed(Parse(text)) /\ OneRoot(text, AllPrefixes)
    BY <1>1, <1>14, OrderlyParses
  <1>16. a \in Positions(text, "SignedInfo")
    <2>1. text[a] = Open(Ds("SignedInfo"), NoId, NoAttr, AllPrefixes)
      BY <1>5, <1>11, InsideStanding
    <2>2. text[a].name[2] = "SignedInfo"
      BY <2>1 DEF Open, Ds
    <2> HIDE DEF a
    <2> QED
      BY <1>13, <2>2 DEF Positions
  <1>17. g \in Positions(text, "SignatureValue")
    BY <1>1 DEF Orderly
  <1>18. /\ 2 \in Positions(text, "Signature") /\ 2 \in Elements(text)
         /\ \A j \in Positions(text, "Signature") : 2 <= j
         /\ InsideNamed(text, 2, "SignedInfo") = {a}
         /\ InsideNamed(text, 2, "SignatureValue") = {g}
    <2> HIDE DEF a, g
    <2>1. "SignedInfo" \in InSignature /\ "SignatureValue" \in InSignature
      BY DEF InSignature
    <2>2. /\ 2 \in Positions(text, "Signature")
          /\ \A j \in Positions(text, "Signature") : 2 <= j
          /\ InsideNamed(text, 2, "SignedInfo") = {a}
      BY <1>1, <1>16, <2>1, OrderlyHas
    <2>3. InsideNamed(text, 2, "SignatureValue") = {g}
      BY <1>1, <1>17, <2>1, OrderlyHas
    <2> QED
      BY <2>2, <2>3 DEF Positions
  <1>19. g \in Nat /\ text[g + 1].kind = "text"
    <2>1. g \in Elements(text)
      BY <1>17 DEF Positions
    <2>2. g \in Nat
      BY <2>1, ElementsOf
    <2>3. g + 1 = h
      OBVIOUS
    <2> HIDE DEF g
    <2> QED
      BY <1>1, <2>2, <2>3 DEF Text
  <1>20. R # {} /\ R \subseteq Nat /\ \A k \in R : text[k + 1].kind = "text"
    <2>1. p + 5 \in Nat /\ 1 \in 1..n
      BY <1>3, <1>13
    <2>2. R \subseteq Nat
      BY <1>3, <2>1, SpacedMore
    <2>3. R # {}
      BY <2>1 DEF Spaced
    <2>4. ASSUME NEW k \in R
          PROVE  text[k + 1].kind = "text"
      <3>1. PICK j \in 1..n : k = p + 5 + 3 * j - 2
        BY DEF Spaced
      <3>2. k + 1 = p + 5 + (3 * j - 1)
        BY <1>13, <3>1
      <3>3. text[p + 5 + (3 * j - 1)] = Text(list[j].data)
        BY <1>13, <3>1 DEF IsItem
      <3> QED
        BY <3>2, <3>3 DEF Text
    <2> QED
      BY <2>2, <2>3, <2>4
  <1>21. SignatureMethodUri(k0) \in {RsaSha256, EcdsaSha256}
    BY DEF SignatureMethodUri
  <1>22. p + 2 \in Nat /\ p + 4 \in Nat
    BY <1>13
  <1>23. Canonical(Parse(text), p + 1) = CanonicalizeXml(info)[1]
    <2>1. EndTag(info, 1) = Len(info) /\ 1 \in Elements(info)
      BY <1>7, ElementOf
    <2>2. Canonical(Parse(text), p + 1) = FormIn(info, AllPrefixes)
      BY <1>10, <1>15, <2>1, CanonicalStanding
    <2>3. CanonicalizeXml(info) = <<FormIn(info, AllPrefixes)>>
      BY <1>2, <1>5, CanonicalAlone
    <2> QED
      BY <2>2, <2>3
  <1>24. IsFramed(text, 2, a, g, p + 2, p + 4, R)
    <2> HIDE DEF R, a, g
    <2> QED
      BY <1>13, <1>15, <1>18, <1>19, <1>20, <1>21, <1>22 DEF IsFramed
  <1> QED
    BY <1>12, <1>13, <1>23, <1>24 DEF info, n, list

(* An orderly text that says what was signed is accepted, with the data     *)
(* files that were signed.                                                  *)
LEMMA OrderlyVerifies ==
    ASSUME NoAttr \notin FileNames, NEW fs \in Seq(Files), NEW k0,
           k0.kind \in VerifiableKinds,
           NEW text, Orderly(text, ValueMade(fs, k0)),
           SaysWhatWasSigned(text, fs, k0), NEW d, Len(d) \in Nat,
           \A j \in 1..Len(fs) :
              /\ ~ IsFragment(fs[j].name)
              /\ Resolves(d, [uri |-> fs[j].name, digest |-> fs[j].content])
    PROVE  VerifyXml(text, k0, d) = "Ok"
  <1> DEFINE n == Len(fs) + 1
             v == ValueMade(fs, k0)
             info == InfoOf(fs, k0)
             props == Properties(fs)
             list == XadesRefs(fs)
             targets == WithId(Parse(text), SignedPropertiesId(Index))
             Ok(j) == ReferenceResult(Parse(text), j, d) = "Ok"
  <1>1. Len(fs) \in Nat /\ \A j \in 1..Len(fs) : fs[j] \in Files
    OBVIOUS
  <1>2. IsText(text) /\ Len(text) \in Nat
    BY OrderlyIsText
  <1>3. Nested(info) /\ Nested(props)
    BY <1>1, NestedNone, PiecesAreNested
  <1>4. IsText(info) /\ IsText(props) /\ IsText(<<Text(v)>>)
    BY <1>3, ShortTexts DEF Nested
  <1>5. /\ Contains(text, info) /\ Contains(text, props)
        /\ Contains(text, <<Text(v)>>)
    BY DEF SaysWhatWasSigned
  <1> DEFINE one == <<Text(v)>>
  <1>6. Len(one) = 1 /\ one[1] = Text(v)
    BY ShortTexts
  <1>7. IsText(one) /\ Contains(text, one)
    BY <1>4, <1>5
  <1> HIDE DEF v, info, props, one
  <1>8. PICK p : IsCopied(text, p, info)
    BY <1>2, <1>4, <1>5, ContainedIsCopied
  <1>9. PICK s : IsCopied(text, s, props)
    BY <1>2, <1>4, <1>5, ContainedIsCopied
  <1>10. PICK o : IsCopied(text, o, one)
    BY <1>2, <1>7, ContainedIsCopied
  <1> DEFINE h == o + 1
  <1>11. h \in 1..Len(text) /\ text[h] = Text(v)
    BY <1>2, <1>6, <1>10 DEF IsCopied
  <1> HIDE DEF h
  <1>12. /\ IsFramed(text, 2, p + 1, h - 1, p + 2, p + 4, Spaced(p + 5, n))
         /\ InfoAt(text, p, k0, n, list)
         /\ text[p + 4].attr = SignatureMethodUri(k0)
         /\ Canonical(Parse(text), p + 1) = CanonicalizeXml(info)[1]
    <2>1. IsCopied(text, p, InfoOf(fs, k0)) /\ text[h] = Text(ValueMade(fs, k0))
      BY <1>8, <1>11 DEF info, v
    <2> QED
      BY <1>1, <1>11, <2>1, OrderlyIsFramed DEF info
  <1>13. p \in Nat /\ \A j \in 1..n :
            IsItem(list[j], text[p + 5 + (3 * j - 2)],
                   text[p + 5 + (3 * j - 1)], text[p + 5 + 3 * j])
    BY <1>12 DEF InfoAt
  <1>14. OneRoot(text, AllPrefixes)
    <2>1. 1 \in 1..Len(text)
      BY <1>2, <1>11
    <2> QED
      BY <2>1, OrderlyParses
  <1>15. /\ Cardinality(targets) = 1
         /\ Sha256(Canonical(Parse(text), First(targets)))
              = SignedPropertiesDigest(fs, Index)
    BY <1>1, <1>9, <1>14, PropertiesTarget DEF props
  <1>16. \A j \in 1..Len(fs) :
           list[j].attr = fs[j].name /\ list[j].data = fs[j].content
    BY <1>1 DEF XadesRefs, XadesRef
  <1>17. /\ list[n].attr = <<"#", SignedPropertiesId(Index)>>
         /\ list[n].data = SignedPropertiesDigest(fs, Index)
    BY <1>1 DEF XadesRefs, XadesRef
  <1> HIDE DEF list, targets
  <1>18. ASSUME NEW j \in 1..n
         PROVE  /\ text[p + 5 + 3 * j - 2].attr = list[j].attr
                /\ text[p + 5 + 3 * j - 2 + 1].data = list[j].data
    <2>1. /\ p + 5 + (3 * j - 2) = p + 5 + 3 * j - 2
          /\ p + 5 + (3 * j - 1) = p + 5 + 3 * j - 2 + 1
      BY <1>1, <1>13
    <2>2. IsItem(list[j], text[p + 5 + 3 * j - 2], text[p + 5 + 3 * j - 2 + 1],
                 text[p + 5 + 3 * j])
      BY <1>13, <2>1
    <2> QED
      BY <2>2 DEF IsItem, Open, Text
  <1>19. ASSUME NEW j \in 1..Len(fs)
         PROVE  Ok(p + 5 + 3 * j - 2)
    <2> DEFINE i == p + 5 + 3 * j - 2
    <2>1. j \in 1..n
      BY <1>1
    <2>2. text[i].attr = fs[j].name /\ text[i + 1].data = fs[j].content
      BY <1>16, <1>18, <2>1
    <2>3. fs[j].name \in FileNames
      BY <1>1 DEF Files
    <2> HIDE DEF i
    <2>4. ~ IsFragment(text[i].attr) /\ text[i].attr # NoAttr
      BY <2>2, <2>3
    <2>5. Ok(i) <=> Resolves(d, [uri |-> text[i].attr, digest |-> text[i + 1].data])
      BY <2>4, FileReference
    <2>6. Resolves(d, [uri |-> fs[j].name, digest |-> fs[j].content])
      OBVIOUS
    <2> QED
      BY <2>2, <2>5, <2>6 DEF i
  <1>20. Ok(p + 5 + 3 * n - 2)
    <2> DEFINE i == p + 5 + 3 * n - 2
               a == text[i].attr
    <2>1. n \in 1..n
      BY <1>1
    <2>2. /\ a = <<"#", SignedPropertiesId(Index)>>
          /\ text[i + 1].data = SignedPropertiesDigest(fs, Index)
      BY <1>17, <1>18, <2>1
    <2> HIDE DEF i, n
    <2>3. IsFragment(text[i].attr) /\ text[i].attr[2] = SignedPropertiesId(Index)
      BY <2>2 DEF IsFragment
    <2>4. Ok(i) <=> /\ Cardinality(targets) = 1
                    /\ Sha256(Canonical(Parse(text), First(targets)))
                         = text[i + 1].data
      BY <2>3, ElementReference DEF targets
    <2> QED
      BY <1>15, <2>2, <2>4 DEF i
  <1>21. \A j \in Spaced(p + 5, n) : Ok(j)
    <2> SUFFICES ASSUME NEW j \in 1..n
                 PROVE  Ok(p + 5 + 3 * j - 2)
      BY DEF Spaced
    <2>1. j = n \/ j \in 1..Len(fs)
      BY <1>1
    <2> HIDE DEF Ok, n
    <2> QED
      BY <1>19, <1>20, <2>1
  <1>22. KeyAccepts(k0, SignatureMethodUri(k0), CanonicalizeXml(info)[1], v)
    BY DEF KeyAccepts, v, ValueMade, info, InfoOf
  <1> HIDE DEF n
  <1> DEFINE g == h - 1
  <1>23. text[g + 1].data = v
    <2>1. g + 1 = h
      BY <1>2, <1>11
    <2> HIDE DEF g
    <2> QED
      BY <1>11, <2>1 DEF Text
  <1>24. IsFramed(text, 2, p + 1, g, p + 2, p + 4, Spaced(p + 5, n))
    BY <1>12
  <1> HIDE DEF g
  <1>25. VerifyXml(text, k0, d) = "Ok"
           <=> /\ \A j \in Spaced(p + 5, n) : Ok(j)
               /\ KeyAccepts(k0, text[p + 4].attr, Canonical(Parse(text), p + 1),
                             text[g + 1].data)
    BY <1>24, VerifyIs
  <1> HIDE DEF Ok
  <1> QED
    BY <1>12, <1>21, <1>22, <1>23, <1>25

(* Survive asks just whether it says what was signed. *)
LEMMA SurviveIs ==
    ASSUME NEW fs, Len(fs) \in Nat, NEW k0, NEW l \in Levels, NEW issuer,
           signed = XadesText(fs, k0, UnsignedOf(l, issuer))
    PROVE  Survive("SignedProperties") <=> SaysWhatWasSigned(xml, fs, k0)
  <1> DEFINE text == XadesText(fs, k0, UnsignedOf(l, issuer))
  <1>1. /\ PartOf(text, "SignedInfo") = InfoOf(fs, k0)
        /\ PartOf(text, "SignatureValue")[2] = Text(ValueMade(fs, k0))
        /\ PartOf(text, "SignedProperties") = Properties(fs)
    BY XadesParts
  <1>2. \A local : Signed(local) = PartOf(text, local)
    BY DEF Signed, PartOf, Positions
  <1> HIDE DEF text
  <1> QED
    BY <1>1, <1>2 DEF Survive, SaysWhatWasSigned

(***************************************************************************)
(* verify_signature accepts what arrives exactly when VerifySignature of   *)
(* the container modules accepts the abstract document.                    *)
(***************************************************************************)
THEOREM SignaturesVerify ==
    ASSUME FilesAreNoElements, TextsAreNoValues
    PROVE  SigningSpec => []VerifyAgrees
  <1>1. OrderlyInv => VerifyAgrees
    <2> SUFFICES ASSUME OrderlyInv, form = "xades", IsSigned,
                        NEW k \in SigningKeys
                 PROVE  VerifyXml(xml, VerifyingKey(k), data) = "Ok"
                          <=> VerifySignature(
                                [doc EXCEPT
                                   !.intact = Survive("SignedProperties"),
                                   !.cert = IF k = key /\ k.kind \in VerifiableKinds
                                            THEN "match" ELSE "mismatch"],
                                data)
      BY DEF VerifyAgrees
    <2> DEFINE u == UnsignedOf(level, Issuer)
               last == IF k = key /\ k.kind \in VerifiableKinds
                       THEN "match" ELSE "mismatch"
               seen == [doc EXCEPT !.intact = Survive("SignedProperties"),
                                   !.cert = last]
               Holding == \A j \in 1..Len(files) :
                             /\ ~ IsFragment(files[j].name)
                             /\ Resolves(data, [uri |-> files[j].name,
                                                digest |-> files[j].content])
    <2>1. SignedInv /\ EditedInv
      BY DEF OrderlyInv, EditedInv
    <2>2. /\ level \in Levels /\ signed = XadesText(files, key, u)
          /\ doc = XadesDocument(level) /\ Len(files) \in Nat
      BY <2>1, SignedLevel DEF IsXadesSigned
    <2>3. files \in Seq(Files) /\ Len(data) \in Nat
      BY <2>1 DEF SignedInv
    <2>4. /\ Regular(xml, ValueMade(files, key))
          /\ Orderly(xml, ValueMade(files, key))
      BY <2>1, <2>2 DEF OrderlyInv, EditedInv
    <2>5. Survive("SignedProperties") <=> SaysWhatWasSigned(xml, files, key)
      BY <2>2, SurviveIs
    <2>6. NoAttr \notin FileNames
      BY SigningAssumption
    <2>7. VerifyXml(xml, k, data) = "Ok"
            <=> /\ k = key /\ k.kind \in VerifiableKinds
                /\ Survive("SignedProperties") /\ Holding
      <3>1. ASSUME VerifyXml(xml, k, data) = "Ok"
            PROVE  /\ k = key /\ k.kind \in VerifiableKinds
                   /\ SaysWhatWasSigned(xml, files, key) /\ Holding
        BY <2>3, <2>4, <2>6, <3>1, AcceptedText
      <3>2. ASSUME k = key, k.kind \in VerifiableKinds,
                   SaysWhatWasSigned(xml, files, key), Holding
            PROVE  VerifyXml(xml, k, data) = "Ok"
        BY <2>3, <2>4, <2>6, <3>2, OrderlyVerifies
      <3> QED
        BY <2>5, <3>1, <3>2
    <2>8. /\ seen.refs = [j \in 1..Len(files) |->
                             [uri |-> files[j].name, digest |-> files[j].content]]
          /\ seen.intact = Survive("SignedProperties") /\ seen.cert = last
      BY <2>2 DEF XadesDocument, BuildXadesBasicSignature
    <2> HIDE DEF seen
    <2>9. VerifySignature(seen, data)
            <=> Holding /\ Survive("SignedProperties") /\ last = "match"
      <3> DEFINE refs == [j \in 1..Len(files) |->
                             [uri |-> files[j].name, digest |-> files[j].content]]
      <3>1. Len(refs) = Len(files)
        BY <2>2
      <3>2. \A j \in 1..Len(files) :
              refs[j] = [uri |-> files[j].name, digest |-> files[j].content]
        OBVIOUS
      <3>3. seen.refs = refs /\ seen.cert = last
        BY <2>8
      <3>4. seen.intact = Survive("SignedProperties")
        BY <2>8
      <3> HIDE DEF refs, last
      <3>5. VerifySignature(seen, data)
              <=> /\ \A j \in 1..Len(seen.refs) :
                        ~ IsFragment(seen.refs[j].uri) /\ Resolves(data, seen.refs[j])
                  /\ seen.intact /\ seen.cert = "match"
        BY DEF VerifySignature
      <3>6. \A j \in 1..Len(seen.refs) :
              /\ seen.refs[j] = [uri |-> files[j].name, digest |-> files[j].content]
              /\ seen.refs[j].uri = files[j].name
        BY <3>1, <3>2, <3>3
      <3>7. Len(seen.refs) = Len(files)
        BY <3>1, <3>3
      <3>8. (\A j \in 1..Len(seen.refs) :
                ~ IsFragment(seen.refs[j].uri) /\ Resolves(data, seen.refs[j]))
              <=> Holding
        BY <3>6, <3>7, Zenon
      <3> HIDE DEF Holding
      <3> QED
        BY <3>3, <3>4, <3>5, <3>8, Zenon
    <2>10. last = "match" <=> k = key /\ k.kind \in VerifiableKinds
      OBVIOUS
    <2> HIDE DEF Holding, last
    <2>11. VerifyXml(xml, k, data) = "Ok" <=> VerifySignature(seen, data)
      BY <2>7, <2>9, <2>10
    <2> QED
      BY <2>11 DEF seen, last, VerifyingKey
  <1> QED
    BY <1>1, OrderlyAlways, PTL

-----------------------------------------------------------------------------
(***************************************************************************)
(* The tokens of an enveloping signature.                                  *)
(***************************************************************************)
(* SignedInfo: itself and the method of its canonical form are not quiet. *)
LEMMA QuietInfo ==
    ASSUME NEW content, NEW id, NEW k0
    PROVE  /\ QuietBut(EnvelopeInfo(content, id, k0), {1, 2})
           /\ Len(EnvelopeInfo(content, id, k0)) = 9
           /\ EnvelopeInfo(content, id, k0)[1] = Open(Ds("SignedInfo"), NoId, NoAttr, {"ds"})
           /\ EnvelopeInfo(content, id, k0)[2]
                = Open(Ds("CanonicalizationMethod"), NoId, C14nUri, {})
  <1> DEFINE r == OneRef(content, id)
             a == Element(Ds("CanonicalizationMethod"), NoId, C14nUri, {}, <<>>)
             b == Element(Ds("SignatureMethod"), NoId, SignatureMethodUri(k0), {}, <<>>)
             m == Methods(k0)
             c == Then(m, r)
             x == EnvelopeRef(content, id)
             info == EnvelopeInfo(content, id, k0)
  <1>1. info = Element(Ds("SignedInfo"), NoId, NoAttr, {"ds"}, c)
        /\ Listed(r, 1, OneList(content, id))
    BY OneRefIs DEF InfoOn
  <1>2. m = Then(a, b)
    BY DEF Methods
  <1>3. /\ SignatureMethodUri(k0) # C14nUri
        /\ <<"#", Written(id)>> # C14nUri
    <2>1. /\ RsaSha256[1] # C14nUri[1] /\ EcdsaSha256[1] # C14nUri[1]
          /\ <<"#", Written(id)>>[1] # C14nUri[1]
      BY DEF RsaSha256, EcdsaSha256, C14nUri
    <2> QED
      BY <2>1 DEF SignatureMethodUri
  <1>4. IsText(<<>>) /\ Len(<<>>) = 0
    BY ShortTexts
  <1>5. /\ IsText(a) /\ Len(a) = 2 /\ IsText(b) /\ Len(b) = 2
        /\ a[1] = Open(Ds("CanonicalizationMethod"), NoId, C14nUri, {})
    <2> DEFINE n == <<>>
    <2>1. IsText(n)
      BY <1>4
    <2>2. Len(n) = 0
      BY <1>4
    <2> HIDE DEF n
    <2>3. /\ IsText(Element(Ds("CanonicalizationMethod"), NoId, C14nUri, {}, n))
          /\ Len(Element(Ds("CanonicalizationMethod"), NoId, C14nUri, {}, n)) = Len(n) + 2
          /\ Element(Ds("CanonicalizationMethod"), NoId, C14nUri, {}, n)[1]
               = Open(Ds("CanonicalizationMethod"), NoId, C14nUri, {})
      BY <2>1, ElementIs
    <2>4. /\ IsText(Element(Ds("SignatureMethod"), NoId, SignatureMethodUri(k0), {}, n))
          /\ Len(Element(Ds("SignatureMethod"), NoId, SignatureMethodUri(k0), {}, n))
               = Len(n) + 2
      BY <2>1, ElementIs
    <2> QED
      BY <2>3, <2>4, <2>2 DEF n
  <1>6. QuietBut(a, {1})
    <2> DEFINE n == <<>>
               none == {}
               one == {1}
    <2>1. QuietBut(n, none)
      BY QuietNone
    <2>2. (\A k \in none : k + 1 \in one) /\ 1 \in one
      OBVIOUS
    <2> HIDE DEF n, none, one
    <2>3. QuietBut(Element(Ds("CanonicalizationMethod"), NoId, C14nUri, none, n), one)
      BY <2>1, <2>2, QuietElement
    <2> QED
      BY <2>3 DEF n, none, one
  <1>7. QuietBut(b, {})
    <2>1. NoValue(<<"RSAKeyValue", 0>>)
      BY TaggedIsNoValue
    <2> QED
      BY <1>3, <2>1, QuietLeaf
  <1>8. QuietBut(r, {}) /\ Len(r) = 3 /\ IsText(r)
    <2>1. Len(r) = 3 /\ IsItem(x, r[1], r[2], r[3]) /\ IsText(r)
      <3>1. Len(r) = 3 * 1 /\ Nested(r)
            /\ IsItem(OneList(content, id)[1], r[3 * 1 - 2], r[3 * 1 - 1], r[3 * 1])
        BY <1>1 DEF Listed, Flat
      <3>2. OneList(content, id)[1] = x
        BY DEF OneList
      <3> QED
        BY <3>1, <3>2 DEF Nested
    <2>2. /\ r[1] = Open(Ds("Reference"), NoId, <<"#", Written(id)>>, {})
          /\ r[2] = Text(EnvelopeDigest(content, id)) /\ r[3] = Close(Ds("Reference"))
      BY <2>1 DEF IsItem, EnvelopeRef
    <2>3. NoValue(EnvelopeDigest(content, id))
      BY ConstantsAreNoValues DEF EnvelopeDigest
    <2>4. IsQuiet(r[1]) /\ IsQuiet(r[2]) /\ IsQuiet(r[3])
      BY <1>3, <2>2, <2>3 DEF IsQuiet
    <2> HIDE DEF r
    <2>5. \A k \in 1..Len(r) : k = 1 \/ k = 2 \/ k = 3
      BY <2>1
    <2> QED
      BY <2>1, <2>4, <2>5 DEF QuietBut
  <1> DEFINE one == {1}
             two == {1, 2}
             none == {}
  <1>9. /\ one \subseteq one /\ 1 \in two /\ \A k \in one : k + 1 \in two
        /\ \A n : \A k \in none : n + k \in one
    OBVIOUS
  <1>10. QuietBut(a, one) /\ QuietBut(b, none) /\ QuietBut(r, none)
    BY <1>6, <1>7, <1>8
  <1> HIDE DEF a, b, m, r, c, one, two, none, x
  <1>11. QuietBut(m, one)
    <2>1. QuietBut(Then(a, b), one)
      BY <1>9, <1>10, QuietJoin
    <2> QED
      BY <1>2, <2>1
  <1>12. QuietBut(c, one)
    <2>1. QuietBut(Then(m, r), one)
      BY <1>9, <1>10, <1>11, QuietJoin
    <2> QED
      BY <2>1 DEF c
  <1>13. QuietBut(info, two)
    <2> DEFINE ds == {"ds"}
    <2> HIDE DEF ds
    <2>1. QuietBut(Element(Ds("SignedInfo"), NoId, NoAttr, ds, c), two)
      BY <1>9, <1>12, QuietElement
    <2> QED
      BY <1>1, <2>1 DEF ds
  <1>14. /\ IsText(m) /\ Len(m) = Len(a) + Len(b) /\ m[1] = a[1]
    <2> IsText(a) /\ IsText(b)
      BY <1>5
    <2>1. /\ IsText(Then(a, b)) /\ Len(Then(a, b)) = Len(a) + Len(b)
          /\ \A k \in 1..Len(a) : Then(a, b)[k] = a[k]
      BY Join
    <2>2. 1 \in 1..Len(a)
      BY <1>5
    <2> QED
      BY <1>2, <2>1, <2>2
  <1>15. IsText(c) /\ Len(c) = Len(m) + Len(r) /\ c[1] = m[1]
    <2> IsText(m) /\ IsText(r)
      BY <1>8, <1>14
    <2>1. /\ IsText(Then(m, r)) /\ Len(Then(m, r)) = Len(m) + Len(r)
          /\ \A k \in 1..Len(m) : Then(m, r)[k] = m[k]
      BY Join
    <2>2. 1 \in 1..Len(m)
      BY <1>5, <1>14
    <2> QED
      BY <2>1, <2>2 DEF c
  <1>16. Len(c) = 7 /\ 1 \in 1..Len(c)
    BY <1>5, <1>8, <1>14, <1>15
  <1>17. /\ Len(info) = Len(c) + 2 /\ info[1] = Open(Ds("SignedInfo"), NoId, NoAttr, {"ds"})
         /\ \A k \in 1..Len(c) : info[k + 1] = c[k]
    <2> DEFINE all == Element(Ds("SignedInfo"), NoId, NoAttr, {"ds"}, c)
    <2>1. /\ Len(all) = Len(c) + 2 /\ all[1] = Open(Ds("SignedInfo"), NoId, NoAttr, {"ds"})
          /\ \A k \in 1..Len(c) : all[k + 1] = c[k]
      BY <1>15, ElementIs
    <2>2. info = all
      BY <1>1
    <2> QED
      BY <2>1, <2>2
  <1>18. info[1 + 1] = c[1]
    BY <1>16, <1>17
  <1> QED
    BY <1>5, <1>13, <1>14, <1>15, <1>16, <1>17, <1>18 DEF two

(* The value in an enveloping signature. *)
EnvelopeValueMade(content, id, k0) ==
    SignWith(k0, CanonicalizeXml(EnvelopeInfo(content, id, k0))[1])

(* What sign_enveloping put together, by its tokens. *)
EnvelopeTokens(text, v, id) ==
    /\ QuietBut(text, {1, 2, 3, 12, 17})
    /\ text[1] = Open(Ds("Signature"), NoId, NoAttr, {"ds"})
    /\ text[2] = Open(Ds("SignedInfo"), NoId, NoAttr, {"ds"})
    /\ text[3] = Open(Ds("CanonicalizationMethod"), NoId, C14nUri, {})
    /\ text[12] = Text(v)
    /\ text[17] = Open(Ds("Object"), id, NoAttr, {"ds"})
    /\ Inside(text, 1) = {2, 11, 14, 17}
    /\ text[11].name = Ds("SignatureValue") /\ text[14].name = Ds("KeyInfo")

(* These are they, and this is where its four parts stand. *)
LEMMA EnvelopeHasTokens ==
    ASSUME NEW names, NEW content, Made(content, names, {}), NoIds(content),
           QuietBut(content, {}), ~ Unfit(content),
           NEW id, NEW k0, ~ NeedsEscape(id), id # NoId
    PROVE  /\ EnvelopeTokens(EnvelopeOf(content, id, k0),
                             EnvelopeValueMade(content, id, k0), id)
           /\ StandsAt(EnvelopeOf(content, id, k0), 1, EnvelopeInfo(content, id, k0))
           /\ StandsAt(EnvelopeOf(content, id, k0), 10, EnvelopeValue(content, id, k0))
           /\ StandsAt(EnvelopeOf(content, id, k0), 13, RsaKeyInfo)
           /\ StandsAt(EnvelopeOf(content, id, k0), 16, Object(content, id))
           /\ Len(EnvelopeInfo(content, id, k0)) = 9 /\ Len(RsaKeyInfo) = 3
           /\ Len(EnvelopeValue(content, id, k0)) = 3
  <1> DEFINE info == EnvelopeInfo(content, id, k0)
             val == EnvelopeValue(content, id, k0)
             obj == Object(content, id)
             text == EnvelopeOf(content, id, k0)
             v == EnvelopeValueMade(content, id, k0)
             ki == RsaKeyInfo
  <1>1. /\ IsElement(ki, Ds("KeyInfo")) /\ IsElement(obj, Ds("Object"))
        /\ IsElement(val, Ds("SignatureValue")) /\ Written(id) = id
    BY EnvelopeParts
  <1>2. /\ Nested(text) /\ Nested(EnvelopeBody(content, id, k0)) /\ Nested(content)
    BY EnvelopeParses DEF Made
  <1>3. text = Element(Ds("Signature"), NoId, NoAttr, {"ds"},
                       Then(info, Then(val, Then(ki, obj))))
    BY <1>2, EnvelopeTextIs DEF EnvelopeBody
  <1>4. IsElement(info, Ds("SignedInfo"))
    BY EnvelopeInfoParses, OneRefIs DEF IsElement, InfoOn
  <1>5. /\ QuietBut(info, {1, 2}) /\ Len(info) = 9
        /\ info[1] = Open(Ds("SignedInfo"), NoId, NoAttr, {"ds"})
        /\ info[2] = Open(Ds("CanonicalizationMethod"), NoId, C14nUri, {})
    BY QuietInfo
  <1>6. NoAttr # C14nUri
    <2>1. NoAttr[1] # C14nUri[1]
      BY DEF NoAttr, C14nUri
    <2> QED
      BY <2>1
  <1>7. /\ QuietBut(val, {2}) /\ Len(val) = 3 /\ val[2] = Text(v)
    <2> DEFINE c == <<Text(v)>>
               none == {}
               one == {1}
               two == {2}
               w == Text(v)
    <2>1. val = Element(Ds("SignatureValue"), NoId, NoAttr, none, c)
      BY DEF EnvelopeValue, ValueOn, SignatureValue, EnvelopeValueMade
    <2>2. IsText(c) /\ c[1] = w
      BY ShortTexts
    <2>3. Len(c) = 1
      BY ShortTexts
    <2>4. (\A k \in one : k + 1 \in two) /\ none = {}
      OBVIOUS
    <2> HIDE DEF c, w
    <2>5. QuietBut(c, one)
      BY <2>2, <2>3 DEF QuietBut
    <2> HIDE DEF none, one, two
    <2>6. QuietBut(Element(Ds("SignatureValue"), NoId, NoAttr, none, c), two)
      BY <1>6, <2>4, <2>5, QuietElement
    <2>7. /\ Len(Element(Ds("SignatureValue"), NoId, NoAttr, none, c)) = Len(c) + 2
          /\ \A k \in 1..Len(c) :
                Element(Ds("SignatureValue"), NoId, NoAttr, none, c)[k + 1] = c[k]
      BY <2>2, ElementIs
    <2>8. 1 \in 1..Len(c) /\ 1 + 1 = 2
      BY <2>3
    <2>9. Element(Ds("SignatureValue"), NoId, NoAttr, none, c)[1 + 1] = c[1]
      BY <2>7, <2>8
    <2> QED
      BY <2>1, <2>2, <2>3, <2>6, <2>7, <2>8, <2>9 DEF two, w
  <1>8. QuietBut(ki, {}) /\ Len(ki) = 3
    <2> DEFINE c == <<Text(<<"RSAKeyValue", 0>>)>>
    <2>1. NoValue(<<"RSAKeyValue", 0>>)
      BY TaggedIsNoValue
    <2>2. IsText(c)
      BY ShortTexts
    <2>3. Len(c) = 1
      BY ShortTexts
    <2>4. ki = Element(Ds("KeyInfo"), NoId, NoAttr, {}, c)
      BY DEF RsaKeyInfo, Leaf
    <2>5. QuietBut(ki, {})
      BY <1>6, <2>1, <2>4, QuietLeaf
    <2> HIDE DEF c
    <2>6. Len(ki) = Len(c) + 2
      BY <2>2, <2>4, ElementIs
    <2> QED
      BY <2>3, <2>5, <2>6
  <1>9. QuietBut(obj, {1}) /\ obj[1] = Open(Ds("Object"), id, NoAttr, {"ds"})
    <2> DEFINE ns == {"ds"}
               none == {}
               one == {1}
    <2>1. obj = Element(Ds("Object"), id, NoAttr, ns, content)
      BY <1>1 DEF Object
    <2>2. QuietBut(content, none) /\ IsText(content)
      BY <1>2 DEF Nested
    <2>3. (\A k \in none : k + 1 \in one) /\ 1 \in one
      OBVIOUS
    <2> HIDE DEF ns, none, one
    <2>4. QuietBut(Element(Ds("Object"), id, NoAttr, ns, content), one)
      BY <2>2, <2>3, QuietElement
    <2>5. Element(Ds("Object"), id, NoAttr, ns, content)[1]
            = Open(Ds("Object"), id, NoAttr, ns)
      BY <2>2, ElementIs
    <2> QED
      BY <2>1, <2>4, <2>5 DEF ns, one
  <1> HIDE DEF info, val, obj, text, v, ki
  <1> DEFINE b3 == Then(ki, obj)
             b2 == Then(val, b3)
             b1 == Then(info, b2)
  <1>10. QuietBut(b3, {4})
    <2> DEFINE none == {}
               one == {1}
               four == {4}
    <2>1. none \subseteq four /\ \A k \in one : Len(ki) + k \in four
      BY <1>8
    <2>2. QuietBut(ki, none) /\ QuietBut(obj, one)
      BY <1>8, <1>9
    <2> HIDE DEF none, one, four
    <2>3. QuietBut(Then(ki, obj), four)
      BY <2>1, <2>2, QuietJoin
    <2> QED
      BY <2>3 DEF four
  <1>11. QuietBut(b2, {2, 7})
    <2> DEFINE four == {4}
               two == {2}
               U == {2, 7}
    <2>1. two \subseteq U /\ \A k \in four : Len(val) + k \in U
      BY <1>7
    <2>2. QuietBut(val, two) /\ QuietBut(b3, four)
      BY <1>7, <1>10
    <2> HIDE DEF two, four, U, b3
    <2>3. QuietBut(Then(val, b3), U)
      BY <2>1, <2>2, QuietJoin
    <2> QED
      BY <2>3 DEF U
  <1>12. QuietBut(b1, {1, 2, 11, 16})
    <2> DEFINE S == {1, 2}
               T == {2, 7}
               U == {1, 2, 11, 16}
    <2>1. S \subseteq U /\ \A k \in T : Len(info) + k \in U
      BY <1>5
    <2>2. QuietBut(info, S) /\ QuietBut(b2, T)
      BY <1>5, <1>11
    <2> HIDE DEF S, T, U, b2
    <2>3. QuietBut(Then(info, b2), U)
      BY <2>1, <2>2, QuietJoin
    <2> QED
      BY <2>3 DEF U
  <1>13. QuietBut(text, {1, 2, 3, 12, 17})
         /\ text[1] = Open(Ds("Signature"), NoId, NoAttr, {"ds"})
    <2> DEFINE S == {1, 2, 11, 16}
               U == {1, 2, 3, 12, 17}
               ns == {"ds"}
    <2>1. 1 \in U /\ \A k \in S : k + 1 \in U
      OBVIOUS
    <2>2. QuietBut(b1, S) /\ IsText(b1)
      BY <1>12 DEF QuietBut
    <2>3. text = Element(Ds("Signature"), NoId, NoAttr, ns, b1)
      BY <1>3
    <2> HIDE DEF S, U, b1, ns
    <2>4. QuietBut(Element(Ds("Signature"), NoId, NoAttr, ns, b1), U)
      BY <2>1, <2>2, QuietElement
    <2>5. Element(Ds("Signature"), NoId, NoAttr, ns, b1)[1]
            = Open(Ds("Signature"), NoId, NoAttr, ns)
      BY <2>2, ElementIs
    <2> QED
      BY <2>3, <2>4, <2>5 DEF U, ns
  <1>14. StandsAt(text, 0, Element(Ds("Signature"), NoId, NoAttr, {"ds"},
                                   Then(info, Then(val, Then(ki, obj)))))
    BY <1>2, <1>3, StandsWhole DEF text
  <1>15. FourAt(text, 0, info, Ds("SignedInfo"), val, Ds("SignatureValue"),
                ki, Ds("KeyInfo"), obj, Ds("Object"))
    <2> DEFINE ns == {"ds"}
    <2> HIDE DEF ns
    <2>1. StandsAt(text, 0, Element(Ds("Signature"), NoId, NoAttr, ns,
                                    Then(info, Then(val, Then(ki, obj)))))
      BY <1>14 DEF ns
    <2> QED
      BY <1>1, <1>4, <2>1, FourInside DEF info, val, obj, ki
  <1>16. /\ 0 + 1 = 1 /\ 1 + Len(info) = 10 /\ 10 + Len(val) = 13 /\ 13 + Len(ki) = 16
         /\ 1 + 1 = 2 /\ 10 + 1 = 11 /\ 13 + 1 = 14 /\ 16 + 1 = 17
    BY <1>5, <1>7, <1>8
  <1>17. /\ Inside(text, 1) = {2, 11, 14, 17}
         /\ StandsAt(text, 1, info) /\ StandsAt(text, 10, val)
        /\ StandsAt(text, 13, ki) /\ StandsAt(text, 16, obj)
         /\ text[11].name = Ds("SignatureValue") /\ text[14].name = Ds("KeyInfo")
    BY <1>15, <1>16 DEF FourAt
  <1>18. text[1 + 1] = info[1] /\ text[1 + 2] = info[2]
    <2>1. 1 \in 1..Len(info) /\ 2 \in 1..Len(info)
      BY <1>5
    <2> QED
      BY <1>17, <2>1 DEF StandsAt
  <1>19. text[10 + 2] = val[2]
    <2>1. 2 \in 1..Len(val)
      BY <1>7
    <2> QED
      BY <1>17, <2>1 DEF StandsAt
  <1>20. text[16 + 1] = obj[1]
    <2>1. 1 \in 1..Len(obj)
      BY <1>1, ElementOf DEF obj
    <2> QED
      BY <1>17, <2>1 DEF StandsAt
  <1>21. /\ text[2] = info[1] /\ text[3] = info[2] /\ text[12] = val[2]
         /\ text[17] = obj[1]
    BY <1>18, <1>19, <1>20
  <1>22. EnvelopeTokens(text, v, id)
    BY <1>5, <1>7, <1>9, <1>13, <1>17, <1>21 DEF EnvelopeTokens
  <1> QED
    BY <1>5, <1>7, <1>8, <1>17, <1>22 DEF text, v, info, val, ki, obj

(* Its names and prefixes. *)
LEMMA EnvelopeIsMade ==
    ASSUME NEW content, Made(content, PayloadNames, {}), ~ Unfit(content),
           NEW id, NEW k0
    PROVE  Made(EnvelopeOf(content, id, k0), EnvelopeNames, {"ds"})
  <1> DEFINE info == EnvelopeInfo(content, id, k0)
             val == EnvelopeValue(content, id, k0)
             obj == Object(content, id)
             c == <<Text(EnvelopeValueMade(content, id, k0))>>
             none == {}
             ns == {"ds"}
             names == EnvelopeNames
  <1>1. Made(content, names, ns)
    <2>1. /\ Nested(content)
          /\ \A k \in Elements(content) : content[k].name \in PayloadNames
                                          /\ content[k].ns \subseteq {}
      BY DEF Made
    <2>2. \A k \in Elements(content) : content[k].name[1] \in {"", "ds"}
      BY DEF Unfit
    <2>3. \A k \in Elements(content) :
            content[k].name \in EnvelopeNames /\ content[k].ns \subseteq ns
      BY <2>1, <2>2 DEF EnvelopeNames
    <2> QED
      BY <2>1, <2>3 DEF Made
  <1>2. Made(info, names, ns)
    <2>1. Made(info, InfoNames, ns) /\ InfoNames \subseteq names
      BY EnvelopeInfoParses DEF EnvelopeNames
    <2> QED
      BY <2>1 DEF Made
  <1>3. /\ Ds("Signature") \in names /\ Ds("SignatureValue") \in names
        /\ Ds("KeyInfo") \in names /\ Ds("Object") \in names
        /\ none \subseteq ns /\ ns \subseteq ns
    BY DEF EnvelopeNames
  <1>4. val = Element(Ds("SignatureValue"), NoId, NoAttr, none, c)
    BY DEF EnvelopeValue, ValueOn, SignatureValue, EnvelopeValueMade
  <1>5. obj = Element(Ds("Object"), Written(id), NoAttr, ns, content)
    BY DEF Object
  <1>6. Nested(content)
    BY DEF Made
  <1>7. EnvelopeOf(content, id, k0)
          = Element(Ds("Signature"), NoId, NoAttr, ns,
                    Then(info, Then(val, Then(RsaKeyInfo, obj))))
    BY <1>6, EnvelopeTextIs DEF EnvelopeBody
  <1>8. Made(c, names, ns)
    BY MadeText
  <1> HIDE DEF none, ns, names, info, val, obj, c
  <1>9. Made(val, names, ns)
    BY <1>3, <1>4, <1>8, MadeElement
  <1>10. Made(obj, names, ns)
    BY <1>1, <1>3, <1>5, MadeElement
  <1>11. Made(RsaKeyInfo, names, ns)
    BY <1>3, MadeLeaf DEF RsaKeyInfo
  <1>12. Made(Then(RsaKeyInfo, obj), names, ns)
    BY <1>10, <1>11, MadeJoin
  <1>13. Made(Then(val, Then(RsaKeyInfo, obj)), names, ns)
    BY <1>9, <1>12, MadeJoin
  <1>14. Made(Then(info, Then(val, Then(RsaKeyInfo, obj))), names, ns)
    BY <1>2, <1>13, MadeJoin
  <1> DEFINE b == Then(info, Then(val, Then(RsaKeyInfo, obj)))
  <1>15. Made(b, names, ns)
    BY <1>14
  <1> HIDE DEF b
  <1>16. Made(Element(Ds("Signature"), NoId, NoAttr, ns, b), names, ns)
    BY <1>3, <1>15, MadeElement
  <1> QED
    BY <1>7, <1>16 DEF b, names, ns

(* What sign_enveloping makes is enclosed. *)
LEMMA EnvelopeIsEnclosed ==
    ASSUME NEW content, Made(content, PayloadNames, {}), NoIds(content),
           QuietBut(content, {}), ~ Unfit(content),
           NEW id, NEW k0, ~ NeedsEscape(id), id # NoId
    PROVE  Enclosed(EnvelopeOf(content, id, k0), EnvelopeValueMade(content, id, k0), id)
  <1> DEFINE text == EnvelopeOf(content, id, k0)
             v == EnvelopeValueMade(content, id, k0)
  <1>1. EnvelopeTokens(text, v, id)
    BY EnvelopeHasTokens
  <1>2. Made(text, EnvelopeNames, {"ds"})
    BY EnvelopeIsMade
  <1>3. OneRoot(text, {"ds"}) /\ IdsAreUnique(text)
    BY EnvelopeParses
  <1> HIDE DEF text, v
  <1>4. /\ text[1] = Open(Ds("Signature"), NoId, NoAttr, {"ds"})
        /\ text[2] = Open(Ds("SignedInfo"), NoId, NoAttr, {"ds"})
        /\ text[3] = Open(Ds("CanonicalizationMethod"), NoId, C14nUri, {})
        /\ text[12] = Text(v)
        /\ text[17] = Open(Ds("Object"), id, NoAttr, {"ds"})
        /\ Inside(text, 1) = {2, 11, 14, 17}
        /\ text[11].name = Ds("SignatureValue") /\ text[14].name = Ds("KeyInfo")
    BY <1>1 DEF EnvelopeTokens
  <1>5. ASSUME NEW k \in 1..Len(text)
        PROVE  k \in {1, 2, 3, 12, 17} \/ IsQuiet(text[k])
    BY <1>1 DEF EnvelopeTokens, QuietBut
  <1>6. NoAttr # C14nUri
    <2>1. NoAttr[1] # C14nUri[1]
      BY DEF NoAttr, C14nUri
    <2> QED
      BY <2>1
  <1>7. Formed(text)
    <2>1. ASSUME NEW k \in 1..Len(text), IsQuiet(text[k])
          PROVE  IsFormed(text[k])
      BY <2>1 DEF IsQuiet, IsFormed
    <2>2. \A k \in {1, 2, 3, 12, 17} : IsFormed(text[k])
      BY <1>4 DEF IsFormed
    <2> QED
      BY <1>5, <2>1, <2>2 DEF Formed
  <1>8. text[1].name = Ds("Signature")
    BY <1>4 DEF Open
  <1>9. \A k : k \in Elements(text) <=> k \in 1..Len(text) /\ text[k].kind = "open"
    BY ElementsOf
  <1>10. /\ text[2].name[2] = "SignedInfo" /\ text[11].name[2] = "SignatureValue"
         /\ text[14].name[2] = "KeyInfo" /\ text[17].name[2] = "Object"
    BY <1>4 DEF Open, Ds
  <1>11. /\ InsideNamed(text, 1, "SignedInfo") = {2}
         /\ InsideNamed(text, 1, "SignatureValue") = {11}
    BY <1>4, <1>10 DEF InsideNamed, Named
  <1>12. ASSUME NEW k \in Elements(text), IsQuiet(text[k])
         PROVE  text[k].id = NoId /\ text[k].ns = {} /\ text[k].attr # C14nUri
    <2> DEFINE t == text[k]
    <2>1. t.kind = "open"
      BY <1>9
    <2>2. \/ \E x : t = Text(x)
          \/ \E name : t = Close(name)
          \/ \E name, attr : t = Open(name, NoId, attr, {}) /\ attr # C14nUri
      BY <1>12 DEF IsQuiet
    <2> HIDE DEF t
    <2>3. \A x : t # Text(x)
      BY <2>1 DEF Text
    <2>4. \A name : t # Close(name)
      BY <2>1 DEF Close
    <2>5. PICK name, attr : t = Open(name, NoId, attr, {}) /\ attr # C14nUri
      BY <2>2, <2>3, <2>4
    <2>6. t.id = NoId /\ t.ns = {} /\ t.attr = attr
      BY <2>5 DEF Open
    <2> QED
      BY <2>5, <2>6 DEF t
  <1>13. ASSUME NEW k \in Elements(text), ~ IsQuiet(text[k])
         PROVE  k \in {1, 2, 3, 17}
    <2>1. k \in {1, 2, 3, 12, 17}
      BY <1>5, <1>9, <1>13
    <2>2. text[12].kind = "text"
      BY <1>4 DEF Text
    <2> QED
      BY <1>9, <2>1, <2>2
  <1>14. /\ text[1].attr = NoAttr /\ text[2].attr = NoAttr /\ text[17].attr = NoAttr
         /\ text[1].id = NoId /\ text[2].id = NoId /\ text[3].id = NoId /\ text[17].id = id
         /\ text[2].ns = {"ds"} /\ text[3].ns = {} /\ text[17].ns = {"ds"}
    BY <1>4 DEF Open
  <1>15. ASSUME NEW k \in Elements(text), text[k].attr = C14nUri
         PROVE  k - 1 \in InsideNamed(text, 1, "SignedInfo") /\ text[k - 1].ns = {"ds"}
    <2>1. k \in {1, 2, 3, 17}
      BY <1>12, <1>13, <1>15
    <2>2. k = 3
      BY <1>6, <1>14, <1>15, <2>1
    <2>3. k - 1 = 2
      BY <2>2
    <2> QED
      BY <1>11, <1>14, <2>3
  <1>16. ASSUME NEW k \in 1..Len(text), NEW x, text[k] = Text(x), ~ NoValue(x)
         PROVE  x = v /\ k - 1 \in InsideNamed(text, 1, "SignatureValue")
    <2>1. text[k].kind = "text" /\ text[k].data = x
      BY <1>16 DEF Text
    <2>2. ~ IsQuiet(text[k])
      <3> SUFFICES ASSUME IsQuiet(text[k]) PROVE FALSE
        OBVIOUS
      <3> DEFINE t == text[k]
      <3>1. t.kind = "text"
        BY <2>1
      <3>2. \/ \E y : t = Text(y) /\ NoValue(y)
            \/ \E name : t = Close(name)
            \/ \E name, attr : t = Open(name, NoId, attr, {})
        BY DEF IsQuiet
      <3> HIDE DEF t
      <3>3. \A name : t # Close(name)
        BY <3>1 DEF Close
      <3>4. \A name, attr : t # Open(name, NoId, attr, {})
        BY <3>1 DEF Open
      <3>5. PICK y : text[k] = Text(y) /\ NoValue(y)
        BY <3>2, <3>3, <3>4 DEF t
      <3>6. y = x
        BY <2>1, <3>5 DEF Text
      <3> QED
        BY <1>16, <3>5, <3>6
    <2>3. k \in {1, 2, 3, 12, 17}
      BY <1>5, <2>2
    <2>4. text[1].kind = "open" /\ text[2].kind = "open" /\ text[3].kind = "open"
          /\ text[17].kind = "open"
      BY <1>4 DEF Open
    <2>5. k = 12
      BY <2>1, <2>3, <2>4
    <2>6. text[12].data = v
      BY <1>4 DEF Text
    <2>7. k - 1 = 11
      BY <2>5
    <2> QED
      BY <1>11, <2>1, <2>5, <2>6, <2>7
  <1>17. ASSUME NEW k \in Elements(text), text[k].id = id
         PROVE  k \in Inside(text, 1) /\ text[k].ns = {"ds"}
    <2>1. k \in {1, 2, 3, 17}
      BY <1>12, <1>13, <1>17
    <2>2. k = 17
      BY <1>14, <1>17, <2>1
    <2> QED
      BY <1>4, <1>14, <2>2
  <1>18. \A i, j \in Elements(text) : text[i].id = id /\ text[j].id = id => i = j
    BY <1>3 DEF IdsAreUnique
  <1>19. \A local \in InSignature : \A i, j \in InsideNamed(text, 1, local) : i = j
    BY <1>11 DEF InSignature
  <1>20. ASSUME NEW k \in Elements(text)
         PROVE  text[k].ns = {} \/ k = 1 \/ k \in Inside(text, 1)
    BY <1>4, <1>12, <1>13, <1>14
  <1> HIDE DEF InSignature
  <1>21. Enclosed(text, v, id)
    BY <1>2, <1>3, <1>7, <1>8, <1>15, <1>16, <1>17, <1>18, <1>19, <1>20 DEF Enclosed
  <1> QED
    BY <1>21 DEF text, v

-----------------------------------------------------------------------------
(***************************************************************************)
(* An enveloping signature stays enclosed, whatever is changed on its way. *)
(***************************************************************************)
(* The value in the signature of this run. *)
ValueEnveloped == EnvelopeValueMade(payload, objectId, key)

(* The invariant: the payload is quiet, and a signed document stays         *)
(* enclosed.                                                                *)
EnclosedInv ==
    /\ EnvelopedInv
    /\ QuietBut(payload, {})
    /\ level = "enveloping" => Enclosed(xml, ValueEnveloped, objectId)

(* It holds before anything is signed. *)
LEMMA EnclosedInit == SigningInit => EnclosedInv
  <1> SUFFICES ASSUME SigningInit PROVE EnclosedInv
    OBVIOUS
  <1>1. payload = <<>> /\ level # "enveloping"
    BY DEF SigningInit
  <1>2. EnvelopedInv
    BY EnvelopedInit
  <1>3. QuietBut(<<>>, {})
    BY QuietNone
  <1> QED
    BY <1>1, <1>2, <1>3 DEF EnclosedInv

(* Envelop makes it so. *)
LEMMA EnvelopedIsEnclosed ==
    ASSUME NEW content, Made(content, PayloadNames, {}), NoIds(content),
           QuietBut(content, {}), NEW id \in ObjectIds, NEW k0,
           SignEnveloping(content, id, k0).ok
    PROVE  Enclosed(SignEnveloping(content, id, k0).xml,
                    EnvelopeValueMade(content, id, k0), id)
  <1>1. /\ ~ NeedsEscape(id) /\ ~ Unfit(content)
        /\ SignEnveloping(content, id, k0).xml = EnvelopeOf(content, id, k0)
    BY EnvelopeIs
  <1>2. id # NoId
    BY SigningAssumption
  <1>3. Enclosed(EnvelopeOf(content, id, k0), EnvelopeValueMade(content, id, k0), id)
    BY <1>1, <1>2, EnvelopeIsEnclosed
  <1> QED
    BY <1>1, <1>3

(* Every step keeps the invariant. *)
LEMMA EnclosedStep ==
    ASSUME TextsAreNoValues
    PROVE  EnclosedInv /\ [SigningNext]_signingVars => EnclosedInv'
  <1> SUFFICES ASSUME EnclosedInv, [SigningNext]_signingVars
               PROVE  EnclosedInv'
    OBVIOUS
  <1>1. EnvelopedInv /\ EnvelopedInv' /\ QuietBut(payload, {})
    BY EnvelopedStep DEF EnclosedInv
  <1>2. level = "enveloping" => Enclosed(xml, ValueEnveloped, objectId)
    BY DEF EnclosedInv
  <1>3. ASSUME NEW name \in PayloadNames, Fill(name)
        PROVE  EnclosedInv'
    <2> DEFINE x == <<"field", Len(payload)>>
    <2>1. level' = "none"
          /\ \/ payload' = Then(payload, Leaf(name, x))
             \/ payload' = Element(name, NoId, NoAttr, {}, payload)
      BY <1>3 DEF Fill, Then
    <2>2. NoValue(x)
      BY TaggedIsNoValue
    <2> HIDE DEF x
    <2>3. /\ QuietBut(Then(payload, Leaf(name, x)), {})
          /\ QuietBut(Element(name, NoId, NoAttr, {}, payload), {})
      BY <1>1, <2>2, FilledIsQuiet
    <2>4. \A s : QuietBut(s, {}) /\ payload' = s => QuietBut(payload', {})
      OBVIOUS
    <2>5. QuietBut(payload', {})
      BY <2>1, <2>3, <2>4, Zenon DEF x
    <2> QED
      BY <1>1, <2>1, <2>5 DEF EnclosedInv
  <1>4. ASSUME \/ \E file \in Files : AddFile(file)
               \/ Sign \/ Stamp \/ AddValues
        PROVE  EnclosedInv'
    <2>1. UNCHANGED payload
      BY <1>4 DEF AddFile, Sign, Stamp, AddValues, Make, job
    <2>2. level' # "enveloping"
      BY <1>4 DEF AddFile, Sign, Stamp, AddValues, Make
    <2> QED
      BY <1>1, <2>1, <2>2 DEF EnclosedInv
  <1>5. CASE Envelop
    <2>1. UNCHANGED payload /\ xml' = signed'
      BY <1>5 DEF Envelop, Make, job
    <2>2. QuietBut(payload, {})'
      BY <1>1, <2>1
    <2>3. ASSUME level' = "enveloping"
          PROVE  Enclosed(signed', EnvelopeValueMade(payload', objectId', key'), objectId')
      <3>1. /\ objectId' \in ObjectIds
            /\ Made(payload', PayloadNames, {}) /\ NoIds(payload')
            /\ SignEnveloping(payload', objectId', key').ok
            /\ signed' = SignEnveloping(payload', objectId', key').xml
        BY <1>1, <2>3 DEF EnvelopedInv, SignedInv, Levels, Enveloped, Made, NoIds
      <3>2. QuietBut(payload', {})
        BY <2>2
      <3> QED
        BY <3>1, <3>2, EnvelopedIsEnclosed
    <2> QED
      BY <1>1, <2>1, <2>2, <2>3 DEF EnclosedInv, ValueEnveloped
  <1>6. CASE Alter \/ LoseElement \/ ChangeData
    <2>1. UNCHANGED <<key, payload, objectId, level>>
      BY <1>6 DEF Alter, LoseElement, ChangeData, Edited, job
    <2> SUFFICES ASSUME level = "enveloping"
                 PROVE  Enclosed(xml', ValueEnveloped, objectId)
      BY <1>1, <2>1 DEF EnclosedInv, ValueEnveloped
    <2> DEFINE v == ValueEnveloped
    <2>2. Enclosed(xml, v, objectId)
      BY <1>2
    <2>3. objectId # OtherAttr /\ NoValue(Altered)
      <3>1. objectId \in ObjectIds
        BY <1>1 DEF EnvelopedInv, SignedInv, Levels
      <3> QED
        BY <3>1, SigningAssumption DEF TextsAreNoValues
    <2> HIDE DEF v
    <2>4. CASE Alter
      <3>1. PICK k \in 1..Len(xml) : \E token \in AlteredTokens(xml[k]) :
               xml' = [xml EXCEPT ![k] = token]
        BY <2>4 DEF Alter
      <3>2. PICK token \in AlteredTokens(xml[k]) : xml' = [xml EXCEPT ![k] = token]
        BY <3>1
      <3>3. Enclosed([xml EXCEPT ![k] = token], v, objectId)
        BY <2>2, <2>3, EnclosedAltered
      <3> QED
        BY <3>2, <3>3 DEF v
    <2>5. CASE LoseElement
      <3>1. PICK k \in Elements(xml) :
               xml' = SubSeq(xml, 1, k - 1) \o SubSeq(xml, EndTag(xml, k) + 1, Len(xml))
        BY <2>5 DEF LoseElement
      <3>2. Enclosed(SubSeq(xml, 1, k - 1) \o SubSeq(xml, EndTag(xml, k) + 1, Len(xml)),
                     v, objectId)
        BY <2>2, <2>3, EnclosedLosing
      <3> QED
        BY <3>1, <3>2 DEF v
    <2>6. CASE ChangeData
      <3>1. xml' = xml
        BY <2>6 DEF ChangeData
      <3> QED
        BY <2>2, <3>1 DEF v
    <2> QED
      BY <1>6, <2>4, <2>5, <2>6
  <1>7. CASE UNCHANGED signingVars
    <2>1. UNCHANGED <<xml, level, payload, key, objectId>>
      BY <1>7 DEF signingVars, job
    <2> QED
      BY <1>1, <1>2, <2>1 DEF EnclosedInv, ValueEnveloped
  <1> QED
    BY <1>3, <1>4, <1>5, <1>6, <1>7 DEF SigningNext

(* So it holds always. *)
LEMMA EnclosedAlways ==
    ASSUME TextsAreNoValues
    PROVE  SigningSpec => []EnclosedInv
  BY EnclosedInit, EnclosedStep, PTL DEF SigningSpec

-----------------------------------------------------------------------------
(***************************************************************************)
(* Whatever has become of an enveloping signature: it is accepted just     *)
(* with the key of the signer and with what was signed still in it.        *)
(***************************************************************************)
(* What sign_enveloping does not refuse. *)
Enveloping(content, id) ==
    /\ Made(content, PayloadNames, {}) /\ NoIds(content) /\ QuietBut(content, {})
    /\ ~ Unfit(content) /\ ~ NeedsEscape(id) /\ id # NoId

(* The parts that are digested and signed: they declare the prefix of the   *)
(* signature, and nothing in them declares any.                             *)
Outside(part) ==
    /\ IsText(part) /\ Formed(part)
    /\ \A j \in Elements(part) : part[j].ns = IF j = 1 THEN {"ds"} ELSE {}

(* SignedInfo is such a part. *)
LEMMA InfoIsOutside ==
    ASSUME NEW content, NEW id, NEW k0
    PROVE  LET info == EnvelopeInfo(content, id, k0)
           IN  /\ Outside(info) /\ Len(info) = 9 /\ 2 \in Elements(info)
               /\ info[2].attr = C14nUri
               /\ CanonicalizeXml(info) = <<FormIn(info, {"ds"})>>
  <1> DEFINE info == EnvelopeInfo(content, id, k0)
  <1>1. /\ QuietBut(info, {1, 2}) /\ Len(info) = 9
        /\ info[1] = Open(Ds("SignedInfo"), NoId, NoAttr, {"ds"})
        /\ info[2] = Open(Ds("CanonicalizationMethod"), NoId, C14nUri, {})
    BY QuietInfo
  <1>2. OneRoot(info, {"ds"}) /\ IsWellFormed(Parse(info)) /\ Nested(info)
    BY EnvelopeInfoParses
  <1> HIDE DEF info
  <1>3. CanonicalizeXml(info) = <<FormIn(info, {"ds"})>>
    BY <1>2, CanonicalAlone
  <1>4. /\ IsText(info)
        /\ \A k \in 1..Len(info) : k = 1 \/ k = 2 \/ IsQuiet(info[k])
    BY <1>1 DEF QuietBut
  <1>5. /\ info[1].ns = {"ds"} /\ info[2].ns = {} /\ info[2].attr = C14nUri
        /\ info[2].kind = "open"
    BY <1>1 DEF Open
  <1>6. IsFormed(info[1]) /\ IsFormed(info[2])
    BY <1>1 DEF IsFormed
  <1>7. Formed(info)
    BY <1>4, <1>6, QuietTells DEF Formed
  <1>8. 2 \in Elements(info)
    <2>1. 2 \in 1..Len(info)
      BY <1>1
    <2> QED
      BY <1>5, <2>1, ElementsOf
  <1>9. ASSUME NEW j \in Elements(info)
        PROVE  info[j].ns = IF j = 1 THEN {"ds"} ELSE {}
    <2>1. j \in 1..Len(info) /\ info[j].kind = "open"
      BY ElementsOf
    <2>2. j = 1 \/ j = 2 \/ (j # 1 /\ info[j].ns = {})
      BY <1>4, <2>1, QuietTells
    <2> QED
      BY <1>5, <2>2
  <1>10. Outside(info)
    BY <1>4, <1>7, <1>9 DEF Outside
  <1> QED
    BY <1>1, <1>3, <1>5, <1>8, <1>10 DEF info

(* The object is such a part, and its digest is that of its canonical form. *)
LEMMA ObjectIsOutside ==
    ASSUME NEW content, NEW id, Enveloping(content, id)
    PROVE  LET obj == Object(content, id)
           IN  /\ Outside(obj) /\ IsElement(obj, Ds("Object"))
               /\ obj = Element(Ds("Object"), id, NoAttr, {"ds"}, content)
               /\ obj[1] = Open(Ds("Object"), id, NoAttr, {"ds"})
               /\ EnvelopeDigest(content, id) = Sha256(FormIn(obj, {"ds"}))
  <1> DEFINE obj == Object(content, id)
             ns == {"ds"}
             none == {}
  <1>1. /\ Made(content, PayloadNames, {}) /\ NoIds(content) /\ QuietBut(content, {})
        /\ ~ Unfit(content) /\ ~ NeedsEscape(id) /\ id # NoId
    BY DEF Enveloping
  <1>2. IsElement(obj, Ds("Object")) /\ Written(id) = id
    BY <1>1, EnvelopeParts
  <1>3. obj = Element(Ds("Object"), id, NoAttr, ns, content) /\ Nested(content)
    BY <1>1, <1>2 DEF Object, Made
  <1>4. Nested(obj) /\ IsText(obj) /\ 1 \in Elements(obj) /\ EndTag(obj, 1) = Len(obj)
    BY <1>2, ElementOf
  <1>5. IsWellFormed(Parse(obj))
    <2>1. \A j \in Elements(content) : content[j].name # Ds("Object")
      BY <1>1 DEF Unfit
    <2>2. \A j \in Elements(content) : content[j].name[1] \in {"", "ds"}
      BY <1>1 DEF Unfit
    <2> QED
      BY <1>1, <2>1, <2>2, WholeObject
  <1>6. QuietBut(obj, {1}) /\ obj[1] = Open(Ds("Object"), id, NoAttr, ns)
    <2> DEFINE one == {1}
    <2>1. QuietBut(content, none) /\ IsText(content)
      BY <1>1, <1>3 DEF Nested
    <2>2. (\A k \in none : k + 1 \in one) /\ 1 \in one
      OBVIOUS
    <2> HIDE DEF ns, none, one, obj
    <2>3. QuietBut(Element(Ds("Object"), id, NoAttr, ns, content), one)
      BY <2>1, <2>2, QuietElement
    <2>4. Element(Ds("Object"), id, NoAttr, ns, content)[1]
            = Open(Ds("Object"), id, NoAttr, ns)
      BY <2>1, ElementIs
    <2> QED
      BY <1>3, <2>3, <2>4 DEF one
  <1> HIDE DEF obj
  <1>7. obj[1].ns = ns
    BY <1>6 DEF Open
  <1>8. IsFormed(obj[1])
    BY <1>6 DEF IsFormed
  <1>9. \A k \in 1..Len(obj) : k = 1 \/ IsQuiet(obj[k])
    BY <1>6 DEF QuietBut
  <1>10. Formed(obj)
    BY <1>9, <1>8, QuietTells DEF Formed
  <1>11. ASSUME NEW j \in Elements(obj)
         PROVE  obj[j].ns = IF j = 1 THEN ns ELSE {}
    <2>1. j \in 1..Len(obj) /\ obj[j].kind = "open"
      BY ElementsOf
    <2>2. j = 1 \/ (j # 1 /\ obj[j].ns = {})
      BY <1>9, <2>1, QuietTells
    <2> QED
      BY <1>7, <2>2
  <1>12. Outside(obj)
    BY <1>4, <1>10, <1>11 DEF Outside
  <1>13. OneRoot(obj, ns)
    BY <1>4, <1>7, <1>11 DEF OneRoot
  <1>14. CanonicalizeXml(obj) = <<FormIn(obj, ns)>>
    BY <1>4, <1>5, <1>13, CanonicalAlone
  <1>15. EnvelopeDigest(content, id) = Sha256(FormIn(obj, ns))
    BY <1>14 DEF EnvelopeDigest, obj
  <1> QED
    BY <1>2, <1>3, <1>6, <1>12, <1>15 DEF obj

(* The one reference of a SignedInfo that is copied into a text, and what a *)
(* verifier looks for beside it.                                            *)
LEMMA InfoOfCopy ==
    ASSUME NEW content, NEW id, NEW k0, NEW text, Nested(text),
           NEW p, IsCopied(text, p, EnvelopeInfo(content, id, k0))
    PROVE  /\ p \in Nat /\ p + 1 \in Elements(text)
           /\ StandsAt(text, p, EnvelopeInfo(content, id, k0))
           /\ text[p + 1] = Open(Ds("SignedInfo"), NoId, NoAttr, {"ds"})
           /\ InsideNamed(text, p + 1, "CanonicalizationMethod") = {p + 2}
           /\ InsideNamed(text, p + 1, "SignatureMethod") = {p + 4}
           /\ InsideNamed(text, p + 1, "Reference") = {p + 6}
           /\ text[p + 2].attr = C14nUri /\ text[p + 4].attr = SignatureMethodUri(k0)
           /\ text[p + 6].attr = <<"#", Written(id)>>
           /\ text[p + 7] = Text(EnvelopeDigest(content, id))
  <1> DEFINE info == EnvelopeInfo(content, id, k0)
             r == OneRef(content, id)
             list == OneList(content, id)
             ns == {"ds"}
             n == 1
             x == EnvelopeRef(content, id)
  <1>1. Nested(info) /\ Nested(Then(Methods(k0), r))
    BY EnvelopeInfoParses
  <1>2. info = InfoOn(k0, ns, r) /\ Listed(r, n, list)
    BY OneRefIs
  <1>3. info = Element(Ds("SignedInfo"), NoId, NoAttr, ns, Then(Methods(k0), r))
    BY <1>2 DEF InfoOn
  <1>4. NamedReference(list, n)
    BY DEF NamedReference, OneList, EnvelopeRef, Ds
  <1>5. list[1] = x /\ n \in Nat /\ n = 1
    BY DEF OneList
  <1>6. x.attr = <<"#", Written(id)>> /\ x.data = EnvelopeDigest(content, id)
    BY DEF EnvelopeRef
  <1>7. IsCopied(text, p, info)
    OBVIOUS
  <1> HIDE DEF info, r, list, ns, n, x
  <1>8. StandsAt(text, p, info)
    BY <1>1, <1>7, CopyStands
  <1>9. StandsAt(text, p, Element(Ds("SignedInfo"), NoId, NoAttr, ns,
                                  Then(Methods(k0), r)))
    BY <1>3, <1>8
  <1>10. InfoAt(text, p, k0, n, list)
    BY <1>2, <1>4, <1>5, <1>9, InfoIsAt
  <1>11. p + 1 \in Elements(text) /\ text[p + 1] = Open(Ds("SignedInfo"), NoId, NoAttr, ns)
    BY <1>1, <1>9, InsideStanding
  <1>12. /\ p \in Nat
         /\ InsideNamed(text, p + 1, "CanonicalizationMethod") = {p + 2}
         /\ InsideNamed(text, p + 1, "SignatureMethod") = {p + 4}
         /\ InsideNamed(text, p + 1, "Reference") = Spaced(p + 5, n)
         /\ text[p + 2].attr = C14nUri /\ text[p + 4].attr = SignatureMethodUri(k0)
         /\ \A k \in 1..n : IsItem(list[k], text[p + 5 + (3 * k - 2)],
                                   text[p + 5 + (3 * k - 1)], text[p + 5 + 3 * k])
    BY <1>10 DEF InfoAt
  <1>13. Spaced(p + 5, n) = {p + 6}
    <2>1. p + 5 + 3 * 1 - 2 = p + 6
      BY <1>12
    <2>2. \A k : k \in 1..n <=> k = 1
      BY <1>5
    <2> QED
      BY <2>1, <2>2 DEF Spaced
  <1>14. IsItem(x, text[p + 6], text[p + 7], text[p + 8])
    <2>1. /\ p + 5 + (3 * 1 - 2) = p + 6 /\ p + 5 + (3 * 1 - 1) = p + 7
          /\ p + 5 + 3 * 1 = p + 8 /\ 1 \in 1..n
      BY <1>5, <1>12
    <2>2. IsItem(list[1], text[p + 5 + (3 * 1 - 2)],
                 text[p + 5 + (3 * 1 - 1)], text[p + 5 + 3 * 1])
      BY <1>12, <2>1
    <2> QED
      BY <1>5, <2>1, <2>2
  <1>15. text[p + 6].attr = x.attr /\ text[p + 7] = Text(x.data)
    BY <1>14 DEF IsItem, Open
  <1> QED
    BY <1>6, <1>8, <1>11, <1>12, <1>13, <1>15 DEF ns, info

(* The SignedInfo, the value and the object that were made are still there. *)
SaysWhatWasEnveloped(text, content, id, k0) ==
    /\ Contains(text, EnvelopeInfo(content, id, k0))
    /\ Contains(text, <<Text(EnvelopeValueMade(content, id, k0))>>)
    /\ Contains(text, Object(content, id))

(* What is accepted has the signer's value and, under it, the SignedInfo    *)
(* that was signed.                                                         *)
LEMMA EnclosedInfo ==
    ASSUME NEW content, NEW id, NEW k0,
           NEW text, Enclosed(text, EnvelopeValueMade(content, id, k0), id),
           NEW k, NEW d, NEW a, NEW v, AcceptedWith(text, k, d, a, v)
    PROVE  /\ k = k0 /\ Contains(text, <<Text(EnvelopeValueMade(content, id, k0))>>)
           /\ \E p : p + 1 = a /\ IsCopied(text, p, EnvelopeInfo(content, id, k0))
  <1> DEFINE info == EnvelopeInfo(content, id, k0)
             V == EnvelopeValueMade(content, id, k0)
             c == Canonical(Parse(text), a)
             z == CanonicalizeXml(info)[1]
             j == v + 1
  <1>1. Nested(text) /\ IsText(text) /\ Len(text) \in Nat /\ Formed(text)
    <2>1. Nested(text) /\ IsText(text) /\ Formed(text)
      BY DEF Enclosed, Made, Nested
    <2> QED
      BY <2>1, TextIsSequence
  <1>2. /\ a \in Elements(text) /\ v \in Elements(text)
        /\ EndTag(text, a) # 0 /\ EndTag(text, v) # 0
        /\ text[j].kind = "text" /\ text[j].data = SignWith(k, c)
    BY DEF AcceptedWith
  <1>3. j \in 1..Len(text)
    <2>1. v \in 1..Len(text)
      BY <1>2, ElementsOf
    <2>2. EndTag(text, v) \in (v + 1)..Len(text)
      BY <1>1, <1>2, EndTagOfOpen
    <2> QED
      BY <1>1, <2>1, <2>2
  <1>4. V = SignWith(k0, z)
    BY DEF EnvelopeValueMade
  <1>5. /\ Outside(info) /\ Len(info) = 9 /\ 2 \in Elements(info)
        /\ info[2].attr = C14nUri
        /\ CanonicalizeXml(info) = <<FormIn(info, {"ds"})>>
    BY InfoIsOutside
  <1>6. Enclosed(text, V, id)
    OBVIOUS
  <1> HIDE DEF j, c, info, V, z
  <1>7. PICK x : text[j] = Text(x)
    <2> DEFINE t == text[j]
    <2>1. IsFormed(t) /\ t.kind = "text"
      BY <1>1, <1>2, <1>3 DEF Formed
    <2> HIDE DEF t
    <2>2. \A name : t # Close(name)
      BY <2>1 DEF Close
    <2>3. \A name, i, attr, ns : t # Open(name, i, attr, ns)
      BY <2>1 DEF Open
    <2>4. \E x : t = Text(x)
      BY <2>1, <2>2, <2>3 DEF IsFormed
    <2> QED
      BY <2>4 DEF t
  <1>8. x = SignWith(k, c)
    BY <1>2, <1>7 DEF Text
  <1>9. ~ NoValue(x)
    BY <1>8 DEF NoValue
  <1>10. x = V
    BY <1>3, <1>6, <1>7, <1>9 DEF Enclosed
  <1>11. k = k0 /\ c = z
    <2>1. SignWith(k, c) = SignWith(k0, z)
      BY <1>4, <1>8, <1>10
    <2> QED
      BY <2>1, ValuesDiffer
  <1>12. Contains(text, <<Text(V)>>)
    <2>1. Contains(text, <<text[j]>>)
      BY <1>1, <1>3, OneTokenContained
    <2> QED
      BY <1>7, <1>10, <2>1
  <1>13. Canonical(Parse(text), a) = FormIn(info, {"ds"})
    BY <1>5, <1>11 DEF c, z
  <1>14. IsText(info) /\ Formed(info)
    BY <1>5 DEF Outside
  <1>15. FormsAs(text, a, info)
    <2> DEFINE ns == {"ds"}
    <2>1. Canonical(Parse(text), a) = FormIn(info, ns)
      BY <1>13
    <2> HIDE DEF ns
    <2> QED
      BY <1>1, <1>2, <1>14, <2>1, CanonicalForms
  <1>16. a \in Inside(text, 1) /\ text[a].ns = {"ds"}
    <2> DEFINE b == a + 2 - 1
    <2>1. 2 \in 1..Len(info)
      BY <1>5
    <2>2. a \in Nat /\ b \in 1..Len(text) /\ \E m, n : FormOf(text[b], m) = FormOf(info[2], n)
      BY <1>15, <2>1 DEF FormsAs
    <2>3. b - 1 = a
      BY <2>2
    <2> HIDE DEF b
    <2>4. PICK m, n : FormOf(text[b], m) = FormOf(info[2], n)
      BY <2>2
    <2>5. IsFormed(text[b]) /\ IsFormed(info[2])
      BY <1>1, <1>14, <2>1, <2>2 DEF Formed
    <2>6. /\ text[b].kind = info[2].kind
          /\ text[b].kind = "open" => text[b].attr = info[2].attr
      BY <2>4, <2>5, FormKeeps
    <2>7. info[2].kind = "open"
      BY <1>5, ElementsOf
    <2>8. b \in Elements(text) /\ text[b].attr = C14nUri
      BY <1>5, <2>2, <2>6, <2>7, ElementsOf
    <2>9. b - 1 \in InsideNamed(text, 1, "SignedInfo") /\ text[b - 1].ns = {"ds"}
      BY <1>6, <2>8 DEF Enclosed
    <2> QED
      BY <2>3, <2>9 DEF InsideNamed, Named
  <1>17. \A i \in Elements(info) : info[i].ns = IF i = 1 THEN {"ds"} ELSE {}
    BY <1>5 DEF Outside
  <1>18. \E p : p + 1 = a /\ IsCopied(text, p, info)
    BY <1>6, <1>14, <1>15, <1>16, <1>17, EnclosedCopy
  <1> QED
    BY <1>11, <1>12, <1>18 DEF info, V

(* The element that its reference names is the object that was signed. *)
LEMMA EnclosedObject ==
    ASSUME NEW content, NEW id, Enveloping(content, id), NEW v,
           NEW text, Enclosed(text, v, id),
           \A i \in Elements(text) : EndTag(text, i) # 0, NEW d, NEW j,
           ReferenceResult(Parse(text), j, d) = "Ok",
           text[j].attr = <<"#", id>>, text[j + 1].data = EnvelopeDigest(content, id)
    PROVE  Contains(text, Object(content, id))
  <1> DEFINE uri == text[j].attr
             targets == WithId(Parse(text), id)
             obj == Object(content, id)
             ns == {"ds"}
             q == First(targets)
  <1>1. Nested(text) /\ IsText(text) /\ Len(text) \in Nat /\ Formed(text)
    <2>1. Nested(text) /\ IsText(text) /\ Formed(text)
      BY DEF Enclosed, Made, Nested
    <2> QED
      BY <2>1, TextIsSequence
  <1>2. uri = <<"#", id>>
    OBVIOUS
  <1> HIDE DEF uri
  <1>3. IsFragment(uri) /\ uri[2] = id
    BY <1>2 DEF IsFragment
  <1>4. /\ Cardinality(targets) = 1
        /\ Sha256(Canonical(Parse(text), q)) = text[j + 1].data
    <2>1. IsFragment(text[j].attr) /\ text[j].attr[2] = id
      BY <1>3 DEF uri
    <2> QED
      BY <2>1, ElementReference
  <1>5. /\ Outside(obj) /\ EnvelopeDigest(content, id) = Sha256(FormIn(obj, ns))
    BY ObjectIsOutside
  <1>6. \A i : i \in targets <=> i \in Elements(text) /\ text[i].id = id
    BY ParseIs DEF WithId, Nodes
  <1> HIDE DEF targets, obj, ns
  <1>7. q \in Elements(text) /\ text[q].id = id
    <2>1. IsFiniteSet(targets) /\ Elements(text) \subseteq 1..Len(text)
      <3>1. IsFiniteSet(Elements(text)) /\ Elements(text) \subseteq 1..Len(text)
        BY <1>1, ElementNumbers
      <3>2. targets \subseteq Elements(text)
        BY <1>6
      <3> QED
        BY <3>1, <3>2, FS_Subset
    <2>2. \E x : targets = {x}
      BY <1>4, <2>1, FS_Singleton
    <2>3. PICK x : targets = {x}
      BY <2>2
    <2>4. x \in Elements(text) /\ text[x].id = id /\ x \in Nat
      BY <1>1, <1>6, <2>1, <2>3
    <2>5. First({x}) = x
      BY <2>4, FirstOfOne
    <2> QED
      BY <2>3, <2>4, <2>5
  <1> HIDE DEF q
  <1>8. Canonical(Parse(text), q) = FormIn(obj, ns)
    <2> DEFINE x == Canonical(Parse(text), q)
               y == FormIn(obj, ns)
    <2>1. Sha256(x) = Sha256(y)
      BY <1>4, <1>5
    <2> HIDE DEF x, y
    <2>2. x = y
      BY <2>1 DEF Sha256
    <2> QED
      BY <2>2 DEF x, y
  <1>9. /\ IsText(obj) /\ Formed(obj)
        /\ \A i \in Elements(obj) : obj[i].ns = IF i = 1 THEN {"ds"} ELSE {}
    BY <1>5 DEF Outside
  <1>10. EndTag(text, q) # 0
    BY <1>7
  <1>11. FormsAs(text, q, obj)
    BY <1>1, <1>7, <1>8, <1>9, <1>10, CanonicalForms
  <1>12. q \in Inside(text, 1) /\ text[q].ns = {"ds"}
    BY <1>7 DEF Enclosed
  <1>13. PICK p : p + 1 = q /\ IsCopied(text, p, obj)
    BY <1>9, <1>11, <1>12, EnclosedCopy
  <1>14. Contains(text, obj)
    BY <1>1, <1>9, <1>13, CopyIsWithin
  <1> QED
    BY <1>14 DEF obj

(* So what is accepted is so with the signer's key, and says what was       *)
(* enveloped.                                                               *)
LEMMA EnclosedAccepted ==
    ASSUME NEW content, NEW id, Enveloping(content, id), NEW k0,
           NEW text, Enclosed(text, EnvelopeValueMade(content, id, k0), id),
           NEW k, NEW d, VerifyXml(text, k, d) = "Ok"
    PROVE  k = k0 /\ SaysWhatWasEnveloped(text, content, id, k0)
  <1> DEFINE info == EnvelopeInfo(content, id, k0)
             V == EnvelopeValueMade(content, id, k0)
  <1>1. Nested(text) /\ IsText(text)
    BY DEF Enclosed, Made, Nested
  <1>2. PICK a, v : AcceptedWith(text, k, d, a, v)
    BY AcceptedIs
  <1>3. /\ k = k0 /\ Contains(text, <<Text(V)>>)
        /\ \E p : p + 1 = a /\ IsCopied(text, p, info)
    BY <1>2, EnclosedInfo
  <1>4. PICK p : p + 1 = a /\ IsCopied(text, p, info)
    BY <1>3
  <1>5. Contains(text, info)
    <2>1. IsText(info)
      BY InfoIsOutside DEF Outside
    <2> QED
      BY <1>1, <1>4, <2>1, CopyIsWithin
  <1>6. /\ p \in Nat /\ InsideNamed(text, p + 1, "Reference") = {p + 6}
        /\ text[p + 6].attr = <<"#", Written(id)>>
        /\ text[p + 7] = Text(EnvelopeDigest(content, id))
    BY <1>1, <1>4, InfoOfCopy
  <1>7. ReferenceResult(Parse(text), p + 6, d) = "Ok"
    <2>1. p + 6 \in InsideNamed(text, a, "Reference")
      BY <1>4, <1>6
    <2> QED
      BY <1>2, <2>1 DEF AcceptedWith
  <1>8. Written(id) = id
    BY DEF Enveloping, Written
  <1> DEFINE j == p + 6
  <1>9. /\ ReferenceResult(Parse(text), j, d) = "Ok"
        /\ text[j].attr = <<"#", id>> /\ j + 1 = p + 7
    BY <1>6, <1>7, <1>8
  <1> HIDE DEF j
  <1>10. text[j + 1].data = EnvelopeDigest(content, id)
    BY <1>6, <1>9 DEF Text
  <1>11. \A i \in Elements(text) : EndTag(text, i) # 0
    BY <1>2 DEF AcceptedWith
  <1>12. Contains(text, Object(content, id))
    BY <1>9, <1>10, <1>11, EnclosedObject
  <1> QED
    BY <1>3, <1>5, <1>12 DEF SaysWhatWasEnveloped

(* Where verify_signature finds the parts of an enclosed text. *)
LEMMA EnclosedIsFramed ==
    ASSUME NEW content, NEW id, NEW k0,
           NEW text, Enclosed(text, EnvelopeValueMade(content, id, k0), id),
           NEW p, IsCopied(text, p, EnvelopeInfo(content, id, k0)),
           NEW h \in 1..Len(text), text[h] = Text(EnvelopeValueMade(content, id, k0))
    PROVE  IsFramed(text, 1, p + 1, h - 1, p + 2, p + 4, {p + 6})
  <1> DEFINE v == EnvelopeValueMade(content, id, k0)
             a == p + 1
             g == h - 1
             R == {p + 6}
  <1>1. Nested(text) /\ IsText(text) /\ Len(text) \in Nat
    <2>1. Nested(text) /\ IsText(text)
      BY DEF Enclosed, Made, Nested
    <2> QED
      BY <2>1, TextIsSequence
  <1>2. IsWellFormed(Parse(text)) /\ 1 \in Positions(text, "Signature")
    <2>1. 1 \in 1..Len(text)
      BY <1>1
    <2> QED
      BY <2>1, EnclosedParses
  <1>3. /\ p \in Nat /\ p + 1 \in Elements(text)
        /\ InsideNamed(text, p + 1, "CanonicalizationMethod") = {p + 2}
        /\ InsideNamed(text, p + 1, "SignatureMethod") = {p + 4}
        /\ InsideNamed(text, p + 1, "Reference") = {p + 6}
        /\ text[p + 2].attr = C14nUri /\ text[p + 4].attr = SignatureMethodUri(k0)
        /\ text[p + 7] = Text(EnvelopeDigest(content, id))
    BY <1>1, InfoOfCopy
  <1>4. ~ NoValue(v)
    BY DEF NoValue, EnvelopeValueMade
  <1>5. Enclosed(text, v, id) /\ text[h] = Text(v)
    OBVIOUS
  <1> HIDE DEF v
  <1>6. a \in InsideNamed(text, 1, "SignedInfo")
    <2> DEFINE c == p + 2
    <2>1. c \in InsideNamed(text, p + 1, "CanonicalizationMethod") /\ text[c].attr = C14nUri
      BY <1>3
    <2>2. c - 1 = a
      BY <1>3
    <2> HIDE DEF c, a
    <2>3. c \in Elements(text)
      BY <2>1 DEF InsideNamed, Named, Inside
    <2>4. c - 1 \in InsideNamed(text, 1, "SignedInfo")
      BY <1>5, <2>1, <2>3 DEF Enclosed
    <2> QED
      BY <2>2, <2>4
  <1>7. g \in InsideNamed(text, 1, "SignatureValue")
    BY <1>4, <1>5 DEF Enclosed
  <1> HIDE DEF a, g
  <1>8. /\ InsideNamed(text, 1, "SignedInfo") = {a}
        /\ InsideNamed(text, 1, "SignatureValue") = {g}
    <2>1. \A local \in InSignature : \A i, j \in InsideNamed(text, 1, local) : i = j
      BY <1>5 DEF Enclosed
    <2>2. "SignedInfo" \in InSignature /\ "SignatureValue" \in InSignature
      BY DEF InSignature
    <2> QED
      BY <1>6, <1>7, <2>1, <2>2
  <1>9. /\ 1 \in Elements(text) /\ \A j \in Positions(text, "Signature") : 1 <= j
    <2>1. \A j \in Elements(text) : j \in Nat \ {0}
      BY ElementsOf
    <2>2. \A j \in Elements(text) : 1 <= j
      BY <2>1
    <2> QED
      BY <1>2, <2>2 DEF Positions
  <1>10. g \in Nat /\ text[g + 1].kind = "text"
    <2>1. h \in Nat /\ g = h - 1 /\ h >= 1
      BY <1>1 DEF g
    <2>2. g + 1 = h /\ g \in Nat
      BY <2>1
    <2>3. text[h].kind = "text"
      BY <1>5 DEF Text
    <2> QED
      BY <2>2, <2>3
  <1>11. R # {} /\ R \subseteq Nat /\ \A k \in R : text[k + 1].kind = "text"
    <2>1. p + 6 \in Nat /\ (p + 6) + 1 = p + 7
      BY <1>3
    <2>2. text[p + 7].kind = "text"
      BY <1>3 DEF Text
    <2>3. \A k \in R : k = p + 6
      OBVIOUS
    <2> QED
      BY <2>1, <2>2, <2>3
  <1>12. SignatureMethodUri(k0) \in {RsaSha256, EcdsaSha256}
    BY DEF SignatureMethodUri
  <1>13. p + 2 \in Nat /\ p + 4 \in Nat
    BY <1>3
  <1>14. /\ a \in Elements(text)
         /\ InsideNamed(text, a, "CanonicalizationMethod") = {p + 2}
         /\ InsideNamed(text, a, "SignatureMethod") = {p + 4}
         /\ InsideNamed(text, a, "Reference") = R
         /\ text[p + 2].attr = C14nUri
         /\ text[p + 4].attr \in {RsaSha256, EcdsaSha256}
    BY <1>3, <1>12 DEF a
  <1> HIDE DEF R
  <1>15. IsFramed(text, 1, a, g, p + 2, p + 4, R)
    BY <1>2, <1>8, <1>9, <1>10, <1>11, <1>13, <1>14 DEF IsFramed
  <1> QED
    BY <1>15 DEF a, g, R

(* The Id of the object leads to the copy of the object, and to nothing     *)
(* else.                                                                    *)
LEMMA ObjectTarget ==
    ASSUME NEW content, NEW id, Enveloping(content, id), NEW v,
           NEW text, Enclosed(text, v, id), OneRoot(text, {"ds"}),
           NEW p, IsCopied(text, p, Object(content, id))
    PROVE  LET targets == WithId(Parse(text), id)
           IN  /\ Cardinality(targets) = 1
               /\ Sha256(Canonical(Parse(text), First(targets)))
                    = EnvelopeDigest(content, id)
  <1> DEFINE obj == Object(content, id)
             ns == {"ds"}
             q == p + 1
  <1>1. Nested(text) /\ IsText(text)
    BY DEF Enclosed, Made, Nested
  <1>2. /\ IsElement(obj, Ds("Object")) /\ obj[1] = Open(Ds("Object"), id, NoAttr, ns)
        /\ EnvelopeDigest(content, id) = Sha256(FormIn(obj, ns))
    BY ObjectIsOutside
  <1>3. IsCopied(text, p, obj) /\ OneRoot(text, ns)
    OBVIOUS
  <1> HIDE DEF obj, ns
  <1>4. Nested(obj) /\ EndTag(obj, 1) = Len(obj) /\ 1 \in Elements(obj)
    BY <1>2, ElementOf
  <1>5. StandsAt(text, p, obj)
    BY <1>1, <1>3, <1>4, CopyStands
  <1>6. Canonical(Parse(text), p + 1) = FormIn(obj, ns)
    BY <1>3, <1>4, <1>5, CanonicalStanding
  <1>7. p \in Nat /\ q \in Elements(text) /\ text[q] = obj[1]
    <2>1. 1 \in 1..Len(obj)
      BY <1>4, ElementsOf
    <2> QED
      BY <1>4, <1>5, <2>1 DEF StandsAt
  <1>8. text[q].id = id
    BY <1>2, <1>7 DEF Open
  <1>9. \A i, j \in Elements(text) : text[i].id = id /\ text[j].id = id => i = j
    BY DEF Enclosed
  <1>10. q \in Nat
    BY <1>7, ElementsOf
  <1> HIDE DEF q
  <1>11. WithId(Parse(text), id) = {q}
    <2>1. \A i : i \in WithId(Parse(text), id) <=> i \in Elements(text) /\ text[i].id = id
      BY ParseIs DEF WithId, Nodes
    <2> QED
      BY <1>7, <1>8, <1>9, <2>1
  <1>12. First({q}) = q /\ Cardinality({q}) = 1
    BY <1>10, FirstOfOne, FS_Singleton
  <1> QED
    BY <1>2, <1>6, <1>11, <1>12 DEF q

(* What is still enclosed and says what was enveloped is accepted with the  *)
(* signer's key.                                                            *)
LEMMA EnclosedVerifies ==
    ASSUME NEW content, NEW id, Enveloping(content, id), NEW k0, k0.kind = "Rsa",
           NEW text, Enclosed(text, EnvelopeValueMade(content, id, k0), id),
           SaysWhatWasEnveloped(text, content, id, k0), NEW d
    PROVE  VerifyXml(text, k0, d) = "Ok"
  <1> DEFINE v == EnvelopeValueMade(content, id, k0)
             info == EnvelopeInfo(content, id, k0)
             obj == Object(content, id)
             ns == {"ds"}
             one == <<Text(v)>>
             targets == WithId(Parse(text), id)
             Ok(j) == ReferenceResult(Parse(text), j, d) = "Ok"
  <1>1. Nested(text) /\ IsText(text) /\ Len(text) \in Nat
    <2>1. Nested(text) /\ IsText(text)
      BY DEF Enclosed, Made, Nested
    <2> QED
      BY <2>1, TextIsSequence
  <1>2. /\ IsText(info) /\ CanonicalizeXml(info) = <<FormIn(info, ns)>>
        /\ IsText(obj)
    BY InfoIsOutside, ObjectIsOutside DEF Outside
  <1>3. Contains(text, info) /\ Contains(text, one) /\ Contains(text, obj)
    BY DEF SaysWhatWasEnveloped
  <1>4. IsText(one) /\ Len(one) = 1 /\ one[1] = Text(v)
    BY ShortTexts
  <1>5. v = SignWith(k0, CanonicalizeXml(info)[1])
    BY DEF EnvelopeValueMade
  <1> HIDE DEF v, info, obj, one, ns
  <1>6. PICK p : IsCopied(text, p, info)
    BY <1>1, <1>2, <1>3, ContainedIsCopied
  <1>7. PICK s : IsCopied(text, s, obj)
    BY <1>1, <1>2, <1>3, ContainedIsCopied
  <1>8. PICK o : IsCopied(text, o, one)
    <2>1. IsText(one)
      BY <1>4
    <2> QED
      BY <1>1, <1>3, <2>1, ContainedIsCopied
  <1> DEFINE h == o + 1
  <1>9. h \in 1..Len(text) /\ text[h] = Text(v)
    BY <1>1, <1>4, <1>8 DEF IsCopied
  <1> HIDE DEF h
  <1> DEFINE g == h - 1
  <1>10. IsFramed(text, 1, p + 1, g, p + 2, p + 4, {p + 6})
    BY <1>6, <1>9, EnclosedIsFramed DEF v, info
  <1>11. text[g + 1].data = v
    <2>1. g + 1 = h
      BY <1>1, <1>9
    <2> HIDE DEF g
    <2> QED
      BY <1>9, <2>1 DEF Text
  <1> HIDE DEF g
  <1>12. OneRoot(text, ns)
    <2>1. 1 \in 1..Len(text)
      BY <1>1, <1>9
    <2> QED
      BY <2>1, EnclosedParses DEF ns
  <1>13. /\ p \in Nat /\ StandsAt(text, p, info)
         /\ text[p + 4].attr = SignatureMethodUri(k0)
         /\ text[p + 6].attr = <<"#", Written(id)>>
         /\ text[p + 7] = Text(EnvelopeDigest(content, id))
    BY <1>1, <1>6, InfoOfCopy DEF info
  <1>14. Canonical(Parse(text), p + 1) = FormIn(info, ns)
    <2>1. 1 \in Elements(info) /\ EndTag(info, 1) = Len(info)
      BY EnvelopeInfoParses DEF OneRoot, info
    <2> QED
      BY <1>12, <1>13, <2>1, CanonicalStanding
  <1>15. Ok(p + 6)
    <2> DEFINE j == p + 6
               a == text[j].attr
    <2>1. a = <<"#", id>>
      BY <1>13 DEF Enveloping, Written
    <2>2. j + 1 = p + 7
      BY <1>13
    <2> HIDE DEF j
    <2>3. text[j + 1].data = EnvelopeDigest(content, id)
      BY <1>13, <2>2 DEF Text
    <2> HIDE DEF a
    <2>4. IsFragment(a) /\ a[2] = id
      BY <2>1 DEF IsFragment
    <2>5. Ok(j) <=> /\ Cardinality(targets) = 1
                    /\ Sha256(Canonical(Parse(text), First(targets)))
                         = text[j + 1].data
      BY <2>4, ElementReference DEF a
    <2>6. /\ Cardinality(targets) = 1
          /\ Sha256(Canonical(Parse(text), First(targets))) = EnvelopeDigest(content, id)
      BY <1>7, <1>12, ObjectTarget DEF obj, ns
    <2> HIDE DEF Ok, targets
    <2>7. Ok(j)
      BY <2>3, <2>5, <2>6
    <2> QED
      BY <2>7 DEF j
  <1>16. KeyAccepts(k0, text[p + 4].attr, Canonical(Parse(text), p + 1), text[g + 1].data)
    <2>1. k0.kind \in VerifiableKinds
      BY KeyAssumption
    <2>2. v = SignWith(k0, FormIn(info, ns))
      BY <1>2, <1>5
    <2> QED
      BY <1>11, <1>13, <1>14, <2>1, <2>2 DEF KeyAccepts
  <1>17. VerifyXml(text, k0, d) = "Ok"
           <=> /\ \A j \in {p + 6} : Ok(j)
               /\ KeyAccepts(k0, text[p + 4].attr, Canonical(Parse(text), p + 1),
                             text[g + 1].data)
    BY <1>10, VerifyIs
  <1> HIDE DEF Ok
  <1> QED
    BY <1>15, <1>16, <1>17

(* The parts that Survive looks for, in what sign_enveloping put together. *)
LEMMA EnvelopePartsAre ==
    ASSUME NEW content, NEW id, Enveloping(content, id), NEW k0
    PROVE  LET text == EnvelopeOf(content, id, k0)
           IN  /\ PartOf(text, "SignedInfo") = EnvelopeInfo(content, id, k0)
               /\ PartOf(text, "SignatureValue")[2]
                    = Text(EnvelopeValueMade(content, id, k0))
               /\ PartOf(text, "Object") = Object(content, id)
  <1> DEFINE text == EnvelopeOf(content, id, k0)
             info == EnvelopeInfo(content, id, k0)
             val == EnvelopeValue(content, id, k0)
             obj == Object(content, id)
             v == EnvelopeValueMade(content, id, k0)
             ki == RsaKeyInfo
  <1>1. /\ Made(content, PayloadNames, {}) /\ NoIds(content) /\ QuietBut(content, {})
        /\ ~ Unfit(content) /\ ~ NeedsEscape(id) /\ id # NoId
    BY DEF Enveloping
  <1>2. /\ EnvelopeTokens(text, v, id)
        /\ StandsAt(text, 1, info) /\ StandsAt(text, 10, val)
        /\ StandsAt(text, 13, ki) /\ StandsAt(text, 16, obj)
        /\ Len(info) = 9 /\ Len(ki) = 3 /\ Len(val) = 3
    BY <1>1, EnvelopeHasTokens
  <1>3. IsElement(obj, Ds("Object")) /\ IsElement(val, Ds("SignatureValue"))
    BY <1>1, EnvelopeParts
  <1>4. IsElement(info, Ds("SignedInfo"))
    BY EnvelopeInfoParses, OneRefIs DEF IsElement, InfoOn
  <1>5. Positions(info, "SignatureValue") = {} /\ Positions(info, "Object") = {}
    <2>1. \A name \in InfoNames : name[2] # "SignatureValue" /\ name[2] # "Object"
      BY DEF InfoNames, Ds
    <2> DEFINE ns == {"ds"}
    <2>2. Made(info, InfoNames, ns)
      BY EnvelopeInfoParses
    <2> HIDE DEF ns, info
    <2> QED
      BY <2>1, <2>2, PositionsAbsent
  <1>6. Positions(ki, "Object") = {}
    <2> DEFINE ns == {}
               names == {Ds("KeyInfo")}
    <2>1. \A name \in names : name[2] # "Object"
      BY DEF Ds
    <2>2. Ds("KeyInfo") \in names
      OBVIOUS
    <2> HIDE DEF ns, names
    <2>3. Made(Leaf(Ds("KeyInfo"), <<"RSAKeyValue", 0>>), names, ns)
      BY <2>2, MadeLeaf
    <2>4. Made(ki, names, ns)
      BY <2>3 DEF RsaKeyInfo
    <2> QED
      BY <2>1, <2>4, PositionsAbsent
  <1>7. Positions(val, "Object") = {} /\ val[2] = Text(v)
    <2> DEFINE ns == {}
               names == {Ds("SignatureValue")}
               c == <<Text(v)>>
    <2>1. \A name \in names : name[2] # "Object"
      BY DEF Ds
    <2>2. Ds("SignatureValue") \in names /\ ns \subseteq ns
      OBVIOUS
    <2>3. val = Element(Ds("SignatureValue"), NoId, NoAttr, ns, c)
      BY DEF EnvelopeValue, ValueOn, SignatureValue, EnvelopeValueMade
    <2>4. IsText(c) /\ c[1] = Text(v)
      BY ShortTexts
    <2>5. 1 \in 1..Len(c)
      BY ShortTexts
    <2>6. Made(c, names, ns)
      BY MadeText
    <2> HIDE DEF ns, names, c, val, v
    <2>7. Made(Element(Ds("SignatureValue"), NoId, NoAttr, ns, c), names, ns)
      BY <2>2, <2>6, MadeElement
    <2>8. Element(Ds("SignatureValue"), NoId, NoAttr, ns, c)[1 + 1] = c[1]
      BY <2>4, <2>5, ElementIs
    <2>9. Positions(val, "Object") = {}
      BY <2>1, <2>3, <2>7, PositionsAbsent
    <2> QED
      BY <2>3, <2>4, <2>8, <2>9
  <1>8. text[1].name = Ds("Signature")
    BY <1>2 DEF EnvelopeTokens, Open
  <1> HIDE DEF text, info, val, obj, v, ki
  <1>9. \A local : \A j \in Positions(text, local) :
           j \in Nat /\ 1 <= j /\ (local # "Signature" => j # 1)
    <2> SUFFICES ASSUME NEW local, NEW j \in Positions(text, local)
                 PROVE  j \in Nat /\ 1 <= j /\ (local # "Signature" => j # 1)
      OBVIOUS
    <2>1. j \in Elements(text) /\ text[j].name[2] = local
      BY DEF Positions
    <2>2. j \in Nat \ {0}
      BY <2>1, ElementsOf
    <2>3. j = 1 => local = "Signature"
      BY <1>8, <2>1 DEF Ds
    <2> QED
      BY <2>2, <2>3
  <1>10. \A j \in Positions(text, "SignedInfo") : 1 + 1 <= j
    BY <1>9
  <1>11. \A j \in Positions(text, "SignatureValue") : 10 + 1 <= j
    <2> SUFFICES ASSUME NEW j \in Positions(text, "SignatureValue")
                 PROVE  11 <= j
      OBVIOUS
    <2>1. j <= 1 \/ 1 + Len(info) < j
      BY <1>2, <1>5, NoneWhereItStands
    <2>2. j \in Nat /\ 1 <= j /\ j # 1
      BY <1>9
    <2> QED
      BY <1>2, <2>1, <2>2
  <1>12. \A j \in Positions(text, "Object") : 16 + 1 <= j
    <2> SUFFICES ASSUME NEW j \in Positions(text, "Object")
                 PROVE  17 <= j
      OBVIOUS
    <2>1. j <= 1 \/ 1 + Len(info) < j
      BY <1>2, <1>5, NoneWhereItStands
    <2>2. j <= 10 \/ 10 + Len(val) < j
      BY <1>2, <1>7, NoneWhereItStands
    <2>3. j <= 13 \/ 13 + Len(ki) < j
      BY <1>2, <1>6, NoneWhereItStands
    <2>4. j \in Nat /\ 1 <= j /\ j # 1
      BY <1>9
    <2> QED
      BY <1>2, <2>1, <2>2, <2>3, <2>4
  <1>13. /\ Ds("SignedInfo")[2] = "SignedInfo" /\ Ds("Object")[2] = "Object"
         /\ Ds("SignatureValue")[2] = "SignatureValue"
    BY DEF Ds
  <1>14. PartOf(text, "SignedInfo") = info
    BY <1>2, <1>4, <1>10, <1>13, FirstPart
  <1>15. PartOf(text, "SignatureValue") = val
    BY <1>2, <1>3, <1>11, <1>13, FirstPart
  <1>16. PartOf(text, "Object") = obj
    BY <1>2, <1>3, <1>12, <1>13, FirstPart
  <1> QED
    BY <1>7, <1>14, <1>15, <1>16 DEF text, info, val, obj, v

(* What Survive asks of a text that was signed as an enveloping one. *)
LEMMA EnvelopeSurvives ==
    ASSUME NEW content, NEW id, Enveloping(content, id), NEW k0,
           signed = EnvelopeOf(content, id, k0)
    PROVE  Survive("Object") <=> SaysWhatWasEnveloped(xml, content, id, k0)
  <1> DEFINE text == EnvelopeOf(content, id, k0)
  <1>1. /\ PartOf(text, "SignedInfo") = EnvelopeInfo(content, id, k0)
        /\ PartOf(text, "SignatureValue")[2]
             = Text(EnvelopeValueMade(content, id, k0))
        /\ PartOf(text, "Object") = Object(content, id)
    BY EnvelopePartsAre
  <1>2. \A local : Signed(local) = PartOf(text, local)
    BY DEF Signed, PartOf, Positions
  <1> HIDE DEF text
  <1> QED
    BY <1>1, <1>2 DEF Survive, SaysWhatWasEnveloped

(***************************************************************************)
(* An enveloping signature is accepted, whatever has happened to it on the *)
(* way, exactly with the signer's key and when what was signed is still    *)
(* there.                                                                  *)
(***************************************************************************)
THEOREM EnvelopesVerify ==
    ASSUME TextsAreNoValues
    PROVE  SigningSpec => []EnvelopeVerifies
  <1>1. EnclosedInv => EnvelopeVerifies
    <2> SUFFICES ASSUME EnclosedInv, form = "enveloping", IsSigned,
                        NEW k \in SigningKeys
                 PROVE  VerifyXml(xml, VerifyingKey(k), <<>>) = "Ok"
                          <=> Survive("Object") /\ k = key
      BY DEF EnvelopeVerifies
    <2>1. EnvelopedInv /\ QuietBut(payload, {})
      BY DEF EnclosedInv
    <2>2. /\ level = "enveloping" /\ objectId \in ObjectIds
          /\ Made(payload, PayloadNames, {}) /\ NoIds(payload)
          /\ SignEnveloping(payload, objectId, key).ok
          /\ signed = SignEnveloping(payload, objectId, key).xml
      BY <2>1 DEF EnvelopedInv, SignedInv, Levels, IsSigned, Enveloped
    <2>3. /\ key.kind = "Rsa" /\ ~ NeedsEscape(objectId) /\ ~ Unfit(payload)
          /\ signed = EnvelopeOf(payload, objectId, key)
      BY <2>2, EnvelopeIs
    <2>4. objectId # NoId
      BY <2>2, SigningAssumption
    <2>5. Enveloping(payload, objectId)
      BY <2>1, <2>2, <2>3, <2>4 DEF Enveloping
    <2>6. Enclosed(xml, EnvelopeValueMade(payload, objectId, key), objectId)
      BY <2>2 DEF EnclosedInv, ValueEnveloped
    <2>7. Survive("Object") <=> SaysWhatWasEnveloped(xml, payload, objectId, key)
      BY <2>3, <2>5, EnvelopeSurvives
    <2>8. ASSUME VerifyXml(xml, k, <<>>) = "Ok"
          PROVE  k = key /\ SaysWhatWasEnveloped(xml, payload, objectId, key)
      BY <2>5, <2>6, <2>8, EnclosedAccepted
    <2>9. ASSUME SaysWhatWasEnveloped(xml, payload, objectId, key), k = key
          PROVE  VerifyXml(xml, k, <<>>) = "Ok"
      BY <2>3, <2>5, <2>6, <2>9, EnclosedVerifies
    <2>10. VerifyXml(xml, k, <<>>) = "Ok" <=> Survive("Object") /\ k = key
      BY <2>7, <2>8, <2>9
    <2> QED
      BY <2>10 DEF VerifyingKey
  <1> QED
    BY <1>1, EnclosedAlways, PTL
=============================================================================
