------------------------------ MODULE XmlText ------------------------------
(***************************************************************************)
(* XML as the signature code sees it: a text that is cut and pasted by its *)
(* tags, a tree that is parsed from it, and the canonical form of one of   *)
(* its elements, over which digests and signatures are computed.           *)
(*                                                                         *)
(* A text is a sequence of tokens.  A start tag carries an Id, one more    *)
(* attribute that its readers look at and the prefixes that it declares;   *)
(* a prefix stands for one namespace wherever it is declared.  A piece of  *)
(* character data is one token, whatever it holds.                         *)
(***************************************************************************)
EXTENDS Naturals, Sequences, FiniteSets

NoId == <<"no Id", 0>>
NoAttr == <<"no attribute", 0>>

\* A qualified name is a pair of a prefix, "" when there is none, and a local name.
Open(name, id, attr, ns) ==
    [kind |-> "open", name |-> name, id |-> id, attr |-> attr, ns |-> ns]
Close(name) == [kind |-> "close", name |-> name]
Text(data) == [kind |-> "text", data |-> data]

Element(name, id, attr, ns, content) ==
    <<Open(name, id, attr, ns)>> \o content \o <<Close(name)>>

Leaf(name, data) == Element(name, NoId, NoAttr, {}, <<Text(data)>>)
-----------------------------------------------------------------------------
(***************************************************************************)
(* The tree.  An element is the position of its start tag.                 *)
(***************************************************************************)
Opens(text, k) == text[k].kind = "open"

Elements(text) == {k \in 1..Len(text) : Opens(text, k)}

\* The end tag of element k, by counting tags; 0 when there is none.
EndTag(text, k) ==
    LET Scan[j \in Nat] ==
            [depth \in Nat |->
                IF j > Len(text) THEN 0
                ELSE IF text[j].kind = "text" THEN Scan[j + 1][depth]
                ELSE IF text[j].kind = "open" THEN Scan[j + 1][depth + 1]
                ELSE IF depth <= 1 THEN j
                ELSE Scan[j + 1][depth - 1]]
    IN  Scan[k][0]

\* What roxmltree::Document::parse makes of a text: where each element ends, and
\* the elements that it lies in.
Parse(text) ==
    LET end == [k \in Elements(text) |-> EndTag(text, k)]
    IN  [text |-> text,
         end |-> end,
         around |-> [k \in Elements(text) |->
                       {j \in Elements(text) : j < k /\ end[j] > k}]]

Nodes(tree) == DOMAIN tree.end

InScope(tree, k) == UNION {tree.text[j].ns : j \in {k} \cup tree.around[k]}

(***************************************************************************)
(* What roxmltree and xml_sec parse: one root, end tags that match, and no *)
(* prefix that is not declared.                                            *)
(***************************************************************************)
IsWellFormed(tree) ==
    /\ 1 \in Nodes(tree) /\ tree.end[1] = Len(tree.text)
    /\ \A k \in Nodes(tree) :
          /\ tree.end[k] # 0
          /\ tree.text[tree.end[k]].name = tree.text[k].name
          /\ tree.text[k].name[1] \in {""} \cup InScope(tree, k)

Children(tree, k) ==
    {j \in Nodes(tree) : tree.around[j] = {k} \cup tree.around[k]}

ChildrenNamed(tree, k, local) ==
    {j \in Children(tree, k) : tree.text[j].name[2] = local}

First(positions) == CHOOSE j \in positions : \A i \in positions : j <= i
Last(positions) == CHOOSE j \in positions : \A i \in positions : i <= j

\* node.text(): the character data that an element begins with.
HasText(tree, k) == tree.text[k + 1].kind = "text"
TextOf(tree, k) == tree.text[k + 1].data

WithId(tree, id) == {k \in Nodes(tree) : tree.text[k].id = id}
-----------------------------------------------------------------------------
(***************************************************************************)
(* Inclusive C14N of the element top of a tree: its subtree, with every    *)
(* namespace in scope written out at its top, and below it only those that *)
(* the element around does not have.                                       *)
(***************************************************************************)
NewlyVisible(tree, top, k) ==
    InScope(tree, k)
      \ (IF k = top THEN {} ELSE UNION {tree.text[j].ns : j \in tree.around[k]})

Canonical(tree, top) ==
    [j \in 1..(tree.end[top] + 1 - top) |->
        LET k == top + j - 1
        IN  IF Opens(tree.text, k)
            THEN [tree.text[k] EXCEPT !.ns = NewlyVisible(tree, top, k)]
            ELSE tree.text[k]]

\* canonicalize_xml: Err is the empty tuple, Ok(x) the tuple of x.
CanonicalizeXml(text) ==
    LET tree == Parse(text)
    IN  IF IsWellFormed(tree) THEN <<Canonical(tree, 1)>> ELSE <<>>
-----------------------------------------------------------------------------
(***************************************************************************)
(* Text.  str::find and str::rfind of a tag, and a block pasted before it. *)
(***************************************************************************)
Occurrences(text, from, token) ==
    {k \in from..Len(text) : text[k] = token}

Pasted(text, k, block) ==
    SubSeq(text, 1, k - 1) \o block \o SubSeq(text, k, Len(text))
=============================================================================
