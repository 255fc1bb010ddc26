---------------------------- MODULE DerReference ----------------------------
(***************************************************************************)
(* X.690 on lengths and on what an input begins with, stated as relations  *)
(* between bytes and the values they stand for, to compare Der with.       *)
(***************************************************************************)
EXTENDS Der

(***************************************************************************)
(* The ways to write a length: in one byte, below LongForm, or as a count  *)
(* of up to four digits and those, with leading zeros.                     *)
(***************************************************************************)
Power(k) == <<1, Base, Base2, Base3, Base4>>[k + 1]

Digits(n, k) == [i \in 1..k |-> (n \div Power(k - i)) % Base]

Fits(n, size) == IF size = 1 THEN n < LongForm ELSE n < Power(size - 1)

Form(n, size) ==
    IF size = 1 THEN <<n>>
                ELSE <<LongForm + size - 1>> \o Digits(n, size - 1)

\* DER asks for the shortest of them.
ShortestForm(n) ==
    Form(n, CHOOSE size \in 1..5 :
                Fits(n, size) /\ \A k \in 1..(size - 1) : ~ Fits(n, k))

\* The first f[1] bytes are a tag and a length, of the value that ends at f[2].
Frames(bytes) ==
    UNION {{<<h, h + n>> : n \in {k \in 0..(Len(bytes) - h) :
                /\ Fits(k, h - 1)
                /\ SubSeq(bytes, 2, h) = Form(k, h - 1)}} : h \in 2..6}

Readings(bytes, tag) ==
    IF bytes = <<>> \/ bytes[1] # tag THEN {}
    ELSE {<<SubSeq(bytes, f[1] + 1, f[2]), SubSeq(bytes, f[2] + 1, Len(bytes))>> :
            f \in Frames(bytes)}
=============================================================================
