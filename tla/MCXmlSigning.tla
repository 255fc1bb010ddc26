---------------------------- MODULE MCXmlSigning ----------------------------
(***************************************************************************)
(* Values for the constants of XmlSigning that a .cfg cannot write.        *)
(***************************************************************************)
EXTENDS XmlSigning

CONSTANTS h1, h2

MCHolders == {h1, h2}

MCKeys ==
    {[kind |-> "Rsa", holder |-> h1], [kind |-> "Rsa", holder |-> h2],
     [kind |-> "P256", holder |-> h1], [kind |-> "K256", holder |-> h2]}

\* A plain name, another one, and a fragment that the document itself defines.
MCFileNames ==
    {<<"a.txt", 0>>, <<"b.txt", 0>>, <<"#", SignedPropertiesId(Index)>>}

MCSigners ==
    {[tsa |-> TRUE, ocsp |-> TRUE, issuer |-> FALSE, cert |-> "match",
      time |-> "within"]}

\* An Id, and one with a character that XML escapes in an attribute.
MCObjectIds == {<<"p1", 0>>, <<"&", <<"p1", 0>>>>}

\* Ordinary elements, those of a signature, and a prefix nobody declares.
MCPayloadNames ==
    {<<"", "Field">>, Ds("Object"), Ds("Signature"), <<"p", "Field">>}
=============================================================================
