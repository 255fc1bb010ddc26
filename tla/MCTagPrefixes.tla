--------------------------- MODULE MCTagPrefixes ---------------------------
(***************************************************************************)
(* Values for the constants of TagPrefixes that a .cfg cannot write.       *)
(***************************************************************************)
EXTENDS TagPrefixes

\* Every string of at most two symbols, and a prefix on either side of a ">".
MCStrings ==
    BoundedSeq(Symbols, 2) \cup {<<"a", ">", "ds:">>, <<"ds:", ">", "ds:">>}
=============================================================================
