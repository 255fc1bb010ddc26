---------------------------- MODULE MCPkiBodies ----------------------------
(***************************************************************************)
(* Object identifiers and bytes for a Base of 16.  The bytes of an input   *)
(* meet every branch of der.rs: small values, and long forms of no, one,   *)
(* four and five length bytes.                                             *)
(***************************************************************************)
EXTENDS PkiBodies

MCSha256Oid == <<6, 8, 4>>
MCSha1Oid == <<2, 11>>
MCOcspBasicOid == <<2, 7>>

MCAlphabet == {0, 1, 2, 8, 9, 12, 13}

\* Tags, small values, and the first bytes of long lengths.  Without 8 no status
\* has eight bytes after its leading zero: its number would exceed TLC's integers.
MCBodyBytes == {0, 1, 2, 3, 4, 9, 10}
=============================================================================
