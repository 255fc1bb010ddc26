-------------------------- MODULE MCDigiDocBuilder --------------------------
(***************************************************************************)
(* Values for the constants of DigiDocBuilder that a .cfg cannot write.    *)
(***************************************************************************)
EXTENDS DigiDocBuilder, TLC

Signer(tsa, ocsp, issuer) ==
    [tsa |-> tsa, ocsp |-> ocsp, issuer |-> issuer,
     cert |-> "match", time |-> "within"]

SignerT == Signer(TRUE, FALSE, FALSE)
SignerLT == Signer(TRUE, TRUE, TRUE)
SignerSelfLT == Signer(TRUE, TRUE, FALSE)
SignerOcspOnly == Signer(FALSE, TRUE, TRUE)

\* BES though a responder is configured, T, and LT without an issuer.
EveryLevel == {SignerOcspOnly, SignerT, SignerSelfLT}
OneSigner == {SignerLT}

\* A plain name and names that collide with entries the builder writes.
CollidingNames == {<<"a.txt", 0>>, ManifestName, SignatureName(1)}
PlainName == {<<"a.txt", 0>>}
=============================================================================
