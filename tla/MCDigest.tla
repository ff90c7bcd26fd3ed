------------------------------ MODULE MCDigest ------------------------------
(* Finite instances of DigestFormat.                                       *)
EXTENDS DigestFormat
=============================================================================
