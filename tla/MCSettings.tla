----------------------------- MODULE MCSettings -----------------------------
(* Finite instances of Settings.                                           *)
EXTENDS Settings
=============================================================================
