---------------------------- MODULE MCModelChain ----------------------------
(* Finite instances of ModelChain.                                         *)
EXTENDS ModelChain
=============================================================================
