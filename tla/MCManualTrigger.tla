--------------------------- MODULE MCManualTrigger ---------------------------
(* Finite instances of ManualTrigger.                                      *)
EXTENDS ManualTrigger
=============================================================================
