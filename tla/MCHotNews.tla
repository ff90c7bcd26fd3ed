----------------------------- MODULE MCHotNews -----------------------------
(* Finite instances of HotNews.                                            *)
EXTENDS HotNews
=============================================================================
