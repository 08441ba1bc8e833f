------------------------------ MODULE MCTdxAdapter -----------------------------
(* TdxAdapter with small sets of symbols, packets and places.              *)
EXTENDS TdxAdapter
=============================================================================
