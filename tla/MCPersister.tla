------------------------------ MODULE MCPersister ------------------------------
(* Persister; the configurations choose the keys, times, limits and bounds. *)
EXTENDS Persister
=============================================================================
