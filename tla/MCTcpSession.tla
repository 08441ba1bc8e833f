------------------------------ MODULE MCTcpSession -----------------------------
(* TcpSession; the configurations choose the symbols, capacities and bounds. *)
EXTENDS TcpSession
=============================================================================
