------------------------------ MODULE MCWsSession ------------------------------
(* WsSession; the configurations choose the capacities and bounds.          *)
EXTENDS WsSession
=============================================================================
