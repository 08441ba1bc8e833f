--------------------------- MODULE MCTencentAdapter ----------------------------
(* TencentAdapter on one stock code, which both markets have. *)
EXTENDS TencentAdapter
=============================================================================
