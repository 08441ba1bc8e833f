-------------------------------- MODULE MCPage ---------------------------------
(* Page with two rows of one source, one of which the other source has too. *)
EXTENDS Page

MCKeys == {[src |-> "Tencent", sym |-> 1], [src |-> "Tencent", sym |-> 2],
           [src |-> "Tdx", sym |-> 1]}
=============================================================================
