----------------------------- MODULE MCHubPipeline -----------------------------
(* HubPipeline on two sources, two symbols, the persister and one session. *)
EXTENDS HubPipeline
=============================================================================
