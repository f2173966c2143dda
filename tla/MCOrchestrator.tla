--------------------------- MODULE MCOrchestrator ---------------------------
(***************************************************************************)
(* Instances of Orchestrator: two batches are enough for both goroutines   *)
(* to be busy at once, one with a new batch and one with a retry.          *)
(***************************************************************************)
EXTENDS Orchestrator
=============================================================================
