-------------------------- MODULE MCEventCollector --------------------------
(***************************************************************************)
(* EventCollector on a small instance: two callers and two resources make  *)
(* every pair of goroutines meet, and one place in timeChan and in         *)
(* batchReadyCh makes both full with few events.  Two places in the        *)
(* trigger channel are fewer than three events can fill, so that the       *)
(* deadlock of a full channel (Wedged) is among the behaviours.            *)
(***************************************************************************)
EXTENDS EventCollector
=============================================================================
