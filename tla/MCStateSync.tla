---------------------------- MODULE MCStateSync ----------------------------
(***************************************************************************)
(* StateSync on a small instance: each kind changes twice, so a change can *)
(* meet every step of the rebuild of the one before it; one list fails or  *)
(* the process restarts once.                                              *)
(***************************************************************************)
EXTENDS StateSync
=============================================================================
