----------------------------- MODULE MCDurableJobs -----------------------------
(* DurableJobs for TLC. *)
EXTENDS DurableJobs, TLC
=============================================================================
