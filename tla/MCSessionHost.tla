----------------------------- MODULE MCSessionHost -----------------------------
(* SessionHost for TLC. *)
EXTENDS SessionHost
=============================================================================
