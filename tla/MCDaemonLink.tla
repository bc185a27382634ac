------------------------------ MODULE MCDaemonLink ------------------------------
(* DaemonLink for TLC. *)
EXTENDS DaemonLink, TLC

\* Bound on what is explored once two threads have replaced the connection at a
\* time: the callers are silent, and there is one fault.
AfterACollision == collided => calls = 0 /\ faults <= 1
=============================================================================
