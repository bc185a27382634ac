---------------------------- MODULE MCSessionTurns ----------------------------
(* SessionTurns for TLC. *)
EXTENDS SessionTurns, TLC

\* Request threads are interchangeable, and so are the timers' threads.
Symmetry == Permutations(Threads) \cup Permutations(Timers)
=============================================================================
