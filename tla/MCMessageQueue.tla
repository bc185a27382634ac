--------------------------- MODULE MCMessageQueue ---------------------------
(***************************************************************************)
(* Instances of MessageQueue for TLC.                                      *)
(***************************************************************************)
EXTENDS MessageQueue, TLC

\* Every set below holds model values that all actions treat alike.
Symmetry == Permutations(Sessions) \cup Permutations(Threads)
              \cup Permutations(Texts) \cup Permutations(Savers)
=============================================================================
