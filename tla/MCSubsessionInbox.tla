--------------------------- MODULE MCSubsessionInbox ---------------------------
(* SubsessionInbox for TLC. *)
EXTENDS SubsessionInbox, TLC

\* The threads of one process are interchangeable.
Symmetry == Permutations(EngineThreads) \cup Permutations(WebThreads)
=============================================================================
