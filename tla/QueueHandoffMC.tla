-------------------------- MODULE QueueHandoffMC ---------------------------
(***************************************************************************)
(* A small instance of QueueHandoff.  Runs, sessions and people are        *)
(* interchangeable.                                                        *)
(***************************************************************************)
EXTENDS QueueHandoff, TLC

Symmetry == Permutations(Runs) \cup Permutations(Sessions) \cup Permutations(People)
=============================================================================
