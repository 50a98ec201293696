-------------------------- MODULE DocumentStoreMC ---------------------------
(***************************************************************************)
(* A small instance of DocumentStore: payloads, instants and writers are   *)
(* interchangeable.                                                        *)
(***************************************************************************)
EXTENDS DocumentStore, TLC

Symmetry == Permutations(Payloads) \cup Permutations(Times) \cup Permutations(Writers)
=============================================================================
