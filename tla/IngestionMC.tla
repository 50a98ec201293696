---------------------------- MODULE IngestionMC -----------------------------
(***************************************************************************)
(* A small instance of Ingestion: two packages whose files may name their  *)
(* documents, leave them unnamed, or name the very id that another file of *)
(* theirs, or of the other package, would be given.                        *)
(***************************************************************************)
EXTENDS Ingestion, FiniteSets

CONSTANTS p1, p2, d1, d2, d3

Minted(p, k) == IF p = p1 THEN (IF k = 0 THEN d1 ELSE d2) ELSE (IF k = 0 THEN d3 ELSE d1)
=============================================================================
