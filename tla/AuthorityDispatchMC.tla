------------------------ MODULE AuthorityDispatchMC -------------------------
(***************************************************************************)
(* An instance of AuthorityDispatch for TLC.                               *)
(***************************************************************************)
EXTENDS AuthorityDispatch

CONSTANTS a1, a2
=============================================================================
