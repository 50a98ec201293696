--------------------------- MODULE QueueBrowseMC ---------------------------
(***************************************************************************)
(* Small instances of QueueBrowse: one record with a long history, or a    *)
(* few with a short one; pages of one row and of two.                      *)
(***************************************************************************)
EXTENDS QueueBrowse, TLC

CONSTANTS q1, q2, q3, ana, olga

ItemsMC == {q1, q2, q3}

PeopleMC == {ana, olga}

RankMC == (q1 :> 1) @@ (q2 :> 2) @@ (q3 :> 3)

NameRankMC == (Unowned :> 0) @@ (ana :> 1) @@ (olga :> 2)

QueriesMC ==
  {[DefaultQuery EXCEPT !.limit = 1], [DefaultQuery EXCEPT !.after = 1, !.limit = 2],
   [DefaultQuery EXCEPT !.items = {q1, q3}, !.states = {"pending_triage"}, !.limit = 1],
   [DefaultQuery EXCEPT !.by = "owner_id", !.descending = FALSE, !.limit = 1],
   [DefaultQuery EXCEPT !.by = "state", !.roles = {"analyst"}, !.before = 0, !.limit = 1]}

LoadsMC ==
  {[items |-> {q1}, events |-> 4, until |-> 2, queries |-> {}],
   [items |-> ItemsMC, events |-> 1, until |-> 1, queries |-> QueriesMC]}
=============================================================================
