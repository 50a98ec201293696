-------------------------- MODULE RunnerDispatchMC --------------------------
(***************************************************************************)
(* A small instance of RunnerDispatch for TLC.                              *)
(***************************************************************************)
EXTENDS RunnerDispatch

CONSTANTS c1, c2

\* The callers belong to two workflow runs.
TwoRuns == [c \in Caller |-> IF c = c1 THEN "run1" ELSE "run2"]

\* One task, open or ticked.
Checklists == {[set |-> 1, total |-> 1, done |-> 0], [set |-> 1, total |-> 1, done |-> 1]}

\* What an older client may have left: a reservation and a spent completion
\* whose times do not parse, and a partial completion without its disposition.
Old == [status |-> "pending", head |-> 1, id |-> "legacy", owner |-> "", age |-> Unknown,
        before |-> NoTasks, productive |-> "unset", unproductive |-> 0,
        continuations |-> Unset, incomplete |-> "unset", partial |-> FALSE]
Legacy == {Old,
           [Old EXCEPT !.status = "completed", !.productive = "no", !.unproductive = 3],
           [Old EXCEPT !.status = "completed", !.age = 0, !.partial = TRUE]}

\* Bound: the head moves in the runs where calls overlap, and old records are in
\* the others.
InitMC == Init /\ IF overlap THEN record = None /\ head = 1 ELSE head = MaxHead
SpecMC == InitMC /\ [][Next]_vars /\ Fairness
=============================================================================
