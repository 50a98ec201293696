--------------------------- MODULE RunnerDispatch ---------------------------
(***************************************************************************)
(* The dispatch debounce of scripts/runner_lib/core.py for one pull        *)
(* request and one provider: should_dispatch reserves the right to start   *)
(* an agent, record_completion settles it.  All the store ever answers is  *)
(* one record: the newest reservation, or the completion receipt that      *)
(* carries its identity (read_record); a receipt of an older reservation   *)
(* is stored and never read again.  So the store is modelled as one        *)
(* register.                                                               *)
(*                                                                         *)
(* A caller is one execution of should_dispatch and of what follows it in  *)
(* its workflow run.  Each request to the store is a step, so that callers *)
(* interleave between reading and writing; a request may fail before or    *)
(* after it took effect, and a run may die anywhere.  Time is the age of a *)
(* record in half hours, which saturates: only "within", "at" and "past"   *)
(* half an hour can be told apart by the code.                             *)
(***************************************************************************)
EXTENDS Integers, FiniteSets

CONSTANTS Caller,      \* executions of should_dispatch, one reservation id each
          AttemptOf,   \* the workflow attempt each caller runs in
          Snapshot,    \* task checklists a pull request body may show
          Stored,      \* records an older client may have left in the store
          MaxHead,     \* bound: head commits 1..MaxHead
          MaxFaults    \* bound: requests to the store that fail

ASSUME CallerAssumption == /\ AttemptOf \in [Caller -> STRING]
                           /\ \A c \in Caller : AttemptOf[c] # ""
                           /\ "legacy" \notin Caller
ASSUME BoundAssumption == MaxHead \in Nat \ {0} /\ MaxFaults \in Nat
ASSUME SnapshotAssumption ==
    \A s \in Snapshot : /\ DOMAIN s = {"set", "total", "done"}
                        /\ s.set \in Nat /\ s.total \in Nat /\ s.done \in 0..s.total

VARIABLES head,      \* the head commit of the pull request
          record,    \* the record the store answers with, or None
          call,      \* each caller: its phase, the head it was evaluated for, the
                     \* record it is about to post, and whether its runner exited 0
          faults,    \* requests that have failed
          overlap,   \* whether calls may interleave; fixed at the start
          history    \* what really happened: see Init

vars == <<head, record, call, faults, overlap, history>>

Limit == 2        \* UNPRODUCTIVE_COMPLETION_RETRY_LIMIT
StaleAfter == 1   \* PENDING_STALE_AFTER_SECONDS, in half hours
Cooldown == 1     \* UNPRODUCTIVE_COMPLETION_COOLDOWN_SECONDS, in half hours
MaxBurst == 2 * Limit + 2   \* where history stops counting
Unknown == -1     \* a timestamp that does not parse
Unset == -1       \* a counter the record does not have
NoHead == 0       \* a head that could not be read

None == [status |-> "none"]
NoTasks == [set |-> 0, total |-> 0, done |-> -1]   \* an absent or unreadable checklist
Heads == 1..MaxHead
Terminal == {"completed", "error"}
Verdicts == {"yes", "no", "unset"}
Over == [phase |-> "over", head |-> NoHead, draft |-> None, ok |-> FALSE]
Idle == [phase |-> "idle", head |-> NoHead, draft |-> None, ok |-> FALSE]

\* A reservation or completion record.  "age" is that of started_at while the
\* record is pending and of completed_at once it is terminal: no decision reads
\* the other one.  "partial" stands for the observed head and the checklist
\* counts that _completion_needs_continuation compares.
Record == [status : {"pending"} \cup Terminal, head : Heads,
           id : Caller \cup {"legacy"}, owner : STRING, age : Unknown..2,
           before : Snapshot \cup {NoTasks}, productive : Verdicts,
           unproductive : 0..Limit + 1, continuations : Unset..Limit + 1,
           incomplete : Verdicts, partial : BOOLEAN]

ASSUME StoredAssumption ==
    \A p \in Stored : p \in Record /\ p.id = "legacy" /\ p.owner = ""

Phases == {"idle", "over", "evaluated", "posting", "rechecking", "running", "ran", "reporting"}

Least(a, b) == IF a < b THEN a ELSE b
Greatest(a, b) == IF a < b THEN b ELSE a

-----------------------------------------------------------------------------
(* What a record means to the gate.                                         *)

\* The expiry of the cooldown is forgotten.
Cooling_slip(p) == TRUE

Stale(p) == p.age = Unknown \/ p.age > StaleAfter
Cooling(p) == p.age # Unknown /\ p.age < Cooldown

Unproductive(p) == p.productive = "no"
NeedsContinuation(p) == p.incomplete = "yes" \/ p.partial
Continuations(p) == IF p.continuations = Unset THEN p.unproductive ELSE p.continuations

\* Continuations are not counted.
RetryCount_slip(p) == p.unproductive

RetryCount(p) == IF NeedsContinuation(p) /\ ~Unproductive(p)
                 THEN Continuations(p)
                 ELSE Greatest(Continuations(p), p.unproductive)

\* should_dispatch refuses: the same head is being worked on, was finished, or
\* has used its retries and is cooling down.
Refuses(p, h) ==
    /\ p # None /\ p.head = h
    /\ \/ p.status = "pending" /\ ~Stale(p)
       \/ /\ p.status = "completed"
          /\ Unproductive(p) \/ NeedsContinuation(p)
                => RetryCount(p) > Limit /\ Cooling(p)

\* The reservation _reserve_dispatch writes: on the same head it carries the
\* tally of what has been tried.
Reservation(c, h, p, before) ==
    LET same == p # None /\ p.head = h
    IN [status |-> "pending", head |-> h, id |-> c, owner |-> AttemptOf[c],
        age |-> 0, before |-> before,
        unproductive |-> IF same THEN p.unproductive ELSE 0,
        productive |-> IF same /\ p.unproductive > 0 /\ Unproductive(p) THEN "no" ELSE "unset",
        continuations |-> IF same /\ Continuations(p) > 0 THEN Continuations(p) ELSE Unset,
        incomplete |-> IF same /\ NeedsContinuation(p) THEN "yes" ELSE "unset",
        partial |-> FALSE]

\* A replay is not recognised.
Again_slip(p, h) == FALSE

\* The attempt on head h has been recorded before.
Again(p, h) == p.status \in Terminal /\ p.head = h

\* _derive_completion_productivity for a run dispatched on head h: a head that
\* moved or a comparable checklist that advanced is progress.
Measured(p, h, observed, after, fallback) ==
    IF Again(p, h) THEN p.productive
    ELSE CASE observed \notin {NoHead, h} -> "yes"
           [] observed = h /\ NoTasks \notin {p.before, after} /\ p.before.set = after.set ->
                 IF after.done > p.before.done THEN "yes" ELSE "no"
           [] observed = NoHead /\ after = NoTasks -> fallback
           [] OTHER -> "unset"

OpenTasks(after) == after.total > 0 /\ after.done < after.total

\* completion_incomplete: a first completion measures it, a replay keeps it.
Incomplete(p, h, observed, after) ==
    IF Again(p, h)
    THEN IF p.incomplete = "unset" /\ p.partial THEN "yes" ELSE p.incomplete
    ELSE CASE observed \notin {NoHead, h} -> "no"
           [] observed = h ->
                 IF \/ after = NoTasks \/ after.total = 0 \/ OpenTasks(after)
                    \/ p.before # NoTasks /\ p.before.set # after.set
                 THEN "yes" ELSE "no"
           [] OTHER -> p.incomplete

\* The count is not capped.
Tally_slip(p, verdict, replay) ==
    CASE verdict = "unset" -> p.unproductive
      [] verdict = "yes" -> 0
      [] verdict = "no" /\ replay -> Greatest(p.unproductive, 1)
      [] OTHER -> p.unproductive + 1

\* unproductive_completions after a completion; the count stops past the limit.
Tally(p, verdict, replay) ==
    CASE verdict = "unset" -> p.unproductive
      [] verdict = "yes" -> 0
      [] verdict = "no" /\ replay -> Greatest(p.unproductive, 1)
      [] OTHER -> Least(p.unproductive + 1, Limit + 1)

\* The record record_completion builds over the record p it read.
Completion(p, h, ok, observed, after, fallback) ==
    LET replay == Again(p, h)
        verdict == IF Measured(p, h, observed, after, fallback) = "unset"
                        /\ p.head = h /\ Unproductive(p)
                   THEN "no" ELSE Measured(p, h, observed, after, fallback)
        unfinished == IF ok THEN Incomplete(p, h, observed, after) ELSE p.incomplete
        tally == IF ok THEN Tally(p, verdict, replay) ELSE p.unproductive
    IN [p EXCEPT
          !.status = IF ok THEN "completed" ELSE "error",
          !.head = h,
          !.age = IF replay THEN p.age ELSE 0,
          !.productive = IF ok /\ verdict # "unset" THEN verdict ELSE p.productive,
          !.unproductive = tally,
          !.incomplete = unfinished,
          !.partial = IF replay THEN p.partial
                      ELSE observed = h /\ after # NoTasks /\ OpenTasks(after),
          !.continuations =
              CASE ok /\ unfinished = "yes" ->
                      IF replay THEN Continuations(p)
                      ELSE Least(Continuations(p) + 1, Limit + 1)
                [] ok /\ unfinished = "no" -> 0
                [] ok /\ unfinished = "unset" /\ verdict = "no" -> tally
                [] OTHER -> p.continuations]

\* Every state the program keeps has one of these shapes.
TypeOK ==
    /\ head \in Heads
    /\ record \in Record \cup {None}
    /\ call \in [Caller -> [phase : Phases, head : Heads \cup {NoHead},
                           draft : Record \cup {None}, ok : BOOLEAN]]
    /\ faults \in 0..MaxFaults
    /\ overlap \in BOOLEAN
    /\ history \in [burst : 0..MaxBurst, turn : BOOLEAN]

-----------------------------------------------------------------------------
(* The initial states: a store nobody has used, or one that holds what an   *)
(* older client left (a legacy comment, or the repository variable that is  *)
(* read when there is no reservation).  history is not part of the program: *)
(* "burst" counts the runs in a row that completed on one head without      *)
(* progress and without half an hour passing, "turn" flips with every       *)
(* reservation.                                                             *)
Init ==
    /\ head \in Heads
    /\ record \in {None} \cup Stored
    /\ call = [c \in Caller |-> Idle]
    /\ faults = 0
    /\ overlap \in BOOLEAN
    /\ history = [burst |-> 0, turn |-> FALSE]

Move(c, p) == call' = [call EXCEPT ![c].phase = p, ![c].draft = None]
\* A finished execution makes room for another one.  Bound: while calls overlap,
\* it does not.
End(c) == call' = [call EXCEPT ![c] = IF overlap THEN Over ELSE Idle]

\* A request to the store fails.
Fault == faults < MaxFaults /\ faults' = faults + 1

\* A caller is between its reading of the store and its write; when calls do not
\* overlap, no other one reads meanwhile.
Calling(c) == call[c].phase \in {"posting", "rechecking", "reporting"}
Free == overlap \/ \A c \in Caller : ~Calling(c)

\* A new execution samples the head commit; no record carries its identity.
Evaluate(c) ==
    /\ call[c] = Idle
    /\ record # None => record.id # c
    /\ \A d \in Caller : call[d].draft # None => call[d].draft.id # c
    /\ call' = [call EXCEPT ![c].phase = "evaluated", ![c].head = head]
    /\ UNCHANGED <<head, record, faults, overlap, history>>

\* should_dispatch reads the record and decides; a granted caller has built the
\* reservation it will post.
Decide(c) ==
    /\ call[c].phase = "evaluated"
    /\ Free
    /\ \/ Refuses(record, call[c].head) /\ End(c)
       \/ /\ ~Refuses(record, call[c].head)
          /\ \E before \in Snapshot \cup {NoTasks} :
                call' = [call EXCEPT ![c].phase = "posting",
                            ![c].draft = Reservation(c, call[c].head, record, before)]
    /\ UNCHANGED <<head, record, faults, overlap, history>>

DecideFails(c) ==
    /\ call[c].phase = "evaluated"
    /\ Fault
    /\ End(c)
    /\ UNCHANGED <<head, record, overlap, history>>

\* A new reservation is the newest one; no earlier record is read again.
Posted(c) ==
    /\ record' = call[c].draft
    /\ history' = [history EXCEPT
                     !.turn = ~@,
                     !.burst = IF record # None /\ record.head = call[c].head THEN @ ELSE 0]

Post(c) ==
    /\ call[c].phase = "posting"
    /\ Posted(c)
    /\ Move(c, "running")
    /\ UNCHANGED <<head, faults, overlap>>

\* The POST fails; it may have been carried out all the same.
PostFails(c) ==
    /\ call[c].phase = "posting"
    /\ Fault
    /\ Posted(c) \/ UNCHANGED <<record, history>>
    /\ Move(c, "rechecking")
    /\ UNCHANGED <<head, overlap>>

\* Any pending reservation, read back, grants the dispatch.
Recheck_slip(c) ==
    /\ call[c].phase = "rechecking"
    /\ \/ /\ IF record # None /\ record.status = "pending"
             THEN Move(c, "running") ELSE End(c)
          /\ UNCHANGED faults
       \/ Fault /\ End(c)
    /\ UNCHANGED <<head, record, overlap, history>>

\* Only the exact reservation, read back, grants the dispatch.
Recheck(c) ==
    /\ call[c].phase = "rechecking"
    /\ \/ /\ IF record # None /\ record.status = "pending" /\ record.id = c
             THEN Move(c, "running") ELSE End(c)
          /\ UNCHANGED faults
       \/ Fault /\ End(c)
    /\ UNCHANGED <<head, record, overlap, history>>

\* The agent runs and the runner exits.
Work(c) ==
    /\ call[c].phase = "running"
    /\ \E ok \in BOOLEAN : call' = [call EXCEPT ![c].phase = "ran", ![c].ok = ok]
    /\ UNCHANGED <<head, record, faults, overlap, history>>

\* A push by the agent or by anyone else.
Push ==
    /\ head < MaxHead
    /\ head' = head + 1
    /\ UNCHANGED <<record, call, faults, overlap, history>>

\* What the finish job can observe: the live head and checklist, either of
\* which may be unreadable; without a head there is no checklist either.
Observations == ({NoHead} \X {NoTasks}) \cup ({head} \X (Snapshot \cup {NoTasks}))

\* record_completion reads the record, leaves one that another attempt owns
\* alone, and builds the completion it will write.  Its own attempt's record of
\* another head it completes only when the live head has moved from the one c
\* was dispatched on, which is what the finish job passes as produced_work.  A
\* record without an owner would be anybody's, but is never read here: c's own
\* reservation is newer.
Report(c) ==
    /\ call[c].phase = "ran"
    /\ Free
    /\ record # None
    /\ record.owner = AttemptOf[c]
    /\ \E o \in Observations :
          /\ record.head = call[c].head \/ o[1] \notin {NoHead, call[c].head}
          /\ call' = [call EXCEPT ![c].phase = "reporting",
                         ![c].draft = Completion(record, call[c].head, call[c].ok,
                                                 o[1], o[2], "unset")]
    /\ UNCHANGED <<head, record, faults, overlap, history>>

\* The receipt is read whatever reservation is the newest.
Settled_slip(c) == record' = call[c].draft /\ UNCHANGED history

\* The completion is written as a receipt, in place of the receipt this
\* reservation already has.  It is read back only while its reservation is the
\* newest one.
Settled(c) ==
    LET done == call[c].draft IN
    IF record.id # done.id THEN UNCHANGED <<record, history>>
    ELSE /\ record' = done
         /\ history' =
              IF record.status \in Terminal \/ done.status = "error" THEN history
              ELSE [history EXCEPT
                      !.burst = IF done.productive = "yes" THEN 0
                                ELSE Least(@ + 1, MaxBurst)]

Settle(c) ==
    /\ call[c].phase = "reporting"
    /\ \/ Settled(c) /\ UNCHANGED faults
       \/ Fault /\ (Settled(c) \/ UNCHANGED <<record, history>>)
    /\ Move(c, "ran")
    /\ UNCHANGED <<head, overlap>>

\* The workflow run ends, before its agent, after it, or in the middle of a call.
Leave(c) ==
    /\ call[c] \notin {Idle, Over}
    /\ IF call[c].phase \in {"running", "ran"} THEN UNCHANGED faults ELSE Fault
    /\ End(c)
    /\ UNCHANGED <<head, record, overlap, history>>

\* Half an hour passes; a call is short against it.
Older(p) == IF p = None \/ p.age = Unknown THEN p
            ELSE [p EXCEPT !.age = Least(@ + 1, 2)]

Tick ==
    /\ \A c \in Caller : ~Calling(c)
    /\ record' = Older(record)
    /\ history' = [history EXCEPT !.burst = 0]
    /\ record' # record
    /\ UNCHANGED <<head, call, faults, overlap>>

Act(c) == \/ Evaluate(c) \/ Decide(c) \/ DecideFails(c)
          \/ Post(c) \/ PostFails(c) \/ Recheck(c)
          \/ Work(c) \/ Report(c) \/ Settle(c) \/ Leave(c)

Next == Push \/ Tick \/ \E c \in Caller : Act(c)

Spec == Init /\ [][Next]_vars

\* Time does not stop; a workflow run ends; the hourly sweep evaluates the pull
\* request again and again, and a call that is not lost goes on.  Nothing makes
\* an agent report.
Fairness ==
    /\ SF_vars(Tick)
    /\ \A c \in Caller : /\ SF_vars(Leave(c))
                         /\ WF_vars(Evaluate(c) \/ Decide(c) \/ Post(c)
                                    \/ Recheck(c) \/ Work(c) \/ Settle(c))

FairSpec == Spec /\ Fairness

-----------------------------------------------------------------------------
Finished(p) == p.status = "completed" /\ ~Unproductive(p) /\ ~NeedsContinuation(p)

\* c's completion is being written in this step.
Reports(c) == call[c].phase = "reporting" /\ call'[c].phase = "ran"

\* What runs on one head, without progress and before half an hour has passed, is
\* bounded: a runner that exits 0 having done nothing may not be started for ever,
\* whatever mixture of unproductive, unmeasured, partial and failed completions,
\* replays and lost writes lies between (core.py:1423-1489, 1629-1677, 2086-2116).
AttemptsAreBounded == ~overlap => history.burst <= 2 * Limit + 1

\* A completion never replaces the record of a reservation that another workflow
\* run has posted, wherever that reservation falls between the completion's read
\* and its write (write_completion, core.py:1143-1192).
CompletionKeepsNewerOwner ==
    [][\A c \in Caller : Reports(c) /\ record' # record
            => record.owner = AttemptOf[c] /\ record'.id = record.id]_vars

SameDisposition(p, q) == /\ NeedsContinuation(p) = NeedsContinuation(q)
                         /\ Unproductive(p) = Unproductive(q)
                         /\ p.unproductive = q.unproductive
                         /\ RetryCount(p) = RetryCount(q)
                         /\ p.age = q.age

\* Recording a completion again, whatever it observes the second time, spends no
\* retry, forgives none and does not restart the cooldown (core.py:2036-2040,
\* 2065-2071, 2100-2106).
ReplaySpendsNothing ==
    [][\A c \in Caller : Reports(c) /\ record.status \in Terminal
            => SameDisposition(record, record')]_vars

\* An agent is started only by a caller whose own reservation is the newest record
\* at that moment, also after a write whose answer was lost (core.py:1464-1482).
StartsOnlyWhatItOwns ==
    [][\A c \in Caller : call[c].phase # "running" /\ call'[c].phase = "running"
            => record'.id = c /\ record'.status = "pending"]_vars

\* No latch: unfinished work on a pull request is reserved again or finished, even
\* if every agent dies, every report is lost and the retries are spent; time alone
\* reopens the gate (core.py:38-52, the docstring of should_dispatch).
WorkResumes ==
    \A turn \in BOOLEAN :
        (~overlap /\ record # None /\ ~Finished(record) /\ history.turn = turn)
            ~> (Finished(record) \/ history.turn # turn)
=============================================================================
