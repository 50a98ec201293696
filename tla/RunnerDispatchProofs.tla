------------------------- MODULE RunnerDispatchProofs -------------------------
(***************************************************************************)
(* What the dispatch record of RunnerDispatch keeps, for any number of     *)
(* callers, heads, checklists and failing requests, whether calls overlap  *)
(* or not.                                                                 *)
(*                                                                         *)
(* A record carries the identity of the caller that reserved it and the    *)
(* owner of that caller's run, and so does every record a caller is about  *)
(* to write (IInv).  Where no two callers belong to one workflow attempt,  *)
(* what a caller is about to report was moreover computed from the record  *)
(* that is still there (RInv).                                             *)
(***************************************************************************)
EXTENDS RunnerDispatch, TLAPS

\* What the fields of a record written by this client say together.
Sound(p) ==
    /\ p.productive = "yes" => p.unproductive = 0
    /\ p.productive = "no" => p.unproductive >= 1
    /\ p.incomplete = "no" => p.continuations = 0 /\ p.status # "pending"
    /\ (p.status = "completed" /\ p.productive = "no" /\ p.incomplete = "unset" /\ ~p.partial)
          => p.continuations = p.unproductive

\* A record this client wrote: whose it is, and in what state.
Ours(p) == /\ p \in Record /\ p.id \in Caller
           /\ p.owner = AttemptOf[p.id] /\ Sound(p)

Drafts ==
    \A c \in Caller :
        /\ call[c].phase \notin {"idle", "over"} => call[c].head \in Heads
        /\ call[c].phase = "posting" =>
              /\ Ours(call[c].draft) /\ call[c].draft.id = c /\ call[c].draft.status = "pending"
              /\ call[c].draft.head = call[c].head
        /\ call[c].phase = "reporting" =>
              /\ Ours(call[c].draft) /\ call[c].draft.owner = AttemptOf[c]
              /\ call[c].draft.status = IF call[c].ok THEN "completed" ELSE "error"
              /\ record # None

Stores == \/ record = None
          \/ record \in Record /\ record.id = "legacy" /\ record.owner = ""
          \/ Ours(record)

IInv == TypeOK /\ Drafts /\ Stores

Tasks == Snapshot \cup {NoTasks}
Entry == [phase : Phases, head : Heads \cup {NoHead}, draft : Record \cup {None},
          ok : BOOLEAN]
Tracked == [burst : 0..MaxBurst, turn : BOOLEAN]

-----------------------------------------------------------------------------
(***************************************************************************)
(* The records that are built.                                             *)
(***************************************************************************)
LEMMA NoneIsNoRecord == None \notin Record
BY DEF None, Record, Terminal

LEMMA ReservationIsOurs ==
  ASSUME NEW c \in Caller, NEW h \in Heads, NEW p \in Record \cup {None},
         NEW before \in Tasks
  PROVE  /\ Ours(Reservation(c, h, p, before))
         /\ Reservation(c, h, p, before).id = c
         /\ Reservation(c, h, p, before).status = "pending"
         /\ Reservation(c, h, p, before).head = h
<1> DEFINE q == Reservation(c, h, p, before)
           same == p # None /\ p.head = h
<1>1. p # None => /\ p \in Record /\ p.unproductive \in 0..Limit + 1
                  /\ Continuations(p) \in 0..Limit + 1
  BY DEF Record, Continuations, Unset, Limit
<1>2. q = [status |-> "pending", head |-> h, id |-> c, owner |-> AttemptOf[c],
           age |-> 0, before |-> before,
           unproductive |-> IF same THEN p.unproductive ELSE 0,
           productive |-> IF same /\ p.unproductive > 0 /\ Unproductive(p)
                          THEN "no" ELSE "unset",
           continuations |-> IF same /\ Continuations(p) > 0 THEN Continuations(p) ELSE Unset,
           incomplete |-> IF same /\ NeedsContinuation(p) THEN "yes" ELSE "unset",
           partial |-> FALSE]
  BY DEF Reservation
<1>3. /\ q.status = "pending" /\ q.id = c /\ q.owner = AttemptOf[c] /\ q.head = h
      /\ q.incomplete # "no" /\ q.productive \in {"no", "unset"}
      /\ q.productive = "no" => q.unproductive >= 1
  BY <1>1, <1>2 DEF Limit
<1>4. q \in Record
  <2> DEFINE u == IF same THEN p.unproductive ELSE 0
             pr == IF same /\ p.unproductive > 0 /\ Unproductive(p) THEN "no" ELSE "unset"
             co == IF same /\ Continuations(p) > 0 THEN Continuations(p) ELSE Unset
             inc == IF same /\ NeedsContinuation(p) THEN "yes" ELSE "unset"
  <2>1. /\ u \in 0..Limit + 1 /\ pr \in Verdicts /\ co \in Unset..Limit + 1
        /\ inc \in Verdicts
    BY <1>1 DEF Limit, Unset, Verdicts
  <2>3. 0 \in Unknown..2 /\ before \in Snapshot \cup {NoTasks}
    BY DEF Tasks, Unknown
  <2>4. AttemptOf[c] \in STRING
    BY CallerAssumption
  <2>2. q = [status |-> "pending", head |-> h, id |-> c, owner |-> AttemptOf[c],
             age |-> 0, before |-> before, unproductive |-> u, productive |-> pr,
             continuations |-> co, incomplete |-> inc, partial |-> FALSE]
    BY <1>2
  <2> HIDE DEF u, pr, co, inc, q
  <2>5. QED
    BY <2>1, <2>2, <2>3, <2>4 DEF Record
<1>5. QED
  BY <1>3, <1>4 DEF Ours, Sound

-----------------------------------------------------------------------------
(***************************************************************************)
(* A completion, field by field.                                           *)
(***************************************************************************)
Completed(p, ok, observed, after) == Completion(p, p.head, ok, observed, after, "unset")

LEMMA CompletionFields ==
  ASSUME NEW p \in Record, NEW ok \in BOOLEAN, NEW observed \in Heads \cup {NoHead},
         NEW after \in Tasks, Sound(p)
  PROVE  /\ Completed(p, ok, observed, after) \in Record
         /\ Completed(p, ok, observed, after).id = p.id
         /\ Completed(p, ok, observed, after).owner = p.owner
         /\ Completed(p, ok, observed, after).head = p.head
         /\ Completed(p, ok, observed, after).status = (IF ok THEN "completed" ELSE "error")
         /\ Sound(Completed(p, ok, observed, after))
         /\ (p.status \in Terminal /\ (ok => p.status = "completed"))
               => SameDisposition(p, Completed(p, ok, observed, after))
<1> DEFINE replay == p.status \in Terminal
           measured == Measured(p, p.head, observed, after, "unset")
           verdict == IF measured = "unset" /\ Unproductive(p) THEN "no" ELSE measured
           unfinished == IF ok THEN Incomplete(p, p.head, observed, after) ELSE p.incomplete
           tally == IF ok THEN Tally(p, verdict, replay) ELSE p.unproductive
           partial == IF replay THEN p.partial
                      ELSE observed = p.head /\ after # NoTasks /\ OpenTasks(after)
           conts == CASE ok /\ unfinished = "yes" ->
                            IF replay THEN Continuations(p)
                            ELSE Least(Continuations(p) + 1, Limit + 1)
                      [] ok /\ unfinished = "no" -> 0
                      [] ok /\ unfinished = "unset" /\ verdict = "no" -> tally
                      [] OTHER -> p.continuations
           q == Completed(p, ok, observed, after)
<1>1. q = [p EXCEPT !.status = IF ok THEN "completed" ELSE "error",
                    !.head = p.head,
                    !.age = IF replay THEN p.age ELSE 0,
                    !.productive = IF ok /\ verdict # "unset" THEN verdict ELSE p.productive,
                    !.unproductive = tally, !.incomplete = unfinished,
                    !.partial = partial, !.continuations = conts]
  BY DEF Completed, Completion, Again
<1>2. /\ p.head \in Heads /\ p.productive \in Verdicts /\ p.incomplete \in Verdicts
      /\ p.unproductive \in 0..3 /\ p.continuations \in -1..3 /\ p.partial \in BOOLEAN
      /\ p.age \in -1..2 /\ p.status \in {"pending"} \cup Terminal
      /\ Continuations(p) \in 0..3
  BY DEF Record, Limit, Unset, Unknown, Continuations
<1>3. measured \in Verdicts /\ (replay => measured = p.productive)
  BY <1>2 DEF Measured, Again, Verdicts
<1>4. /\ verdict \in Verdicts /\ (replay => verdict = p.productive)
      /\ verdict = "unset" => p.productive # "no"
  BY <1>3 DEF Unproductive, Verdicts
<1>5. /\ unfinished \in Verdicts
      /\ unfinished = "no" => ok \/ p.incomplete = "no"
      /\ replay => unfinished = IF ok /\ p.incomplete = "unset" /\ p.partial
                                THEN "yes" ELSE p.incomplete
  BY <1>2 DEF Incomplete, Again, Verdicts
<1>6. /\ tally \in 0..3
      /\ ok /\ verdict = "yes" => tally = 0
      /\ ok /\ verdict = "no" => tally >= 1
      /\ ~ok \/ verdict = "unset" \/ replay => tally = p.unproductive
  BY <1>2, <1>4 DEF Tally, Least, Greatest, Limit, Verdicts, Sound
<1>7. partial \in BOOLEAN
  BY <1>2
<1> HIDE DEF measured, verdict, unfinished, tally, partial
<1>8. /\ conts \in -1..3
      /\ ok /\ unfinished = "yes" /\ replay => conts = Continuations(p)
      /\ ok /\ unfinished = "no" => conts = 0
      /\ ok /\ unfinished = "unset" /\ verdict = "no" => conts = tally
      /\ ~ok \/ (unfinished = "unset" /\ verdict # "no") => conts = p.continuations
  BY <1>2, <1>5, <1>6 DEF Least, Limit, Verdicts
<1> HIDE DEF conts
<1>9. /\ q.id = p.id /\ q.owner = p.owner /\ q.head = p.head
      /\ q.status = (IF ok THEN "completed" ELSE "error")
      /\ q.age = (IF replay THEN p.age ELSE 0)
      /\ q.productive = (IF ok /\ verdict # "unset" THEN verdict ELSE p.productive)
      /\ q.unproductive = tally /\ q.incomplete = unfinished
      /\ q.partial = partial /\ q.continuations = conts
  BY <1>1 DEF Record
<1>10. q \in Record
  <2> DEFINE st == IF ok THEN "completed" ELSE "error"
             age == IF replay THEN p.age ELSE 0
             pr == IF ok /\ verdict # "unset" THEN verdict ELSE p.productive
  <2>1. /\ st \in {"pending"} \cup Terminal /\ age \in Unknown..2 /\ pr \in Verdicts
        /\ tally \in 0..Limit + 1 /\ conts \in Unset..Limit + 1
    BY <1>2, <1>4, <1>6, <1>8 DEF Limit, Unset, Unknown, Terminal
  <2>2. q = [p EXCEPT !.status = st, !.head = p.head, !.age = age, !.productive = pr,
                      !.unproductive = tally, !.incomplete = unfinished,
                      !.partial = partial, !.continuations = conts]
    BY <1>1
  <2> HIDE DEF st, age, pr, q
  <2>3. QED
    BY <1>2, <1>5, <1>7, <2>1, <2>2 DEF Record
<1> HIDE DEF q
<1>11. Sound(q)
  BY <1>2, <1>4, <1>5, <1>6, <1>8, <1>9 DEF Sound, Verdicts
<1>12. ASSUME replay, ok => p.status = "completed"
       PROVE  SameDisposition(p, q)
  <2>1. q.age = p.age /\ q.partial = p.partial /\ q.productive = p.productive
    BY <1>4, <1>9, <1>12 DEF partial
  <2>2. q.unproductive = p.unproductive
    BY <1>6, <1>9, <1>12
  <2>3. NeedsContinuation(q) = NeedsContinuation(p)
    BY <1>5, <1>9, <1>12, <2>1 DEF NeedsContinuation
  <2>4. Unproductive(q) = Unproductive(p)
    BY <2>1 DEF Unproductive
  <2>5. RetryCount(q) = RetryCount(p)
    <3>1. CASE ~ok
      BY <1>8, <1>9, <2>2, <2>3, <2>4, <3>1 DEF RetryCount, Continuations
    <3>2. CASE ok /\ unfinished = "yes"
      BY <1>2, <1>8, <1>9, <1>12, <2>2, <2>3, <2>4, <3>2 DEF RetryCount, Continuations, Unset
    <3>3. CASE ok /\ unfinished = "no"
      BY <1>2, <1>5, <1>8, <1>9, <1>12, <2>2, <2>3, <2>4, <3>3
         DEF RetryCount, Continuations, Unset, Sound
    <3>4. CASE ok /\ unfinished = "unset" /\ verdict = "no"
      <4>1. p.continuations = p.unproductive
        BY <1>2, <1>4, <1>5, <1>12, <3>4 DEF Sound, Verdicts
      <4>2. conts = p.continuations
        BY <1>6, <1>8, <1>12, <3>4, <4>1
      <4>3. QED
        BY <1>9, <2>2, <2>3, <2>4, <4>2 DEF RetryCount, Continuations
    <3>5. CASE ok /\ unfinished = "unset" /\ verdict # "no"
      BY <1>8, <1>9, <2>2, <2>3, <2>4, <3>5 DEF RetryCount, Continuations
    <3>6. QED
      BY <1>5, <3>1, <3>2, <3>3, <3>4, <3>5 DEF Verdicts
  <2>6. QED
    BY <2>1, <2>2, <2>3, <2>4, <2>5 DEF SameDisposition
<1>13. QED
  BY <1>9, <1>10, <1>11, <1>12 DEF q

\* A completion over the attempt's own record of another head.
LEMMA MovedFields ==
  ASSUME NEW p \in Record, NEW h \in Heads, NEW ok \in BOOLEAN, NEW observed \in Heads,
         NEW after \in Tasks, Sound(p), p.head # h, observed # h
  PROVE  LET q == Completion(p, h, ok, observed, after, "unset") IN
         /\ q \in Record /\ q.id = p.id /\ q.owner = p.owner /\ Sound(q)
         /\ q.status = (IF ok THEN "completed" ELSE "error")
<1> DEFINE q == Completion(p, h, ok, observed, after, "unset")
           st == IF ok THEN "completed" ELSE "error"
           pr == IF ok THEN "yes" ELSE p.productive
           tally == IF ok THEN 0 ELSE p.unproductive
           unfinished == IF ok THEN "no" ELSE p.incomplete
           conts == IF ok THEN 0 ELSE p.continuations
<1>1. ~Again(p, h) /\ observed \notin {NoHead, h}
  BY DEF Again, Heads, NoHead
<1>2. Measured(p, h, observed, after, "unset") = "yes" /\ Incomplete(p, h, observed, after) = "no"
  BY <1>1 DEF Measured, Incomplete
<1>3. Tally(p, "yes", FALSE) = 0
  BY DEF Tally
<1>4. q = [p EXCEPT !.status = st, !.head = h, !.age = 0, !.productive = pr,
                    !.unproductive = tally, !.incomplete = unfinished,
                    !.partial = FALSE, !.continuations = conts]
  <2> DEFINE m == Measured(p, h, observed, after, "unset")
             i == Incomplete(p, h, observed, after)
             t == Tally(p, m, FALSE)
  <2>1. Again(p, h) = FALSE /\ (observed = h) = FALSE /\ (p.head = h) = FALSE
    BY <1>1
  <2>2. m = "yes" /\ i = "no" /\ t = 0
    BY <1>2, <1>3
  <2>3. Completion(p, h, ok, observed, after, "unset") =
          [p EXCEPT !.status = st, !.head = h, !.age = 0,
                    !.productive = IF ok /\ m # "unset" THEN m ELSE p.productive,
                    !.unproductive = IF ok THEN t ELSE p.unproductive,
                    !.incomplete = IF ok THEN i ELSE p.incomplete,
                    !.partial = FALSE,
                    !.continuations = CASE ok /\ i = "yes" -> Least(Continuations(p) + 1, Limit + 1)
                                        [] ok /\ i = "no" -> 0
                                        [] ok /\ i = "unset" /\ m = "no" -> t
                                        [] OTHER -> p.continuations]
    <3> HIDE DEF m, i
    <3>1. m # "unset"
      BY <2>2
    <3>2. ok => (IF ok THEN i ELSE p.incomplete) = "no"
      BY <2>2
    <3>3. QED
      BY <2>1, <2>2, <3>1, <3>2 DEF Completion, m, i
  <2> HIDE DEF m, i, t
  <2>4. /\ (IF ok /\ m # "unset" THEN m ELSE p.productive) = pr
        /\ (IF ok THEN t ELSE p.unproductive) = tally
        /\ (IF ok THEN i ELSE p.incomplete) = unfinished
        /\ (CASE ok /\ i = "yes" -> Least(Continuations(p) + 1, Limit + 1)
              [] ok /\ i = "no" -> 0
              [] ok /\ i = "unset" /\ m = "no" -> t
              [] OTHER -> p.continuations) = conts
    BY <2>2
  <2>5. QED
    BY <2>3, <2>4
<1>5. /\ p.productive \in Verdicts /\ p.incomplete \in Verdicts
      /\ p.unproductive \in 0..Limit + 1 /\ p.continuations \in Unset..Limit + 1
  BY DEF Record
<1>6. /\ st \in {"pending"} \cup Terminal /\ st # "pending" /\ 0 \in Unknown..2
      /\ pr \in Verdicts /\ unfinished \in Verdicts
      /\ tally \in 0..Limit + 1 /\ conts \in Unset..Limit + 1
  BY <1>5 DEF Verdicts, Terminal, Unknown, Limit, Unset
<1>7. /\ pr = "yes" => tally = 0
      /\ pr = "no" => tally >= 1
      /\ unfinished = "no" => conts = 0
      /\ st = "completed" => pr = "yes"
  BY DEF Sound
<1> HIDE DEF st, pr, tally, unfinished, conts
<1>8. /\ q.status = st /\ q.productive = pr /\ q.unproductive = tally
      /\ q.incomplete = unfinished /\ q.continuations = conts
      /\ q.id = p.id /\ q.owner = p.owner
  BY <1>4 DEF Record
<1> HIDE DEF q
<1>9. q \in Record
  BY <1>4, <1>6 DEF Record
<1>10. Sound(q)
  BY <1>6, <1>7, <1>8 DEF Sound
<1>11. QED
  BY <1>8, <1>9, <1>10 DEF q, st

-----------------------------------------------------------------------------
(***************************************************************************)
(* The steps.                                                              *)
(***************************************************************************)
LEMMA InitKeeps == Init => IInv
<1> SUFFICES ASSUME Init
             PROVE  IInv
  OBVIOUS
<1>1. \A c \in Caller : call[c] = Idle
  BY DEF Init
<1>2. Idle \in Entry
  BY DEF Idle, Entry, Phases
<1>3. record \in Record \cup {None} /\ Stores
  BY StoredAssumption DEF Init, Stores
<1>4. TypeOK
  BY <1>2, <1>3, BoundAssumption DEF Init, TypeOK, Entry, MaxBurst, Limit
<1>5. Drafts
  BY <1>1 DEF Drafts, Idle
<1>6. QED
  BY <1>3, <1>4, <1>5 DEF IInv

\* A caller's step: its entry changes, and the record becomes one that may be read.
LEMMA CallerStep ==
  ASSUME IInv, NEW c \in Caller, NEW e \in Entry,
         call' = [call EXCEPT ![c] = e],
         Stores', record' = None => record = None,
         head' \in Heads, faults' \in 0..MaxFaults, overlap' \in BOOLEAN, history' \in Tracked,
         e.phase \notin {"idle", "over"} => e.head \in Heads,
         e.phase = "posting" => /\ Ours(e.draft) /\ e.draft.id = c
                                /\ e.draft.status = "pending" /\ e.draft.head = e.head,
         e.phase = "reporting" =>
            /\ Ours(e.draft) /\ e.draft.owner = AttemptOf[c] /\ record # None
            /\ e.draft.status = IF e.ok THEN "completed" ELSE "error"
  PROVE  IInv'
<1>1. call \in [Caller -> Entry]
  BY DEF IInv, TypeOK, Entry
<1>2. \A d \in Caller : call'[d] = IF d = c THEN e ELSE call[d]
  BY <1>1
<1>3. call' \in [Caller -> Entry] /\ record' \in Record \cup {None}
  BY <1>1 DEF Stores, Ours
<1>4. TypeOK'
  BY <1>3 DEF TypeOK, Entry, Tracked
<1>5. Drafts'
  BY <1>2 DEF IInv, Drafts, Ours
<1>6. QED
  BY <1>4, <1>5 DEF IInv

LEMMA EntryOf ==
  ASSUME IInv, NEW c \in Caller
  PROVE  /\ call \in [Caller -> Entry] /\ call[c] \in Entry
         /\ \A p \in Phases : Move(c, p) =>
              /\ call' = [call EXCEPT ![c] = [call[c] EXCEPT !.phase = p, !.draft = None]]
              /\ [call[c] EXCEPT !.phase = p, !.draft = None] \in Entry
              /\ [call[c] EXCEPT !.phase = p, !.draft = None].phase = p
              /\ [call[c] EXCEPT !.phase = p, !.draft = None].head = call[c].head
         /\ End(c) => \E e \in {Over, Idle} : e \in Entry /\ call' = [call EXCEPT ![c] = e]
<1>1. call \in [Caller -> Entry]
  BY DEF IInv, TypeOK, Entry
<1>2. call[c] \in Entry
  BY <1>1
<1>3. Over \in Entry /\ Idle \in Entry
  BY DEF Over, Idle, Entry, Phases
<1>4. ASSUME NEW p \in Phases, Move(c, p)
      PROVE  /\ call' = [call EXCEPT ![c] = [call[c] EXCEPT !.phase = p, !.draft = None]]
             /\ [call[c] EXCEPT !.phase = p, !.draft = None] \in Entry
             /\ [call[c] EXCEPT !.phase = p, !.draft = None].phase = p
             /\ [call[c] EXCEPT !.phase = p, !.draft = None].head = call[c].head
  BY <1>1, <1>2, <1>4 DEF Move, Entry
<1>5. ASSUME End(c)
      PROVE  \E e \in {Over, Idle} : e \in Entry /\ call' = [call EXCEPT ![c] = e]
  BY <1>3, <1>5 DEF End
<1>6. QED
  BY <1>1, <1>2, <1>4, <1>5

\* An execution is over.
LEMMA EndKeeps ==
  ASSUME IInv, NEW c \in Caller, End(c), UNCHANGED <<head, record, overlap, history>>,
         faults' \in 0..MaxFaults
  PROVE  IInv'
<1>1. PICK e \in {Over, Idle} : e \in Entry /\ call' = [call EXCEPT ![c] = e]
  BY EntryOf
<1>2. e.phase \in {"idle", "over"}
  BY DEF Over, Idle
<1>3. QED
  BY <1>1, <1>2, CallerStep DEF IInv, TypeOK, Tracked, Stores, Ours

\* A call goes on without a draft.
LEMMA MoveKeeps ==
  ASSUME IInv, NEW c \in Caller, NEW p \in {"running", "rechecking", "ran"}, Move(c, p),
         call[c].phase \notin {"idle", "over"},
         Stores', record' = None => record = None,
         UNCHANGED <<head, overlap>>, faults' \in 0..MaxFaults, history' \in Tracked
  PROVE  IInv'
<1> DEFINE e == [call[c] EXCEPT !.phase = p, !.draft = None]
<1>1. p \in Phases
  BY DEF Phases
<1>2. e \in Entry /\ e.phase = p /\ e.head = call[c].head /\ call' = [call EXCEPT ![c] = e]
  BY <1>1, EntryOf, ZenonT(60)
<1>3. call[c].head \in Heads
  BY DEF IInv, Drafts
<1>4. head' \in Heads /\ overlap' \in BOOLEAN
  BY DEF IInv, TypeOK
<1> HIDE DEF e
<1>5. QED
  BY <1>2, <1>3, <1>4, CallerStep

LEMMA Faulty == ASSUME IInv, Fault PROVE faults' \in 0..MaxFaults
BY BoundAssumption DEF Fault, IInv, TypeOK

LEMMA EvaluateKeeps ==
  ASSUME IInv, NEW c \in Caller, Evaluate(c)
  PROVE  IInv'
<1> DEFINE e == [call[c] EXCEPT !.phase = "evaluated", !.head = head]
<1>1. call \in [Caller -> Entry] /\ call[c] \in Entry /\ head \in Heads
  BY EntryOf DEF IInv, TypeOK
<1>2. e \in Entry /\ e.phase = "evaluated" /\ e.head = head
  BY <1>1 DEF Entry, Phases
<1>3. call' = [call EXCEPT ![c] = e] /\ UNCHANGED <<head, record, faults, overlap, history>>
  BY <1>1 DEF Evaluate, Entry
<1> HIDE DEF e
<1>4. QED
  BY <1>1, <1>2, <1>3, CallerStep DEF IInv, TypeOK, Tracked, Stores, Ours

LEMMA DecideKeeps ==
  ASSUME IInv, NEW c \in Caller, Decide(c)
  PROVE  IInv'
<1>1. /\ UNCHANGED <<head, record, faults, overlap, history>>
      /\ call \in [Caller -> Entry] /\ call[c] \in Entry
  BY EntryOf DEF Decide
<1>2. CASE End(c)
  BY <1>1, <1>2, EndKeeps DEF IInv, TypeOK
<1>3. CASE ~End(c)
  <2>1. PICK before \in Tasks :
          call' = [call EXCEPT ![c].phase = "posting",
                      ![c].draft = Reservation(c, call[c].head, record, before)]
    BY <1>3 DEF Decide, Tasks
  <2> DEFINE r == Reservation(c, call[c].head, record, before)
             e == [call[c] EXCEPT !.phase = "posting", !.draft = r]
  <2>2. call[c].head \in Heads /\ record \in Record \cup {None}
    BY DEF Decide, IInv, Drafts, TypeOK
  <2>3. Ours(r) /\ r.id = c /\ r.status = "pending" /\ r.head = call[c].head
    BY <2>2, ReservationIsOurs
  <2> HIDE DEF r
  <2>4. /\ e \in Entry /\ e.phase = "posting" /\ e.draft = r /\ e.head = call[c].head
        /\ call' = [call EXCEPT ![c] = e]
    BY <1>1, <2>1, <2>3 DEF Entry, Phases, Ours, r
  <2> HIDE DEF e
  <2>5. QED
    BY <1>1, <2>2, <2>3, <2>4, CallerStep DEF IInv, TypeOK, Tracked, Stores, Ours
<1>4. QED
  BY <1>2, <1>3

LEMMA PostKeeps ==
  ASSUME IInv, NEW c \in Caller, Post(c) \/ PostFails(c)
  PROVE  IInv'
<1>1. /\ UNCHANGED <<head, overlap>> /\ call[c].phase = "posting"
      /\ Move(c, "running") \/ Move(c, "rechecking")
      /\ Posted(c) \/ UNCHANGED <<record, history>>
      /\ Fault \/ UNCHANGED faults
  BY DEF Post, PostFails
<1>2. faults' \in 0..MaxFaults
  BY <1>1, Faulty DEF IInv, TypeOK
<1>3. Ours(call[c].draft)
  BY <1>1 DEF IInv, Drafts
<1>4. Stores' /\ (record' = None => record = None)
  BY <1>1, <1>3, NoneIsNoRecord DEF IInv, Posted, Stores, Ours
<1>5. history' \in Tracked
  <2>1. history \in Tracked /\ 0 \in 0..MaxBurst
    BY DEF IInv, TypeOK, Tracked, MaxBurst, Limit
  <2>2. CASE Posted(c)
    <3> DEFINE b == IF record # None /\ record.head = call[c].head THEN history.burst ELSE 0
    <3>1. history' = [history EXCEPT !.turn = ~history.turn, !.burst = b]
      BY <2>2 DEF Posted
    <3>2. b \in 0..MaxBurst /\ (~history.turn) \in BOOLEAN
      BY <2>1 DEF Tracked
    <3> HIDE DEF b
    <3>3. QED
      BY <2>1, <3>1, <3>2 DEF Tracked
  <2>3. QED
    BY <1>1, <2>1, <2>2
<1>6. QED
  BY <1>1, <1>2, <1>4, <1>5, MoveKeeps

LEMMA RecheckKeeps ==
  ASSUME IInv, NEW c \in Caller, Recheck(c) \/ DecideFails(c) \/ Leave(c)
  PROVE  IInv'
<1>1. UNCHANGED <<head, record, overlap, history>> /\ (Fault \/ UNCHANGED faults)
  BY DEF Recheck, DecideFails, Leave
<1>2. faults' \in 0..MaxFaults
  BY <1>1, Faulty DEF IInv, TypeOK
<1>3. CASE End(c)
  BY <1>1, <1>2, <1>3, EndKeeps
<1>4. CASE Recheck(c) /\ Move(c, "running")
  BY <1>1, <1>2, <1>4, MoveKeeps DEF Recheck, IInv, TypeOK, Tracked, Stores, Ours
<1>5. QED
  BY <1>3, <1>4 DEF Recheck, DecideFails, Leave

LEMMA WorkKeeps ==
  ASSUME IInv, NEW c \in Caller, Work(c)
  PROVE  IInv'
<1>1. PICK ok \in BOOLEAN : call' = [call EXCEPT ![c].phase = "ran", ![c].ok = ok]
  BY DEF Work
<1> DEFINE e == [call[c] EXCEPT !.phase = "ran", !.ok = ok]
<1>2. call \in [Caller -> Entry] /\ call[c] \in Entry /\ call[c].head \in Heads
  BY EntryOf DEF Work, IInv, Drafts
<1>3. /\ e \in Entry /\ e.phase = "ran" /\ e.head = call[c].head
      /\ call' = [call EXCEPT ![c] = e]
  BY <1>1, <1>2 DEF Entry, Phases
<1> HIDE DEF e
<1>4. UNCHANGED <<head, record, faults, overlap, history>>
  BY DEF Work
<1>5. QED
  BY <1>2, <1>3, <1>4, CallerStep DEF IInv, TypeOK, Tracked, Stores, Ours

\* What a report is about to write.
LEMMA ReportDraft ==
  ASSUME IInv, NEW c \in Caller, Report(c)
  PROVE  /\ Ours(record) /\ record.owner = AttemptOf[c]
         /\ \E observed \in Heads \cup {NoHead}, after \in Tasks :
              /\ record.head = call[c].head \/ observed \notin {NoHead, call[c].head}
              /\ call' = [call EXCEPT ![c].phase = "reporting",
                             ![c].draft = Completion(record, call[c].head, call[c].ok,
                                                     observed, after, "unset")]
<1>1. Ours(record)
  BY CallerAssumption DEF Report, IInv, Stores
<1>2. PICK o \in Observations :
        /\ record.head = call[c].head \/ o[1] \notin {NoHead, call[c].head}
        /\ call' = [call EXCEPT ![c].phase = "reporting",
                       ![c].draft = Completion(record, call[c].head, call[c].ok,
                                               o[1], o[2], "unset")]
  BY DEF Report
<1>3. o[1] \in Heads \cup {NoHead} /\ o[2] \in Tasks
  BY DEF Observations, Tasks, IInv, TypeOK
<1>4. record.owner = AttemptOf[c]
  BY DEF Report
<1>5. QED
  BY <1>1, <1>2, <1>3, <1>4

LEMMA ReportKeeps ==
  ASSUME IInv, NEW c \in Caller, Report(c)
  PROVE  IInv'
<1>1. PICK observed \in Heads \cup {NoHead}, after \in Tasks :
        /\ record.head = call[c].head \/ observed \notin {NoHead, call[c].head}
        /\ call' = [call EXCEPT ![c].phase = "reporting",
                       ![c].draft = Completion(record, call[c].head, call[c].ok,
                                               observed, after, "unset")]
  BY ReportDraft
<1> DEFINE q == Completion(record, call[c].head, call[c].ok, observed, after, "unset")
           e == [call[c] EXCEPT !.phase = "reporting", !.draft = q]
<1>2. call \in [Caller -> Entry] /\ call[c] \in Entry
  BY EntryOf
<1>3. Ours(record) /\ record.owner = AttemptOf[c]
  BY ReportDraft
<1>4. /\ q \in Record /\ q.id = record.id /\ q.owner = record.owner /\ Sound(q)
      /\ q.status = IF call[c].ok THEN "completed" ELSE "error"
  <2>1. /\ record \in Record /\ Sound(record) /\ call[c].ok \in BOOLEAN
        /\ observed \in Heads \cup {NoHead} /\ after \in Tasks
    BY <1>1, <1>2, <1>3 DEF Ours, Entry
  <2>2. call[c].head \in Heads
    BY DEF Report, IInv, Drafts
  <2>3. CASE record.head = call[c].head
    BY <2>1, <2>3, CompletionFields DEF Completed
  <2>4. CASE record.head # call[c].head
    BY <1>1, <2>1, <2>2, <2>4, MovedFields
  <2>5. QED
    BY <2>3, <2>4
<1> HIDE DEF q
<1>5. /\ e \in Entry /\ e.phase = "reporting" /\ e.draft = q /\ e.head = call[c].head
      /\ e.ok = call[c].ok /\ call' = [call EXCEPT ![c] = e]
  BY <1>1, <1>2, <1>4 DEF Entry, Phases, q
<1> HIDE DEF e
<1>6. Ours(q) /\ q.owner = AttemptOf[c] /\ call[c].head \in Heads
  BY <1>3, <1>4 DEF Ours, Report, IInv, Drafts
<1>7. UNCHANGED <<head, record, faults, overlap, history>> /\ record # None
  BY DEF Report
<1>8. QED
  BY <1>3, <1>4, <1>5, <1>6, <1>7, CallerStep DEF IInv, TypeOK, Tracked, Stores, Ours

LEMMA SettleKeeps ==
  ASSUME IInv, NEW c \in Caller, Settle(c)
  PROVE  IInv'
<1>1. /\ UNCHANGED <<head, overlap>> /\ call[c].phase = "reporting" /\ Move(c, "ran")
      /\ Settled(c) \/ UNCHANGED <<record, history>>
      /\ Fault \/ UNCHANGED faults
  BY DEF Settle
<1>2. faults' \in 0..MaxFaults
  BY <1>1, Faulty DEF IInv, TypeOK
<1>3. Ours(call[c].draft)
  BY <1>1 DEF IInv, Drafts
<1>4. record' \in {record, call[c].draft}
  BY <1>1 DEF Settled
<1>5. Stores' /\ (record' = None => record = None)
  BY <1>3, <1>4, NoneIsNoRecord DEF IInv, Stores, Ours
<1>6. history' \in Tracked
  BY <1>1, BoundAssumption DEF IInv, TypeOK, Settled, Tracked, MaxBurst, Limit, Least
<1>7. QED
  BY <1>1, <1>2, <1>5, <1>6, MoveKeeps

LEMMA OlderKeeps ==
  ASSUME NEW p \in Record
  PROVE  /\ Older(p) \in Record /\ Older(p).id = p.id /\ Older(p).owner = p.owner
         /\ Older(p).status = p.status /\ Older(p).head = p.head /\ (Sound(p) => Sound(Older(p)))
<1>1. p # None /\ p.age \in -1..2
  BY NoneIsNoRecord DEF Record, Unknown
<1>2. CASE p.age = Unknown
  BY <1>1, <1>2 DEF Older
<1>3. CASE p.age # Unknown
  <2>1. Older(p) = [p EXCEPT !.age = Least(p.age + 1, 2)]
    BY <1>1, <1>3 DEF Older
  <2>2. Least(p.age + 1, 2) \in Unknown..2
    BY <1>1 DEF Least, Unknown
  <2>3. QED
    BY <2>1, <2>2 DEF Record, Sound
<1>4. QED
  BY <1>2, <1>3

LEMMA OutsideKeeps ==
  ASSUME IInv, Push \/ Tick \/ UNCHANGED vars
  PROVE  IInv'
<1>1. CASE Push \/ UNCHANGED vars
  <2>1. UNCHANGED <<record, call, faults, overlap, history>> /\ head' \in Heads
    BY <1>1, BoundAssumption, SMTT(30) DEF Push, vars, IInv, TypeOK, Heads
  <2>2. QED
    BY <2>1 DEF IInv, TypeOK, Drafts, Stores, Ours
<1>2. CASE Tick
  <2>1. UNCHANGED <<head, call, faults, overlap>> /\ record' = Older(record)
    BY <1>2 DEF Tick
  <2>2. history' \in Tracked
    BY <1>2, BoundAssumption DEF Tick, IInv, TypeOK, Tracked, MaxBurst, Limit
  <2>3. Stores' /\ (record' = None => record = None) /\ record' \in Record \cup {None}
    <3>1. CASE record = None
      BY <2>1, <3>1 DEF Stores, Older
    <3>2. CASE record \in Record
      <4>1. /\ record' \in Record /\ record'.id = record.id /\ record'.owner = record.owner
            /\ Sound(record) => Sound(record')
        BY <2>1, <3>2, OlderKeeps
      <4>2. QED
        BY <3>2, <4>1, NoneIsNoRecord DEF IInv, Stores, Ours
    <3>3. QED
      BY <3>1, <3>2 DEF IInv, TypeOK
  <2>4. TypeOK'
    BY <2>1, <2>2, <2>3 DEF IInv, TypeOK, Tracked
  <2>5. Drafts'
    BY <2>1, <2>3 DEF IInv, Drafts, Ours
  <2>6. QED
    BY <2>3, <2>4, <2>5 DEF IInv
<1>3. QED
  BY <1>1, <1>2

LEMMA InvariantStep == IInv /\ [Next]_vars => IInv'
BY EvaluateKeeps, DecideKeeps, PostKeeps, RecheckKeeps, WorkKeeps, ReportKeeps, SettleKeeps,
   OutsideKeeps DEF Next, Act

-----------------------------------------------------------------------------
(***************************************************************************)
(* What a step does to the entry and the record of a caller.               *)
(***************************************************************************)
\* Only c itself changes c's entry.
LEMMA OthersLeaveEntry ==
  ASSUME IInv, [Next]_vars, NEW c \in Caller, call'[c] # call[c]
  PROVE  Act(c)
<1>1. call \in [Caller -> Entry]
  BY DEF IInv, TypeOK, Entry
<1>2. ASSUME NEW d \in Caller, d # c, Act(d)
      PROVE  call'[c] = call[c]
  BY <1>1, <1>2 DEF Act, Evaluate, Decide, DecideFails, Post, PostFails, Recheck, Work, Report,
                    Settle, Leave, Move, End
<1>3. CASE Push \/ Tick \/ UNCHANGED vars
  BY <1>3 DEF Push, Tick, vars
<1>4. QED
  BY <1>2, <1>3 DEF Next

\* The phase a step of c leads to tells which step it was.
LEMMA PhaseTellsStep ==
  ASSUME IInv, NEW c \in Caller, Act(c)
  PROVE  /\ call'[c].phase = "running" => Post(c) \/ Recheck(c)
         /\ call'[c].phase = "ran" => Work(c) \/ Settle(c)
         /\ call'[c].phase = "reporting" => Report(c)
         /\ call'[c].phase = "rechecking" => PostFails(c)
         /\ call'[c].phase = "posting" => Decide(c) /\ record' = record
         /\ call'[c].phase = "evaluated" => Evaluate(c)
<1>1. call \in [Caller -> Entry] /\ call[c] \in Entry
  BY EntryOf
<1>2. End(c) => call'[c].phase \in {"idle", "over"}
  BY <1>1 DEF End, Over, Idle
<1>3. CASE Evaluate(c)
  BY <1>1, <1>3 DEF Evaluate, Entry
<1>4. CASE Decide(c)
  BY <1>1, <1>2, <1>4 DEF Decide, Entry
<1>5. CASE Post(c) \/ PostFails(c)
  BY <1>1, <1>5 DEF Post, PostFails, Move, Entry
<1>6. CASE Recheck(c)
  BY <1>1, <1>2, <1>6 DEF Recheck, Move, Entry
<1>7. CASE DecideFails(c) \/ Leave(c)
  BY <1>2, <1>7 DEF DecideFails, Leave
<1>8. CASE Work(c)
  <2>1. PICK ok \in BOOLEAN : call' = [call EXCEPT ![c].phase = "ran", ![c].ok = ok]
    BY <1>8 DEF Work
  <2>2. call'[c].phase = "ran"
    BY <1>1, <2>1 DEF Entry
  <2>3. QED
    BY <1>8, <2>2
<1>9. CASE Report(c)
  <2>1. PICK observed \in Heads \cup {NoHead}, after \in Tasks :
          call' = [call EXCEPT ![c].phase = "reporting",
                      ![c].draft = Completion(record, call[c].head, call[c].ok,
                                              observed, after, "unset")]
    BY <1>9, ReportDraft
  <2>2. call'[c].phase = "reporting"
    BY <1>1, <2>1 DEF Entry
  <2>3. QED
    BY <1>9, <2>2
<1>10. CASE Settle(c)
  BY <1>1, <1>10 DEF Settle, Move, Entry
<1>11. QED
  BY <1>3, <1>4, <1>5, <1>6, <1>7, <1>8, <1>9, <1>10 DEF Act

LEMMA ReportsSettles ==
  ASSUME IInv, [Next]_vars, NEW c \in Caller, Reports(c)
  PROVE  Settle(c) /\ record # None /\ Ours(call[c].draft)
         /\ call[c].draft.owner = AttemptOf[c]
<1>1. call'[c] # call[c] /\ call[c].phase = "reporting" /\ call'[c].phase = "ran"
  BY DEF Reports
<1>2. Settle(c)
  BY <1>1, OthersLeaveEntry, PhaseTellsStep DEF Work
<1>3. QED
  BY <1>1, <1>2 DEF IInv, Drafts

LEMMA StartIsOwn ==
  ASSUME IInv, [Next]_vars, NEW c \in Caller,
         call[c].phase # "running", call'[c].phase = "running"
  PROVE  record'.id = c /\ record'.status = "pending"
<1>1. Post(c) \/ Recheck(c)
  BY OthersLeaveEntry, PhaseTellsStep
<1>2. CASE Post(c)
  BY <1>2 DEF Post, Posted, IInv, Drafts
<1>3. CASE Recheck(c)
  <2>1. ~End(c)
    <3>1. call \in [Caller -> Entry]
      BY EntryOf
    <3>2. QED
      BY <3>1 DEF End, Over, Idle
  <2>2. QED
    BY <1>3, <2>1 DEF Recheck
<1>4. QED
  BY <1>1, <1>2, <1>3

LEMMA NewerIsKept ==
  ASSUME IInv, [Next]_vars, NEW c \in Caller, Reports(c), record' # record
  PROVE  record.owner = AttemptOf[c] /\ record'.id = record.id
<1>1. /\ Settle(c) /\ record # None /\ Ours(call[c].draft)
      /\ call[c].draft.owner = AttemptOf[c]
  BY ReportsSettles
<1>2. record' = call[c].draft /\ record.id = call[c].draft.id
  BY <1>1 DEF Settle, Settled
<1>3. Ours(record)
  BY <1>1, <1>2, CallerAssumption DEF IInv, Stores, Ours
<1>4. QED
  BY <1>1, <1>2, <1>3 DEF Ours

-----------------------------------------------------------------------------
(***************************************************************************)
(* Replays, where each workflow attempt evaluates once.                    *)
(***************************************************************************)
Distinct == \A c, d \in Caller : AttemptOf[c] = AttemptOf[d] => c = d

Has(c) == record # None /\ record.id = c

RInv ==
    \A c \in Caller : Has(c) =>
        /\ call[c].phase \notin {"evaluated", "posting"}
        /\ call[c].phase \notin {"idle", "over"} => record.head = call[c].head
        /\ call[c].phase \in {"rechecking", "running"} => record.status = "pending"
        /\ call[c].phase \in {"ran", "reporting"} /\ record.status \in Terminal
              => record.status = IF call[c].ok THEN "completed" ELSE "error"
        /\ call[c].phase = "reporting" =>
              \E observed \in Heads \cup {NoHead}, after \in Tasks :
                 call[c].draft = Completed(record, call[c].ok, observed, after)

LEMMA ReplayStart == Init => RInv
BY StoredAssumption, CallerAssumption DEF Init, RInv, Has

\* A record that is there after another caller's step, or after the time, was there
\* before.
LEMMA OthersLeaveRecord ==
  ASSUME IInv, Distinct, NEW c \in Caller, Has(c)', call'[c] = call[c],
         \/ \E d \in Caller \ {c} : Act(d)
         \/ Push \/ UNCHANGED vars
  PROVE  record' = record
<1>1. CASE Push \/ UNCHANGED vars
  BY <1>1 DEF Push, vars
<1>2. ASSUME NEW d \in Caller \ {c}, Act(d)
      PROVE  record' = record
  <2>1. CASE Post(d) \/ PostFails(d)
    <3>1. record' = record \/ (record' = call[d].draft /\ call[d].draft.id = d)
      BY <2>1 DEF Post, PostFails, Posted, IInv, Drafts
    <3>2. QED
      BY <3>1 DEF Has
  <2>2. CASE Settle(d)
    <3>1. record' = record \/ (record' = call[d].draft /\ call[d].draft.id = d)
      BY <2>2 DEF Settle, Settled, IInv, Drafts, Ours, Distinct
    <3>2. QED
      BY <3>1 DEF Has
  <2>3. QED
    BY <1>2, <2>1, <2>2 DEF Act, Evaluate, Decide, DecideFails, Recheck, Work, Report, Leave
<1>3. QED
  BY <1>1, <1>2

LEMMA ReplayStep == IInv /\ Distinct /\ RInv /\ [Next]_vars => RInv'
<1> SUFFICES ASSUME IInv, Distinct, RInv, [Next]_vars, NEW c \in Caller, Has(c)'
             PROVE  /\ call'[c].phase \notin {"evaluated", "posting"}
                    /\ call'[c].phase \notin {"idle", "over"} => record'.head = call'[c].head
                    /\ call'[c].phase \in {"rechecking", "running"}
                          => record'.status = "pending"
                    /\ call'[c].phase \in {"ran", "reporting"} /\ record'.status \in Terminal
                          => record'.status = IF call'[c].ok THEN "completed" ELSE "error"
                    /\ call'[c].phase = "reporting" =>
                          \E observed \in Heads \cup {NoHead}, after \in Tasks :
                             call'[c].draft = Completed(record', call'[c].ok, observed, after)
  BY DEF RInv
<1>1. call \in [Caller -> Entry] /\ call[c] \in Entry
  BY EntryOf
<1>2. CASE Tick
  <2>1. /\ call' = call /\ call[c].phase \notin {"posting", "reporting"}
        /\ record' = Older(record)
    BY <1>2 DEF Tick, Calling
  <2>2. Has(c) /\ record'.status = record.status /\ record'.head = record.head
    BY <2>1, OlderKeeps DEF Has, IInv, TypeOK, Older
  <2>3. QED
    BY <2>1, <2>2 DEF RInv
<1>3. CASE ~Tick /\ ~Act(c)
  <2>1. call'[c] = call[c]
    BY <1>3, OthersLeaveEntry
  <2>2. record' = record
    BY <1>3, <2>1, OthersLeaveRecord DEF Next
  <2>3. QED
    BY <2>1, <2>2 DEF RInv, Has
<1>4. CASE Act(c)
  <2>1. call'[c].phase # "evaluated"
    BY <1>4, PhaseTellsStep DEF Evaluate, Has
  <2>2. call'[c].phase # "posting"
    BY <1>4, PhaseTellsStep DEF Decide, RInv, Has
  <2>8. ASSUME call'[c].phase \notin {"idle", "over"}
        PROVE  record'.head = call'[c].head
    <3>1. call[c].phase \notin {"idle", "over"} /\ ~End(c) /\ ~Evaluate(c)
      <4>1. ~Evaluate(c)
        BY DEF Evaluate, Has
      <4>2. ~End(c)
        BY <1>1, <2>8 DEF End, Idle, Over
      <4>3. QED
        BY <1>4, <4>1, <4>2 DEF Act, Decide, DecideFails, Post, PostFails, Recheck, Work,
                                Report, Settle, Leave
    <3>2. call'[c].head = call[c].head
      <4>1. CASE Move(c, "running") \/ Move(c, "rechecking") \/ Move(c, "ran")
        BY <1>1, <4>1 DEF Move, Entry
      <4>2. CASE Decide(c)
        BY <1>1, <3>1, <4>2 DEF Decide, Entry
      <4>3. CASE Work(c)
        BY <1>1, <4>3 DEF Work, Entry
      <4>4. CASE Report(c)
        BY <1>1, <4>4 DEF Report, Entry
      <4>5. QED
        BY <1>4, <3>1, <4>1, <4>2, <4>3, <4>4
           DEF Act, DecideFails, Post, PostFails, Recheck, Settle, Leave
    <3>3. CASE record' = record
      BY <3>1, <3>2, <3>3 DEF RInv, Has
    <3>4. CASE (Post(c) \/ PostFails(c)) /\ record' # record
      BY <3>2, <3>4 DEF Post, PostFails, Posted, IInv, Drafts
    <3>5. CASE Settle(c) /\ record' # record
      <4>1. call[c].phase = "reporting" /\ record' = call[c].draft /\ record.id = call[c].draft.id
        BY <3>5 DEF Settle, Settled
      <4>2. Has(c)
        BY <4>1 DEF Has, IInv, Drafts
      <4>3. Ours(record)
        BY <4>2, CallerAssumption DEF Has, IInv, Stores
      <4>4. PICK observed \in Heads \cup {NoHead}, after \in Tasks :
              call[c].draft = Completed(record, call[c].ok, observed, after)
        BY <4>1, <4>2 DEF RInv
      <4>5. record \in Record /\ Sound(record) /\ call[c].ok \in BOOLEAN
        BY <1>1, <4>3 DEF Ours, Entry
      <4>6. record'.head = record.head
        BY <4>1, <4>4, <4>5, CompletionFields
      <4>7. QED
        BY <3>1, <3>2, <4>2, <4>6 DEF RInv
    <3>6. QED
      BY <1>4, <3>3, <3>4, <3>5
         DEF Act, Evaluate, Decide, DecideFails, Recheck, Work, Report, Leave
  <2>3. call'[c].phase = "rechecking" => record'.status = "pending"
    <3>1. PostFails(c) => Posted(c) \/ record' = record
      BY DEF PostFails
    <3>2. QED
      BY <1>4, <3>1, PhaseTellsStep, ZenonT(60) DEF PostFails, Posted, RInv, Has, IInv, Drafts
  <2>4. call'[c].phase = "running" => record'.status = "pending"
    <3>1. call'[c].phase = "running" => call[c].phase # "running"
      BY <1>4, PhaseTellsStep DEF Post, Recheck
    <3>2. QED
      BY <3>1, StartIsOwn
  <2>5. ASSUME call'[c].phase = "ran", record'.status \in Terminal
        PROVE  record'.status = IF call'[c].ok THEN "completed" ELSE "error"
    <3>1. CASE Work(c)
      BY <2>5, <3>1 DEF Work, RInv, Has, Terminal
    <3>2. CASE Settle(c)
      <4>1. call'[c].ok = call[c].ok
        BY <1>1, <3>2 DEF Settle, Move, Entry
      <4>2. record' = record \/ record' = call[c].draft
        BY <3>2 DEF Settle, Settled
      <4>3. call[c].phase = "reporting"
        BY <3>2 DEF Settle
      <4>4. QED
        BY <2>5, <4>1, <4>2, <4>3 DEF RInv, Has, IInv, Drafts
    <3>3. QED
      BY <1>4, <2>5, <3>1, <3>2, PhaseTellsStep
  <2>6. ASSUME call'[c].phase = "reporting"
        PROVE  /\ record'.status \in Terminal
                     => record'.status = IF call'[c].ok THEN "completed" ELSE "error"
               /\ \E observed \in Heads \cup {NoHead}, after \in Tasks :
                     call'[c].draft = Completed(record', call'[c].ok, observed, after)
    <3>1. Report(c)
      BY <1>4, <2>6, PhaseTellsStep
    <3>2. PICK observed \in Heads \cup {NoHead}, after \in Tasks :
            call' = [call EXCEPT ![c].phase = "reporting",
                        ![c].draft = Completion(record, call[c].head, call[c].ok,
                                                observed, after, "unset")]
      BY <3>1, ReportDraft
    <3>3. record.head = call[c].head
      BY <3>1, ReportDraft DEF Report, Ours, Distinct, Has, RInv
    <3>4. /\ call'[c].draft = Completed(record, call[c].ok, observed, after)
          /\ call'[c].ok = call[c].ok
      BY <1>1, <3>3, <3>2 DEF Entry, Completed
    <3>5. record' = record /\ call[c].phase = "ran"
      BY <3>1 DEF Report
    <3>6. call'[c].draft = Completed(record', call'[c].ok, observed, after)
      BY <3>4, <3>5
    <3>7. record'.status \in Terminal
             => record'.status = IF call'[c].ok THEN "completed" ELSE "error"
      BY <3>4, <3>5 DEF RInv, Has
    <3>8. QED
      BY <3>6, <3>7
  <2>7. QED
    BY <2>1, <2>2, <2>3, <2>4, <2>5, <2>6, <2>8
<1>5. QED
  BY <1>2, <1>3, <1>4

LEMMA ReplayIsKept ==
  ASSUME IInv, RInv, Distinct, [Next]_vars, NEW c \in Caller, Reports(c),
         record.status \in Terminal
  PROVE  SameDisposition(record, record')
<1>1. /\ Settle(c) /\ record # None /\ Ours(call[c].draft)
      /\ call[c].draft.owner = AttemptOf[c]
  BY ReportsSettles
<1>2. CASE record' = record
  BY <1>2 DEF SameDisposition
<1>3. CASE record' # record
  <2>1. record' = call[c].draft /\ record.id = call[c].draft.id /\ call[c].phase = "reporting"
    BY <1>1, <1>3 DEF Settle, Settled
  <2>2. Has(c) /\ Ours(record)
    BY <1>1, <2>1, CallerAssumption DEF Has, Ours, Distinct, IInv, Stores
  <2>3. PICK observed \in Heads \cup {NoHead}, after \in Tasks :
          call[c].draft = Completed(record, call[c].ok, observed, after)
    BY <2>1, <2>2 DEF RInv
  <2>4. /\ call[c].ok => record.status = "completed"
        /\ call[c].ok \in BOOLEAN /\ record \in Record /\ Sound(record)
    BY <2>1, <2>2, EntryOf DEF RInv, Ours, Entry
  <2>5. QED
    BY <2>1, <2>3, <2>4, CompletionFields
<1>4. QED
  BY <1>2, <1>3

-----------------------------------------------------------------------------
(***************************************************************************)
(* The burst of runs without progress, where calls do not interleave and   *)
(* each workflow attempt evaluates once.  The two counters of the record   *)
(* account for it.  Until a run has been found unproductive the            *)
(* continuations count every completion that leaves a gate to reopen; from *)
(* the first unproductive one on, the other counter does, and before it at *)
(* most Limit completions can have been let through.  A record that is     *)
(* still to be completed is below the limit, or it would not have been     *)
(* reserved.                                                               *)
(***************************************************************************)
Accounts(p, b) ==
    /\ p.age = 0
    /\ IF Unproductive(p) THEN b <= Limit + p.unproductive
       ELSE IF p.status = "completed" /\ ~NeedsContinuation(p) THEN b <= Limit + 1
       ELSE b <= Continuations(p)
    /\ p.status # "completed" =>
          IF Unproductive(p) THEN p.unproductive <= Limit ELSE Continuations(p) <= Limit

Counted == history.burst > 0 =>
              /\ record # None /\ record.id \in Caller
              /\ Accounts(record, history.burst)

OneCall == \A c, d \in Caller : Calling(c) /\ Calling(d) => c = d

\* What a caller is about to post was built from the record that is still there.
PostsFresh ==
    \A c \in Caller : call[c].phase = "posting" =>
        /\ ~Refuses(record, call[c].head)
        /\ \E before \in Tasks :
              call[c].draft = Reservation(c, call[c].head, record, before)

BInv == ~overlap => Counted /\ OneCall /\ PostsFresh

LEMMA CountersAreBounded ==
  ASSUME NEW p \in Record
  PROVE  /\ p.unproductive \in 0..3 /\ p.continuations \in -1..3 /\ p.age \in -1..2
         /\ Continuations(p) \in 0..3
BY DEF Record, Limit, Unset, Unknown, Continuations

LEMMA AccountsBound ==
  ASSUME NEW p \in Record, NEW b \in Nat, Accounts(p, b)
  PROVE  b <= 2 * Limit + 1
BY CountersAreBounded DEF Accounts, Limit

LEMMA ReservationAccounts ==
  ASSUME NEW c \in Caller, NEW p \in Record, Sound(p), NEW b \in Nat, b > 0,
         Accounts(p, b), ~Refuses(p, p.head), NEW before \in Tasks
  PROVE  Accounts(Reservation(c, p.head, p, before), b)
<1> DEFINE q == Reservation(c, p.head, p, before)
<1>1. /\ p # None /\ p.status \in {"pending", "completed", "error"}
      /\ p.unproductive \in 0..3 /\ Continuations(p) \in 0..3
  BY NoneIsNoRecord, CountersAreBounded DEF Record, Terminal
<1>2. /\ q.status = "pending" /\ q.age = 0 /\ q.unproductive = p.unproductive
      /\ q.productive = (IF p.unproductive > 0 /\ Unproductive(p) THEN "no" ELSE "unset")
      /\ q.continuations = (IF Continuations(p) > 0 THEN Continuations(p) ELSE Unset)
  BY <1>1 DEF Reservation
<1>3. p.status # "pending"
  BY <1>1 DEF Refuses, Stale, StaleAfter, Accounts, Unknown
<1>4. p.status = "completed" =>
        (Unproductive(p) \/ NeedsContinuation(p)) /\ RetryCount(p) <= Limit
  <2>1. Cooling(p)
    BY DEF Accounts, Cooling, Cooldown, Unknown
  <2>2. RetryCount(p) \in 0..3
    BY <1>1 DEF RetryCount, Greatest
  <2>3. QED
    BY <1>1, <2>1, <2>2 DEF Refuses, Limit
<1> HIDE DEF q
<1>5. CASE Unproductive(p)
  <2>1. p.unproductive >= 1 /\ Unproductive(q)
    BY <1>1, <1>2, <1>5 DEF Sound, Unproductive
  <2>2. p.unproductive <= Limit
    BY <1>1, <1>4, <1>5 DEF Accounts, RetryCount, Greatest, Limit
  <2>3. QED
    BY <1>2, <1>5, <2>1, <2>2 DEF Accounts, q
<1>6. CASE ~Unproductive(p)
  <2>1. ~Unproductive(q)
    BY <1>2, <1>6 DEF Unproductive
  <2>2. b <= Continuations(p) /\ Continuations(p) <= Limit
    BY <1>4, <1>6 DEF Accounts, RetryCount
  <2>3. Continuations(q) = Continuations(p)
    BY <1>1, <1>2, <2>2 DEF Continuations, Unset
  <2>4. QED
    BY <1>2, <2>1, <2>2, <2>3 DEF Accounts, q
<1>7. QED
  BY <1>5, <1>6

(***************************************************************************)
(* The first completion of a reservation spends one unit of one of the     *)
(* counters, or ends the work on its head.                                 *)
(***************************************************************************)
LEMMA CompletionAccounts ==
  ASSUME NEW p \in Record, Sound(p), p.status = "pending",
         NEW observed \in Heads \cup {NoHead}, NEW after \in Tasks,
         NEW b \in Nat, b > 0 => Accounts(p, b),
         Completed(p, TRUE, observed, after).productive # "yes"
  PROVE  Accounts(Completed(p, TRUE, observed, after), b + 1)
<1> DEFINE measured == Measured(p, p.head, observed, after, "unset")
           verdict == IF measured = "unset" /\ Unproductive(p) THEN "no" ELSE measured
           unfinished == Incomplete(p, p.head, observed, after)
           replay == Again(p, p.head)
           tally == Tally(p, verdict, replay)
           partial == IF replay THEN p.partial
                      ELSE observed = p.head /\ after # NoTasks /\ OpenTasks(after)
           conts == CASE unfinished = "yes" ->
                            IF replay THEN Continuations(p)
                            ELSE Least(Continuations(p) + 1, Limit + 1)
                      [] unfinished = "no" -> 0
                      [] unfinished = "unset" /\ verdict = "no" -> tally
                      [] OTHER -> p.continuations
           q == Completed(p, TRUE, observed, after)
<1>1. ~Again(p, p.head)
  BY DEF Again, Terminal
<1>2. q = [p EXCEPT !.status = "completed", !.head = p.head, !.age = 0,
                    !.productive = IF verdict # "unset" THEN verdict ELSE p.productive,
                    !.unproductive = tally, !.incomplete = unfinished,
                    !.partial = partial, !.continuations = conts]
  BY <1>1 DEF Completed, Completion, Again
<1>3. /\ p.head \in Heads /\ p.head # NoHead /\ p.productive \in Verdicts
      /\ p.incomplete \in Verdicts /\ p.incomplete # "no"
      /\ p.unproductive \in 0..3 /\ Continuations(p) \in 0..3
  BY CountersAreBounded DEF Record, Sound, Heads, NoHead
<1>4. verdict \in Verdicts /\ (verdict = "unset" => ~Unproductive(p))
  BY <1>1, <1>3 DEF Measured, Verdicts
<1>5. verdict # "yes"
  BY <1>2 DEF Record, Verdicts
<1>6. observed \in {NoHead, p.head}
  BY <1>1, <1>5 DEF Measured
<1>7. /\ unfinished \in Verdicts
      /\ unfinished # "yes" => ~partial
  BY <1>1, <1>3, <1>6 DEF Incomplete, Verdicts
<1>8. tally = IF verdict = "no" THEN Least(p.unproductive + 1, 3) ELSE p.unproductive
  BY <1>1, <1>4, <1>5 DEF Tally, Limit, Verdicts
<1>9. unfinished = "yes" => conts = Least(Continuations(p) + 1, 3)
  BY <1>1 DEF Limit
<1> HIDE DEF measured, replay, verdict, unfinished, tally, partial, conts
<1>10. /\ q.status = "completed" /\ q.age = 0
       /\ q.productive = (IF verdict # "unset" THEN verdict ELSE p.productive)
       /\ q.unproductive = tally /\ q.incomplete = unfinished
       /\ q.partial = partial /\ q.continuations = conts
  BY <1>2 DEF Record
<1> HIDE DEF q
<1>11. b > 0 => /\ ~Unproductive(p) => b <= Continuations(p) /\ Continuations(p) <= 2
                /\ Unproductive(p) => b <= 2 + p.unproductive /\ p.unproductive <= 2
  BY DEF Accounts, Limit
<1>12. ASSUME verdict = "no" PROVE Accounts(q, b + 1)
  <2>1. Unproductive(q) /\ q.unproductive = Least(p.unproductive + 1, 3)
    BY <1>8, <1>10, <1>12 DEF Unproductive
  <2>2. b + 1 <= 2 + Least(p.unproductive + 1, 3)
    BY <1>3, <1>11 DEF Least
  <2>3. QED
    BY <1>10, <2>1, <2>2 DEF Accounts, Limit
<1>13. ASSUME verdict = "unset" PROVE Accounts(q, b + 1)
  <2>1. ~Unproductive(p) /\ ~Unproductive(q)
    BY <1>4, <1>10, <1>13 DEF Unproductive
  <2>2. CASE unfinished = "yes"
    <3>1. NeedsContinuation(q) /\ Continuations(q) = Least(Continuations(p) + 1, 3)
      BY <1>3, <1>9, <1>10, <2>2 DEF NeedsContinuation, Continuations, Unset, Least
    <3>2. b + 1 <= Least(Continuations(p) + 1, 3)
      BY <1>3, <1>11, <2>1 DEF Least
    <3>3. QED
      BY <1>10, <2>1, <3>1, <3>2 DEF Accounts
  <2>3. CASE unfinished # "yes"
    <3>1. ~NeedsContinuation(q)
      BY <1>7, <1>10, <2>3 DEF NeedsContinuation
    <3>2. b + 1 <= 3
      BY <1>3, <1>11, <2>1
    <3>3. QED
      BY <1>10, <2>1, <3>1, <3>2 DEF Accounts, Limit
  <2>4. QED
    BY <2>2, <2>3
<1>14. QED
  BY <1>4, <1>5, <1>12, <1>13 DEF Verdicts, q

\* A failure, first or again, leaves the counters where they are.
LEMMA FailureAccounts ==
  ASSUME NEW p \in Record, NEW observed \in Heads \cup {NoHead}, NEW after \in Tasks,
         NEW b \in Nat, Accounts(p, b), p.status # "completed"
  PROVE  Accounts(Completed(p, FALSE, observed, after), b)
<1> DEFINE q == Completed(p, FALSE, observed, after)
<1>1. /\ q.status = "error" /\ q.productive = p.productive
      /\ q.unproductive = p.unproductive /\ q.continuations = p.continuations
      /\ q.age = IF Again(p, p.head) THEN p.age ELSE 0
  BY DEF Completed, Completion, Record
<1> HIDE DEF q
<1>2. /\ Unproductive(q) = Unproductive(p) /\ Continuations(q) = Continuations(p)
      /\ q.age = 0
  BY <1>1 DEF Unproductive, Continuations, Accounts
<1>3. QED
  BY <1>1, <1>2 DEF Accounts, q

\* Nor does a success that is recorded again.
LEMMA ReplayAccounts ==
  ASSUME NEW p \in Record, NEW q \in Record, SameDisposition(p, q),
         p.status = "completed", q.status = "completed", NEW b \in Nat, Accounts(p, b)
  PROVE  Accounts(q, b)
<1>1. CASE Unproductive(p) \/ ~NeedsContinuation(p)
  BY <1>1 DEF Accounts, SameDisposition
<1>2. CASE ~Unproductive(p) /\ NeedsContinuation(p)
  <2>1. Continuations(q) = Continuations(p)
    BY <1>2 DEF SameDisposition, RetryCount
  <2>2. QED
    BY <1>2, <2>1 DEF Accounts, SameDisposition
<1>3. QED
  BY <1>1, <1>2

-----------------------------------------------------------------------------
LEMMA BurstStart == Init => BInv
BY DEF Init, BInv, Counted, OneCall, PostsFresh, Calling, Idle

(***************************************************************************)
(* Only what c posts or settles changes the record or the burst, and       *)
(* nobody else is in a call meanwhile.                                     *)
(***************************************************************************)
LEMMA PostCounts ==
  ASSUME IInv, BInv, ~overlap, NEW c \in Caller, call[c].phase = "posting", Posted(c)
  PROVE  Counted'
<1> DEFINE q == call[c].draft
           h == call[c].head
<1>1. /\ record' = q /\ q.id = c /\ Ours(q) /\ history \in Tracked
      /\ history'.burst = IF record # None /\ record.head = h THEN history.burst ELSE 0
  BY DEF Posted, IInv, Drafts, TypeOK, Tracked
<1>2. q # None
  BY <1>1, NoneIsNoRecord DEF Ours
<1>3. ASSUME history'.burst > 0 PROVE Accounts(q, history'.burst)
  <2>1. /\ record # None /\ record.head = h /\ history'.burst = history.burst
        /\ history.burst \in Nat /\ history.burst > 0
    BY <1>1, <1>3 DEF Tracked, MaxBurst, Limit
  <2>2. /\ record \in Record /\ Sound(record) /\ Accounts(record, history.burst)
    BY <2>1, CallerAssumption DEF BInv, Counted, IInv, Stores, Ours
  <2>3. PICK before \in Tasks : q = Reservation(c, record.head, record, before)
    BY <2>1 DEF BInv, PostsFresh
  <2>4. ~Refuses(record, record.head)
    BY <2>1 DEF BInv, PostsFresh
  <2>5. QED
    BY <2>1, <2>2, <2>3, <2>4, ReservationAccounts
<1>4. QED
  BY <1>1, <1>2, <1>3 DEF Counted

LEMMA SettleCounts ==
  ASSUME IInv, RInv, Distinct, BInv, ~overlap, NEW c \in Caller,
         call[c].phase = "reporting", Settled(c)
  PROVE  Counted'
<1> DEFINE q == call[c].draft
<1>1. CASE UNCHANGED <<record, history>>
  BY <1>1 DEF BInv, Counted
<1>2. CASE ~UNCHANGED <<record, history>>
  <2>1. /\ record.id = q.id /\ record' = q /\ Ours(q) /\ q.owner = AttemptOf[c]
        /\ record # None
        /\ history' = IF record.status \in Terminal \/ q.status = "error" THEN history
                      ELSE [history EXCEPT !.burst = IF q.productive = "yes" THEN 0
                                                     ELSE Least(history.burst + 1, MaxBurst)]
    BY <1>2 DEF Settled, IInv, Drafts
  <2>2. Has(c) /\ Ours(record) /\ q # None
    BY <2>1, CallerAssumption, NoneIsNoRecord DEF Has, Ours, Distinct, IInv, Stores
  <2>3. PICK observed \in Heads \cup {NoHead}, after \in Tasks :
          q = Completed(record, call[c].ok, observed, after)
    BY <2>2 DEF RInv
  <2>4. /\ record \in Record /\ Sound(record) /\ call[c].ok \in BOOLEAN
        /\ record.status \in Terminal
             => record.status = IF call[c].ok THEN "completed" ELSE "error"
        /\ history.burst \in 0..6 /\ history \in Tracked
        /\ q.status = IF call[c].ok THEN "completed" ELSE "error"
    <3>1. record \in Record /\ Sound(record)
      BY <2>2 DEF Ours
    <3>2. call[c] \in Entry
      BY EntryOf
    <3>3. history \in Tracked
      BY DEF IInv, TypeOK, Tracked
    <3>4. record.status \in Terminal
             => record.status = IF call[c].ok THEN "completed" ELSE "error"
      BY <2>2 DEF RInv
    <3>5. q.status = IF call[c].ok THEN "completed" ELSE "error"
      BY DEF IInv, Drafts
    <3>6. history.burst \in 0..6 /\ call[c].ok \in BOOLEAN
      BY <3>2, <3>3 DEF Tracked, Entry, MaxBurst, Limit
    <3>7. QED
      BY <3>1, <3>3, <3>4, <3>5, <3>6
  <2>5. q.id \in Caller /\ q \in Record
    BY <2>1 DEF Ours
  <2>6. history.burst > 0 => Accounts(record, history.burst)
    BY DEF BInv, Counted
  <2>7. SUFFICES ASSUME history'.burst > 0 PROVE Accounts(q, history'.burst)
    BY <2>1, <2>2, <2>5 DEF Counted
  <2>8. CASE record.status \in Terminal \/ ~call[c].ok
    <3>1. history'.burst = history.burst /\ history.burst \in Nat
      BY <2>1, <2>4, <2>8
    <3>2. CASE call[c].ok
      <4>1. SameDisposition(record, q) /\ record.status = "completed"
        <5>1. record.status \in Terminal /\ record.status = "completed"
          BY <2>4, <2>8, <3>2
        <5>2. record \in Record /\ Sound(record) /\ call[c].ok \in BOOLEAN
          BY <2>4
        <5>3. SameDisposition(record, Completed(record, call[c].ok, observed, after))
          BY <5>1, <5>2, CompletionFields
        <5>4. QED
          BY <2>3, <5>1, <5>3
      <4>2. QED
        BY <2>4, <2>5, <2>6, <2>7, <3>1, <3>2, <4>1, ReplayAccounts
    <3>3. CASE ~call[c].ok
      <4>1. record.status # "completed" /\ q = Completed(record, FALSE, observed, after)
        BY <2>3, <2>4, <3>3 DEF Terminal
      <4>2. QED
        BY <2>4, <2>6, <2>7, <3>1, <4>1, FailureAccounts
    <3>4. QED
      BY <2>4, <3>2, <3>3
  <2>9. CASE record.status \notin Terminal /\ call[c].ok
    <3>1. record.status = "pending" /\ q = Completed(record, TRUE, observed, after)
      BY <2>3, <2>4, <2>9 DEF Record
    <3>2. history'.burst = IF q.productive = "yes" THEN 0
                           ELSE Least(history.burst + 1, MaxBurst)
      BY <2>1, <2>4, <2>9 DEF Tracked
    <3>3. q.productive # "yes" /\ history.burst \in Nat
      BY <2>4, <2>7, <3>2
    <3>4. Accounts(q, history.burst + 1)
      BY <2>4, <2>6, <3>1, <3>3, CompletionAccounts
    <3>5. history.burst + 1 <= 5
      BY <2>5, <3>3, <3>4, AccountsBound DEF Limit
    <3>6. history'.burst = history.burst + 1
      BY <3>2, <3>3, <3>5 DEF Least, MaxBurst, Limit
    <3>7. QED
      BY <3>4, <3>6
  <2>10. QED
    BY <2>8, <2>9
<1>3. QED
  BY <1>1, <1>2

LEMMA BurstCounts ==
  ASSUME IInv, RInv, Distinct, BInv, [Next]_vars, ~overlap
  PROVE  Counted'
<1>1. CASE UNCHANGED <<record, history>>
  BY <1>1 DEF BInv, Counted
<1>2. CASE Tick
  BY <1>2 DEF Tick, Counted, IInv, TypeOK
<1>3. ASSUME NEW c \in Caller, Act(c), ~UNCHANGED <<record, history>> PROVE Counted'
  <2>1. \/ call[c].phase = "posting" /\ Posted(c)
        \/ call[c].phase = "reporting" /\ Settled(c)
    BY <1>3 DEF Act, Evaluate, Decide, DecideFails, Post, PostFails, Recheck, Work, Report,
                Settle, Leave
  <2>2. QED
    BY <2>1, PostCounts, SettleCounts
<1>4. QED
  BY <1>1, <1>2, <1>3 DEF Next, Push, vars

LEMMA CallsStayApart ==
  ASSUME IInv, BInv, [Next]_vars, ~overlap
  PROVE  OneCall'
<1>1. ASSUME NEW c \in Caller, Calling(c)', ~Calling(c)
      PROVE  \A d \in Caller : ~Calling(d)
  <2>1. Act(c)
    BY <1>1, OthersLeaveEntry DEF Calling
  <2>2. Decide(c) \/ Report(c) \/ PostFails(c)
    BY <1>1, <2>1, PhaseTellsStep DEF Calling
  <2>3. QED
    BY <1>1, <2>2 DEF Decide, Report, PostFails, Free, Calling
<1>2. ASSUME NEW c \in Caller, NEW d \in Caller, Calling(c)', Calling(d)', c # d
      PROVE  FALSE
  <2>1. CASE Calling(c) /\ Calling(d)
    BY <1>2, <2>1 DEF BInv, OneCall
  <2>2. CASE ~Calling(c) /\ Calling(d)
    BY <1>1, <1>2, <2>2
  <2>3. CASE ~Calling(d) /\ Calling(c)
    BY <1>1, <1>2, <2>3
  <2>4. CASE ~Calling(d) /\ ~Calling(c)
    <3>1. Act(c) /\ Act(d)
      BY <1>2, <2>4, OthersLeaveEntry DEF Calling
    <3>2. call'[c] = call[c] \/ call'[d] = call[d]
      <4>1. call \in [Caller -> Entry]
        BY DEF IInv, TypeOK, Entry
      <4>2. QED
        BY <1>2, <3>1, <4>1 DEF Act, Evaluate, Decide, DecideFails, Post, PostFails, Recheck,
                                Work, Report, Settle, Leave, Move, End
    <3>3. QED
      BY <1>2, <2>4, <3>2 DEF Calling
  <2>5. QED
    BY <2>1, <2>2, <2>3, <2>4
<1>3. QED
  BY <1>2 DEF OneCall

LEMMA PostsStayFresh ==
  ASSUME IInv, BInv, [Next]_vars, ~overlap
  PROVE  PostsFresh'
<1> SUFFICES ASSUME NEW c \in Caller, call'[c].phase = "posting"
             PROVE  /\ ~Refuses(record', call'[c].head)
                    /\ \E before \in Tasks :
                         call'[c].draft = Reservation(c, call'[c].head, record', before)
  BY DEF PostsFresh
<1>1. call \in [Caller -> Entry] /\ call[c] \in Entry
  BY EntryOf
<1>2. CASE call'[c] # call[c]
  <2>1. Decide(c) /\ record' = record
    BY <1>2, OthersLeaveEntry, PhaseTellsStep
  <2>2. ~End(c)
    BY <1>1 DEF End, Over, Idle
  <2>3. /\ ~Refuses(record, call[c].head)
        /\ \E before \in Snapshot \cup {NoTasks} :
             call' = [call EXCEPT ![c].phase = "posting",
                         ![c].draft = Reservation(c, call[c].head, record, before)]
    BY <2>1, <2>2 DEF Decide
  <2>4. PICK before \in Tasks :
          call' = [call EXCEPT ![c].phase = "posting",
                      ![c].draft = Reservation(c, call[c].head, record, before)]
    BY <2>3 DEF Tasks
  <2>5. /\ call'[c].head = call[c].head
        /\ call'[c].draft = Reservation(c, call[c].head, record, before)
    BY <1>1, <2>4 DEF Entry
  <2>6. QED
    BY <2>1, <2>3, <2>5
<1>3. CASE call'[c] = call[c]
  <2>1. Calling(c) /\ \A d \in Caller : Calling(d) => d = c
    BY <1>3 DEF Calling, BInv, OneCall
  <2>2. record' = record
    <3>1. ~Tick
      BY <2>1 DEF Tick
    <3>2. ASSUME NEW d \in Caller, Act(d) PROVE record' = record
      <4>1. CASE d = c
        <5>1. Post(c) \/ PostFails(c) \/ Leave(c)
          BY <1>3, <3>2, <4>1 DEF Act, Evaluate, Decide, DecideFails, Recheck, Work, Report,
                                  Settle, Idle
        <5>2. ~Post(c) /\ ~PostFails(c)
          BY <1>1, <1>3 DEF Post, PostFails, Move, Entry
        <5>3. QED
          BY <5>1, <5>2 DEF Leave
      <4>2. CASE d # c
        BY <2>1, <3>2, <4>2 DEF Calling, Act, Evaluate, Decide, DecideFails, Post, PostFails,
                                Recheck, Work, Report, Settle, Leave
      <4>3. QED
        BY <4>1, <4>2
    <3>3. QED
      BY <3>1, <3>2 DEF Next, Push, vars
  <2>3. QED
    BY <1>3, <2>2 DEF BInv, PostsFresh
<1>4. QED
  BY <1>2, <1>3

LEMMA BurstStep == IInv /\ RInv /\ Distinct /\ BInv /\ [Next]_vars => BInv'
<1>1. [Next]_vars => overlap' = overlap
  BY DEF Next, Push, Tick, Act, Evaluate, Decide, DecideFails, Post, PostFails, Recheck, Work,
         Report, Settle, Leave, vars
<1>2. QED
  BY <1>1, BurstCounts, CallsStayApart, PostsStayFresh DEF BInv

-----------------------------------------------------------------------------
(***************************************************************************)
(* What holds of every behaviour.                                          *)
(***************************************************************************)
LEMMA RunnerInvariant == Spec => []IInv
BY InitKeeps, InvariantStep, PTL DEF Spec

\* Every state the program keeps has one of its shapes; the counters stay within
\* what the code caps them at (core.py:2100-2116).
THEOREM RunnerTypeCorrect == Spec => []TypeOK
<1>1. IInv => TypeOK
  BY DEF IInv
<1>2. QED
  BY RunnerInvariant, <1>1, PTL

\* An agent starts only on a reservation of its own caller that is the newest
\* record, for any number of callers (core.py:1464-1482).
THEOREM StartsOwnReservation == Spec => StartsOnlyWhatItOwns
<1> DEFINE A == \A c \in Caller : call[c].phase # "running" /\ call'[c].phase = "running"
                   => record'.id = c /\ record'.status = "pending"
<1>1. IInv /\ [Next]_vars => [A]_vars
  BY StartIsOwn
<1> HIDE DEF A
<1>2. Spec => [][A]_vars
  BY RunnerInvariant, <1>1, PTL DEF Spec
<1>3. QED
  BY <1>2 DEF StartsOnlyWhatItOwns, A

\* A completion settles the reservation of its own workflow run or none
\* (core.py:1143-1192, 1999-2019).
THEOREM NewerOwnerIsKept == Spec => CompletionKeepsNewerOwner
<1> DEFINE A == \A c \in Caller : Reports(c) /\ record' # record
                   => record.owner = AttemptOf[c] /\ record'.id = record.id
<1>1. IInv /\ [Next]_vars => [A]_vars
  BY NewerIsKept
<1> HIDE DEF A
<1>2. Spec => [][A]_vars
  BY RunnerInvariant, <1>1, PTL DEF Spec
<1>3. QED
  BY <1>2 DEF CompletionKeepsNewerOwner, A

\* Where each workflow attempt evaluates once, a repeated completion changes nothing
\* the gate looks at (core.py:2036-2116).
THEOREM ReplaysSpendNothing == Distinct => (Spec => ReplaySpendsNothing)
<1> SUFFICES ASSUME Distinct
             PROVE  Spec => ReplaySpendsNothing
  OBVIOUS
<1> DEFINE A == \A c \in Caller : Reports(c) /\ record.status \in Terminal
                   => SameDisposition(record, record')
<1>1. IInv /\ RInv /\ [Next]_vars => [A]_vars
  BY ReplayIsKept
<1>2. IInv /\ RInv /\ [Next]_vars => RInv'
  BY ReplayStep
<1> HIDE DEF A
<1>3. Spec => [][A]_vars
  BY RunnerInvariant, ReplayStart, <1>1, <1>2, PTL DEF Spec
<1>4. QED
  BY <1>3 DEF ReplaySpendsNothing, A

\* Where each workflow attempt evaluates once and one call follows the other, the runs
\* on one head without progress in half an hour are at most 2 * Limit + 1, for any
\* number of callers, checklists and failing requests (core.py:1423-1489, 2086-2116).
THEOREM BurstsAreBounded == Distinct => (Spec => []AttemptsAreBounded)
<1> SUFFICES ASSUME Distinct
             PROVE  Spec => []AttemptsAreBounded
  OBVIOUS
<1>1. IInv /\ RInv /\ [Next]_vars => RInv'
  BY ReplayStep
<1>2. IInv /\ RInv /\ BInv /\ [Next]_vars => BInv'
  BY BurstStep
<1>3. IInv /\ BInv => AttemptsAreBounded
  <2> SUFFICES ASSUME IInv, BInv, ~overlap PROVE history.burst <= 2 * Limit + 1
    BY DEF AttemptsAreBounded
  <2>1. history.burst \in Nat
    BY DEF IInv, TypeOK, MaxBurst, Limit
  <2>2. CASE history.burst = 0
    BY <2>2 DEF Limit
  <2>3. CASE history.burst > 0
    BY <2>1, <2>3, NoneIsNoRecord, AccountsBound DEF BInv, Counted, IInv, TypeOK
  <2>4. QED
    BY <2>1, <2>2, <2>3
<1>4. QED
  BY RunnerInvariant, ReplayStart, BurstStart, <1>1, <1>2, <1>3, PTL DEF Spec
=============================================================================
