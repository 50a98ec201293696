---------------------------- MODULE QueueHandoff ----------------------------
(***************************************************************************)
(* validation-queue.json, the file between inv-man-ingest and the people   *)
(* who review what it escalated.  A run of the CLI (run.py) checks an      *)
(* existing queue for saved progress, runs the pipeline, writes the run's  *)
(* artifacts and the queue, reads them back to hash them and last writes   *)
(* the manifest.  A review session loads the queue, applies the functions  *)
(* of QueueItem to its copy and writes the copy back.  Every one of them   *)
(* is a process of its own: no file has a lock, write_text truncates       *)
(* before it writes, each file is read by itself, and a process may die    *)
(* at any step.                                                            *)
(*                                                                         *)
(* Timestamps play no part here (ValidationQueue has the clock): every     *)
(* event is stamped at instant 0.                                          *)
(***************************************************************************)
EXTENDS QueueItem, SequencesExt

CONSTANTS
  Keys,        \* replay keys: the (package_id, escalation_reason) pairs
  Sessions,    \* review sessions, each loads and saves at most once
  Runs,        \* invocations of inv-man-ingest on this output directory
  NArtifacts,  \* artifacts a run writes before the queue
  Absent,      \* the queue has no record under this key
  Missing,     \* the file does not exist
  Empty,       \* the file is open and truncated
  Torn,        \* the file's bytes are not a complete document
  Disciplines, \* whether the operator lets only one process at a time use the
               \* directory, in the behaviours that are looked at
  MayCrash,    \* a process may die between two steps
  AtOnce,      \* bound: processes under way at the same time
  MaxEvents    \* bound: length of a record's event history

ASSUME EnvironmentIsBoolean == Disciplines \subseteq BOOLEAN /\ MayCrash \in BOOLEAN

ASSUME ArtifactsAreCounted == NArtifacts \in Nat

ASSUME ProcessesAreApart == Sessions \cap Runs = {}

VARIABLES
  exclusive, \* one process at a time uses the directory
  file,      \* the queue file
  outputs,   \* which run wrote each of the other artifacts
  manifest,  \* manifest.json: what its writer read when it hashed
  pc,        \* where each process is
  step,      \* how many artifacts each run has written
  copy,      \* the queue each process holds in memory
  entries,   \* what each run has read back for its manifest; Missing: not yet
  acked,     \* the histories of every review session whose save returned
  met        \* history: the processes that were under way while a run was

vars == <<exclusive, file, outputs, manifest, pc, step, copy, entries, acked, met>>

Procs == Sessions \cup Runs

Contents == [Keys -> ValidationQueueItem \cup {Absent}]

\* Whose bytes an artifact's hash is of, and which queue's.
Manifest ==
  [run : Runs, outputs : [1..NArtifacts -> Runs \cup {Missing, Empty, Torn}],
   queue : Contents \cup {Missing, Empty, Torn}]

ASSUME MarksAreApart ==
  /\ Absent \notin ValidationQueueItem
  /\ Missing # Empty /\ Missing # Torn /\ Empty # Torn
  /\ {Missing, Empty, Torn} \cap (Contents \cup Runs \cup Manifest) = {}

NoItems == [k \in Keys |-> Absent]

NoEntries(r) ==
  [run |-> r, outputs |-> [a \in 1..NArtifacts |-> Missing], queue |-> Missing]

Readable(f) == f \notin {Missing, Empty, Torn}

\* any(item.state != "pending_triage" or item.owner_id is not None or item.events ...)
HasProgress_slip(c) == \E k \in Keys : c[k] # Absent /\ c[k].state \in Terminal

HasProgress(c) ==
  \E k \in Keys : /\ c[k] # Absent
                  /\ \/ c[k].state # "pending_triage"
                     \/ c[k].owner # Unowned
                     \/ c[k].events # <<>>

Init ==
  /\ exclusive \in Disciplines
  /\ file = Missing
  /\ outputs = [a \in 1..NArtifacts |-> Missing]
  /\ manifest = Missing
  /\ pc = [p \in Procs |-> "start"]
  /\ step = [r \in Runs |-> 0]
  /\ copy = [p \in Procs |-> NoItems]
  /\ entries = [r \in Runs |-> NoEntries(r)]
  /\ acked = {}
  /\ met = [r \in Runs |-> {}]

Idle(p) == pc[p] \in {"start", "end", "crashed"}

MayStart(p) ==
  /\ pc[p] = "start"
  /\ exclusive => \A q \in Procs : Idle(q)
  /\ Cardinality({q \in Procs : ~Idle(q)}) < AtOnce

Goto(p, label) == pc' = [pc EXCEPT ![p] = label]

\* p starts while these are under way: they meet p, and p meets them.
Meets(p) ==
  LET there == {q \in Procs : ~Idle(q)}
  IN met' = [r \in Runs |-> IF r = p THEN there
                             ELSE IF r \in there THEN met[r] \cup {p} ELSE met[r]]

-----------------------------------------------------------------------------
(***************************************************************************)
(* run_pipeline                                                            *)
(***************************************************************************)

\* The check for saved progress.  A file that cannot be decoded raises, and
\* so does one with progress; either ends the run with nothing written.
CheckProgress(r) ==
  /\ MayStart(r)
  /\ IF file = Missing \/ (Readable(file) /\ ~HasProgress(file))
       THEN Goto(r, "checked") /\ Meets(r)
       ELSE Goto(r, "end") /\ UNCHANGED met
  /\ UNCHANGED <<exclusive, file, outputs, manifest, step, copy, entries, acked>>

\* _run_pipeline_core: at most one reason escalates, so at most one new record.
RunPipeline(r) ==
  /\ pc[r] = "checked"
  /\ \/ copy' = [copy EXCEPT ![r] = NoItems]
     \/ \E k \in Keys : copy' = [copy EXCEPT ![r] = [NoItems EXCEPT ![k] = NewItem(0)]]
  /\ Goto(r, "writing")
  /\ UNCHANGED <<exclusive, file, outputs, manifest, step, entries, acked, met>>

\* run.json, metadata, threshold summary, explainability and evidence, in
\* order: each is truncated and then written.
OpenArtifact(r) ==
  /\ pc[r] = "writing" /\ step[r] < NArtifacts
  /\ outputs' = [outputs EXCEPT ![step[r] + 1] = Empty]
  /\ Goto(r, "filling")
  /\ UNCHANGED <<exclusive, file, manifest, step, copy, entries, acked, met>>

\* A process that opened a file earlier writes over whatever is there now;
\* the tail of a longer document by another process stays behind.
BytesWritten(old, new) == IF old = Empty THEN {new} ELSE {new, Torn}

WriteArtifact(r) ==
  /\ pc[r] = "filling"
  /\ \E new \in BytesWritten(outputs[step[r] + 1], r) :
       outputs' = [outputs EXCEPT ![step[r] + 1] = new]
  /\ step' = [step EXCEPT ![r] = @ + 1]
  /\ Goto(r, "writing")
  /\ UNCHANGED <<exclusive, file, manifest, copy, entries, acked, met>>

\* build_manifest reads the artifacts back in the order of their names, which
\* is not the one they were written in; here in any order, each by itself.
HashArtifact(r) ==
  /\ pc[r] = "hashing"
  /\ \E a \in 1..NArtifacts :
       /\ entries[r].outputs[a] = Missing
       /\ entries' = [entries EXCEPT ![r].outputs[a] = outputs[a]]
  /\ UNCHANGED <<exclusive, file, outputs, manifest, pc, step, copy, acked, met>>

\* validation-queue.json is the last of the names.
HashQueue(r) ==
  /\ pc[r] = "hashing"
  /\ \A a \in 1..NArtifacts : entries[r].outputs[a] # Missing
  /\ entries' = [entries EXCEPT ![r].queue = file]
  /\ Goto(r, "hashed")
  /\ UNCHANGED <<exclusive, file, outputs, manifest, step, copy, acked, met>>

OpenManifest(r) ==
  /\ pc[r] = "hashed"
  /\ manifest' = Empty
  /\ Goto(r, "recording")
  /\ UNCHANGED <<exclusive, file, outputs, step, copy, entries, acked, met>>

WriteManifest(r) ==
  /\ pc[r] = "recording"
  /\ manifest' \in BytesWritten(manifest, entries[r])
  /\ entries' = [entries EXCEPT ![r] = NoEntries(r)]
  /\ Goto(r, "end")
  /\ UNCHANGED <<exclusive, file, outputs, step, copy, acked, met>>

-----------------------------------------------------------------------------
(***************************************************************************)
(* A review session                                                        *)
(***************************************************************************)

\* load_validation_queue; on a file that cannot be decoded it raises and the
\* session has not begun.
Load(s) ==
  /\ MayStart(s)
  /\ Readable(file)
  /\ copy' = [copy EXCEPT ![s] = file]
  /\ Goto(s, "holding") /\ Meets(s)
  /\ UNCHANGED <<exclusive, file, outputs, manifest, step, entries, acked>>

\* One of claim, transfer or transition on the session's copy of a record.
Reviewed(it) ==
  {Claimed(it, p, 0) : p \in {q \in People : MayClaim(it)}}
  \cup {Transferred(it, w.actor, w.role, w.owner, w.as, 0) :
          w \in {v \in [actor : People, role : Roles, owner : People, as : Roles] :
                   MayTransfer(it, v.actor, v.role)}}
  \cup {Transitioned(it, w.actor, w.role, w.to, 0) :
          w \in {v \in [actor : People, role : Roles, to : States] :
                   MayTransition(it, v.actor, v.role, v.to)}}

Review(s) ==
  /\ pc[s] = "holding"
  /\ \E k \in Keys :
       /\ copy[s][k] # Absent
       /\ Len(copy[s][k].events) < MaxEvents
       /\ \E new \in Reviewed(copy[s][k]) : copy' = [copy EXCEPT ![s][k] = new]
  /\ UNCHANGED <<exclusive, file, outputs, manifest, pc, step, entries, acked, met>>

-----------------------------------------------------------------------------
(***************************************************************************)
(* write_validation_queue, by a run or by a session: decode what is about  *)
(* to be published, truncate the file, write it.                           *)
(***************************************************************************)
\* The last artifact is left as an earlier run wrote it.
ReadyToSave_slip(p) ==
  \/ p \in Sessions /\ pc[p] = "holding"
  \/ p \in Runs /\ pc[p] = "writing" /\ step[p] + 1 = NArtifacts

ReadyToSave(p) ==
  \/ p \in Sessions /\ pc[p] = "holding"
  \/ p \in Runs /\ pc[p] = "writing" /\ step[p] = NArtifacts

OpenQueue(p) ==
  /\ ReadyToSave(p)
  /\ \A k \in Keys : copy[p][k] # Absent => Decodable(copy[p][k])
  /\ file' = Empty
  /\ Goto(p, "opened")
  /\ UNCHANGED <<exclusive, outputs, manifest, step, copy, entries, acked, met>>

Histories(c) ==
  {<<k, c[k].events>> : k \in {j \in Keys : c[j] # Absent /\ c[j].events # <<>>}}

WriteQueue(p) ==
  /\ pc[p] = "opened"
  /\ file' \in BytesWritten(file, copy[p])
  /\ IF p \in Runs
       THEN Goto(p, "hashing") /\ UNCHANGED <<copy, acked>>
       ELSE /\ Goto(p, "end")
            /\ acked' = acked \cup Histories(copy[p])
            /\ copy' = [copy EXCEPT ![p] = NoItems]
  /\ UNCHANGED <<exclusive, outputs, manifest, step, entries, met>>

\* A process dies and its memory with it: the document it was writing may be
\* half written.
Crash(p) ==
  /\ MayCrash /\ ~Idle(p)
  /\ Goto(p, "crashed")
  /\ file' = file \/ (pc[p] = "opened" /\ file' = Torn)
  /\ \/ outputs' = outputs
     \/ pc[p] = "filling" /\ outputs' = [outputs EXCEPT ![step[p] + 1] = Torn]
  /\ manifest' = manifest \/ (pc[p] = "recording" /\ manifest' = Torn)
  /\ copy' = [copy EXCEPT ![p] = NoItems]
  /\ step' = [r \in Runs |-> IF r = p THEN 0 ELSE step[r]]
  /\ entries' = [r \in Runs |-> IF r = p THEN NoEntries(r) ELSE entries[r]]
  /\ UNCHANGED <<exclusive, acked, met>>

Run(r) ==
  \/ CheckProgress(r) \/ RunPipeline(r)
  \/ OpenArtifact(r) \/ WriteArtifact(r)
  \/ HashArtifact(r) \/ HashQueue(r)
  \/ OpenManifest(r) \/ WriteManifest(r)

Session(s) == Load(s) \/ Review(s)

Next ==
  \/ \E r \in Runs : Run(r)
  \/ \E s \in Sessions : Session(s)
  \/ \E p \in Procs : OpenQueue(p) \/ WriteQueue(p) \/ Crash(p)

Spec == Init /\ [][Next]_vars

-----------------------------------------------------------------------------
TypeOK ==
  /\ exclusive \in Disciplines
  /\ file \in Contents \cup {Missing, Empty, Torn}
  /\ outputs \in [1..NArtifacts -> Runs \cup {Missing, Empty, Torn}]
  /\ manifest \in Manifest \cup {Missing, Empty, Torn}
  /\ pc \in [Procs -> {"start", "checked", "writing", "filling", "holding", "opened",
                       "hashing", "hashed", "recording", "end", "crashed"}]
  /\ step \in [Runs -> 0..NArtifacts]
  /\ copy \in [Procs -> Contents]
  /\ entries \in [Runs -> Manifest]
  /\ met \in [Runs -> SUBSET Procs]
  /\ \A a \in acked : a[1] \in Keys /\ a[2] \in Seq(QueueEvent)

(***************************************************************************)
(* A review whose save returned is still in any queue that can be read:    *)
(* its history is the beginning of the record's history.  This is what     *)
(* using the directory one process at a time buys; the check for saved     *)
(* progress in run_pipeline is what it rests on.                           *)
(***************************************************************************)
SavedReviewKept ==
  (exclusive /\ file \in {Missing} \cup Contents) =>
    \A a \in acked : /\ file # Missing
                     /\ file[a[1]] # Absent
                     /\ IsPrefix(a[2], file[a[1]].events)

(***************************************************************************)
(* "Reusing an output directory with saved queue review progress is        *)
(* rejected before any artifacts are changed" (run.py:148): no artifact    *)
(* changes while a record of the queue on disk has a history.              *)
(***************************************************************************)
NoArtifactsOverReview ==
  [][(exclusive /\ outputs' # outputs) => ~(Readable(file) /\ Histories(file) # {})]_vars

\* The promise in full: neither the queue nor the artifacts it belongs to.
ReviewIsProtected == []SavedReviewKept /\ NoArtifactsOverReview

\* Whose bytes run r may find in its artifacts: its own, and only if it met
\* other runs theirs, or a file one of them was writing.
MayFind(r) ==
  {r} \cup (IF met[r] \cap Runs = {} THEN {} ELSE (met[r] \cap Runs) \cup {Empty, Torn})

Quiet == \A p \in Procs : pc[p] \in {"start", "end"}

(***************************************************************************)
(* A manifest is of one run.  However runs and sessions interleave and     *)
(* die, a manifest that can be read, in an output directory used again and *)
(* again, never has the hash of what an earlier or a later run left there: *)
(* every artifact it lists is its run's own or, nothing being locked while *)
(* run.py:386 hashes, that of a run which was under way at the same time;  *)
(* and if no other process was, the queue is the one the run wrote.  One   *)
(* process at a time, when nothing is under way and nothing has died, the  *)
(* manifest, if there is one, can be read and is about what lies on disk:  *)
(* these artifacts, and a queue this one continues.                        *)
(***************************************************************************)
ManifestOfOneRun ==
  /\ Readable(manifest) =>
       /\ \A a \in 1..NArtifacts : manifest.outputs[a] \in MayFind(manifest.run)
       /\ met[manifest.run] = {} => manifest.queue = copy[manifest.run]
  /\ (exclusive /\ Quiet /\ manifest # Missing) =>
       /\ Readable(manifest)
       /\ manifest.outputs = outputs
       /\ \A k \in Keys : manifest.queue[k] # Absent =>
            /\ file[k] # Absent
            /\ IsPrefix(manifest.queue[k].events, file[k].events)

(***************************************************************************)
(* Whatever the processes do to each other, a queue that can be read holds *)
(* only records the decoder accepts, with one claim, first, by an analyst: *)
(* a record is replaced as a whole, never mixed from two copies.  That, and *)
(* the types of everything else.                                           *)
(***************************************************************************)
PublishedRecordsLegal ==
  /\ TypeOK
  /\ Readable(file) =>
    \A k \in Keys : file[k] # Absent =>
      /\ Decodable(file[k])
      /\ \A n \in 1..Len(file[k].events) :
           (file[k].events[n].action = "claim") <=> (n = 1)

(***************************************************************************)
(* What queue_states.md:138 promises of a reused output directory: a run   *)
(* never replaces a queue in which a record has a history.                 *)
(***************************************************************************)
RunNeverDropsReview ==
  [][\A r \in Runs : (ReadyToSave(r) /\ pc'[r] = "opened")
        => ~(Readable(file) /\ Histories(file) # {})]_vars
=============================================================================
