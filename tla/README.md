# Inv-Man-Intake: a TLA+ model

This directory holds TLA+ modules, TLC configurations and TLAPS proofs about two
programs of this repository.  The first is `src/inv_man_intake`, the package that
takes in an investment manager's documents, extracts fields from them, scores the
manager and hands what needs a human to a validation queue.  The second is the
automation that lets language-model agents work on pull requests (`scripts/`):
who may start an agent, how often, and what a review of the result is worth.
Every definition is translated from the source; `PROJECT.json` maps it to the
lines it stands for.

Contents: 1 the system, 2 the modules, 3 what the runs show, 4 what is proved,
5 where code and documentation disagree, 6 what is not modelled, 7 the plan.

## 1. The system

| component | state | operations | used by |
|---|---|---|---|
| Validation queue records (`workflow_validation.py`) | one frozen record per escalation: state, owner, role, timestamps, event history | create, claim, transfer, transition, encode, decode | the run, review sessions |
| Validation queue API (`validation_queue_api.py`) | none (pure); a reader keeps an offset | filter, sort, page | consumer UI |
| Headless run (`run.py`, `run_manifest.py`, `cli/`) | an output directory: artifacts, `validation-queue.json`, `manifest.json` | `run_pipeline` | operator |
| Document store (`storage/`, `intake/versioning.py`) | per document an index of versions and one blob per version | `put`, `get`, `list_versions` | registration, pipeline |
| Intake registration (`intake/integration.py`, `data/repository.py`) | SQLite rows of firms, funds, documents | `register_intake_bundle` | pipeline, durable intake |
| Ingestion lifecycle (`intake/service.py`) | three dictionaries: records, events, document owners | receive, process, complete, escalate | registration |
| Extraction orchestrator (`extraction/orchestrator.py`) | local to one call: attempts, counters | `run` | pipeline |
| Extraction cross-check (`extraction/cross_check.py`) | none (pure) | accept a value, find a disagreement | orchestrator |
| Extraction thresholds (`extraction/confidence.py`) | none (pure) | judge the fields of a document | pipeline |
| Pipeline core (`v1_smoke.py`) | local to one run: what each stage hands to the next | register, select, extract, judge, series, queue, score, summarize | headless run |
| Runner dispatch debounce (`scripts/runner_lib/core.py`) | one record per pull request and provider, kept as comments | `should_dispatch`, `record_completion` | workflow runs |
| Authority challenge ledger (`.github/scripts/keepalive_authority_state.js`, `core.py`) | a ledger file, written on condition of its hash; the dispatch record | begin, prepare, reserve, finalize, grant, release, confirm, reopen, reconcile | workflow runs, keepalive loop, reporter |
| Pull-request verifier (`scripts/langchain/pr_verifier.py`) | local to one call: requests, answers, credit | `evaluate_pr`, `evaluate_pr_multiple` | verifier workflow |
| Conflict resolver (`performance/conflict_resolver.py`) | none (pure) | precedence of two series | pipeline |
| Queue assignment, SLA, audit | assignment records, audit log | assign, reassign, record | smoke mode, tests |
| Field provenance (`data/repository.py`) | extracted fields and corrections | save, correct, history | review |
| Images, scoring, performance, export, assistant, observability | mostly none | compute, render, trace | pipeline |

How they interact.  `run_pipeline` refuses an output directory whose queue has
saved review progress, then `_run_pipeline_core` registers the bundle (which
calls the ingestion service, the repository and the store in that order), runs
the orchestrator on the primary document and on a workbook it expects to be
refused (the secondary boundary), applies thresholds, reads the track record,
creates at most one queue record, and scores what has evidence.  The run then
writes its artifacts, the queue and, last, a manifest of hashes read back from
disk.  A reviewer, in another process, loads the queue, applies the record
functions to a copy and writes it back; a consumer lists the queue page by page
meanwhile.

A workflow run that wants an agent to work on a pull request asks
`should_dispatch`, which reads the record, decides, posts a reservation, and reads
again to see whether it won; after the agent, `record_completion` settles the
reservation.  A privileged run needs a licence besides: the keepalive loop opens a
challenge in the ledger, an attempt prepares it, reserves, binds the reservation
to the licence, runs and confirms, and a reporter reconciles what a dead run left.
The verifier then reviews the merged change by one request, or by one per group of
files and a last one that reconciles them.

What is hard.  Nothing here takes a lock.  Files are shared by processes
(`validation-queue.json`, the store's index and its one temporary name),
database rows are read in one statement and rewritten in another with a commit
after each, and any of these processes may die between two steps.  The
repository claims things about all of this in comments and contracts (progress
is never dropped, re-ingest is idempotent and leaves no orphan version).  The
dispatch record and the ledger have no transaction in common, a request to
either may fail after it took effect, a run may be cancelled anywhere, and the
head commit moves under all of it.  `PROJECT.json` lists the hazards with their
lines.

What makes each component correct:

* queue records: any call sequence leaves a record the decoder accepts,
  analyst-first, audited by entitled people, final once closed;
* the hand-off: a saved review survives; a manifest has nothing of a run that was
  over before its own or came after it;
* the store: listed versions have their bytes, the file system store behaves
  like the in-memory one;
* registration: references resolve, an accepted bundle is recorded, a
  document's provenance never changes, and whatever is refused has a cause in some
  bundle, never in what a dead registration left behind;
* lifecycle: three dictionaries agree, history is a legal path, ends are final;
* orchestrator: attempts are exactly what the policy allows, the result and the
  metrics tell what happened;
* cross-check and thresholds: contradicting evidence always reaches a human,
  in whatever order it was found;
* pipeline: a review is asked for exactly when the document does not satisfy its
  profile, and the warning and the summary's status say so; no score without evidence;
* queue API: a reader who pages through the queue misses nothing that was there
  all the time and did not change;
* runner: agents start on a reservation that is the newest; a report settles its
  own reservation, once; attempts without progress are bounded, and unfinished
  work is taken up again;
* authority: at most one privileged agent starts per head commit, an attempt gives
  its own preparation back only without a pending reservation of its own, and
  nobody takes a licence back once it is spent;
* verifier: a PASS rests on a review of every changed file; no finding is lost.

## 2. The modules

| module | models | state | actions |
|---|---|---|---|
| `QueueItem` | pure functions on a queue record | none | none: a function is a guard (`MayClaim`) and a result (`Claimed`) |
| `ValidationQueue` | records in memory under a clock | `queue`, `now` | one per function, `Tick` |
| `QueueHandoff` | the queue file between runs and sessions | file, other outputs, manifest, each process's place, copy and what it has read back to hash; who met whom | one per file operation, `Crash` |
| `QueueBrowse` | `list_validation_queue`, called again and again while `ValidationQueue` steps | query, offset, pages shown, rows unchanged | start a reading, read a page, change a record |
| `VersionHistory` | `InMemoryDocumentStore`, the abstract store | versions, content | `put` |
| `DocumentStore` | `FilesystemDocumentStore` on one key | index, temporary file, blobs, each writer's place | one per file operation, `Crash`, `LoseBlob` |
| `IntakeRegistration` | `register_intake_bundle` | rows, store versions, services, each registration's place | one per statement or call, `Crash` |
| `Ingestion` | `IngestionService` | the three dictionaries | one per method |
| `CrossCheck` | `cross_check.py` and the shared tolerance | none | none: operators on documents, which are sequences of fields |
| `Thresholds` | `confidence.py` | none | none: operators on the fields of a document |
| `ExtractionOrchestrator` | one `run` | attempts, counters, result with its documents, metrics | one per attempt, escalation, hook |
| `ExtractionEvidence` | what the orchestrator and the thresholds together make of documents | none of its own | none: properties of `ExtractionOrchestrator`'s behaviours |
| `Pipeline` | `_run_pipeline_core`, its fleet summary and its warnings | what each stage hands on, and the orchestrator's | one per stage; a stage may raise; the extractions are runs of `ExtractionOrchestrator` |
| `RunnerDispatch` | `should_dispatch`, `record_completion` and the comments they keep | the record, each caller's phase and draft, what really happened | one per request to the store; time, heads and old clients outside |
| `AuthorityDispatch` | the ledger, the parties that write it, and the record beside it | ledger, record, what each party read, each attempt's phase | one per request; expiry, pushes, labels, cancelled runs outside |
| `PrVerifier` | `evaluate_pr`, `evaluate_pr_multiple` and the verdict made of two | the call, each judge's requests and answers, results | one per request; a judge answers anything or raises |

`QueueItem` is extended by `ValidationQueue`, `QueueHandoff`,
`ExtractionOrchestrator` and `Pipeline`, so all speak of the same records,
decoder and queue states.  `QueueBrowse` extends `ValidationQueue`: its third
action is a step of `ValidationQueue`.  `ExtractionOrchestrator` extends
`CrossCheck`, whose report decides its route; `ExtractionEvidence` puts
`Thresholds` beside it, and `Pipeline` extends that: its primary and secondary
extraction are behaviours of the orchestrator's actions, and a behaviour may
also be one call of the orchestrator by another user, under any policy.
`DocumentStore` instantiates `VersionHistory` as the specification it
implements.  `IntakeRegistration` uses the store's and the service's behaviour
at the granularity of one call each; their own modules look inside those calls.
`AuthorityDispatch` takes the dispatch record of `RunnerDispatch` as who holds it,
in what status and whether it is fresh.

Conventions.  A module `XMC` instantiates `X` for TLC; a module `XProofs` holds
its proofs.  Three of those hold more: `ValidationQueueProofs` also those of
`QueueBrowse`, `PipelineProofs` those of `ExtractionOrchestrator`, `CrossCheck`,
`Thresholds` and `ExtractionEvidence`, and `AgentProofs` those of
`AuthorityDispatch` and `PrVerifier`.  Model values `None`, `Missing`, `Absent`, `Empty`, `Torn` are
Python's `None`, a file that is not there, a record that is not there, a file
truncated by `open`, and bytes that do not parse.  An operator `X_slip` stands
just before `X` and is a mistake somebody could make in it; no specification
uses it, and `PROJECT.json` names the property that TLC finds violated when the
slip takes the place of `X`.

Atomicity.  A step is one system call on a file (`open` with truncation, write,
`replace`), one SQL statement with its commit, or one call on in-memory objects
of the same process; in the automation it is one request to GitHub.  A write
that two descriptors make to one file leaves either document or neither
(`Torn`): the longer document's tail may survive.  A run reads its artifacts back
for the manifest one file at a time, and a crash inside any write, the manifest's
included, leaves that file torn.

Fidelity, where the models are coarser than the code:

* names, ids and payloads are model values; normalisation of a name and the slug
  of an id are functions given by the configuration, and two spellings of one
  name are in every instance; hashes are taken to be injective;
* event notes, reasons and the other free text are left out;
* `QueueHandoff` has no clock, since `ValidationQueue` has it; `met`, which processes
  were under way while a run was, is a history variable that no step looks at;
* `Tick` never moves backwards.  The code takes `datetime.now` to be monotone: a
  clock set back makes the writer refuse a record;
* actor and owner identifiers are non-blank (the functions accept blanks, the
  decoder does not);
* the environment of the orchestrator (extractors, hook) is unconstrained;
* values of fields are texts with an integer reading, confidences are percents,
  and reasons are sets: their order in the message is left out;
* in `Pipeline` a file is its extension, the format of its bytes, its role, its
  place among the names and whether its name marks the series; what it says is
  chosen when it is read.  Of the metrics only whether they exist is kept.
  Registration either succeeds or raises there: `IntakeRegistration` has its
  inside.  `Pipeline` is the headless run, not the smoke mode of the same code;
* a page of `QueueBrowse` is taken from the latest records.  A reader of the file
  gets those of its last writing, which is the same as reading a little earlier;
* `RunnerDispatch` keeps of all comments the record that `read_record` answers
  with.  Ages saturate past half an hour, the only age the code tells apart.  The
  finish step always passes the checklist after the work, as the workflow does.  The
  owner of a record may report under another head if there was work (`Report`); no
  record of another head has the reporter's attempt as its owner unless two callers
  share an attempt, so only the theorems without `Distinct` go through that leg;
* `AuthorityDispatch` gives a generation to the whole claim (nonce, fingerprint,
  times).  A failed request has had its effect or not by the time the failure is
  seen.  A head commit does not come back.  Runs of one pull request are
  serialised by a concurrency group (`agents-81-gate-followups.yml:53`); the model
  lets attempts overlap, which only adds behaviours.  A lost answer to a
  reservation is followed by one reread, where the code retries the read;
* the evidence the reporter has about an attempt's agent is that it started, that it
  did not, or unknown (`Evidence`), the last at any time;
* in `PrVerifier` a text is the changed paths it names, sizes are whole units, and
  what the sources other than the diff are is a shortfall or none.  Two checks are
  left out, which only adds behaviours: that the judges of a comparison are of two
  provider families, and that the explanation of a resolution is not blank.  The
  two inputs that are divided have one common length.

## 3. What the runs show

| run | instance and bounds | shows |
|---|---|---|
| `validation_queue` | either one record with up to four events, or three with one event each between the pages of readings by five queries; two people, up to three instants | every call sequence keeps the record writable, analyst-first, audited, final; readings are complete |
| `handoff` | two runs, two sessions, one person, two events per record, two artifacts; crashes; both one process at a time and freely interleaved, two under way at once (`AtOnce`) | one at a time: saved reviews survive, no artifact changes under them, a manifest is about what lies on disk; always: a readable queue is lawful, a readable manifest has no file of a run its own did not meet |
| `handoff_race` | two runs and a session interleaved, no crash | the disagreement of section 5 |
| `store` | four puts on one key, crashes; one at a time, or racing with blobs deleted by hand (`Uses`) | one at a time: readable, complete, implements `VersionHistory`; always: a payload is listed once, and what put returns has its bytes unless a put died or still writes them |
| `store_torn` | one at a time, crashes, blobs deleted by hand | the disagreement of section 5 |
| `intake` | three registrations, dying anywhere; in sequence, two of them on one service, and at once, each with its own (`Uses`) | references, acceptance, one firm per name but for explicit identifiers, provenance, and a cause for every failure; in sequence also no orphan versions, and spellings accumulate |
| `intake_fund` | two firms, one fund name | the disagreement of section 5 |
| `ingestion` | two packages, up to two files each, ids that clash with minted ones | dictionaries agree, ends are final |
| `pipeline` | calls of the orchestrator: two providers, total limits from -1 to 3, fallback limits from -1 to 2, every outcome, deliveries of up to two documents with readings that are near, far and unreadable.  Headless runs: the shipped threshold policy, twelve collections of one to three files in every order, documents of every type that state all, some or none of the fields, workbooks of up to four rows with gaps and two rows to a month | attempts, result, errors and metrics; contradictions reach a human; a review is queued, warned of and summarised exactly when the document does not satisfy its profile; scores rest on evidence |
| `runner` | two workflow runs, two heads, one task open or ticked, one lost request when calls overlap; what old clients left when they do not | in any interleaving agents start on the newest reservation, reports settle their own and may be repeated; one call at a time, attempts are bounded and work resumes |
| `authority` | two attempts, loop and reporter, three generations, two heads, two failing requests | one agent per head, no attempt gives its own preparation back with a reservation pending, a spent licence stays spent |
| `verifier` | fifteen changes of up to three files, which fit one request, share two, or leave one out; one or two judges, eighteen answers and fifteen reconciliations; inputs of four characters to divide | a PASS rests on reviews of every file, findings survive, ranges cover the input |

Why the bounds are enough.  A queue record's rules look at its state, its owner
and the caller only, so two people (owner and stranger) and four events reach
each state by each kind of call, reopening `in_validation` included; the clock
needs an equal, an earlier and a later instant.  A reading goes wrong if a row
leaves those ahead of an unread one, so three records and pages of one show it.
In the hand-off and the store every hazard needs two processes, one between
another's check and write; a third adds no new kind of overlap.  In the hand-off
two processes are under way at once, of four that come and go: runs one after the
other, at once, and after a crash, with sessions beside and between them.
Registration needs three calls: one that leaves something behind, one that
trips over it, one that repeats; the second and third also race.  A registration
is taken into one service in a single step, so threads of one process that share
a service are only looked at one after the other.  The orchestrator's policy space is
exhaustive up to the point where the limits stop mattering: both limits are
compared only with counters that grow by one.  Three readings are the fewest in
which a value is within the tolerance of two that are not within it of each
other.  The pipeline looks at the first file of each kind, so two of a kind and
a third file, in every order, show what it chooses; three rows are the fewest
that can be scored, and workbooks of three rows come with consecutive months,
with a gap, and with two rows in a month.  A dispatch hazard needs a reservation
that comes between another's read and write, and a head that moves once; the
burst of attempts is counted past twice the limit.  A ledger hazard needs a
licence, the next one, and one that comes too late; a third generation is that.
Two failing requests let a reservation's answer be lost and the reread fail too.
In the verifier two requests are the fewest that can contradict each other, and
three files the fewest where one request has two and one file is left out.  The
bound on counted ranges is as large as the source's in proportion: 127 ranges are
at most counted for 64 requests, 5 for 3, and neither is ever reached.
For every safety property the proofs of section 4 remove these bounds; what the
runs add to them is that the interesting states are reached, that a slip is
found, and liveness.

Deadlock checking is off in every configuration because every model stops
when all calls have returned, all events are used up, or a bound is reached.

Fairness.  One property is a liveness property.  In `RunnerDispatch` time does not
stop and a workflow run ends (strong fairness of `Tick` and `Leave`, since pushes and
other steps disable them for a while), the hourly sweep evaluates the pull request
again and again, and a call whose run has not died goes on (weak fairness):
`WorkResumes` says that unfinished work is reserved again or finished, if calls come
one after the other.  Failing requests are bounded, as a network that always fails
lets nothing happen.  In `AuthorityDispatch` nothing is fair.  Neither the event
nor the sweep is bound to bring the reporter to a run that died (section 5), so
that a stranded licence comes back is not claimed.  The other components
are called by people and processes that owe nobody another call; they have no
fairness and no liveness properties.

## 4. What is proved

TLAPS proves every safety property that a passing run checks, as a theorem of the
module's specification, for every value of the constants: any number of people,
records, writers, registrations, payloads, artifacts, documents, readings,
attempts, heads, requests.  In each case the property is not inductive, and the
work is in the invariant that is.

* `ValidationQueueProofs` (four properties of `validation_queue`).  The
  inductive invariant says that every record is *good*: ownership agrees with
  state, timestamps are ordered and not in the future, the first event is an
  analyst's claim and the only one, and a closed record ends in a transition.
  The timestamps' upper bound `now` is what the decoder's check does not say and
  induction needs.  One lemma per action shows that it turns good records into
  good ones.
* `ValidationQueueProofs`, second part.  `QueueBrowse` is built so that every step it
  takes on the queue is one of `ValidationQueue`, and the former theorems carry over
  (lemma `BrowsingIsUse`).  For `ReadingIsComplete` the invariant adds that a steady row has been shown or is
  still to come: its position, the number of rows ahead of it, is not before the
  offset.  A page keeps that because it shows all positions up to the next
  offset. A change keeps it because of lemma `ChangeKeepsAhead`: a changed
  record is stamped with the present, which no stamp is after, so it stays ahead
  of whatever it was ahead of; within one second the identifier still decides.
* `QueueHandoffProofs` (all three properties of `handoff`).  `SharedInv`, under any
  interleaving and any deaths, follows records wherever they are, on disk or in
  a process's memory: each is legal, and what is about to be published passed
  the decoder.  `MetInv`, also under any interleaving and any deaths, is about the
  manifest: two processes under way at once have met (`HaveMet`), the artifacts a run
  has written and found (`Counted`, `Found`) are its own or of runs it met, and a
  manifest on disk keeps what was so when it was hashed (`Recorded`), since whoever
  comes later meets the run or finds it over.  `SerialInv` adds, for one process at
  a time, what a place knows: a session under way holds all that was ever saved
  (`SavedInv`), a run under way found no progress, and the outputs written so far are
  the run's own (`OnDisk`, `ManifestInv`).  The proof shows where `run.py` depends on its
  processes taking turns: from its check to its write a run relies on nothing
  having been saved since, which is what `handoff_race` breaks.
* `DocumentStoreProofs` (all four properties of `store`).  `SharedInv`, for any
  writers with crashes and lost blobs, says what each writer knows at each
  place: the list it read repeats no payload and does not have its own.  It gives
  type correctness and the first half of `IndexIsSound`.  `SingleInv` adds, under
  the assumption that one put runs at a time and blobs are not deleted, that a
  list read is still the index, that blobs of listed versions are whole, and that
  the temporary file is the writer's own.  It gives the other half and, with the
  refinement mapping of `History`, that every step of the file system store is a
  step of the in-memory store or a stutter: the replace of the index is the point
  at which a version comes to be.  `BlobInv` gives `ReturnedIsStored`: a blob that
  is not whole has an excuse, a put that still writes it if it is empty, or else
  a put that died.
* `IntakeRegistrationProofs` (all four properties of `intake`).  `SharedInv` says by
  place what a registration that others race with still knows: the parties it
  found are in their tables, and a registration that is to update a document
  goes by a row whose fund, bytes and channel are the bundle's.  Rows are never
  deleted and these columns never change, so this outlives the writes of
  others; `HistoryIsKept` and the first part of `StoreMatchesRows` follow.
  `SerialInv` adds that what was read is still there; `VersionsAccounted`
  that a listed version is in its document's row or on its way there, which is
  what a repeat after a crash picks up.  `NamesInv`, under any interleaving: every
  spelling on record leads, through normalisation and slug, to the identifier it is
  recorded under, unless a bundle gave an identifier of its own to that name.
  `CauseInv` keeps the cause of a failure from then on: rows have authors
  (`RowsHaveAuthors`), and what another call received or recorded is never undone.
* `IngestionProofs` (all four properties of `ingestion`).  The invariant is the
  conjunction of the properties; the lemma `HistoryGrows` says that a legal
  event appended to a legal history that ends at the record's status keeps it
  legal.
* `PipelineProofs` (all seven properties of `pipeline`).  `CallInv` is about one call
  of the orchestrator: where it is decides what it has attempted, the primary
  once and the fallback as often as it was counted, within both limits; and a
  result is settled once, from the attempts there are then.  It gives
  `RetriesUsePolicyUp`, negative limits included, and `ResultTellsAttempts`.  The
  cross-check compares all pairs, where `DisagreementEscalates` and
  `NoContradictionUnseen` speak of the highest and the lowest reading: the lemmas
  between them say that some pair disagrees exactly when the extremes do, for any
  number of documents and readings and any tolerance.  `RunInv` goes through the
  run stage by stage (`Chosen`, `Answered`, `Read`, `Judgement`, `Recorded`): what each
  stage handed on is still what the later ones were given.  It gives
  `ScoreRestsOnEvidence`, whose part about the fallback needs `CallInv` too: an answer
  that names the primary is the backend's reading.  `ReviewMatchesVerdict` speaks of
  the document and not of the decision.  Between the two are `Decided` (the decision
  is still the policy's verdict on the fields read), `ExtractionsAreUnique` (no key
  twice, so the best field of a key is the one there is) and `VerdictIsSatisfaction`
  (the policy escalates exactly what does not satisfy its profile).
* `RunnerDispatchProofs` (all five safety properties of `runner`).  `IInv` says what a
  caller's draft is: before the agent a reservation with the caller's own
  identity and attempt, after it a completion of it.  From the reread that finds
  one's own reservation, `StartsOnlyWhatItOwns` and `CompletionKeepsNewerOwner` follow
  for any number of callers, heads and failures.  `ReplaySpendsNothing` and
  `AttemptsAreBounded` are proved under `Distinct`: the callers are in different
  workflow attempts.  Within one attempt two jobs could both write over a fresh
  reservation, because a pending record of one's own attempt does not count as
  another's; TLC finds a burst longer than the bound there.  The count of
  `AttemptsAreBounded` runs over a whole behaviour, so its invariant (`Accounts`)
  ties it to the record's two counters: until a run has been found unproductive
  the continuations count all that was let through, from then on the other counter
  does, and before it the gate can have let through the limit at most.
* `AgentProofs`, first part (`authority`).  The ledger's conditional write is used in
  one way only: whoever read the ledger and finds it unchanged knows what it
  holds (`Held`, `LoopHeld`).  On that rest `SecuredAreBacked` (an attempt that may
  start its agent is named by a ledger of its head, unless the ledger is of a
  later one) and `LicensedApart` (two attempts with a licence have it for two
  heads), which give `OneRunPerHead` and `LicenceStaysSpent`; `RInv` ties the dispatch record to the
  phase of the attempt that holds it and gives `ReleaseLeavesNoReservation`.
* `AgentProofs`, second part (all three properties of `verifier`).  `PlanInv`, of the
  partition: the ranges planned and those pending tile the input from its first
  character to its last at every moment, for any common length and limits.  `ReviewInv`
  follows the answers of one judge: under what conditions a request was made
  (`Admissions`), that the result kept of each request says what its answer said or
  that there was none (`ReviewsTell`), hence that the verdict on all of them says
  no less (`Judged`), and neither does the comparison of two judges (`ArmsTell`).
  Nothing of this rests on how files are packed into requests: whatever the packing
  leaves out counts as not reviewed.
* `AgentProofs`, third part: the packing itself (`RequestsDivide`, which no run checks
  as an invariant).  While requests are out, none is empty, holds a binary file or
  exceeds the budget unless it is one file; no file is in two requests; no two
  neighbours could have been one; and text is left out only when all `MaxChunks`
  requests are used.  `Packing` is a recursive function over the files and the
  argument an induction, which is written as one over a smallest counterexample
  (`SomeIsFirst`, from the well-foundedness of inclusion of finite sets): at the first
  file after which `Packed` fails, `PlacedKeeps` contradicts it.  It needs that no two
  files have one path, which the code refuses first (`Ambiguous`).

The assumptions are the named `ASSUME`s of the modules, and TLC evaluates them in
every run.  That the marks (`None`, `Absent`, `Torn`, ...) are no data, that bounds are
natural numbers, and that what the configuration lists (bundles, deliveries,
answers, policies, contents) is made of what the types allow is said once per
module.  Those with content: a minted id is an id (`MintedIdsAreIds`), a normalised
name has an identifier (`NamesHaveIds`), identifiers are ordered (`RanksAreOrders`), a
text has an integer reading or none (`TextsAreRead`), the tolerance is a percentage
(`ToleranceIsPercentage`, which the code validates), a bundle has a primary document
and no two files that differ in case only (`BundlesAreValid`), runs and sessions are
different processes (`ProcessesAreApart`), a comparison has two judges (`TwoSlots`).

Only model-checked: the liveness property, `WorkResumes`, since liveness under
fairness is out of the prover's reach; and the three disagreements of section 5, which are counterexamples.  `Distinct` is
a hypothesis of two theorems, not an assumption of the module: the other
theorems about the runner hold without it.


## 5. Where code and documentation disagree

* `handoff_race`: the check for saved progress (`run.py:164`) is not repeated
  before the queue is written (`run.py:385`).  A review saved in between is lost,
  which the docstring and `queue_states.md` exclude.
* `store_torn`: re-materialisation is guarded by `is_file()`; a blob torn by a
  crash in an earlier re-materialisation counts as present, which the comment
  above it excludes.
* `intake_fund`: `_merge_fund` takes the firm of the incoming bundle although it
  is to preserve the fund's identity; a fund's minted id does not contain its
  firm, so two firms with funds of one name share a row.

Also met while modelling, visible in the models and not run as disagreements:

* a PDF under the name of a workbook ends the run with an `AssertionError`
  (`Pipeline`, `AcceptEscalation`), which the docstring of `run_pipeline` does not
  name and the command line does not catch;
* a workbook with two rows in a month ends the run with a `ValueError`
  (`ResolvePerformance`), although `_workbook_performance_series` says that
  malformed workbooks are unavailable;
* a PDF whose fields follow no page marker ends the run with a `ValueError` if it
  would have been scored (`Score`);
* `extraction_thresholds.md` does not mention the reason `duplicate_field_key`;
* the fleet summary's `escalation_state` is the secondary boundary's "ops_review"
  whenever there is a workbook, although nothing is queued for it;
* with two entries of the track-record role, the first one submitted is read;
* `build_summary_from_pipeline` (`langsmith_fleet.py:237`) reads the verdict from a
  field, `confidence.document.escalation`, that `attach_threshold_summary` does not
  write, so `confidence_state` is "accepted" in every run;
* by state, by owner, under a filter, or oldest first, a record that changes between
  two pages can hide another from the reader (`QueueBrowse`); nothing in the
  repository promises otherwise;
* two jobs of one workflow attempt that reserve at once both write over a fresh
  reservation (`RunnerDispatch`, hence `Distinct`);
* when the first provider's answer cannot be used, the fallback's takes its place
  without the list of files not reviewed (`pr_verifier.py:8343`): `PassRestsOnReviews`
  exempts it;
* `expanded_comparison_verdict` is called by tests only;
* a licence whose run died before its agent started need not come back: the reporter
  is triggered once per run and not by a successful or skipped one
  (`agents-keepalive-loop-reporter.yml:24-26`), unknown evidence stops it (`:365-368`),
  and the hourly replay throws when the run's head is no longer the receipt's
  (`keepalive_reporter_applicability.js:227`).  The next head gets a new challenge;
* a registration that is repeated on the service it died on is refused as a
  duplicate, since the service already has its package (`intake/service.py:38-44`);
  repeated by a new process, as the command line does, it goes through.

## 6. What is not modelled

Parsing of document formats, rendering, floating-point statistics, tracing and
the browser bundle are pure or have no state of their own.  Most of the
repository automation writes reports, issues and metrics from what it reads, in
one pass: it has no state to protect and its correctness is that of its texts.
`PROJECT.json` lists every component.

In modelled components: the validation of a bundle's shape before registration, the
registration without a repository (it only calls the ingestion service), the
path quoting of the store, trace spans of the orchestrator, and what the
artifacts other than the queue contain; the parsing of query parameters and
timestamps in the queue API; prompts, output parsing, evidence fields and the text of
comments in the runner; attempt indexes, checkpoint and presence files and legacy
preparations in the ledger; in the verifier the gathering of sources, gzip views,
capture obligations, native capacity counts, follow-up issues and semantic mode.

The queue's assignment record, its audit log and the corrections of fields are
state with almost no user: smoke mode makes one assignment to name its id in the
result, and only tests record or replay audit events.  They are sequential and
each call stands alone, so a model would restate their assignments.

## 7. The plan

Done: 1 `QueueItem`, `ValidationQueue`; 2 `QueueHandoff`; 3 `VersionHistory`,
`DocumentStore` with the refinement; 4 `IntakeRegistration`; 5 `Ingestion`;
6 `ExtractionOrchestrator`; 7 `CrossCheck`, `Thresholds`, `ExtractionEvidence`;
8 `Pipeline`, whose extractions are runs of the orchestrator; 9 `RunnerDispatch`;
10 `AuthorityDispatch`; 11 `PrVerifier`; 12 `QueueBrowse`.  All of their safety
properties are proved.

Next, in this order:

1. Proofs between modules: that the pipeline's extractions are calls of the
   orchestrator in the sense of its own specification; that the record
   `AuthorityDispatch` keeps moves as the one of `RunnerDispatch` does; that a
   review session's changes are steps of `ValidationQueue`.
2. The verifier's gathering of sources and its capture obligations.
3. Field corrections in the second half of `data/repository.py`, whose latest
   value is chosen by the text order of its time, and image feedback.
4. The conflict resolver with two series, once a run has two.
