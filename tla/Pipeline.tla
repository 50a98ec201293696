------------------------------ MODULE Pipeline ------------------------------
(***************************************************************************)
(* One headless run of _run_pipeline_core (v1_smoke.py) and what run.py    *)
(* and the fleet summary make of it: register the bundle, choose the       *)
(* documents to read, extract, apply the threshold policy, resolve the     *)
(* performance series, queue what needs a reviewer, score what has         *)
(* evidence.  Each stage is an action; it either hands on to the next or   *)
(* raises, and then nothing of the run is written.                         *)
(*                                                                         *)
(* A file's name is a natural number, its place among casefolded names,    *)
(* and tagged says that it has a word such as "composite" in it.  What a   *)
(* file says is chosen when it is read.                                    *)
(*                                                                         *)
(* Extraction is a call of the orchestrator, and so is the secondary       *)
(* boundary.  The orchestrator is also called by others, with any policy,  *)
(* any providers and a metrics hook: that use has no pipeline around it.   *)
(***************************************************************************)
EXTENDS ExtractionEvidence

CONSTANTS Bundles,     \* the valid bundles a run may be given
          Contents,    \* what readable primary documents say
          Workbooks,   \* what submitted workbooks say
          Month,       \* the month of a day, a function on natural numbers
          BaseConfig,  \* config/extraction_thresholds.yaml
          Profiles,    \* its document_profiles
          Backend,     \* the provider of the pipeline's extractions
          Stub,        \* their fallback, a stand-in that never extracts
          NoFile       \* no document of the kind, or none read

StandardFields == <<"asset_class", "fee", "net_return", "aum", "key_person">>

Keys == ToSet(StandardFields) \cup {"market_update", "inception_date"}

PrimaryExtensions == {"pdf", "pptx"}

\* format is what the bytes are, whatever the name says.
File == [name : Nat, ext : PrimaryExtensions \cup {"xlsx", "docx"},
         format : PrimaryExtensions \cup {"xlsx", "other"},
         track_record : BOOLEAN, tagged : BOOLEAN]

\* The type classify_doc_type finds, the fields stated, the ones among them
\* that follow a "page N" marker, and whether the values stated parse.
Content == [type : DOMAIN Profiles \cup {"unknown"}, stated : SUBSET ToSet(StandardFields),
            paged : SUBSET ToSet(StandardFields), legible : BOOLEAN]

\* The days of the one canonical table, none when there is no such table, and
\* whether its values are all the same.
Workbook == [days : SUBSET Nat, flat : BOOLEAN]

\* A valid bundle has a primary document.  Names that differ in case only, whose
\* order is that of the document ids, are left out.
ASSUME BundlesAreValid ==
  Bundles \subseteq {b \in Seq(File) :
    /\ \E i \in 1..Len(b) : b[i].ext \in PrimaryExtensions
    /\ \A i, j \in 1..Len(b) : i # j => b[i].name # b[j].name}

ASSUME InputsAreReadable ==
  /\ Contents \subseteq Content /\ Workbooks \subseteq Workbook
  /\ \A w \in Workbooks : w.days \subseteq DOMAIN Month /\ IsFiniteSet(w.days)
  /\ \A d \in DOMAIN Month : Month[d] \in Nat

ASSUME ConfigIsThresholdConfig ==
  /\ BaseConfig \in ThresholdConfig(Keys)
  /\ \A t \in DOMAIN Profiles : Profiles[t].config \in ThresholdConfig(Keys)

ASSUME NoFileIsNoFile == NoFile \notin File \cup Content \cup Workbook

ASSUME ProvidersDiffer == {Backend, Stub} \subseteq Providers /\ Backend # Stub

VARIABLES bundle,    \* the files, in the order of submission
          stage,     \* the stage that comes next, or how the run ended
          document,  \* the document extraction reads
          workbook,  \* the document of the secondary boundary
          content,   \* what the primary document says
          fields,    \* the fields extracted from it
          route,     \* the escalation_route of the secondary boundary
          decision,  \* the ThresholdDecision
          table,     \* what the track record says
          queue,     \* the records the run will write
          score,     \* the explanation: "scored", or why there is no score
          fleet      \* the summary for the dashboard

pipeline == <<bundle, stage, document, workbook, content, fields, route, decision, table,
              queue, score, fleet>>

Stages == {"register", "select", "extract", "extracting", "secondary", "escalating",
           "thresholds", "performance", "queue", "score", "summarize"}

\* "ended" returns its artifacts; the others are the exceptions raised.
Endings == {"ended", "ValueError", "AssertionError"}

NoDecision == [escalate |-> FALSE, reasons |-> {}]

NoFleet == [validation_status |-> "none", confidence_state |-> "none",
            escalation_state |-> "none", review_queue_outcome |-> "none", score_count |-> 0]

NothingRead ==
  /\ document = NoFile /\ workbook = NoFile /\ content = NoFile /\ table = NoFile
  /\ fields = <<>> /\ route = "none" /\ decision = NoDecision
  /\ queue = {} /\ score = "none" /\ fleet = NoFleet

\* The pipeline configures its two orchestrators alike: the default policy, no
\* hook, and a fallback of another name.
PipelineInit ==
  /\ NothingRead
  /\ \/ Init /\ stage = "none" /\ bundle = <<>>
     \/ /\ stage = "register" /\ bundle \in Bundles
        /\ primary = Backend /\ fallback = Stub /\ policy = DefaultPolicy
        /\ disabled = FALSE /\ hook = FALSE /\ pc = "idle"
        /\ attempts = <<>> /\ fallback_attempts = 0 /\ metrics = <<>>
        /\ last_error = NoProvider /\ result = Pending

-----------------------------------------------------------------------------
(***************************************************************************)
(* Which files are read.                                                   *)
(***************************************************************************)
FilesWith(files, exts) == {f \in ToSet(files) : f.ext \in exts}

FirstByName(fs) == CHOOSE f \in fs : \A g \in fs : f.name <= g.name

\* _performance_track_record_file_name: the first entry of that role.
TrackRecord(files) ==
  LET records == SelectSeq(files, LAMBDA f : f.track_record)
  IN IF records = <<>> THEN NoFile ELSE Head(records)

Primary(files) == FirstByName(FilesWith(files, PrimaryExtensions))

\* The track record, if it is a workbook, else the first workbook by name.
PreferredWorkbook(files) ==
  LET books == FilesWith(files, {"xlsx"})
  IN IF TrackRecord(files) \in books THEN TrackRecord(files)
     ELSE IF books = {} THEN NoFile ELSE FirstByName(books)

\* register_intake_bundle_file accepts or refuses; IntakeRegistration has the
\* inside of it.
Register ==
  /\ stage = "register"
  /\ stage' \in {"select", "ValueError"}
  /\ UNCHANGED <<vars, bundle, document, workbook, content, fields, route, decision, table, queue,
                 score, fleet>>

SelectDocuments ==
  /\ stage = "select" /\ stage' = "extract"
  /\ document' = Primary(bundle) /\ workbook' = PreferredWorkbook(bundle)
  /\ UNCHANGED <<vars, bundle, content, fields, route, decision, table, queue, score, fleet>>

-----------------------------------------------------------------------------
(***************************************************************************)
(* Extraction.  A provider raises on bytes of another format; the fallback *)
(* then answers, and the run refuses its answer.                           *)
(***************************************************************************)
Confidence ==
  [pdf  |-> [asset_class |-> 93, fee |-> 91, net_return |-> 88, aum |-> 72, key_person |-> 50],
   pptx |-> [asset_class |-> 95, fee |-> 93, net_return |-> 90, aum |-> 82, key_person |-> 80]]

\* A field stated is found once.  The fields come in the order of the patterns, or
\* slide by slide, which no stage looks at: here in some order.
\* A field of a PDF that no page marker precedes is on page 0; slides count from 1.
Extracted(c, ext) ==
  LET keys == SetToSeq(c.stated)
  IN [i \in 1..Len(keys) |->
       [key |-> keys[i], confidence |-> Confidence[ext][keys[i]],
        page |-> IF ext = "pptx" \/ keys[i] \in c.paged THEN 1 ELSE 0]]

CallOrchestrator(from, to) ==
  /\ stage = from /\ stage' = to
  /\ Begin
  /\ UNCHANGED <<bundle, document, workbook, content, fields, route, decision, table, queue,
                 score, fleet>>

\* What the backend makes of bytes in the format it expects, or not.
Reading(c, ext, format) ==
  IF format = ext THEN [kind |-> "data", documents |-> <<Extracted(c, ext)>>] ELSE Raised

ReadPrimary(c) ==
  /\ stage = "extracting"
  /\ PrimaryAttempt(Reading(c, document.ext, document.format))
  /\ content' = c
  /\ UNCHANGED <<bundle, stage, document, workbook, fields, route, decision, table, queue,
                 score, fleet>>

\* The fixture fallback answers with the document's id and nothing read.
AnswerWithoutReading ==
  /\ stage = "extracting"
  /\ FallbackAttempt([kind |-> "data", documents |-> <<>>])
  /\ UNCHANGED pipeline

\* An answer not read by the backend is refused.
AcceptExtraction ==
  /\ stage = "extracting" /\ pc = "returned"
  /\ IF ~result.resolved \/ result.provider_used # primary
       THEN stage' = "ValueError" /\ UNCHANGED fields
       ELSE stage' = "secondary" /\ fields' = Head(result.documents)
  /\ UNCHANGED <<vars, bundle, document, workbook, content, route, decision, table, queue,
                 score, fleet>>

\* The second extraction is to fail: a PDF extractor is handed a workbook.
ReadWorkbook(c) ==
  /\ stage = "escalating"
  /\ PrimaryAttempt(Reading(c, "pdf", workbook.format))
  /\ UNCHANGED pipeline

\* The unsupported extractor raises whatever the bytes are.
RefuseWorkbook ==
  /\ stage = "escalating"
  /\ FallbackAttempt(Raised)
  /\ UNCHANGED pipeline

\* A PDF by the name of a workbook is read, and the assertion fails.
AcceptEscalation ==
  /\ stage = "escalating" /\ pc = "returned"
  /\ IF result.resolved \/ result.route # "ops_review"
       THEN stage' = "AssertionError" /\ UNCHANGED route
       ELSE stage' = "thresholds" /\ route' = result.route
  /\ UNCHANGED <<vars, bundle, document, workbook, content, fields, decision, table, queue,
                 score, fleet>>

SkipSecondary ==
  /\ stage = "secondary" /\ workbook = NoFile
  /\ stage' = "thresholds"
  /\ UNCHANGED <<vars, bundle, document, workbook, content, fields, route, decision, table,
                 queue, score, fleet>>

\* The orchestrator's own steps, in a call of the pipeline.
OrchestratorStep ==
  /\ stage \in {"extracting", "escalating"}
  /\ Escalate \/ EmitMetrics
  /\ UNCHANGED pipeline

Extract ==
  \/ CallOrchestrator("extract", "extracting")
  \/ workbook # NoFile /\ CallOrchestrator("secondary", "escalating")
  \/ \E c \in Contents : ReadPrimary(c) \/ ReadWorkbook(c)
  \/ AnswerWithoutReading \/ RefuseWorkbook \/ OrchestratorStep
  \/ AcceptExtraction \/ AcceptEscalation \/ SkipSecondary

ApplyThresholds ==
  /\ stage = "thresholds" /\ stage' = "performance"
  /\ LET profile == SelectedProfile(content.type, ToSet(StandardFields), BaseConfig, Profiles)
         d == ThresholdDecision(fields, profile.key_fields, profile.config)
     IN decision' = [escalate |-> d.escalate, reasons |-> d.reasons]
  /\ UNCHANGED <<vars, bundle, document, workbook, content, fields, route, table, queue, score, fleet>>

-----------------------------------------------------------------------------
(***************************************************************************)
(* Performance: the series of the track record, its months and its shape.  *)
(***************************************************************************)
Months(days) == {Month[d] : d \in days}

\* normalize_series: no two rows fall into one month.
Normalizable(days) == Cardinality(Months(days)) = Cardinality(days)

\* _resolve_performance_series and normalize_payload.  A table that is not
\* canonical makes the series unavailable, one with two rows in a month raises.
ResolvePerformance(w) ==
  /\ stage = "performance"
  /\ LET record == TrackRecord(bundle) IN
       IF record = NoFile
         THEN stage' = "queue" /\ UNCHANGED table
         ELSE IF record.format # "xlsx" \/ ~Normalizable(w.days)
           THEN stage' = "ValueError" /\ UNCHANGED table
           ELSE stage' = "queue" /\ table' = w
  /\ UNCHANGED <<vars, bundle, document, workbook, content, fields, route, decision, queue, score,
                 fleet>>

Available == table # NoFile /\ table.days # {}

\* detect_missing_months.
HasGap(days) ==
  days # {} /\ \E m \in Min(Months(days))..Max(Months(days)) : m \notin Months(days)

\* requires_operator_confirmation: some file name, or a missing month, gives
\* the series a tag other than "standard".
NonStandard == HasGap(table.days) \/ \E f \in ToSet(bundle) : f.tagged

-----------------------------------------------------------------------------
(***************************************************************************)
(* The queue and the score.                                                *)
(***************************************************************************)

\* The secondary boundary's escalation is queued as well.
Queued_slip ==
  IF decision.escalate \/ route # "none"
    THEN {[reasons |-> decision.reasons, item |-> NewItem(0)]} ELSE {}

\* The records of create_queue_item: at most one, for the threshold reason.
Queued ==
  IF decision.escalate THEN {[reasons |-> decision.reasons, item |-> NewItem(0)]} ELSE {}

QueueItems ==
  /\ stage = "queue" /\ stage' = "score"
  /\ queue' = Queued
  /\ UNCHANGED <<vars, bundle, document, workbook, content, fields, route, decision, table, score,
                 fleet>>

MinFieldConfidence == 50

MinWorkbookObservations == 3

\* Two months are taken for enough.
Evidenced_slip ==
  /\ \A i \in 1..Len(fields) : fields[i].confidence >= MinFieldConfidence
  /\ Len(fields) = Len(StandardFields)
  /\ Available /\ Cardinality(table.days) >= 2 /\ ~table.flat
  /\ content.legible

\* _evidence_backed_score_components does not return None.  Two months or more
\* have a volatility and a drawdown, and a Sharpe ratio unless it is flat.
Evidenced ==
  /\ \A i \in 1..Len(fields) : fields[i].confidence >= MinFieldConfidence
  /\ Len(fields) = Len(StandardFields)
  /\ Available /\ Cardinality(table.days) >= MinWorkbookObservations /\ ~table.flat
  /\ content.legible

\* _normalize_provenance raises for a field that is on no page.
Explainable == \A i \in 1..Len(fields) : fields[i].page >= 1

\* The reason in the explainability payload, or that there is a score.
Explanation ==
  IF ~Evidenced THEN "evidence_backed_score_components_unavailable"
  ELSE IF NonStandard THEN "operator_confirmation_required"
  ELSE "scored"

Score ==
  /\ stage = "score"
  /\ IF Explanation = "scored" /\ ~Explainable
       THEN stage' = "ValueError" /\ UNCHANGED score
       ELSE stage' = "summarize" /\ score' = Explanation
  /\ UNCHANGED <<vars, bundle, document, workbook, content, fields, route, decision, table, queue,
                 fleet>>

-----------------------------------------------------------------------------
(***************************************************************************)
(* What is reported: the fleet summary and the warnings of run.json.       *)
(***************************************************************************)

\* The document-level fields attach_threshold_summary adds.
ThresholdSummary ==
  ("confidence.document.key_field_coverage_ratio" :> "ratio") @@
  ("confidence.document.auto_pass" :> IF decision.escalate THEN "false" ELSE "true") @@
  ("confidence.document.escalation_reason" :> IF decision.escalate THEN "reasons" ELSE "none")

FieldValue(summary, key) == IF key \in DOMAIN summary THEN summary[key] ELSE NoFile

\* build_summary_from_pipeline.
FleetSummary ==
  [validation_status |-> IF decision.escalate THEN "escalated" ELSE "accepted",
   confidence_state |->
     IF FieldValue(ThresholdSummary, "confidence.document.escalation") = TRUE
       THEN "escalated" ELSE "accepted",
   escalation_state |->
     IF route # "none" THEN route
     ELSE FieldValue(ThresholdSummary, "confidence.document.escalation_reason"),
   review_queue_outcome |-> IF queue # {} THEN "pending_triage" ELSE "none",
   score_count |-> IF score = "scored" THEN Len(StandardFields) ELSE 0]

Summarize ==
  /\ stage = "summarize" /\ stage' = "ended"
  /\ fleet' = FleetSummary
  /\ UNCHANGED <<vars, bundle, document, workbook, content, fields, route, decision, table, queue,
                 score>>

\* The warnings of _build_run_result, those of intake left out.
Warnings ==
  (IF decision.escalate THEN {"threshold"} ELSE {}) \cup
  (IF Available THEN {} ELSE {"performance:unavailable"}) \cup
  (IF score = "scored" THEN {} ELSE {"scoring:unavailable"})

\* A call of the orchestrator by others.
LibraryCall == stage = "none" /\ Next /\ UNCHANGED pipeline

PipelineNext ==
  \/ LibraryCall
  \/ Register \/ SelectDocuments \/ Extract \/ ApplyThresholds
  \/ \E w \in Workbooks : ResolvePerformance(w)
  \/ QueueItems \/ Score \/ Summarize

PipelineSpec == PipelineInit /\ [][PipelineNext]_<<vars, pipeline>>

-----------------------------------------------------------------------------
StateOK ==
  /\ TypeOK
  /\ bundle \in Bundles \cup {<<>>} /\ stage \in {"none"} \cup Stages \cup Endings
  /\ stage = "none" <=> bundle = <<>>
  /\ document \in ToSet(bundle) \cup {NoFile}
  /\ workbook \in ToSet(bundle) \cup {NoFile}
  /\ content \in Contents \cup {NoFile}
  /\ table \in Workbooks \cup {NoFile}
  /\ \A i \in 1..Len(fields) : fields[i].key \in Keys /\ fields[i].confidence \in Percent
  /\ route \in {"none"} \cup Open
  /\ \A r \in queue : r.item \in ValidationQueueItem
  /\ fleet.review_queue_outcome \in {"none"} \cup Open

(***************************************************************************)
(* What the document states satisfies the profile of its type: with enough *)
(* confidence it states every mandatory field, and enough of the expected. *)
(***************************************************************************)
Satisfies ==
  LET profile == SelectedProfile(content.type, ToSet(StandardFields), BaseConfig, Profiles)
      limits == profile.config
      Sure(min) == {k \in content.stated : Confidence[document.ext][k] >= min}
  IN /\ limits.mandatory_fields \subseteq Sure(limits.mandatory_field_min)
     /\ 100 * Cardinality(profile.key_fields \cap Sure(limits.key_field_confidence_min))
          >= limits.document_key_field_coverage_min * Cardinality(profile.key_fields)

(***************************************************************************)
(* A run that returns has queued a review exactly when the document chosen *)
(* does not satisfy its profile, five stages after it was read, whichever  *)
(* files lay beside it, whatever the secondary boundary escalated and      *)
(* whether or not there is a score.  What is queued is one record that     *)
(* nobody owns yet, with the reasons of the decision; run.json warns of    *)
(* it, and the fleet summary has it in validation_status and               *)
(* review_queue_outcome.  confidence_state and escalation_state, which     *)
(* follow other sources, are not meant.                                    *)
(***************************************************************************)
ReviewMatchesVerdict ==
  stage = "ended" =>
    /\ queue = IF Satisfies THEN {} ELSE {[reasons |-> decision.reasons, item |-> NewItem(0)]}
    /\ Satisfies <=> decision.reasons = {}
    /\ Satisfies <=> "threshold" \notin Warnings
    /\ Satisfies <=> fleet.validation_status = "accepted"
    /\ Satisfies <=> fleet.review_queue_outcome = "none"

(***************************************************************************)
(* A published score rests on evidence a reviewer can find: all five key   *)
(* fields stated on a page of the document read, in values that parse, in  *)
(* bytes of the format its name says, so that no fallback of the           *)
(* orchestrator can have stood in for it; and a track record of at least   *)
(* three months in a row, not all the same, in a bundle no file name of    *)
(* which marks the series as non-standard.                                 *)
(***************************************************************************)
ScoreRestsOnEvidence ==
  (stage = "ended" /\ score = "scored") =>
    /\ content.legible /\ content.stated = ToSet(StandardFields)
    /\ document.format = document.ext
    /\ document.ext = "pdf" => content.paged = content.stated
    /\ \A f \in ToSet(bundle) : ~f.tagged
    /\ ~table.flat
    /\ Cardinality(table.days) >= 3
    /\ LET months == Months(table.days) IN
         /\ Cardinality(months) = Cardinality(table.days)
         /\ months = Min(months)..Max(months)
=============================================================================
