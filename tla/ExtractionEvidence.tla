------------------------- MODULE ExtractionEvidence -------------------------
(***************************************************************************)
(* What one call of the orchestrator makes of documents that contradict    *)
(* each other or themselves.  Several documents are cross-checked by the   *)
(* orchestrator; a single one is not, and it is the threshold policy, to   *)
(* which the pipeline hands it next, that must notice.                     *)
(***************************************************************************)
EXTENDS ExtractionOrchestrator, Thresholds

CONSTANTS KeyFields,  \* the key fields the pipeline expects
          Policy      \* the threshold policy it was given

ASSUME PolicyIsThresholdConfig ==
  KeyFields \cap KeyNumericFields # {} /\ Policy \in ThresholdConfig(KeyFields)

Settled == pc = "returned" /\ result.resolved

\* The decision on the only document of the result.
Judged(fields) == ThresholdDecision(fields, KeyFields, Policy)

-----------------------------------------------------------------------------
(***************************************************************************)
(* What the documents say of a field contradicts itself: a value that      *)
(* cannot be read beside another one, or the highest and the lowest        *)
(* reading further apart than the tolerance, each reading in between being *)
(* within it of its neighbours or not.                                     *)
(***************************************************************************)
Contradictory(documents, key) ==
  LET observed == Observed(documents, key)
      values == {ReadAt(documents, p) : p \in observed}
  IN /\ Cardinality(observed) > 1
     /\ \/ NotANumber \in values
        \/ ~disabled /\ ExceedsTolerance(Max(values), Min(values))

(***************************************************************************)
(* A resolved result of several documents is sent to an analyst exactly    *)
(* when they contradict each other on a key numeric field, whichever       *)
(* provider delivered them and after however many retries                  *)
(* (_with_cross_check, _first_disagreement).                               *)
(***************************************************************************)
DisagreementEscalates ==
  (Settled /\ Len(result.documents) > 1) =>
    (result.route = "pending_triage" <=>
       \E k \in KeyNumericFields : Contradictory(result.documents, k))

(***************************************************************************)
(* A contradiction never passes unseen: a document that contradicts itself *)
(* escapes the cross-check, which wants two, but then the threshold policy *)
(* lets it through under no configuration (evaluate_thresholds, #696).     *)
(***************************************************************************)
NoContradictionUnseen ==
  (Settled /\ \E k \in KeyNumericFields : Contradictory(result.documents, k)) =>
    \/ result.route = "pending_triage"
    \/ Len(result.documents) = 1 /\ Judged(Head(result.documents)).escalate
=============================================================================
