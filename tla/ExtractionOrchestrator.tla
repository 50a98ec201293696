----------------------- MODULE ExtractionOrchestrator -----------------------
(***************************************************************************)
(* One call of ExtractionOrchestrator.run (extraction/orchestrator.py): a  *)
(* primary provider, then a fallback provider retried within a policy,     *)
(* then either the cross-check of what was extracted or an escalation, and *)
(* at the end the metrics hook.  The object keeps no state between calls,  *)
(* so one call is the whole behaviour here; Pipeline makes two.  Extractors *)
(* and the hook are the environment: they may do whatever their types      *)
(* allow.                                                                  *)
(***************************************************************************)
EXTENDS QueueItem, CrossCheck, SequencesExt

CONSTANTS Providers,     \* provider names
          NoProvider,    \* provider_used = None
          TotalLimits,   \* values of max_total_attempts
          FallbackLimits,\* values of max_fallback_attempts
          Deliveries     \* the documents the data of an extractor can hold

ASSUME NoProviderIsNoName == NoProvider \notin Providers

ASSUME LimitsAreIntegers == TotalLimits \subseteq Int /\ FallbackLimits \subseteq Int

\* A document is the fields read from it.
ASSUME DeliveriesAreDocuments == \A ds \in Deliveries : ds \in Seq(Seq(Observation))

\* What an extractor can do: return data with documents in it
\* (_extract_document_results), return None, or raise.
Delivered == [kind : {"data"}, documents : Deliveries]

NothingReturned == [kind |-> "none", documents |-> <<>>]

Raised == [kind |-> "raises", documents |-> <<>>]

Outcomes == Delivered \cup {NothingReturned, Raised}

VARIABLES primary, fallback,  \* provider names, as configured
          policy,             \* RetryPolicy
          disabled,           \* disable_cross_check_discrepancy in the payload
          hook,               \* whether there is a metrics hook
          pc,                 \* where run is
          attempts,           \* the AttemptRecords
          fallback_attempts,
          last_error,         \* "none" or the provider whose error it is
          result,             \* OrchestrationResult, or Pending
          metrics             \* what the hook was called with, in order

vars == <<primary, fallback, policy, disabled, hook, pc, attempts, fallback_attempts,
          last_error, result, metrics>>

arguments == <<primary, fallback, policy, disabled, hook>>

\* RetryPolicy() of a caller that gives none.
DefaultPolicy == [max_total_attempts |-> 2, max_fallback_attempts |-> 1]

Pending == [resolved |-> FALSE, provider_used |-> NoProvider, retry_count |-> -1,
            failure_count |-> -1, route |-> "none", errors |-> {}, documents |-> <<>>]

Init ==
  /\ primary \in Providers /\ fallback \in Providers
  /\ policy \in [max_total_attempts : TotalLimits, max_fallback_attempts : FallbackLimits]
  /\ disabled \in BOOLEAN /\ hook \in BOOLEAN
  /\ pc = "primary" /\ attempts = <<>> /\ fallback_attempts = 0
  /\ last_error = NoProvider /\ result = Pending /\ metrics = <<>>

\* run is called once more: nothing is left of an earlier call.
Begin ==
  /\ pc' = "primary" /\ attempts' = <<>> /\ fallback_attempts' = 0
  /\ last_error' = NoProvider /\ result' = Pending /\ metrics' = <<>>
  /\ UNCHANGED arguments

\* success is "not None", and an error is recorded only for an exception.
AttemptRecord(name, outcome) ==
  [provider |-> name, success |-> outcome.kind = "data", error |-> outcome.kind = "raises"]

\* The bound on all attempts is tested with <=.
CanAttemptFallback_slip ==
  /\ primary # fallback
  /\ fallback_attempts < policy.max_fallback_attempts
  /\ Len(attempts) <= policy.max_total_attempts

CanAttemptFallback ==
  /\ primary # fallback
  /\ fallback_attempts < policy.max_fallback_attempts
  /\ Len(attempts) < policy.max_total_attempts

\* The positions of failed_attempts.
Failed(as) == {k \in 1..Len(as) : ~as[k].success}

\* Names the role that reviews, where the source names the queue's state.
Route_slip(as) ==
  IF Cardinality({as[k].provider : k \in Failed(as)}) > 1 THEN "ops" ELSE "pending_triage"

Route(as) ==
  IF Cardinality({as[k].provider : k \in Failed(as)}) > 1
    THEN "ops_review" ELSE "pending_triage"

\* One document is not cross-checked.  Where two disagree an analyst is asked.
CrossCheckRoute(documents) ==
  IF Len(documents) > 1 /\ ReportEscalates(CrossCheckReport(documents, disabled))
    THEN "pending_triage" ELSE "none"

\* The result of a successful attempt, the last of as, after _with_cross_check:
\* documents that disagree escalate a result that stays resolved.
Resolved(as, outcome) ==
  [resolved |-> TRUE, provider_used |-> Last(as).provider,
   retry_count |-> Len(as) - 1, failure_count |-> Cardinality(Failed(as)),
   route |-> CrossCheckRoute(outcome.documents),
   errors |-> {}, documents |-> outcome.documents]

\* Only the last error is reported.
Escalation_slip(as) ==
  [resolved |-> FALSE, provider_used |-> NoProvider,
   retry_count |-> Len(as) - 1, failure_count |-> Len(as), route |-> Route(as),
   errors |-> {k \in {Len(as)} : as[k].error}, documents |-> <<>>]

\* _escalate with its payload, whose errors are those of the failed attempts;
\* here they are the attempts that raised them.
Escalation(as) ==
  [resolved |-> FALSE, provider_used |-> NoProvider,
   retry_count |-> Len(as) - 1, failure_count |-> Len(as), route |-> Route(as),
   errors |-> {k \in Failed(as) : as[k].error}, documents |-> <<>>]

\* What run does with the outcome of an attempt: the result is settled when it
\* succeeded, otherwise the next fallback is considered.
Conclude(name, outcome) ==
  LET as == Append(attempts, AttemptRecord(name, outcome)) IN
    /\ attempts' = as
    /\ IF outcome.kind = "data"
         THEN pc' = "emit" /\ result' = Resolved(as, outcome) /\ UNCHANGED last_error
         ELSE /\ pc' = "retry"
              /\ last_error' = IF outcome.kind = "raises" THEN name ELSE NoProvider
              /\ UNCHANGED result
    /\ UNCHANGED <<arguments, metrics>>

PrimaryAttempt(outcome) ==
  /\ pc = "primary"
  /\ Conclude(primary, outcome)
  /\ UNCHANGED fallback_attempts

FallbackAttempt(outcome) ==
  /\ pc = "retry" /\ CanAttemptFallback
  /\ Conclude(fallback, outcome)
  /\ fallback_attempts' = fallback_attempts + 1

Escalate ==
  /\ pc = "retry" /\ ~CanAttemptFallback
  /\ pc' = "emit" /\ result' = Escalation(attempts)
  /\ UNCHANGED <<arguments, attempts, fallback_attempts, last_error, metrics>>

\* escalation_reason: the last error, which a later None overwrites.
EscalationReason == IF last_error = NoProvider THEN "extraction-unresolved" ELSE "error"

Measured(r) == [resolved |-> r.resolved, provider_used |-> r.provider_used,
                retry_count |-> r.retry_count, failure_count |-> r.failure_count]

\* The hook is called outside any try: when it raises, run does, and the
\* result is lost to the caller.
EmitMetrics ==
  /\ pc = "emit"
  /\ IF hook
       THEN metrics' = Append(metrics, Measured(result)) /\ pc' \in {"returned", "raised"}
       ELSE pc' = "returned" /\ UNCHANGED metrics
  /\ UNCHANGED <<arguments, attempts, fallback_attempts, last_error, result>>

Next ==
  \/ \E outcome \in Outcomes : PrimaryAttempt(outcome) \/ FallbackAttempt(outcome)
  \/ Escalate
  \/ EmitMetrics

Spec == Init /\ [][Next]_vars

-----------------------------------------------------------------------------
Finished == pc \in {"returned", "raised"}

TypeOK ==
  /\ primary \in Providers /\ fallback \in Providers
  /\ hook \in BOOLEAN
  /\ pc \in {"idle", "primary", "retry", "emit", "returned", "raised"}
  /\ attempts \in Seq([provider : {primary, fallback}, success : BOOLEAN, error : BOOLEAN])
  /\ fallback_attempts \in Nat
  /\ last_error \in Providers \cup {NoProvider}
  /\ result.route \in {"none"} \cup Open
  /\ result.resolved => result.provider_used \in Providers

(***************************************************************************)
(* Retries use the policy up and no more: an unresolved package was tried  *)
(* exactly as often as both limits allow (once when the two providers are  *)
(* the same, and once even under a policy of no attempts at all), and a    *)
(* resolved one at most as often (_can_attempt_fallback, RetryPolicy).     *)
(***************************************************************************)
Allowance ==
  IF primary = fallback THEN 1
  ELSE Max({1, Min({policy.max_total_attempts, 1 + policy.max_fallback_attempts})})

RetriesUsePolicyUp ==
  /\ Len(attempts) <= Allowance
  /\ (Finished /\ ~result.resolved) => Len(attempts) = Allowance

(***************************************************************************)
(* The result tells what happened: it is resolved exactly when the last    *)
(* attempt, and no other, succeeded, and names that provider; the retry    *)
(* and failure counts add up with the attempts; ops_review is asked for    *)
(* exactly when primary and fallback both failed.  The metrics hook is     *)
(* called once per run, if there is one, with the figures of that result.  *)
(* And no failure is swallowed: every exception an extractor raised on the *)
(* way to an escalation is in the payload, also when a later attempt that  *)
(* returned None erased it from last_error and so from the reason.         *)
(***************************************************************************)
ResultTellsAttempts ==
  Finished =>
    LET n == Len(attempts) IN
      /\ \A k \in 1..n : attempts[k].success <=> (result.resolved /\ k = n)
      /\ result.provider_used = IF result.resolved THEN attempts[n].provider ELSE NoProvider
      /\ result.retry_count = fallback_attempts
      /\ result.failure_count + (IF result.resolved THEN 1 ELSE 0) = n
      /\ (result.route = "ops_review") <=>
           (~result.resolved /\ {primary, fallback} = {attempts[k].provider : k \in 1..n}
              /\ primary # fallback)
      /\ metrics = IF hook THEN <<Measured(result)>> ELSE <<>>
      /\ ~result.resolved =>
           /\ result.errors = {k \in 1..n : attempts[k].error}
           /\ (EscalationReason = "error") => attempts[n].error
=============================================================================
