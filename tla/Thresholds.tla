----------------------------- MODULE Thresholds ----------------------------
(***************************************************************************)
(* The threshold policy (extraction/confidence.py): whether the fields of  *)
(* an extraction result let a document pass, or a human must look at it.   *)
(* Confidences, and the coverage that is required, are in percent.         *)
(***************************************************************************)
EXTENDS Integers, Sequences, FiniteSets, SequencesExt, Functions

Percent == 0..100

\* ThresholdConfig; the profiles are an argument of their own.  A value that
\* is not in the range is refused when the file is read (parse_threshold_float).
ThresholdConfig(keys) ==
  [field_auto_accept_min : Percent, key_field_confidence_min : Percent,
   document_key_field_coverage_min : Percent, mandatory_field_min : Percent,
   mandatory_fields : SUBSET keys]

\* A duplicate key keeps the field of higher confidence.
Better(field, best) == field.confidence > best.confidence

\* field_by_key, which the first loop of evaluate_thresholds leaves: of the fields
\* with a key the first one than which none is better.
FieldByKey(fields) ==
  [k \in {f.key : f \in ToSet(fields)} |->
     fields[CHOOSE i \in 1..Len(fields) :
              /\ fields[i].key = k
              /\ \A j \in 1..Len(fields) : fields[j].key = k =>
                   ~Better(fields[j], fields[i]) /\ (j < i => Better(fields[i], fields[j]))]]

\* A duplicate is noted only where it takes the place of the earlier field.
DuplicateKeys_slip(fields) ==
  {fields[j].key : j \in {j \in 1..Len(fields) :
     \E i \in 1..(j - 1) : fields[i].key = fields[j].key /\ Better(fields[j], fields[i])}}

\* duplicate_keys.
DuplicateKeys(fields) ==
  {f.key : f \in {f \in ToSet(fields) :
     Cardinality({i \in 1..Len(fields) : fields[i].key = f.key}) > 1}}

\* auto_accept_fields, whose order is that of the fields.
AutoAccepted(fields, config) ==
  LET accepted == SelectSeq(fields, LAMBDA f : f.confidence >= config.field_auto_accept_min)
  IN [i \in 1..Len(accepted) |-> accepted[i].key]

\* The key fields that count, of a result whose fields are best.
Eligible(best, key_fields, config) ==
  {k \in key_fields \cap DOMAIN best : best[k].confidence >= config.key_field_confidence_min}

\* key_field_coverage_ratio >= document_key_field_coverage_min; a document of
\* which no field is expected is covered.
CoverageMet(best, key_fields, config) ==
  100 * Cardinality(Eligible(best, key_fields, config))
    >= config.document_key_field_coverage_min * Cardinality(key_fields)

MandatoryFailures(best, config) ==
  {<<"missing_mandatory_field", k>> : k \in config.mandatory_fields \ DOMAIN best} \cup
  {<<"confidence_below_threshold", k>> :
     k \in {k \in config.mandatory_fields \cap DOMAIN best :
              best[k].confidence < config.mandatory_field_min}}

\* evaluate_thresholds.  The reasons are a set: their order in the message is
\* that of the configuration and the alphabet, whatever that of the fields.
ThresholdDecision(fields, key_fields, config) ==
  LET best == FieldByKey(fields)
      failures == MandatoryFailures(best, config) \cup
                  {<<"duplicate_field_key", k>> : k \in DuplicateKeys(fields)}
      covered == CoverageMet(best, key_fields, config)
  IN [auto_accept_fields |-> AutoAccepted(fields, config),
      eligible |-> Eligible(best, key_fields, config),
      auto_pass_document |-> failures = {} /\ covered,
      escalate |-> failures # {} \/ ~covered,
      reasons |-> IF failures # {} THEN failures
                  ELSE IF covered THEN {} ELSE {<<"low_key_field_coverage">>}]

\* select_threshold_profile, of a configuration whose document profiles are
\* given as a function; a type without one has the caller's key fields.
SelectedProfile(document_type, key_fields, config, profiles) ==
  IF document_type \in DOMAIN profiles THEN profiles[document_type]
  ELSE [key_fields |-> key_fields, config |-> config]
=============================================================================
