----------------------------- MODULE CrossCheck ----------------------------
(***************************************************************************)
(* The cross-check of key numeric fields (extraction/cross_check.py) and   *)
(* the tolerance it shares with performance/conflict_resolver.py.  It      *)
(* takes what several documents or providers say of a field, accepts the   *)
(* most trusted value and escalates when any two differ by more than the   *)
(* tolerance.  All of it is pure.                                          *)
(*                                                                         *)
(* A text is a natural number, greater for the string that sorts later,    *)
(* and so is a source; Number says what a text is read as, in integers, so *)
(* that percentages are compared without rounding.                         *)
(***************************************************************************)
EXTENDS Integers, Sequences, FiniteSets, FiniteSetsExt

CONSTANTS KeyNumericFields,  \* DEFAULT_KEY_NUMERIC_FIELDS
          Texts, Number,     \* _parse_numeric_value, from Texts
          NotANumber,        \* its None
          NoObservation,     \* accepted_value = None
          TolerancePercent   \* DEFAULT_ESCALATION_THRESHOLD_PERCENT

ASSUME TextsAreRead ==
  Texts \subseteq Nat /\ \A t \in Texts : Number[t] \in Int \cup {NotANumber}

\* validate_percentage_threshold.
ASSUME ToleranceIsPercentage == TolerancePercent \in 0..100

Magnitude(n) == IF n < 0 THEN -n ELSE n

\* relative_difference_percent and values_exceed_tolerance.  Two zeros agree:
\* the denominator's lower bound only keeps the division defined.
ExceedsTolerance(a, b) ==
  100 * Magnitude(a - b) > TolerancePercent * Max({Magnitude(a), Magnitude(b)})

\* A field of a document, as _observations_from_result takes it over; its key
\* need not be one that is checked.
Observation == [key : STRING, text : Texts, confidence : 0..100, source : Nat]

\* The observations are told apart by their places, a document and a position in
\* it: two documents may say the same.
Places(documents) ==
  UNION {{<<d, i>> : i \in 1..Len(documents[d])} : d \in 1..Len(documents)}

At(documents, p) == documents[p[1]][p[2]]

ReadAt(documents, p) == Number[At(documents, p).text]

Observed(documents, key) == {p \in Places(documents) : At(documents, p).key = key}

Parsed(documents, places) == {p \in places : ReadAt(documents, p) # NotANumber}

\* The key max compares by: confidence, then source, then value.
Outranks(o, p) ==
  \/ o.confidence > p.confidence
  \/ o.confidence = p.confidence /\ o.source > p.source
  \/ o.confidence = p.confidence /\ o.source = p.source /\ o.text > p.text

\* _select_accepted_observation.
Accepted(os) == CHOOSE o \in os : \A p \in os : ~Outranks(p, o)

\* Each value is compared with the accepted one only.
SomePairDiffers_slip(documents, places) ==
  \E p \in places :
    ExceedsTolerance(Number[Accepted({At(documents, q) : q \in places}).text],
                     ReadAt(documents, p))

\* _first_disagreement is not None.
SomePairDiffers(documents, places) ==
  \E p, q \in places : ExceedsTolerance(ReadAt(documents, p), ReadAt(documents, q))

\* _cross_check_field.  A value that cannot be read escalates, also when the
\* caller has disabled the comparison of values.
FieldCrossCheck(documents, key, disabled) ==
  LET observed == Observed(documents, key)
      parsed == Parsed(documents, observed)
  IN [key |-> key,
      accepted |-> IF parsed = {} THEN NoObservation
                   ELSE Accepted({At(documents, p) : p \in parsed}),
      escalate |-> parsed # observed \/ (~disabled /\ SomePairDiffers(documents, parsed))]

\* cross_check_extraction_results: one decision for each field seen twice.
CrossCheckReport(documents, disabled) ==
  {FieldCrossCheck(documents, k, disabled) :
     k \in {k \in KeyNumericFields : Cardinality(Observed(documents, k)) > 1}}

\* CrossCheckReport.escalate, and whether a queue item is created.
ReportEscalates(report) == \E d \in report : d.escalate
=============================================================================
