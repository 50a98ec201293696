----------------------------- MODULE PrVerifier -----------------------------
(***************************************************************************)
(* The verification of a merged pull request by language models            *)
(* (scripts/langchain/pr_verifier.py): one judge in evaluate_pr, two in    *)
(* evaluate_pr_multiple, each deciding by one request if the whole change  *)
(* fits, and else by requests for whole files that a last request          *)
(* reconciles.  Judges and the network are the environment: a request      *)
(* raises, or is answered with anything the schema of answers allows.      *)
(*                                                                         *)
(* The sources other than the code are seen only as a shortfall: what      *)
(* build_prompt_inputs finds wrong with them in a prompt.  The text of a   *)
(* concern is the changed paths it names.                                  *)
(***************************************************************************)
EXTENDS Integers, Sequences, FiniteSets, SequencesExt, FiniteSetsExt

CONSTANTS Paths,        \* the names of changed files
          Elsewhere,    \* a name that is no changed file's
          Pulls,        \* the pull requests to verify
          Uses,         \* how the verifier is called
          Budget,       \* VERIFIER_DIFF_BUDGET_TOKENS, in the unit of sizes
          MaxChunks,    \* MAX_REVIEW_CHUNKS
          MaxRequests,  \* PARTITION_MAX_REQUESTS
          MaxCounts,    \* PARTITION_MAX_PLANNING_COUNTS
          InputLength,  \* of each of the two inputs, context and diff
          Answers,      \* what a judge may say of the code
          Syntheses,    \* what it may say of its own reviews
          Slots,        \* the two judges that are configured
          Spare,        \* another, for want of one of them
          Nobody        \* provider_used = None

Verdicts == {"PASS", "CONCERNS", "FAIL", "UNVERIFIABLE_INPUT"}

File == [path : Paths, size : Nat \ {0}, binary : BOOLEAN]

\* What falls short in the sources of a prompt: a source that could not be read
\* in full, or required evidence that a complete lookup did not find.
Shortfalls == {"none", "input", "evidence"}

\* known: no header of the diff hides a path.  sections: the context has the
\* headings of the context builder.
Pull == [files : Seq(File), known : BOOLEAN, sections : BOOLEAN, shortfall : Shortfalls]

\* A concern names paths, and may be deferred to siblings.
Concern == [names : SUBSET Paths, siblings : SUBSET Paths]

Resolution == [chunk : Nat, concern : Nat, support : SUBSET Paths]

\* EvaluationPayload.  retrieval: a FAIL all of whose statements say that some
\* evidence could not be retrieved (_retrieval_only_failure).
Answer == [kind : {"answer"}, verdict : Verdicts, not_reviewed : SUBSET (Paths \cup {Elsewhere}),
           reviewed : SUBSET Paths, concerns : Seq(Concern), retrieval : BOOLEAN,
           resolves : SUBSET Resolution]

ASSUME AnswersArePayloads ==
  /\ Answers \subseteq Answer /\ Syntheses \subseteq Answer
  /\ Pulls \subseteq Pull /\ Elsewhere \notin Paths

\* mode: evaluate_pr, or evaluate_pr_multiple and what makes a verdict of its
\* results.  profile: VERIFIER_EVIDENCE_PROFILE, "diagnostic" when partition
\* recovery is switched on too.  clients: the judges for whom there are clients.
Use == [mode : {"evaluate", "compare"}, profile : {"standard", "expanded", "diagnostic"},
        clients : Seq(Slots \cup {Spare})]

ASSUME UsesAreUses ==
  \A u \in Uses : u \in Use /\ Len(u.clients) <= IF u.mode = "compare" THEN 2 ELSE 1

ASSUME LimitsArePositive ==
  {Budget, MaxChunks, MaxRequests, MaxCounts, InputLength} \subseteq Nat \ {0}

ASSUME TwoSlots == Cardinality(Slots) = 2 /\ Spare \notin Slots /\ Nobody \notin Slots \cup {Spare}

\* An answer outside the schema, and the exceptions of a request.
Malformed == [kind |-> "malformed"]

Raised == {[kind |-> k] : k \in {"auth", "overflow", "other"}}

\* What is kept of a request that was not made, or raised.
NoAnswer == [kind |-> "none"]

VARIABLES pull,
          mode, profile,
          clients,  \* the judges to ask, the first of them now
          pc,
          chunks,   \* the files of each request
          reviews,  \* chunk_reviews, and the results of a partition
          pending,  \* the ranges of the input not yet planned
          ranges,   \* the planned ones
          counts,   \* planning_preflights
          answer,   \* raw_content: the last answer that is not in reviews
          result,   \* EvaluationResult of the judge
          arms,     \* results, of the judges before
          verdict   \* of the comparison

verifierVars == <<pull, mode, profile, clients, pc, chunks, reviews, pending, ranges, counts,
          answer, result, arms, verdict>>

inputs == <<pull, mode, profile>>

partition == <<pending, ranges, counts>>

NoResult == [verdict |-> "none", used_llm |-> FALSE, error |-> FALSE, not_reviewed |-> {},
             concerns |-> <<>>, retrieval |-> FALSE]

VerifierInit ==
  /\ pull \in Pulls
  /\ \E use \in Uses : mode = use.mode /\ profile = use.profile /\ clients = use.clients
  /\ pc = "start" /\ chunks = <<>> /\ reviews = <<>>
  /\ pending = <<>> /\ ranges = <<>> /\ counts = 0
  /\ answer = NoAnswer /\ result = NoResult /\ arms = <<>> /\ verdict = "none"

-----------------------------------------------------------------------------
(***************************************************************************)
(* The change and its division into requests.                              *)
(***************************************************************************)
SizeOf(files) ==
  LET total[n \in 0..Len(files)] == IF n = 0 THEN 0 ELSE total[n - 1] + files[n].size
  IN total[Len(files)]

Changed == {f.path : f \in ToSet(pull.files)}

Binary == {f.path : f \in {g \in ToSet(pull.files) : g.binary}}

\* One step of the packing: a file joins the last request if both fit, opens
\* another if there may be one, and otherwise is left out.  A file larger than
\* the budget gets a request of its own.
Placed(packed, file) ==
  LET opened == Append(packed, [files |-> {file.path}, size |-> file.size]) IN
  IF file.binary THEN packed
  ELSE IF packed # <<>> /\ Last(packed).size + file.size <= Budget
    THEN Append(Front(packed), [files |-> Last(packed).files \cup {file.path},
                                size |-> Last(packed).size + file.size])
  ELSE IF Len(packed) < MaxChunks THEN opened ELSE packed

Packing(files) ==
  LET packed[n \in 0..Len(files)] ==
        IF n = 0 THEN <<>> ELSE Placed(packed[n - 1], files[n])
  IN packed[Len(files)]

-----------------------------------------------------------------------------
(***************************************************************************)
(* Results.                                                                *)
(***************************************************************************)
Result(v, used, error, not_reviewed) ==
  [NoResult EXCEPT !.verdict = v, !.used_llm = used, !.error = error,
                   !.not_reviewed = not_reviewed]

\* _fallback_evaluation.
FallbackEvaluation == Result("CONCERNS", FALSE, TRUE, {})

\* No request is made on sources that fall short.  Evidence that is known to be
\* absent is a finding.
Unavailable(shortfall, not_reviewed) ==
  Result(IF shortfall = "evidence" THEN "CONCERNS" ELSE "UNVERIFIABLE_INPUT", FALSE, FALSE,
         not_reviewed)

\* _parse_llm_response.
Parsed(a) ==
  IF a.kind = "malformed" THEN Result("CONCERNS", TRUE, TRUE, {})
  ELSE [verdict |-> a.verdict, used_llm |-> TRUE, error |-> FALSE,
        not_reviewed |-> a.not_reviewed, concerns |-> a.concerns, retrieval |-> a.retrieval]

\* _apply_coverage_floor, of a prompt whose sources do not fall short but which
\* may have no code in it.
Floored(r, code) ==
  IF r.verdict = "PASS" /\ r.used_llm /\ (~code \/ r.not_reviewed # {})
    THEN [r EXCEPT !.verdict = "UNVERIFIABLE_INPUT"] ELSE r

\* comparison_verdict, of some results.
ComparisonVerdict(rs) ==
  IF \E r \in rs : r.verdict = "FAIL" /\ ~r.retrieval THEN "FAIL"
  ELSE IF \E r \in rs : r.verdict = "CONCERNS" /\ ~r.error THEN "CONCERNS"
  ELSE IF \E r \in rs : r.verdict \in {"FAIL", "UNVERIFIABLE_INPUT"} \/ r.error \/ ~r.used_llm
    THEN "UNVERIFIABLE_INPUT" ELSE "PASS"

Conclude(r) == pc' = "judged" /\ result' = r

-----------------------------------------------------------------------------
(***************************************************************************)
(* A judge begins: refuse the input, send it whole, or divide it.          *)
(***************************************************************************)
Ambiguous == Cardinality(Changed) # Len(pull.files)

Fits == SizeOf(pull.files) <= Budget /\ Binary = {}

HasSource == pull.files # <<>> \/ pull.sections

\* build_prompt_inputs knows no code where a path is hidden or there is none.
HasCode == pull.files # <<>> /\ pull.known

\* Text can be reviewed beside binary files, but not binary files alone.
OnlyBinary == pull.files # <<>> /\ Changed = Binary

\* evaluate_pr without a client, and evaluate_pr_multiple without two of them.  The
\* files that would not have fitted, which the result lists, are left out.
NoJudge ==
  /\ pc = "start" /\ arms = <<>>
  /\ Len(clients) < (IF mode = "compare" THEN 2 ELSE 1)
  /\ Conclude(FallbackEvaluation) /\ clients' = <<Nobody>>
  /\ UNCHANGED <<inputs, chunks, reviews, partition, answer, arms, verdict>>

\* _evaluate_chunked up to the first request.
Begin ==
  /\ pc = "start" /\ (arms = <<>> => Len(clients) >= (IF mode = "compare" THEN 2 ELSE 1))
  /\ IF Ambiguous
       THEN Conclude(Result("UNVERIFIABLE_INPUT", FALSE, FALSE, Changed)) /\ UNCHANGED chunks
     ELSE IF Fits
       THEN /\ IF HasSource /\ (pull.shortfall # "none" \/ ~HasCode)
                 THEN Conclude(Unavailable(pull.shortfall, IF pull.known THEN Changed ELSE {}))
                 ELSE pc' = "direct" /\ UNCHANGED result
            /\ UNCHANGED chunks
     ELSE IF ~pull.known
       THEN Conclude(Unavailable("input", {Elsewhere})) /\ UNCHANGED chunks
     ELSE IF pull.shortfall # "none" \/ OnlyBinary
       THEN Conclude(Unavailable(pull.shortfall, Changed)) /\ UNCHANGED chunks
       ELSE /\ chunks' = [i \in 1..Len(Packing(pull.files)) |-> Packing(pull.files)[i].files]
            /\ pc' = "chunks" /\ UNCHANGED result
  /\ UNCHANGED <<inputs, clients, reviews, partition, answer, arms, verdict>>

-----------------------------------------------------------------------------
(***************************************************************************)
(* One request that has the whole change.                                  *)
(***************************************************************************)
\* Both inputs are there; an empty one would have no range.
WholeInputs ==
  <<[input |-> "context", start |-> 0, end |-> InputLength],
    [input |-> "diff", start |-> 0, end |-> InputLength]>>

Recovers(a) == a.kind = "overflow" /\ profile = "diagnostic"

\* Another provider may be asked after an authentication error, unless the caller
\* named one, or none other is to be had.
MayFallBack(a) == a.kind = "auth" /\ mode = "evaluate" /\ profile = "standard"

Direct(a) ==
  /\ pc = "direct"
  /\ IF a \notin Raised
       THEN Conclude(Floored(Parsed(a), HasCode)) /\ answer' = a
       ELSE /\ \/ Recovers(a) /\ pc' = "plan" /\ UNCHANGED result
               \/ MayFallBack(a) /\ pc' = "fallback" /\ UNCHANGED result
               \/ ~Recovers(a) /\ Conclude(FallbackEvaluation)
            /\ UNCHANGED answer
  /\ pending' = IF pc' = "plan" THEN WholeInputs ELSE pending
  /\ UNCHANGED <<inputs, clients, chunks, reviews, ranges, counts, arms, verdict>>

\* The answer of the fallback provider.  One with a summary is copied into another
\* result, without the files it says were not reviewed.
Fallback(a, summarised) ==
  /\ pc = "fallback"
  /\ IF a \in Raised THEN Conclude(FallbackEvaluation) /\ UNCHANGED answer
     ELSE /\ Conclude(Floored(IF summarised /\ a.kind = "answer"
                                THEN [Parsed(a) EXCEPT !.error = TRUE, !.not_reviewed = {}]
                                ELSE Parsed(a), HasCode))
          /\ answer' = a
  /\ UNCHANGED <<inputs, clients, chunks, reviews, partition, arms, verdict>>

-----------------------------------------------------------------------------
(***************************************************************************)
(* A prompt that overflows may be divided, for diagnosis only.             *)
(***************************************************************************)
Blocked == Conclude(Result("CONCERNS", FALSE, TRUE, {}))

Exhausted == counts >= Min({MaxCounts, 2 * MaxRequests - 1})

\* What _plan_diagnostic_partitions refuses before it counts anything.
RefusePlan ==
  /\ pc = "plan" /\ counts = 0
  /\ Blocked
  /\ UNCHANGED <<inputs, clients, chunks, reviews, partition, answer, arms, verdict>>

\* The second half begins after the middle.
Halves_slip(r) ==
  LET middle == r.start + (r.end - r.start) \div 2
  IN <<[r EXCEPT !.end = middle], [r EXCEPT !.start = middle + 1]>>

Halves(r) ==
  LET middle == r.start + (r.end - r.start) \div 2
  IN <<[r EXCEPT !.end = middle], [r EXCEPT !.start = middle]>>

\* The range at hand is counted: it fits, overflows, or cannot be counted.  What
\* blocks the plan stays pending.
PlanRange(count) ==
  /\ pc = "plan" /\ pending # <<>>
  /\ LET r == Head(pending)
         rest == Tail(pending)
         divisible == r.end - r.start > 1 /\ Len(ranges) + Len(rest) + 2 <= MaxRequests
     IN IF Exhausted THEN Blocked /\ UNCHANGED partition
        ELSE /\ counts' = counts + 1
             /\ CASE count = "fits" ->
                       /\ ranges' = Append(ranges, r) /\ pending' = rest
                       /\ UNCHANGED <<pc, result>>
                  [] count = "overflow" /\ divisible ->
                       pending' = Halves(r) \o rest /\ UNCHANGED <<pc, result, ranges>>
                  [] OTHER -> Blocked /\ UNCHANGED <<pending, ranges>>
  /\ UNCHANGED <<inputs, clients, chunks, reviews, answer, arms, verdict>>

\* The result of the partition so far.
Diagnosis(rs) ==
  Result(IF \E i \in 1..Len(rs) : rs[i].result.verdict = "FAIL" THEN "FAIL" ELSE "CONCERNS",
         \E i \in 1..Len(rs) : rs[i].answer # NoAnswer,
         \E i \in 1..Len(rs) : rs[i].result.error, {})

\* A range is reviewed, once every range is planned.  A request that raises, or
\* that is no longer the one that was counted, ends the diagnosis.
ReviewRange(a) ==
  /\ pc = "plan" /\ pending = <<>> /\ Len(reviews) < Len(ranges)
  /\ LET review == IF a \in Raised
                     THEN [files |-> {}, answer |-> NoAnswer,
                           result |-> Result("none", FALSE, TRUE, {})]
                     ELSE [files |-> {}, answer |-> a, result |-> Parsed(a)]
         rs == Append(reviews, review)
     IN /\ reviews' = rs
        /\ IF a \in Raised \/ Len(rs) = Len(ranges)
             THEN Conclude(Diagnosis(rs)) ELSE UNCHANGED <<pc, result>>
  /\ UNCHANGED <<inputs, clients, chunks, partition, answer, arms, verdict>>

-----------------------------------------------------------------------------
(***************************************************************************)
(* Requests for some files each, and their reconciliation.                 *)
(***************************************************************************)
LocalResult(files, a) ==
  IF a \in Raised THEN Result("UNVERIFIABLE_INPUT", FALSE, TRUE, files)
  ELSE LET r == Parsed(a)
       IN Floored([r EXCEPT !.not_reviewed = r.not_reviewed \cap files], TRUE)

\* shortfall: that of this prompt, which has its own guidance and its own fit.
ReviewChunk(a, shortfall) ==
  /\ pc = "chunks" /\ Len(reviews) < Len(chunks)
  /\ LET files == chunks[Len(reviews) + 1] IN
       reviews' = Append(reviews,
         IF shortfall # "none"
           THEN [files |-> files, answer |-> NoAnswer, result |-> Unavailable(shortfall, files)]
           ELSE [files |-> files, answer |-> IF a \in Raised THEN NoAnswer ELSE a,
                 result |-> LocalResult(files, a)])
  /\ UNCHANGED <<inputs, clients, pc, chunks, partition, answer, result, arms, verdict>>

\* Every file of an answered request counts.
Credit_slip(review) == IF review.result.used_llm THEN review.files ELSE {}

\* The files a review vouches for.  An answer that finds its input unverifiable
\* must name them.
Credit(review) ==
  IF review.result.used_llm /\ ~review.result.error
    THEN (IF review.answer.verdict = "UNVERIFIABLE_INPUT"
            THEN review.files \cap review.answer.reviewed ELSE review.files)
         \ review.result.not_reviewed
    ELSE {}

Reviewed == UNION {Credit(r) : r \in ToSet(reviews)}

\* unknown_review_paths.
Unknown ==
  (UNION {r.answer.not_reviewed : r \in {r \in ToSet(reviews) : r.answer.kind = "answer"}})
    \ Changed

NotReviewed == (Changed \ Reviewed) \cup Binary \cup Unknown

Local == {r.result : r \in ToSet(reviews)}

\* The aggregate; it mentions every error.
Aggregate(v, rs, not_reviewed) ==
  Result(v, \E r \in rs : r.used_llm, \E r \in rs : r.error, not_reviewed)

Reconcilable == NotReviewed = {} /\ \A r \in Local : r.used_llm /\ ~r.error

SettleChunks ==
  /\ pc = "chunks" /\ Len(reviews) = Len(chunks)
  /\ IF Reconcilable THEN pc' = "synthesis" /\ UNCHANGED result
     ELSE LET v == ComparisonVerdict(Local) IN
            Conclude(Aggregate(IF v = "PASS" /\ NotReviewed # {} THEN "UNVERIFIABLE_INPUT" ELSE v,
                               Local, NotReviewed))
  /\ UNCHANGED <<inputs, clients, chunks, reviews, partition, answer, arms, verdict>>

\* The support of a resolution need not have been reviewed elsewhere.
Resolves_slip(resolution, reviewed) ==
  /\ resolution.chunk \in 1..Len(reviews)
  /\ LET local == reviews[resolution.chunk] IN
       /\ local.result.verdict = "CONCERNS"
       /\ resolution.concern \in 1..Len(local.result.concerns)
       /\ local.result.concerns[resolution.concern].siblings # {}

\* What reconciliation may discharge: a concern about siblings that it names, and
\* names no file of its own request, all of them reviewed and cited in support.
Resolves(resolution, reviewed) ==
  /\ resolution.chunk \in 1..Len(reviews)
  /\ LET local == reviews[resolution.chunk] IN
       /\ local.result.verdict = "CONCERNS"
       /\ resolution.concern \in 1..Len(local.result.concerns)
       /\ LET c == local.result.concerns[resolution.concern] IN
            /\ c.siblings # {} /\ c.siblings \subseteq resolution.support
            /\ resolution.support \subseteq reviewed \ local.files
            /\ c.siblings \subseteq c.names /\ c.names \cap local.files = {}

\* A result without the concerns that are resolved, the i-th's.
Discharged(i, resolved) ==
  LET r == reviews[i].result
      open == {k \in 1..Len(r.concerns) :
                 ~\E s \in resolved : s.chunk = i /\ s.concern = k}
  IN IF r.verdict = "CONCERNS" /\ r.concerns # <<>> /\ open = {}
       THEN [r EXCEPT !.verdict = "PASS"] ELSE r

Synthesize(a) ==
  /\ pc = "synthesis"
  /\ LET s == IF a \in Raised THEN Result("UNVERIFIABLE_INPUT", FALSE, TRUE, {})
              ELSE Floored(Parsed(a), TRUE)
         reviewed == Reviewed \ s.not_reviewed
         resolved == IF s.used_llm /\ ~s.error /\ s.verdict # "UNVERIFIABLE_INPUT"
                       THEN {x \in a.resolves : Resolves(x, reviewed)} ELSE {}
         rs == {Discharged(i, resolved) : i \in 1..Len(reviews)} \cup {s}
     IN Conclude(Aggregate(ComparisonVerdict(rs), rs, s.not_reviewed))
  /\ answer' = IF a \in Raised THEN NoAnswer ELSE a
  /\ UNCHANGED <<inputs, clients, chunks, reviews, partition, arms, verdict>>

-----------------------------------------------------------------------------
(***************************************************************************)
(* The comparison of two judges.                                           *)
(***************************************************************************)

\* The result joins those printed, and the next judge begins.
NextJudge ==
  /\ pc = "judged" /\ mode = "compare"
  /\ arms' = Append(arms, [judge |-> Head(clients), verdict |-> result.verdict,
                        used_llm |-> result.used_llm, error |-> result.error])
  /\ clients' = Tail(clients)
  /\ pc' = IF Len(clients) = 1 THEN "printed" ELSE "start"
  /\ chunks' = <<>> /\ reviews' = <<>> /\ pending' = <<>> /\ ranges' = <<>> /\ counts' = 0
  /\ answer' = NoAnswer /\ result' = NoResult
  /\ UNCHANGED <<inputs, verdict>>

\* An arm counts that is of a configured judge, who was asked or could not be.
Bound(arm) ==
  arm.judge \in Slots /\ (arm.used_llm \/ arm.verdict = "UNVERIFIABLE_INPUT")

\* expanded_comparison_verdict, of arms that the schema of results admits.
ExpandedVerdict(as) ==
  LET bound == {a \in ToSet(as) : Bound(a)}
      said == {a.verdict : a \in bound}
      complete == {a.judge : a \in bound} = Slots /\ Len(as) = 2
      clean == said \subseteq {"PASS", "UNVERIFIABLE_INPUT"} /\ \A a \in bound : ~a.error
  IN IF "FAIL" \in said THEN "FAIL"
     ELSE IF ~complete \/ ~clean THEN "CONCERNS"
     ELSE IF "UNVERIFIABLE_INPUT" \in said THEN "UNVERIFIABLE_INPUT" ELSE "PASS"

Admit ==
  /\ pc = "printed" /\ pc' = "admitted"
  /\ verdict' = ExpandedVerdict(arms)
  /\ UNCHANGED <<inputs, clients, chunks, reviews, partition, answer, result, arms>>

VerifierNext ==
  \/ NoJudge \/ Begin \/ RefusePlan \/ SettleChunks \/ NextJudge \/ Admit
  \/ \E count \in {"fits", "overflow", "uncounted"} : PlanRange(count)
  \/ \E a \in Answers \cup {Malformed} \cup Raised :
       \/ Direct(a) \/ ReviewRange(a)
       \/ \E summarised \in BOOLEAN : Fallback(a, summarised)
       \/ \E shortfall \in Shortfalls : ReviewChunk(a, shortfall)
  \/ \E a \in Syntheses \cup {Malformed} \cup Raised : Synthesize(a)

VerifierSpec == VerifierInit /\ [][VerifierNext]_verifierVars

-----------------------------------------------------------------------------
Answered(review) == review.answer.kind = "answer"

\* What stands behind the PASS of a judge.
JudgeSawAll ==
  (pc = "judged" /\ result.verdict = "PASS") =>
    /\ HasCode /\ pull.shortfall = "none" /\ Binary = {} /\ ~Ambiguous
    /\ answer.kind = "answer" /\ answer.verdict = "PASS"
    /\ answer.not_reviewed = {} \/ (result.error /\ mode = "evaluate")
    /\ IF reviews = <<>> THEN SizeOf(pull.files) <= Budget
       ELSE /\ ~result.error
            /\ \A p \in Changed : \E r \in ToSet(reviews) :
                 p \in r.files /\ Answered(r) /\ p \notin r.answer.not_reviewed
            /\ \A r \in ToSet(reviews) : Elsewhere \notin r.answer.not_reviewed

\* And behind that of a comparison.
BothPassed ==
  verdict = "PASS" =>
    /\ {a.judge : a \in ToSet(arms)} = Slots
    /\ \A a \in ToSet(arms) : a.verdict = "PASS" /\ ~a.error

(***************************************************************************)
(* A PASS rests on reviews: every changed file was sent, whole, in a       *)
(* request that was answered, and nobody disowned it: not the answer it    *)
(* was sent for, not the reconciliation of several requests, which itself  *)
(* passed; and no answer named a file nobody knows of.  No binary, no path *)
(* changed twice, no shortfall in the other sources.  A comparison passes  *)
(* only when both configured judges do ("Never let a PASS stand on         *)
(* evidence the model did not receive", _apply_coverage_floor).            *)
(* Exempt is what the answer of a fallback provider lists as not reviewed, *)
(* which the code drops; such a PASS carries an error.                     *)
(***************************************************************************)
PassRestsOnReviews == JudgeSawAll /\ BothPassed

Said(v) == {a \in {r.answer : r \in ToSet(reviews)} \cup {answer} :
              a.kind = "answer" /\ a.verdict = v}

\* The k-th concern of the i-th request is about files reviewed elsewhere.
MetElsewhere(i, k) ==
  LET c == reviews[i].answer.concerns[k]
      vouched == UNION {Credit(reviews[j]) : j \in (1..Len(reviews)) \ {i}}
  IN /\ c.siblings # {} /\ c.siblings \subseteq c.names \cap vouched
     /\ c.names \cap reviews[i].files = {}
     /\ \E s \in answer.resolves : s.chunk = i /\ s.concern = k /\ c.siblings \subseteq s.support

\* What a judge found is in the result.
JudgeKeepsFindings ==
  pc = "judged" =>
    /\ (\E a \in Said("FAIL") : ~a.retrieval) => result.verdict = "FAIL"
    /\ Said("FAIL") # {} => result.verdict # "PASS"
    /\ result.verdict \in {"PASS", "UNVERIFIABLE_INPUT"} =>
         \A a \in Said("CONCERNS") : a # answer /\ a.concerns # <<>>
    /\ result.verdict = "PASS" =>
         \A i \in 1..Len(reviews) : reviews[i].answer.verdict = "CONCERNS" =>
           \A k \in 1..Len(reviews[i].answer.concerns) : MetElsewhere(i, k)

\* And what either of two found, in the verdict.
EitherFails ==
  pc = "admitted" =>
    ((\E a \in ToSet(arms) : a.judge \in Slots /\ a.verdict = "FAIL") => verdict = "FAIL")

(***************************************************************************)
(* A finding survives everything that follows it: a judge who once said    *)
(* FAIL, for more than evidence that could not be retrieved, fails the     *)
(* request, the change and the comparison, whatever others say, do not say *)
(* or fail to say; and a concern is lost only when all of its answer are   *)
(* about files sent elsewhere, which were reviewed there, and the          *)
(* reconciliation says how each is met.                                    *)
(***************************************************************************)
FindingsSurvive == JudgeKeepsFindings /\ EitherFails

\* The second of two ranges begins where the first ends, or the second input does.
Continues(r, s) ==
  \/ s.input = r.input /\ s.start = r.end
  \/ r.input = "context" /\ r.end = InputLength /\ s.input = "diff" /\ s.start = 0

\* Ranges that go through both inputs, without gap or overlap.
Divides(rs) ==
  /\ rs # <<>> /\ Head(rs).input = "context" /\ Head(rs).start = 0
  /\ Last(rs).input = "diff" /\ Last(rs).end = InputLength
  /\ \A i \in 1..Len(rs) : rs[i].start < rs[i].end
  /\ \A i \in 1..(Len(rs) - 1) : Continues(rs[i], rs[i + 1])

(***************************************************************************)
(* "Accepted leaves and these pending ranges still account for every input *)
(* character": the ranges planned and pending divide both inputs without   *)
(* gap or overlap, also when the plan is blocked; there are never more     *)
(* than may be requested, nor more counted than may be; none is reviewed   *)
(* before all are planned, and no diagnosis passes                         *)
(* (_plan_diagnostic_partitions, _maybe_recover_partition_diagnostics).    *)
(***************************************************************************)
RangesCoverInput ==
  (ranges # <<>> \/ pending # <<>>) =>
    /\ Divides(ranges \o pending)
    /\ Len(ranges) <= MaxRequests /\ counts < 2 * MaxRequests
    /\ reviews # <<>> => pending = <<>>
    /\ result.verdict \in {"none", "CONCERNS", "FAIL"}
=============================================================================
