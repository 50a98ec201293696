--------------------------- MODULE PipelineProofs ---------------------------
(***************************************************************************)
(* The safety of the pipeline and of the orchestrator it calls, for every  *)
(* bundle, content, threshold policy, retry policy and provider.  First    *)
(* the orchestrator: what a call has attempted so far, and what its result *)
(* says of it.  Then the cross-check, which compares all pairs where the   *)
(* property speaks of the highest and the lowest reading.  Last the run,   *)
(* stage by stage.                                                         *)
(***************************************************************************)
EXTENDS Pipeline, FiniteSetTheorems, SequenceTheorems, WellFoundedInduction, TLAPS

(***************************************************************************)
(* Where a call is decides what it has attempted: nothing, or the primary  *)
(* once and the fallback as often as it was counted, within both limits.   *)
(* Only the last attempt may have succeeded, and then the call is over.    *)
(***************************************************************************)
Attempt == [provider : {primary, fallback}, success : BOOLEAN, error : BOOLEAN]

CallTypeOK ==
  /\ primary \in Providers /\ fallback \in Providers
  /\ policy.max_total_attempts \in Int /\ policy.max_fallback_attempts \in Int
  /\ disabled \in BOOLEAN /\ hook \in BOOLEAN
  /\ pc \in {"idle", "primary", "retry", "emit", "returned", "raised"}
  /\ attempts \in Seq(Attempt)
  /\ fallback_attempts \in Nat
  /\ last_error \in Providers \cup {NoProvider}

Attempted ==
  /\ pc \in {"idle", "primary"} => attempts = <<>> /\ fallback_attempts = 0
  /\ pc \notin {"idle", "primary"} => Len(attempts) = fallback_attempts + 1
  /\ fallback_attempts > 0 =>
       /\ primary # fallback
       /\ fallback_attempts <= policy.max_fallback_attempts
       /\ fallback_attempts + 1 <= policy.max_total_attempts
  /\ \A k \in 1..Len(attempts) :
       /\ attempts[k].provider = IF k = 1 THEN primary ELSE fallback
       /\ attempts[k].success => k = Len(attempts) /\ pc # "retry"
       /\ attempts[k].error => ~attempts[k].success
  /\ (pc \notin {"idle", "primary"} /\ last_error # NoProvider
        /\ ~attempts[Len(attempts)].success) => attempts[Len(attempts)].error

(***************************************************************************)
(* A result is settled once, from the attempts there are then.             *)
(***************************************************************************)
Settles ==
  /\ pc \in {"idle", "primary", "retry"} => result = Pending /\ metrics = <<>>
  /\ pc \in {"emit", "returned", "raised"} =>
       /\ IF attempts[Len(attempts)].success THEN result = Resolved(attempts, result)
          ELSE result = Escalation(attempts) /\ ~CanAttemptFallback
       /\ metrics = IF hook /\ pc # "emit" THEN <<Measured(result)>> ELSE <<>>

CallInv == CallTypeOK /\ Attempted /\ Settles

LEMMA CallBegins ==
  ASSUME CallInv, Begin
  PROVE  CallInv'
BY DEF CallInv, CallTypeOK, Attempted, Attempt, Settles, Begin, arguments

LEMMA CallStutters ==
  ASSUME CallInv, UNCHANGED vars
  PROVE  CallInv'
<1>1. CallTypeOK' /\ Attempted'
  BY DEF CallInv, CallTypeOK, Attempted, Attempt, vars
<1>2. /\ CanAttemptFallback' = CanAttemptFallback
      /\ Escalation(attempts)' = Escalation(attempts)
      /\ Resolved(attempts, result)' = Resolved(attempts, result)
      /\ Measured(result)' = Measured(result)
  BY DEF CanAttemptFallback, vars, Escalation, Resolved, Measured, CrossCheckRoute
<1>3. Settles'
  BY <1>2 DEF CallInv, Settles, vars
<1>4. QED
  BY <1>1, <1>3 DEF CallInv

\* The attempts after one more, by whichever provider.
LEMMA OneMoreAttempt ==
  ASSUME CallInv, NEW name \in {primary, fallback}, NEW outcome
  PROVE  LET as == Append(attempts, AttemptRecord(name, outcome)) IN
           /\ as \in Seq(Attempt)
           /\ Len(as) = Len(attempts) + 1
           /\ as[Len(as)] = AttemptRecord(name, outcome)
           /\ \A k \in 1..Len(attempts) : as[k] = attempts[k]
<1>1. AttemptRecord(name, outcome) \in
        Attempt
  BY DEF AttemptRecord, Attempt
<1>2. QED
  BY <1>1 DEF CallInv, CallTypeOK

LEMMA Concludes ==
  ASSUME CallInv, NEW name \in {primary, fallback}, NEW outcome,
         Conclude(name, outcome),
         \/ PrimaryAttempt(outcome) /\ name = primary
         \/ FallbackAttempt(outcome) /\ name = fallback
  PROVE  CallInv'
<1> DEFINE a == AttemptRecord(name, outcome)
<1>a. /\ a.provider = name
      /\ a.success = (outcome.kind = "data")
      /\ a.error = (outcome.kind = "raises")
  BY DEF AttemptRecord
<1>0. /\ attempts' = Append(attempts, a)
      /\ Len(attempts') = Len(attempts) + 1
      /\ attempts'[Len(attempts')] = a
      /\ \A k \in 1..Len(attempts) : attempts'[k] = attempts[k]
      /\ attempts' \in Seq(Attempt)
  BY OneMoreAttempt DEF Conclude
<1>1. /\ primary' = primary /\ fallback' = fallback /\ policy' = policy /\ disabled' = disabled
      /\ hook' = hook /\ metrics' = metrics
  BY DEF Conclude, arguments
<1>2. CASE outcome.kind = "data"
  <2>1. pc' = "emit" /\ result' = Resolved(attempts', outcome) /\ last_error' = last_error
    BY <1>2 DEF Conclude
  <2>2. result' = Resolved(attempts, result)'
    BY <1>1, <2>1 DEF Resolved, CrossCheckRoute
  <2>3. metrics' = <<>> /\ attempts \in Seq(Attempt)
    BY <1>1 DEF CallInv, Settles, CallTypeOK, PrimaryAttempt, FallbackAttempt
  <2>4. CallTypeOK'
    BY <1>0, <1>1, <2>1 DEF CallInv, CallTypeOK, Attempt, PrimaryAttempt, FallbackAttempt
  <2>5. Settles'
    BY <1>0, <1>1, <1>2, <2>1, <2>2, <2>3, <1>a DEF Settles
  <2>6. Attempted'
    BY <1>0, <1>1, <1>2, <1>a, <2>1, <2>3 DEF CallInv, CallTypeOK, Attempted, Attempt,
       PrimaryAttempt, FallbackAttempt, CanAttemptFallback
  <2>7. QED
    BY <2>4, <2>5, <2>6 DEF CallInv
<1>3. CASE outcome.kind # "data"
  <2>1. /\ pc' = "retry" /\ result' = result
        /\ last_error' = IF outcome.kind = "raises" THEN name ELSE NoProvider
    BY <1>3 DEF Conclude
  <2>3. /\ metrics = <<>> /\ result = Pending
        /\ attempts \in Seq(Attempt)
    BY DEF CallInv, Settles, CallTypeOK, PrimaryAttempt, FallbackAttempt
  <2>4. CallTypeOK'
    BY <1>0, <1>1, <2>1 DEF CallInv, CallTypeOK, Attempt, PrimaryAttempt, FallbackAttempt
  <2>5. Settles'
    BY <1>1, <2>1, <2>3 DEF Settles, Pending
  <2>6. Attempted'
    BY <1>0, <1>1, <1>3, <1>a, <2>1, <2>3 DEF CallInv, CallTypeOK, Attempted, Attempt,
       PrimaryAttempt, FallbackAttempt, CanAttemptFallback
  <2>7. QED
    BY <2>4, <2>5, <2>6 DEF CallInv
<1>4. QED
  BY <1>2, <1>3

LEMMA CallAttempts ==
  ASSUME CallInv, NEW outcome, PrimaryAttempt(outcome) \/ FallbackAttempt(outcome)
  PROVE  CallInv'
<1>1. CASE PrimaryAttempt(outcome)
  BY <1>1, Concludes DEF PrimaryAttempt
<1>2. CASE FallbackAttempt(outcome)
  BY <1>2, Concludes DEF FallbackAttempt
<1>3. QED
  BY <1>1, <1>2

LEMMA CallEscalates ==
  ASSUME CallInv, Escalate
  PROVE  CallInv'
<1>1. /\ pc = "retry" /\ pc' = "emit" /\ result' = Escalation(attempts) /\ ~CanAttemptFallback
      /\ UNCHANGED <<arguments, attempts, fallback_attempts, last_error, metrics>>
  BY DEF Escalate
<1>2. Len(attempts) \in 1..Len(attempts) /\ ~attempts[Len(attempts)].success /\ metrics = <<>>
  BY <1>1 DEF CallInv, CallTypeOK, Attempted, Settles
<1>3. CallTypeOK' /\ Attempted'
  BY <1>1, <1>2 DEF CallInv, CallTypeOK, Attempted, Attempt, arguments
<1>4. ~CanAttemptFallback'
  BY <1>1 DEF CanAttemptFallback, arguments
<1>5. Escalation(attempts)' = Escalation(attempts)
  BY <1>1
<1>6. Settles'
  BY <1>1, <1>2, <1>4, <1>5 DEF Settles, arguments
<1>7. QED
  BY <1>3, <1>6 DEF CallInv

LEMMA CallEmits ==
  ASSUME CallInv, EmitMetrics
  PROVE  CallInv'
<1>1. /\ pc = "emit" /\ pc' \in {"returned", "raised"}
      /\ UNCHANGED <<arguments, attempts, fallback_attempts, last_error, result>>
      /\ metrics' = IF hook THEN Append(metrics, Measured(result)) ELSE metrics
  BY DEF EmitMetrics
<1>2. metrics = <<>>
  BY <1>1 DEF CallInv, Settles
<1>3. metrics' = IF hook THEN <<Measured(result)>> ELSE <<>>
  BY <1>1, <1>2
<1>4. CallTypeOK' /\ Attempted'
  BY <1>1 DEF CallInv, CallTypeOK, Attempted, Attempt, arguments
<1>5. /\ CanAttemptFallback' = CanAttemptFallback
      /\ Escalation(attempts)' = Escalation(attempts)
      /\ Resolved(attempts, result)' = Resolved(attempts, result)
      /\ Measured(result)' = Measured(result)
  BY <1>1 DEF CanAttemptFallback, arguments, Escalation, Resolved, Measured, CrossCheckRoute
<1>6. Settles'
  BY <1>1, <1>3, <1>5 DEF Settles, arguments, CallInv
<1>7. QED
  BY <1>4, <1>6 DEF CallInv

-----------------------------------------------------------------------------
(***************************************************************************)
(* What the state of a call says of its result.                            *)
(***************************************************************************)
LEMMA LargerOfTwo ==
  ASSUME NEW a \in Int, NEW b \in Int
  PROVE  Max({a, b}) = IF a >= b THEN a ELSE b
BY DEF Max

LEMMA SmallerOfTwo ==
  ASSUME NEW a \in Int, NEW b \in Int
  PROVE  Min({a, b}) = IF a <= b THEN a ELSE b
BY DEF Min

LEMMA CallUsesPolicyUp == CallInv => RetriesUsePolicyUp
<1> SUFFICES ASSUME CallInv PROVE RetriesUsePolicyUp
  OBVIOUS
<1> DEFINE t == policy.max_total_attempts
           f == policy.max_fallback_attempts
           m == Min({t, 1 + f})
<1>1. t \in Int /\ f \in Int /\ fallback_attempts \in Nat
  BY DEF CallInv, CallTypeOK
<1>2. m = (IF t <= 1 + f THEN t ELSE 1 + f) /\ m \in Int
  BY <1>1, SmallerOfTwo
<1>3. Max({1, m}) = IF 1 >= m THEN 1 ELSE m
  <2> HIDE DEF m
  <2>1. QED
    BY <1>2, LargerOfTwo
<1>4. Allowance = IF primary = fallback THEN 1 ELSE IF 1 >= m THEN 1 ELSE m
  BY <1>3 DEF Allowance
<1>5. Len(attempts) <= Allowance
  <2>1. CASE pc \in {"idle", "primary"}
    BY <2>1, <1>1, <1>2, <1>4 DEF CallInv, Attempted
  <2>2. CASE pc \notin {"idle", "primary"}
    BY <2>2, <1>1, <1>2, <1>4 DEF CallInv, Attempted
  <2>3. QED
    BY <2>1, <2>2
<1>6. ASSUME Finished, ~result.resolved PROVE Len(attempts) = Allowance
  <2>1. Len(attempts) = fallback_attempts + 1 /\ ~CanAttemptFallback
    BY <1>6 DEF Finished, CallInv, Attempted, Settles, Resolved
  <2>2. \/ primary = fallback
        \/ fallback_attempts >= f
        \/ Len(attempts) >= t
    BY <2>1, <1>1 DEF CanAttemptFallback
  <2>3. fallback_attempts > 0 => primary # fallback /\ fallback_attempts <= f /\ fallback_attempts + 1 <= t
    BY DEF CallInv, Attempted
  <2>4. QED
    BY <2>1, <2>2, <2>3, <1>1, <1>2, <1>4
<1>7. QED
  BY <1>5, <1>6 DEF RetriesUsePolicyUp

\* The failed attempts, when the last one succeeded.
LEMMA AllButTheLastFailed ==
  ASSUME CallInv, pc \notin {"idle", "primary"}, attempts[Len(attempts)].success
  PROVE  Cardinality(Failed(attempts)) = Len(attempts) - 1
<1>1. Len(attempts) \in Nat \ {0}
  BY DEF CallInv, CallTypeOK, Attempted
<1>2. Failed(attempts) = 1..(Len(attempts) - 1)
  BY <1>1 DEF Failed, CallInv, CallTypeOK, Attempted
<1>3. QED
  BY <1>1, <1>2, FS_Interval

\* The providers asked, when none succeeded: both, if there was a second attempt.
LEMMA OpsAreAskedForBoth ==
  ASSUME CallInv, pc \notin {"idle", "primary"}, ~attempts[Len(attempts)].success
  PROVE  (Route(attempts) = "ops_review") <=>
           /\ {primary, fallback} = {attempts[k].provider : k \in 1..Len(attempts)}
           /\ primary # fallback
<1> DEFINE asked == {attempts[k].provider : k \in 1..Len(attempts)}
<1>1. /\ Len(attempts) \in Nat \ {0} /\ Len(attempts) = fallback_attempts + 1
      /\ fallback_attempts \in Nat
  BY DEF CallInv, CallTypeOK, Attempted
<1>2. Failed(attempts) = 1..Len(attempts)
  BY DEF Failed, CallInv, CallTypeOK, Attempted
<1>3. Route(attempts) = IF Cardinality(asked) > 1 THEN "ops_review" ELSE "pending_triage"
  BY <1>2 DEF Route
<1> SUFFICES (Route(attempts) = "ops_review") <=> {primary, fallback} = asked /\ primary # fallback
  OBVIOUS
<1>4. CASE Len(attempts) = 1
  <2>1. asked = {primary}
    BY <1>4 DEF CallInv, Attempted
  <2>2. Cardinality(asked) = 1
    BY <2>1, FS_Singleton
  <2> HIDE DEF asked
  <2>3. Route(attempts) = "pending_triage"
    BY <1>3, <2>2
  <2>4. QED
    BY <2>1, <2>3
<1>5. CASE Len(attempts) # 1
  <2>1. primary # fallback /\ 1 \in 1..Len(attempts) /\ 2 \in 1..Len(attempts)
    BY <1>1, <1>5 DEF CallInv, Attempted
  <2>2. \A k \in 1..Len(attempts) :
          attempts[k].provider = IF k = 1 THEN primary ELSE fallback
    BY DEF CallInv, Attempted
  <2>3. asked = {primary, fallback}
    BY <2>1, <2>2
  <2>4. Cardinality({primary}) = 1 /\ IsFiniteSet({primary})
    BY FS_Singleton
  <2> HIDE DEF asked
  <2>5. asked = {primary} \cup {fallback} /\ fallback \notin {primary}
    BY <2>1, <2>3
  <2>6. Cardinality({primary} \cup {fallback}) = 2
    <3> DEFINE first == {primary}
    <3>1. IsFiniteSet(first) /\ Cardinality(first) = 1 /\ fallback \notin first
      BY <2>4, <2>5
    <3> HIDE DEF first
    <3>2. Cardinality(first \cup {fallback}) = Cardinality(first) + 1
      BY <3>1, FS_AddElement
    <3>3. Cardinality(first \cup {fallback}) = 2
      BY <3>1, <3>2
    <3>4. QED
      BY <3>3 DEF first
  <2>7. Cardinality(asked) = 2
    BY <2>5, <2>6, Zenon
  <2>8. Route(attempts) = "ops_review"
    BY <1>3, <2>7
  <2>9. QED
    BY <2>1, <2>3, <2>8
<1>6. QED
  BY <1>4, <1>5

LEMMA CallTellsAttempts == CallInv => ResultTellsAttempts
<1> SUFFICES ASSUME CallInv, Finished PROVE ResultTellsAttempts
  BY DEF ResultTellsAttempts
<1> DEFINE n == Len(attempts)
<1>1. /\ n \in Nat \ {0} /\ n = fallback_attempts + 1 /\ n \in 1..n /\ fallback_attempts \in Nat
      /\ pc \in {"returned", "raised"}
  BY DEF CallInv, CallTypeOK, Attempted, Finished
<1>2. \A k \in 1..n : /\ attempts[k].success \in BOOLEAN
                      /\ attempts[k].success => k = n
                      /\ attempts[k].error => ~attempts[k].success
  <2>1. \A k \in 1..n : attempts[k] \in Attempt
    BY ElementOfSeq DEF CallInv, CallTypeOK
  <2>2. QED
    BY <2>1 DEF CallInv, Attempted, Attempt
<1>3. metrics = IF hook THEN <<Measured(result)>> ELSE <<>>
  BY <1>1 DEF CallInv, Settles
<1>4. CASE attempts[n].success
  <2>1. result = Resolved(attempts, result)
    BY <1>1, <1>4 DEF CallInv, Settles
  <2>2. /\ result.resolved /\ result.provider_used = attempts[n].provider
        /\ result.retry_count = n - 1 /\ result.failure_count = Cardinality(Failed(attempts))
        /\ result.route = CrossCheckRoute(result.documents)
    BY <2>1 DEF Resolved, Last
  <2>3. result.route # "ops_review"
    BY <2>2 DEF CrossCheckRoute
  <2>4. result.failure_count = n - 1
    BY <2>2, <1>1, <1>4, AllButTheLastFailed
  <2>5. \A k \in 1..n : attempts[k].success <=> (result.resolved /\ k = n)
    BY <1>2, <1>4, <2>2, Zenon
  <2>6. result.failure_count + (IF result.resolved THEN 1 ELSE 0) = n
    <3> HIDE DEF n
    <3>1. QED
      BY <1>1, <2>2, <2>4
  <2>7. result.retry_count = fallback_attempts
    <3> HIDE DEF n
    <3>1. QED
      BY <1>1, <2>2
  <2>8. QED
    BY <1>3, <2>2, <2>3, <2>5, <2>6, <2>7 DEF ResultTellsAttempts
<1>5. CASE ~attempts[n].success
  <2>1. result = Escalation(attempts)
    BY <1>1, <1>5 DEF CallInv, Settles
  <2>2. /\ ~result.resolved /\ result.provider_used = NoProvider
        /\ result.retry_count = n - 1 /\ result.failure_count = n
        /\ result.route = Route(attempts)
        /\ result.errors = {k \in Failed(attempts) : attempts[k].error}
    BY <2>1 DEF Escalation
  <2>3. result.errors = {k \in 1..n : attempts[k].error}
    BY <2>2, <1>2 DEF Failed
  <2>4. EscalationReason = "error" => attempts[n].error
    BY <1>1, <1>5 DEF EscalationReason, CallInv, Attempted
  <2>5. (result.route = "ops_review") <=>
          /\ {primary, fallback} = {attempts[k].provider : k \in 1..n}
          /\ primary # fallback
    BY <2>2, <1>1, <1>5, OpsAreAskedForBoth
  <2>6. \A k \in 1..n : attempts[k].success <=> (result.resolved /\ k = n)
    BY <1>2, <1>5, <2>2, Zenon
  <2>7. result.failure_count + (IF result.resolved THEN 1 ELSE 0) = n
    <3> HIDE DEF n
    <3>1. QED
      BY <1>1, <2>2
  <2>8. result.retry_count = fallback_attempts
    <3> HIDE DEF n
    <3>1. QED
      BY <1>1, <2>2
  <2>9. QED
    BY <1>3, <2>2, <2>3, <2>4, <2>5, <2>6, <2>7, <2>8 DEF ResultTellsAttempts
<1>6. QED
  BY <1>4, <1>5

-----------------------------------------------------------------------------
(***************************************************************************)
(* The cross-check.  If two readings differ by more than the tolerance, so *)
(* do the highest and the lowest: spreading them further apart adds more   *)
(* to their difference than to the larger magnitude, and the tolerance is  *)
(* a percentage of at most 100.                                            *)
(***************************************************************************)
LEMMA FiniteSetsHaveMaximum ==
  ASSUME NEW S, IsFiniteSet(S), S # {}, S \subseteq Int
  PROVE  Max(S) \in S /\ \A x \in S : Max(S) >= x
<1> DEFINE Bounded(U) == \E m \in U : \A x \in U : m >= x
           Bad == {U \in SUBSET S : U # {} /\ ~Bounded(U)}
<1>1. Bad = {}
  <2> SUFFICES ASSUME Bad # {} PROVE FALSE
    OBVIOUS
  <2>1. PICK U \in Bad : \A V \in Bad : ~(<<V, U>> \in StrictSubsetOrdering(S))
    <3>1. IsWellFoundedOn(StrictSubsetOrdering(S), FiniteSubsetsOf(S))
      BY FS_StrictSubsetOrderingWellFounded
    <3>2. Bad \subseteq FiniteSubsetsOf(S)
      BY FS_Subset DEF FiniteSubsetsOf
    <3> HIDE DEF Bad
    <3>3. QED
      BY <3>1, <3>2, WFMin
  <2>2. PICK y \in U : TRUE
    OBVIOUS
  <2>3. U \ {y} \notin Bad
    BY <2>1, <2>2 DEF StrictSubsetOrdering
  <2>4. CASE U \ {y} = {}
    BY <2>2, <2>4
  <2>5. CASE U \ {y} # {}
    <3>1. PICK m \in U \ {y} : \A x \in U \ {y} : m >= x
      BY <2>3, <2>5
    <3>2. m \in Int /\ y \in Int
      OBVIOUS
    <3>3. \E n \in U : \A x \in U : n >= x
      <4>1. CASE m >= y
        BY <4>1, <3>1
      <4>2. CASE y >= m
        <5>1. \A x \in U : y >= x
          BY <4>2, <3>1, <3>2
        <5>2. QED
          BY <5>1
      <4>3. QED
        BY <4>1, <4>2, <3>2
    <3>4. QED
      BY <3>3
  <2>6. QED
    BY <2>4, <2>5
<1>2. Bounded(S)
  BY <1>1
<1>3. QED
  BY <1>2 DEF Max

LEMMA RangeIsFinite ==
  ASSUME NEW f, IsFiniteSet(DOMAIN f), f \in [DOMAIN f -> {f[x] : x \in DOMAIN f}]
  PROVE  IsFiniteSet({f[x] : x \in DOMAIN f})
<1> DEFINE T == {f[x] : x \in DOMAIN f}
<1>1. f \in Surjection(DOMAIN f, T)
  BY DEF Surjection
<1>2. QED
  BY <1>1, FS_Surjection

LEMMA FiniteSetsHaveMinimum ==
  ASSUME NEW S, IsFiniteSet(S), S # {}, S \subseteq Int
  PROVE  Min(S) \in S /\ \A x \in S : Min(S) <= x
<1> DEFINE N == {-x : x \in S}
<1>1. IsFiniteSet(N)
  <2> DEFINE f == [x \in S |-> -x]
  <2>1. /\ DOMAIN f = S /\ f \in [DOMAIN f -> {f[x] : x \in DOMAIN f}]
        /\ N = {f[x] : x \in DOMAIN f}
    OBVIOUS
  <2> HIDE DEF f, N
  <2>2. QED
    BY <2>1, RangeIsFinite
<1>2. N # {} /\ N \subseteq Int
  <2>1. PICK x \in S : TRUE
    OBVIOUS
  <2>2. -x \in N
    OBVIOUS
  <2>3. ASSUME NEW y \in S PROVE -y \in Int
    BY <2>3
  <2>4. \A z \in N : z \in Int
    BY <2>3
  <2> HIDE DEF N
  <2>5. QED
    BY <2>2, <2>4
<1>3. Max(N) \in N /\ \A y \in N : Max(N) >= y
  <2> HIDE DEF N
  <2>1. QED
    BY <1>1, <1>2, FiniteSetsHaveMaximum
<1>4. PICK m \in S : Max(N) = -m
  BY <1>3
<1>5. \A x \in S : m <= x
  <2> SUFFICES ASSUME NEW x \in S PROVE m <= x
    OBVIOUS
  <2>1. -m >= -x
    BY <1>3, <1>4
  <2>2. QED
    BY <2>1
<1>6. QED
  BY <1>5 DEF Min

LEMMA PercentageOfNatural ==
  ASSUME NEW k \in Nat, NEW m \in Nat
  PROVE  /\ TolerancePercent * k <= 100 * k
         /\ TolerancePercent * (m + k) = TolerancePercent * m + TolerancePercent * k
BY ToleranceIsPercentage

LEMMA ToleranceWidens ==
  ASSUME NEW lo \in Int, NEW hi \in Int, NEW a \in lo..hi, NEW b \in lo..hi,
         ExceedsTolerance(a, b)
  PROVE  ExceedsTolerance(hi, lo)
<1> DEFINE m == Max({Magnitude(a), Magnitude(b)})
           M == Max({Magnitude(hi), Magnitude(lo)})
<1>1. \A x \in Int : Magnitude(x) \in Nat /\ Magnitude(x) = IF x < 0 THEN -x ELSE x
  BY DEF Magnitude
<1>2. /\ m = IF Magnitude(a) >= Magnitude(b) THEN Magnitude(a) ELSE Magnitude(b)
      /\ M = IF Magnitude(hi) >= Magnitude(lo) THEN Magnitude(hi) ELSE Magnitude(lo)
  BY <1>1, LargerOfTwo
<1>3. m \in Nat /\ M \in Nat /\ M - m \in Nat
  BY <1>1, <1>2
<1>4. Magnitude(hi - lo) >= Magnitude(a - b) + (M - m)
  BY <1>1, <1>2
<1>5. 100 * Magnitude(a - b) > TolerancePercent * m
  BY DEF ExceedsTolerance
<1>6. /\ TolerancePercent * (M - m) <= 100 * (M - m)
      /\ TolerancePercent * (m + (M - m)) = TolerancePercent * m + TolerancePercent * (M - m)
  BY <1>3, PercentageOfNatural
<1>7. 100 * Magnitude(hi - lo) > TolerancePercent * M
  <2> DEFINE d == Magnitude(a - b)
             e == Magnitude(hi - lo)
             p == TolerancePercent * m
             q == TolerancePercent * (M - m)
             r == TolerancePercent * M
  <2>1. d \in Nat /\ e \in Nat /\ p \in Int /\ q \in Int /\ r \in Int
    BY <1>1, <1>3, ToleranceIsPercentage
  <2>2. r = p + q
    BY <1>3, <1>6
  <2>3. e >= d + (M - m) /\ 100 * d > p /\ q <= 100 * (M - m)
    BY <1>4, <1>5, <1>6
  <2> HIDE DEF d, e, p, q, r, m, M
  <2>4. 100 * e > r
    BY <2>1, <2>2, <2>3, <1>3
  <2>5. QED
    BY <2>4 DEF e, r
<1>8. QED
  BY <1>7 DEF ExceedsTolerance

(***************************************************************************)
(* What is observed of a field, at finitely many places.                   *)
(***************************************************************************)
LEMMA PlacesAreFinite ==
  ASSUME NEW S, NEW documents \in Seq(Seq(S)), NEW key
  PROVE  /\ IsFiniteSet(Observed(documents, key))
         /\ \A p \in Observed(documents, key) :
              /\ At(documents, p) \in S
              /\ At(documents, p).key = key
<1> DEFINE row(d) == {<<d, i>> : i \in 1..Len(documents[d])}
           rows == {row(d) : d \in 1..Len(documents)}
<1>1. \A d \in 1..Len(documents) : documents[d] \in Seq(S) /\ Len(documents[d]) \in Nat
  BY ElementOfSeq
<1>2. \A d \in 1..Len(documents) : IsFiniteSet(row(d))
  <2> SUFFICES ASSUME NEW d \in 1..Len(documents) PROVE IsFiniteSet(row(d))
    OBVIOUS
  <2> DEFINE f == [i \in 1..Len(documents[d]) |-> <<d, i>>]
  <2>1. /\ DOMAIN f = 1..Len(documents[d]) /\ f \in [DOMAIN f -> {f[x] : x \in DOMAIN f}]
        /\ row(d) = {f[x] : x \in DOMAIN f}
    OBVIOUS
  <2>2. IsFiniteSet(1..Len(documents[d]))
    BY <1>1, FS_Interval
  <2> HIDE DEF f, row
  <2>3. QED
    BY <2>1, <2>2, RangeIsFinite
<1>3. IsFiniteSet(rows)
  <2> DEFINE f == [d \in 1..Len(documents) |-> row(d)]
  <2>1. /\ DOMAIN f = 1..Len(documents) /\ f \in [DOMAIN f -> {f[x] : x \in DOMAIN f}]
        /\ rows = {f[x] : x \in DOMAIN f}
    OBVIOUS
  <2>2. IsFiniteSet(1..Len(documents))
    BY LenProperties, FS_Interval
  <2> HIDE DEF f, rows
  <2>3. QED
    BY <2>1, <2>2, RangeIsFinite
<1>4. IsFiniteSet(Places(documents))
  <2>1. Places(documents) = UNION rows
    BY DEF Places
  <2>2. \A T \in rows : IsFiniteSet(T)
    BY <1>2
  <2> HIDE DEF rows
  <2>3. QED
    BY <2>1, <2>2, <1>3, FS_UNION
<1>5. IsFiniteSet(Observed(documents, key))
  BY <1>4, FS_Subset DEF Observed
<1>6. ASSUME NEW p \in Observed(documents, key)
      PROVE  At(documents, p) \in S /\ At(documents, p).key = key
  <2>1. PICK d \in 1..Len(documents) : \E i \in 1..Len(documents[d]) : p = <<d, i>>
    BY DEF Observed, Places
  <2>2. PICK i \in 1..Len(documents[d]) : p = <<d, i>>
    BY <2>1
  <2>3. At(documents, p) = documents[d][i]
    BY <2>2 DEF At
  <2>4. QED
    BY <1>1, <2>3, ElementOfSeq DEF Observed
<1>7. QED
  BY <1>5, <1>6

(***************************************************************************)
(* The heart of DisagreementEscalates: comparing every pair finds a        *)
(* disagreement exactly when the extremes disagree.                        *)
(***************************************************************************)
LEMMA FieldEscalates ==
  ASSUME NEW documents \in Seq(Seq(Observation)), NEW key \in KeyNumericFields,
         Cardinality(Observed(documents, key)) > 1, disabled \in BOOLEAN
  PROVE  FieldCrossCheck(documents, key, disabled).escalate <=> Contradictory(documents, key)
<1> DEFINE observed == Observed(documents, key)
           parsed == Parsed(documents, observed)
           values == {ReadAt(documents, p) : p \in observed}
<1>1. IsFiniteSet(observed) /\ observed # {}
  BY PlacesAreFinite, FS_EmptySet
<1>2. \A p \in observed : ReadAt(documents, p) \in Int \cup {NotANumber}
  <2>1. \A p \in observed : At(documents, p) \in Observation
    BY PlacesAreFinite
  <2>2. \A p \in observed : At(documents, p).text \in Texts
    BY <2>1 DEF Observation
  <2>3. QED
    BY <2>2, TextsAreRead DEF ReadAt
<1>3. FieldCrossCheck(documents, key, disabled).escalate <=>
        parsed # observed \/ (~disabled /\ SomePairDiffers(documents, parsed))
  BY DEF FieldCrossCheck
<1>4. Contradictory(documents, key) <=>
        NotANumber \in values \/ (~disabled /\ ExceedsTolerance(Max(values), Min(values)))
  BY DEF Contradictory
<1>5. parsed # observed <=> NotANumber \in values
  BY DEF Parsed
<1>6. CASE NotANumber \in values
  BY <1>3, <1>4, <1>5, <1>6
<1>7. CASE NotANumber \notin values
  <2>1. parsed = observed /\ values \subseteq Int /\ values # {}
    BY <1>1, <1>2, <1>5, <1>7
  <2>2. IsFiniteSet(values)
    <3> DEFINE f == [p \in observed |-> ReadAt(documents, p)]
    <3>1. /\ DOMAIN f = observed /\ f \in [DOMAIN f -> {f[x] : x \in DOMAIN f}]
          /\ values = {f[x] : x \in DOMAIN f}
      OBVIOUS
    <3> HIDE DEF f, values, observed
    <3>2. QED
      BY <1>1, <3>1, RangeIsFinite
  <2>3. /\ Max(values) \in values /\ \A x \in values : Max(values) >= x
        /\ Min(values) \in values /\ \A x \in values : Min(values) <= x
    <3> HIDE DEF values
    <3>1. QED
      BY <2>1, <2>2, FiniteSetsHaveMaximum, FiniteSetsHaveMinimum
  <2>4. SomePairDiffers(documents, observed) <=> \E a, b \in values : ExceedsTolerance(a, b)
    BY DEF SomePairDiffers
  <2>5. (\E a, b \in values : ExceedsTolerance(a, b))
          <=> ExceedsTolerance(Max(values), Min(values))
    <3> HIDE DEF values
    <3>1. \A a \in values : a \in Min(values)..Max(values)
      BY <2>1, <2>3
    <3>2. ASSUME NEW a \in values, NEW b \in values, ExceedsTolerance(a, b)
          PROVE  ExceedsTolerance(Max(values), Min(values))
      BY <2>1, <2>3, <3>1, <3>2, ToleranceWidens
    <3>3. QED
      BY <2>3, <3>2
  <2>6. QED
    BY <1>3, <1>4, <1>7, <2>1, <2>4, <2>5
<1>8. QED
  BY <1>6, <1>7

LEMMA ReportFindsContradictions ==
  ASSUME NEW documents \in Seq(Seq(Observation)), disabled \in BOOLEAN
  PROVE  ReportEscalates(CrossCheckReport(documents, disabled)) <=>
           \E k \in KeyNumericFields : Contradictory(documents, k)
<1>1. ReportEscalates(CrossCheckReport(documents, disabled)) <=>
        \E k \in KeyNumericFields : /\ Cardinality(Observed(documents, k)) > 1
                                    /\ FieldCrossCheck(documents, k, disabled).escalate
  BY DEF ReportEscalates, CrossCheckReport
<1>2. \A k \in KeyNumericFields :
        Contradictory(documents, k) => Cardinality(Observed(documents, k)) > 1
  BY DEF Contradictory
<1>3. QED
  BY <1>1, <1>2, FieldEscalates

-----------------------------------------------------------------------------
(***************************************************************************)
(* The files that are read, and what is read from them.                    *)
(***************************************************************************)
LEMMA FirstByNameIsOne ==
  ASSUME NEW fs, IsFiniteSet(fs), fs # {}, fs \subseteq File
  PROVE  FirstByName(fs) \in fs
<1> DEFINE f == [x \in fs |-> x.name]
           names == {f[x] : x \in DOMAIN f}
<1>1. IsFiniteSet(names)
  <2>1. DOMAIN f = fs /\ f \in [DOMAIN f -> {f[x] : x \in DOMAIN f}]
    OBVIOUS
  <2> HIDE DEF f
  <2>2. QED
    BY <2>1, RangeIsFinite
<1>2. names # {} /\ names \subseteq Int
  BY DEF File
<1>3. Min(names) \in names /\ \A n \in names : Min(names) <= n
  <2> HIDE DEF names
  <2>1. QED
    BY <1>1, <1>2, FiniteSetsHaveMinimum
<1>4. PICK x \in fs : Min(names) = x.name
  BY <1>3
<1>5. \A g \in fs : x.name <= g.name
  BY <1>3, <1>4
<1>6. QED
  BY <1>5 DEF FirstByName

LEMMA FilesAreSelected ==
  ASSUME NEW files \in Bundles
  PROVE  /\ ToSet(files) \subseteq File
         /\ Primary(files) \in ToSet(files) /\ Primary(files).ext \in PrimaryExtensions
         /\ PreferredWorkbook(files) \in ToSet(files) \cup {NoFile}
<1>1. /\ files \in Seq(File)
      /\ \E i \in 1..Len(files) : files[i].ext \in PrimaryExtensions
  BY BundlesAreValid
<1>2. /\ Len(files) \in Nat /\ DOMAIN files = 1..Len(files)
      /\ \A i \in 1..Len(files) : files[i] \in File
  BY <1>1, LenProperties, ElementOfSeq
<1>3. ToSet(files) = {files[x] : x \in DOMAIN files} /\ ToSet(files) \subseteq File
  BY <1>2 DEF ToSet
<1>4. IsFiniteSet(ToSet(files))
  <2>1. IsFiniteSet(DOMAIN files)
    BY <1>2, FS_Interval
  <2>2. files \in [DOMAIN files -> {files[x] : x \in DOMAIN files}]
    BY <1>1, LenProperties
  <2>3. QED
    BY <1>3, <2>1, <2>2, RangeIsFinite
<1>5. \A exts : /\ IsFiniteSet(FilesWith(files, exts))
                /\ FilesWith(files, exts) \subseteq File
                /\ FilesWith(files, exts) \subseteq ToSet(files)
  BY <1>3, <1>4, FS_Subset DEF FilesWith
<1>6. FilesWith(files, PrimaryExtensions) # {}
  BY <1>1, <1>2, <1>3 DEF FilesWith
<1>7. Primary(files) \in FilesWith(files, PrimaryExtensions)
  BY <1>5, <1>6, FirstByNameIsOne DEF Primary
<1>8. PreferredWorkbook(files) \in FilesWith(files, {"xlsx"}) \cup {NoFile}
  BY <1>5, FirstByNameIsOne DEF PreferredWorkbook
<1>9. QED
  BY <1>3, <1>7, <1>8 DEF FilesWith

\* A finite set, put in order: each element has one place.
LEMMA SetsInOrder ==
  ASSUME NEW S, IsFiniteSet(S)
  PROVE  /\ Cardinality(S) \in Nat
         /\ SetToSeq(S) \in [1..Cardinality(S) -> S]
         /\ \A i, j \in 1..Cardinality(S) : SetToSeq(S)[i] = SetToSeq(S)[j] => i = j
         /\ \A x \in S : \E i \in 1..Cardinality(S) : SetToSeq(S)[i] = x
<1> DEFINE n == Cardinality(S)
<1>1. n \in Nat /\ ExistsBijection(1..n, S)
  BY FS_CardinalityType
<1>2. \E f \in [1..n -> S] : IsInjective(f)
  BY <1>1 DEF ExistsBijection, Bijection, Injection
<1>3. SetToSeq(S) \in [1..n -> S] /\ IsInjective(SetToSeq(S))
  BY <1>2 DEF SetToSeq
<1>4. SetToSeq(S) \in Injection(1..n, S)
  BY <1>3 DEF Injection
<1>5. Cardinality(1..n) = n
  BY <1>1, FS_Interval
<1>6. SetToSeq(S) \in Surjection(1..n, S)
  BY <1>4, <1>5, FS_Injection
<1>7. QED
  BY <1>1, <1>3, <1>6 DEF IsInjective, Surjection

LEMMA FiveFields ==
  /\ IsFiniteSet(ToSet(StandardFields)) /\ Cardinality(ToSet(StandardFields)) = 5
  /\ Len(StandardFields) = 5
  /\ ToSet(StandardFields) = {"asset_class", "fee", "net_return", "aum", "key_person"}
<1>1. ToSet(StandardFields) = {"asset_class", "fee", "net_return", "aum", "key_person"}
  BY DEF ToSet, StandardFields
<1>2. StandardFields \in Bijection(1..5, ToSet(StandardFields))
  BY <1>1 DEF StandardFields, Bijection, Injection, Surjection, IsInjective
<1>3. ExistsBijection(1..5, ToSet(StandardFields))
  BY <1>2 DEF ExistsBijection
<1>4. IsFiniteSet(ToSet(StandardFields)) /\ Cardinality(ToSet(StandardFields)) = 5
  BY <1>3, FS_CountingElements, FS_NatBijection
<1>5. QED
  BY <1>1, <1>4 DEF StandardFields

ExtractedField == [key : ToSet(StandardFields), confidence : Percent, page : {0, 1}]

LEMMA FieldsAreExtracted ==
  ASSUME NEW c \in Contents, NEW ext \in PrimaryExtensions
  PROVE  LET fs == Extracted(c, ext) IN
         /\ fs \in Seq(ExtractedField) /\ Len(fs) \in Nat
         /\ \A i, j \in 1..Len(fs) : fs[i].key = fs[j].key => i = j
         /\ \A i \in 1..Len(fs) : fs[i].page >= 1 => ext = "pptx" \/ fs[i].key \in c.paged
         /\ \A i \in 1..Len(fs) : /\ fs[i].key \in c.stated
                                 /\ fs[i].confidence = Confidence[ext][fs[i].key]
         /\ c.stated \subseteq {fs[i].key : i \in 1..Len(fs)}
         /\ Len(fs) = Len(StandardFields) => c.stated = ToSet(StandardFields)
<1> DEFINE fs == Extracted(c, ext)
           s == SetToSeq(c.stated)
           n == Cardinality(c.stated)
           field(i) == [key |-> s[i], confidence |-> Confidence[ext][s[i]],
                        page |-> IF ext = "pptx" \/ s[i] \in c.paged THEN 1 ELSE 0]
<1>1. c.stated \subseteq ToSet(StandardFields)
  BY InputsAreReadable DEF Content
<1>2. /\ IsFiniteSet(c.stated)
      /\ n = Cardinality(ToSet(StandardFields)) => c.stated = ToSet(StandardFields)
  BY <1>1, FiveFields, FS_Subset
<1>3. /\ n \in Nat /\ s \in [1..n -> c.stated]
      /\ \A i, j \in 1..n : s[i] = s[j] => i = j
      /\ \A x \in c.stated : \E i \in 1..n : s[i] = x
  BY <1>2, SetsInOrder
<1>4. s \in Seq(c.stated) /\ Len(s) = n
  <2> HIDE DEF s, n
  <2>1. QED
    BY <1>3
<1>5. fs = [i \in 1..n |-> field(i)]
  BY <1>4 DEF Extracted
<1>6. \A k \in ToSet(StandardFields) : Confidence[ext][k] \in Percent
  BY FiveFields DEF Confidence, PrimaryExtensions, Percent
<1>7. \A i \in 1..n : field(i) \in ExtractedField
  <2> HIDE DEF s, n
  <2>1. QED
    BY <1>1, <1>3, <1>6 DEF ExtractedField
<1>8. fs \in Seq(ExtractedField) /\ Len(fs) = n
  <2> HIDE DEF s, n, field, fs
  <2>1. QED
    BY <1>3, <1>5, <1>7
<1>9. \A i \in 1..n : /\ fs[i].key = s[i] /\ fs[i].confidence = Confidence[ext][s[i]]
                      /\ fs[i].page = IF ext = "pptx" \/ s[i] \in c.paged THEN 1 ELSE 0
  <2> HIDE DEF s, n, fs
  <2>1. QED
    BY <1>5
<1>10. \A i, j \in 1..n : fs[i].key = fs[j].key => i = j
  <2> HIDE DEF s, n, fs, field
  <2>1. QED
    BY <1>3, <1>9
<1>11. \A i \in 1..n : fs[i].page >= 1 => ext = "pptx" \/ fs[i].key \in c.paged
  <2> HIDE DEF s, n, fs, field
  <2>1. QED
    BY <1>3, <1>9
<1>12. /\ c.stated \subseteq {fs[i].key : i \in 1..n}
       /\ \A i \in 1..n : fs[i].key \in c.stated /\ fs[i].confidence = Confidence[ext][fs[i].key]
  <2> HIDE DEF s, n, fs, field
  <2>1. QED
    BY <1>3, <1>9
<1>13. n = Len(StandardFields) => c.stated = ToSet(StandardFields)
  BY <1>2, FiveFields
<1>14. QED
  <2> HIDE DEF n, fs
  <2>1. QED
    BY <1>3, <1>8, <1>10, <1>11, <1>12, <1>13 DEF fs

-----------------------------------------------------------------------------
(***************************************************************************)
(* A document that speaks of a field twice has a duplicate key, and that   *)
(* no threshold policy lets pass.                                          *)
(***************************************************************************)
LEMMA ManyMeansTwo ==
  ASSUME NEW S, IsFiniteSet(S)
  PROVE  Cardinality(S) > 1 <=> \E x, y \in S : x # y
<1>1. ASSUME Cardinality(S) > 1 PROVE \E x, y \in S : x # y
  <2>1. S # {}
    BY <1>1, FS_EmptySet
  <2>2. PICK x \in S : TRUE
    BY <2>1
  <2>3. S # {x}
    BY <1>1, FS_Singleton
  <2>4. QED
    BY <2>2, <2>3
<1>2. ASSUME NEW x \in S, NEW y \in S, x # y PROVE Cardinality(S) > 1
  <2> DEFINE T == {x} \cup {y}
  <2>1. IsFiniteSet({x}) /\ Cardinality({x}) = 1 /\ y \notin {x}
    BY <1>2, FS_Singleton
  <2>2. Cardinality(T) = Cardinality({x}) + 1
    BY <2>1, FS_AddElement, Zenon
  <2>3. T \in SUBSET S
    OBVIOUS
  <2>4. Cardinality(T) <= Cardinality(S)
    <3> HIDE DEF T
    <3>1. QED
      BY <2>3, FS_Subset
  <2>5. Cardinality(S) \in Nat
    BY FS_CardinalityType
  <2>6. QED
    BY <2>1, <2>2, <2>4, <2>5
<1>3. QED
  BY <1>1, <1>2

LEMMA SpokenOfTwice ==
  ASSUME NEW S, NEW fs \in Seq(S), NEW key, Cardinality(Observed(<<fs>>, key)) > 1
  PROVE  \E i, j \in 1..Len(fs) : i # j /\ fs[i].key = fs[j].key
<1>1. IsFiniteSet(Observed(<<fs>>, key))
  <2>1. <<fs>> \in Seq(Seq(S))
    OBVIOUS
  <2>2. QED
    BY <2>1, PlacesAreFinite
<1>2. PICK p \in Observed(<<fs>>, key) : \E q \in Observed(<<fs>>, key) : p # q
  BY <1>1, ManyMeansTwo
<1>3. PICK q \in Observed(<<fs>>, key) : p # q
  BY <1>2
<1>4. \A r \in Observed(<<fs>>, key) :
        \E i \in 1..Len(fs) : r = <<1, i>> /\ fs[i].key = key
  BY DEF Observed, Places, At
<1>5. PICK i \in 1..Len(fs) : p = <<1, i>> /\ fs[i].key = key
  BY <1>4
<1>6. PICK j \in 1..Len(fs) : q = <<1, j>> /\ fs[j].key = key
  BY <1>4
<1>7. QED
  BY <1>3, <1>5, <1>6

LEMMA DuplicatesEscalate ==
  ASSUME NEW S, NEW fs \in Seq(S), NEW i \in 1..Len(fs), NEW j \in 1..Len(fs),
         i # j, fs[i].key = fs[j].key
  PROVE  Judged(fs).escalate
<1> DEFINE same == {k \in 1..Len(fs) : fs[k].key = fs[i].key}
<1>1. IsFiniteSet(same)
  <2>1. IsFiniteSet(1..Len(fs))
    BY LenProperties, FS_Interval
  <2>2. QED
    BY <2>1, FS_Subset
<1>2. Cardinality(same) > 1
  <2>1. i \in same /\ j \in same
    OBVIOUS
  <2> HIDE DEF same
  <2>2. QED
    BY <1>1, <2>1, ManyMeansTwo
<1>3. fs[i] \in ToSet(fs)
  BY LenProperties DEF ToSet
<1>4. fs[i].key \in DuplicateKeys(fs)
  BY <1>2, <1>3 DEF DuplicateKeys
<1>5. <<"duplicate_field_key", fs[i].key>> \in
        {<<"duplicate_field_key", k>> : k \in DuplicateKeys(fs)}
  BY <1>4
<1>6. QED
  BY <1>5 DEF Judged, ThresholdDecision

(***************************************************************************)
(* What is extracted from a document of the pipeline has one field of each *)
(* key stated: nothing is a duplicate, and the best field of a key is the  *)
(* one there is.                                                           *)
(***************************************************************************)
LEMMA ExtractionsAreUnique ==
  ASSUME NEW c \in Contents, NEW ext \in PrimaryExtensions
  PROVE  LET fs == Extracted(c, ext) IN
         /\ DuplicateKeys(fs) = {} /\ DOMAIN FieldByKey(fs) = c.stated
         /\ \A k \in c.stated : FieldByKey(fs)[k].confidence = Confidence[ext][k]
<1> DEFINE fs == Extracted(c, ext)
<1>1. /\ fs \in Seq(ExtractedField) /\ Len(fs) \in Nat
      /\ \A i, j \in 1..Len(fs) : fs[i].key = fs[j].key => i = j
      /\ \A i \in 1..Len(fs) : /\ fs[i].key \in c.stated
                              /\ fs[i].confidence = Confidence[ext][fs[i].key]
      /\ c.stated \subseteq {fs[i].key : i \in 1..Len(fs)}
  BY FieldsAreExtracted
<1> HIDE DEF fs
<1>2. ToSet(fs) = {fs[i] : i \in 1..Len(fs)}
  BY <1>1, LenProperties DEF ToSet
<1>3. DuplicateKeys(fs) = {}
  <2> SUFFICES ASSUME NEW f \in ToSet(fs)
               PROVE  ~(Cardinality({i \in 1..Len(fs) : fs[i].key = f.key}) > 1)
    BY DEF DuplicateKeys
  <2> DEFINE same == {i \in 1..Len(fs) : fs[i].key = f.key}
  <2>0. IsFiniteSet(1..Len(fs))
    BY <1>1, FS_Interval
  <2>1. IsFiniteSet(same)
    BY <2>0, FS_Subset
  <2>2. \A x, y \in same : x = y
    BY <1>1
  <2> HIDE DEF same
  <2>3. ~(Cardinality(same) > 1)
    BY <2>1, <2>2, ManyMeansTwo
  <2>4. QED
    BY <2>3 DEF same
<1>4. {f.key : f \in ToSet(fs)} = c.stated
  BY <1>1, <1>2
<1> DEFINE Of(i, k) ==
             /\ fs[i].key = k
             /\ \A j \in 1..Len(fs) : fs[j].key = k =>
                  ~Better(fs[j], fs[i]) /\ (j < i => Better(fs[i], fs[j]))
<1>5. FieldByKey(fs) = [k \in c.stated |-> fs[CHOOSE i \in 1..Len(fs) : Of(i, k)]]
  BY <1>4 DEF FieldByKey
<1>6. ASSUME NEW k \in c.stated PROVE FieldByKey(fs)[k].confidence = Confidence[ext][k]
  <2>1. PICK i \in 1..Len(fs) : fs[i].key = k
    BY <1>1
  <2>2. fs[i].confidence \in Int
    <3>1. fs[i] \in ExtractedField
      BY <1>1, ElementOfSeq
    <3>2. fs[i].confidence \in Percent
      BY <3>1 DEF ExtractedField
    <3>3. \A x \in Percent : x \in Int
      BY DEF Percent
    <3>4. QED
      BY <3>2, <3>3, Zenon
  <2>3. Of(i, k)
    BY <1>1, <2>1, <2>2 DEF Better
  <2> DEFINE chosen == CHOOSE j \in 1..Len(fs) : Of(j, k)
  <2>4. chosen \in 1..Len(fs) /\ Of(chosen, k)
    BY <2>3
  <2>5. FieldByKey(fs)[k] = fs[chosen]
    BY <1>5
  <2> HIDE DEF chosen
  <2>6. QED
    BY <1>1, <2>4, <2>5
<1>7. QED
  BY <1>3, <1>5, <1>6 DEF fs

-----------------------------------------------------------------------------
(***************************************************************************)
(* The run.  Each stage leaves a result that the later ones rest on and    *)
(* none of them touches: the document chosen, the answer of the backend    *)
(* and no other provider, its fields, a table with one row for a month,    *)
(* the record for the queue, the explanation and the summary.              *)
(***************************************************************************)
HasRead == {"secondary", "escalating", "thresholds", "performance", "queue", "score",
            "summarize", "ended", "AssertionError"}

Chosen ==
  /\ bundle \in Bundles \cup {<<>>} /\ stage \in {"none"} \cup Stages \cup Endings
  /\ stage = "none" <=> bundle = <<>>
  /\ document \in ToSet(bundle) \cup {NoFile} /\ workbook \in ToSet(bundle) \cup {NoFile}
  /\ stage \notin {"none", "register", "select", "ValueError"} =>
       document \in ToSet(bundle) /\ document.ext \in PrimaryExtensions

IsExtracted(fs) == \E c \in Contents, ext \in PrimaryExtensions : fs = Extracted(c, ext)

Answered ==
  /\ stage # "none" => primary = Backend /\ fallback = Stub /\ ~hook
  /\ stage = "none" => result.documents \in Deliveries \cup {<<>>}
  /\ stage # "none" => result.documents = <<>> \/
                         \E fs \in {Head(result.documents)} :
                           IsExtracted(fs) /\ result.documents = <<fs>>
  /\ (stage = "extracting" /\ result.resolved /\ result.provider_used = primary) =>
       /\ content \in Contents /\ document.format = document.ext
       /\ result.documents = <<Extracted(content, document.ext)>>

Read ==
  /\ content \in Contents \cup {NoFile}
  /\ fields = <<>> \/ IsExtracted(fields)
  /\ stage \in HasRead => /\ content \in Contents /\ document.format = document.ext
                          /\ fields = Extracted(content, document.ext)

Judgement ==
  /\ route \in {"none"} \cup Open /\ decision.escalate \in BOOLEAN
  /\ table \in Workbooks \cup {NoFile} /\ (table # NoFile => Normalizable(table.days))

Recorded ==
  /\ queue \in {{}, Queued}
  /\ stage \notin {"score", "summarize", "ended", "ValueError"} => queue = {}
  /\ stage \in {"score", "summarize", "ended"} => queue = Queued
  /\ stage \in {"summarize", "ended"} =>
       score = Explanation /\ (score = "scored" => Explainable)
  /\ fleet = IF stage = "ended" THEN FleetSummary ELSE NoFleet

RunInv == Chosen /\ Answered /\ Read /\ Judgement /\ Recorded

RunStages == {"none"} \cup Stages \cup Endings

LEMMA RunBegins == PipelineInit => CallInv /\ RunInv
<1> SUFFICES ASSUME PipelineInit PROVE CallInv /\ RunInv
  OBVIOUS
<1> USE DEF PipelineInit, NothingRead
<1>1. ToSet(<<>>) = {}
  BY DEF ToSet
<1>2. Backend \in Providers /\ Stub \in Providers
  BY ProvidersDiffer
<1>3. <<>> \notin Bundles
  BY BundlesAreValid
<1>4. /\ attempts = <<>> /\ fallback_attempts = 0 /\ metrics = <<>> /\ last_error = NoProvider
      /\ result = Pending /\ pc \in {"primary", "idle"}
      /\ primary \in Providers /\ fallback \in Providers
      /\ policy.max_total_attempts \in Int /\ policy.max_fallback_attempts \in Int
      /\ disabled \in BOOLEAN /\ hook \in BOOLEAN
  <2>1. CASE Init
    <3>1. policy.max_total_attempts \in Int /\ policy.max_fallback_attempts \in Int
      BY <2>1, LimitsAreIntegers DEF Init
    <3>2. QED
      BY <2>1, <3>1 DEF Init
  <2>2. CASE ~Init
    <3>1. policy.max_total_attempts \in Int /\ policy.max_fallback_attempts \in Int
      BY <2>2 DEF DefaultPolicy
    <3>2. QED
      BY <2>2, <3>1, <1>2
  <2>3. QED
    BY <2>1, <2>2
<1>5. CallInv
  BY <1>4 DEF CallInv, CallTypeOK, Attempted, Settles
<1>6. Chosen
  BY <1>3 DEF Chosen, Stages
<1>7. Answered
  BY <1>4 DEF Answered, Pending
<1>8. Read
  BY DEF Read, HasRead
<1>9. Judgement
  BY DEF Judgement, NoDecision
<1>10. Recorded
  BY DEF Recorded
<1>11. QED
  BY <1>5, <1>6, <1>7, <1>8, <1>9, <1>10 DEF RunInv

\* What the later stages compute is a function of what the earlier ones left.
LEMMA SameEvidence ==
  ASSUME UNCHANGED <<bundle, content, fields, table>>
  PROVE  /\ Explanation' = Explanation /\ Explainable' = Explainable
         /\ Normalizable(table.days)' = Normalizable(table.days)
BY DEF Explanation, Evidenced, Explainable, NonStandard, Available, HasGap, Normalizable, Months

LEMMA SameDecision ==
  ASSUME UNCHANGED decision
  PROVE  Queued' = Queued
BY DEF Queued

\* A step that leaves the orchestrator alone.
LEMMA AnsweredStays ==
  ASSUME RunInv, UNCHANGED vars, stage # "none", stage' # "none", stage' # "extracting"
  PROVE  Answered'
BY DEF RunInv, Answered, vars, IsExtracted

LEMMA RegisterKeeps ==
  ASSUME RunInv, Register
  PROVE  RunInv'
<1> USE DEF Register
<1>1. Chosen'
  BY DEF RunInv, Chosen, Stages, Endings
<1>2. Answered'
  BY AnsweredStays
<1>3. Read' /\ Judgement' /\ Recorded'
  BY SameEvidence, SameDecision DEF RunInv, Read, Judgement, Recorded, HasRead, IsExtracted
<1>4. QED
  BY <1>1, <1>2, <1>3 DEF RunInv

LEMMA SelectKeeps ==
  ASSUME RunInv, SelectDocuments
  PROVE  RunInv'
<1> USE DEF SelectDocuments
<1>0. bundle \in Bundles
  BY DEF RunInv, Chosen
<1>1. Chosen'
  BY <1>0, FilesAreSelected DEF RunInv, Chosen, Stages, Endings
<1>2. Answered'
  BY AnsweredStays
<1>3. Read' /\ Judgement' /\ Recorded'
  BY SameEvidence, SameDecision DEF RunInv, Read, Judgement, Recorded, HasRead, IsExtracted
<1>4. QED
  BY <1>1, <1>2, <1>3 DEF RunInv

LEMMA CallsKeep ==
  ASSUME RunInv,
         \/ CallOrchestrator("extract", "extracting")
         \/ CallOrchestrator("secondary", "escalating")
  PROVE  RunInv'
<1> USE DEF CallOrchestrator
<1>1. /\ result' = Pending /\ UNCHANGED arguments
      /\ stage # "none" /\ stage' \in {"extracting", "escalating"}
      /\ stage \in HasRead <=> stage' \in HasRead
  BY DEF Begin, HasRead
<1>2. Chosen'
  BY <1>1 DEF RunInv, Chosen, Stages, Endings
<1>3. Answered'
  BY <1>1 DEF RunInv, Answered, Pending, arguments
<1>4. Read' /\ Judgement'
  BY <1>1, SameEvidence DEF RunInv, Read, Judgement, IsExtracted
<1>5. Recorded'
  BY <1>1, SameDecision DEF RunInv, Recorded
<1>6. QED
  BY <1>2, <1>3, <1>4, <1>5 DEF RunInv

\* Everything but the result of the call in progress.
LEMMA CallInProgressKeeps ==
  ASSUME RunInv, UNCHANGED <<arguments, pipeline>>
  PROVE  Chosen' /\ Read' /\ Judgement' /\ Recorded'
<1> USE DEF pipeline
<1>1. Chosen'
  BY DEF RunInv, Chosen
<1>2. Read' /\ Judgement'
  BY SameEvidence DEF RunInv, Read, Judgement, IsExtracted
<1>3. FleetSummary' = FleetSummary
  BY DEF FleetSummary, ThresholdSummary
<1>4. Recorded'
  BY <1>3, SameEvidence, SameDecision DEF RunInv, Recorded
<1>5. QED
  BY <1>1, <1>2, <1>4

\* A successful attempt hands on the documents of its outcome.
LEMMA AttemptAnswers ==
  ASSUME CallInv, NEW outcome, NEW name, Conclude(name, outcome),
         result.documents = <<>>
  PROVE  /\ UNCHANGED arguments
         /\ outcome.kind # "data" => result' = result
         /\ outcome.kind = "data" => /\ result'.resolved /\ result'.provider_used = name
                                     /\ result'.documents = outcome.documents
<1>1. CASE outcome.kind = "data"
  <2>1. result' = Resolved(Append(attempts, AttemptRecord(name, outcome)), outcome)
    BY <1>1 DEF Conclude
  <2>2. Last(Append(attempts, AttemptRecord(name, outcome))) = AttemptRecord(name, outcome)
    BY DEF Last, CallInv, CallTypeOK
  <2>3. QED
    BY <1>1, <2>1, <2>2 DEF Resolved, AttemptRecord, Conclude
<1>2. CASE outcome.kind # "data"
  BY <1>2 DEF Conclude
<1>3. QED
  BY <1>1, <1>2

LEMMA AttemptsFindNothing ==
  ASSUME CallInv, NEW outcome, PrimaryAttempt(outcome) \/ FallbackAttempt(outcome)
  PROVE  result = Pending
BY DEF CallInv, Settles, PrimaryAttempt, FallbackAttempt

LEMMA PrimaryReadKeeps ==
  ASSUME CallInv, RunInv, NEW c \in Contents, ReadPrimary(c)
  PROVE  RunInv'
<1> USE DEF ReadPrimary
<1> DEFINE outcome == Reading(c, document.ext, document.format)
<1>0. result.documents = <<>> /\ result = Pending
  BY AttemptsFindNothing DEF Pending
<1>1. /\ UNCHANGED arguments
      /\ outcome.kind # "data" => result' = result
      /\ outcome.kind = "data" => /\ result'.resolved /\ result'.provider_used = primary
                                  /\ result'.documents = outcome.documents
  <2> HIDE DEF outcome
  <2>1. Conclude(primary, outcome)
    BY DEF PrimaryAttempt, outcome
  <2>2. QED
    BY <2>1, <1>0, AttemptAnswers
<1>2. document \in ToSet(bundle) /\ document.ext \in PrimaryExtensions
  BY DEF RunInv, Chosen
<1>3. /\ outcome.kind = "data" => /\ document.format = document.ext
                                  /\ outcome.documents = <<Extracted(c, document.ext)>>
  BY DEF Reading, Raised
<1>4. Chosen'
  BY DEF RunInv, Chosen
<1>5. Answered'
  <2>1. CASE outcome.kind = "data"
    <3>1. /\ result'.documents = <<Extracted(c, document.ext)>>
          /\ Head(result'.documents) = Extracted(c, document.ext)
      BY <2>1, <1>1, <1>3
    <3>2. IsExtracted(Extracted(c, document.ext))'
      BY <1>2 DEF IsExtracted
    <3>3. QED
      BY <2>1, <1>1, <1>2, <1>3, <3>1, <3>2 DEF RunInv, Answered, arguments, IsExtracted
  <2>2. CASE outcome.kind # "data"
    <3>1. result' = Pending
      BY <2>2, <1>0, <1>1
    <3>2. QED
      BY <3>1, <1>1 DEF RunInv, Answered, arguments, Pending
  <2>3. QED
    BY <2>1, <2>2
<1>6. Read' /\ Judgement'
  BY DEF RunInv, Read, Judgement, HasRead, IsExtracted, Normalizable, Months
<1>7. Recorded'
  BY SameDecision DEF RunInv, Recorded
<1>8. QED
  BY <1>4, <1>5, <1>6, <1>7 DEF RunInv

LEMMA OtherAttemptsKeep ==
  ASSUME CallInv, RunInv,
         \/ AnswerWithoutReading
         \/ \E c \in Contents : ReadWorkbook(c)
         \/ RefuseWorkbook
  PROVE  RunInv'
<1>0. PICK outcome, name :
        /\ Conclude(name, outcome) /\ UNCHANGED pipeline
        /\ \/ PrimaryAttempt(outcome) /\ stage = "escalating"
           \/ FallbackAttempt(outcome) /\ name = fallback /\ stage \in {"extracting", "escalating"}
        /\ \/ outcome.documents = <<>>
           \/ \E c \in Contents : outcome.documents = <<Extracted(c, "pdf")>>
  <2>1. CASE AnswerWithoutReading
    BY <2>1 DEF AnswerWithoutReading, FallbackAttempt
  <2>2. CASE \E c \in Contents : ReadWorkbook(c)
    BY <2>2 DEF ReadWorkbook, PrimaryAttempt, Reading, Raised
  <2>3. CASE RefuseWorkbook
    BY <2>3 DEF RefuseWorkbook, FallbackAttempt, Raised
  <2>4. QED
    BY <2>1, <2>2, <2>3
<1>1. result = Pending
  BY <1>0, AttemptsFindNothing
<1>2. /\ UNCHANGED arguments
      /\ outcome.kind # "data" => result' = result
      /\ outcome.kind = "data" => /\ result'.resolved /\ result'.provider_used = name
                                  /\ result'.documents = outcome.documents
  BY <1>0, <1>1, AttemptAnswers DEF Pending
<1>3. stage' = stage /\ stage \in {"extracting", "escalating"}
  BY <1>0 DEF pipeline
<1>4. Answered'
  <2>1. CASE outcome.kind # "data"
    BY <2>1, <1>1, <1>2, <1>3 DEF RunInv, Answered, arguments, Pending
  <2>2. CASE outcome.kind = "data"
    <3>1. result'.documents = <<>> \/
            \E fs \in {Head(result'.documents)} : IsExtracted(fs)' /\ result'.documents = <<fs>>
      BY <2>2, <1>0, <1>2 DEF IsExtracted, PrimaryExtensions
    <3>2. primary' = Backend /\ fallback' = Stub /\ ~hook' /\ fallback = Stub
      BY <1>2, <1>3 DEF RunInv, Answered, arguments
    <3>3. stage = "extracting" => result'.provider_used # primary'
      BY <1>0, <1>2, <2>2, <3>2, ProvidersDiffer
    <3>4. QED
      BY <1>3, <3>1, <3>2, <3>3 DEF Answered
  <2>3. QED
    BY <2>1, <2>2
<1>5. QED
  BY <1>0, <1>2, <1>4, CallInProgressKeeps DEF RunInv

LEMMA OrchestratorStepKeeps ==
  ASSUME CallInv, RunInv, OrchestratorStep
  PROVE  RunInv'
<1>1. UNCHANGED <<arguments, pipeline>> /\ stage \in {"extracting", "escalating"}
  BY DEF OrchestratorStep, Escalate, EmitMetrics
<1>2. \/ result' = result
      \/ ~result'.resolved /\ result'.documents = <<>>
  BY DEF OrchestratorStep, Escalate, EmitMetrics, Escalation
<1>3. Answered'
  BY <1>1, <1>2 DEF RunInv, Answered, arguments, pipeline, IsExtracted
<1>4. QED
  BY <1>1, <1>3, CallInProgressKeeps DEF RunInv

LEMMA AcceptsKeep ==
  ASSUME RunInv, AcceptExtraction \/ AcceptEscalation \/ SkipSecondary,
         result.route \in {"none"} \cup Open
  PROVE  RunInv'
<1>1. /\ UNCHANGED <<vars, bundle, document, workbook, content, decision, table, queue, score, fleet>>
      /\ stage \in {"extracting", "escalating", "secondary"}
      /\ stage' \in {"ValueError", "secondary", "AssertionError", "thresholds"}
      /\ route' = route \/ route' = result.route
  BY DEF AcceptExtraction, AcceptEscalation, SkipSecondary
<1>2. \/ fields' = fields /\ (stage' \in HasRead => stage \in HasRead)
      \/ /\ stage = "extracting" /\ result.resolved /\ result.provider_used = primary
         /\ fields' = Head(result.documents)
  BY DEF AcceptExtraction, AcceptEscalation, SkipSecondary, HasRead
<1>3. Chosen'
  BY <1>1 DEF RunInv, Chosen, Stages, Endings
<1>4. Answered'
  BY <1>1, AnsweredStays
<1>5. Read'
  <2>1. CASE fields' = fields /\ (stage' \in HasRead => stage \in HasRead)
    BY <1>1, <2>1 DEF RunInv, Read, IsExtracted
  <2>2. CASE /\ stage = "extracting" /\ result.resolved /\ result.provider_used = primary
             /\ fields' = Head(result.documents)
    <3>1. /\ content \in Contents /\ document.format = document.ext
          /\ fields' = Extracted(content, document.ext) /\ document.ext \in PrimaryExtensions
      BY <2>2 DEF RunInv, Answered, Chosen
    <3>2. QED
      BY <1>1, <3>1 DEF Read, IsExtracted
  <2>3. QED
    BY <1>2, <2>1, <2>2
<1>6. Judgement'
  BY <1>1 DEF RunInv, Judgement, Normalizable, Months
<1>7. Recorded'
  BY <1>1, SameDecision DEF RunInv, Recorded
<1>8. QED
  BY <1>3, <1>4, <1>5, <1>6, <1>7 DEF RunInv

LEMMA ThresholdsKeep ==
  ASSUME RunInv, ApplyThresholds
  PROVE  RunInv'
<1>1. /\ UNCHANGED <<vars, bundle, document, workbook, content, fields, route, table, queue, score, fleet>>
      /\ stage = "thresholds" /\ stage' = "performance" /\ decision'.escalate \in BOOLEAN
  BY DEF ApplyThresholds, ThresholdDecision
<1>2. Chosen'
  BY <1>1 DEF RunInv, Chosen, Stages, Endings
<1>3. Answered'
  BY <1>1, AnsweredStays
<1>4. Read' /\ Judgement'
  BY <1>1, SameEvidence DEF RunInv, Read, Judgement, HasRead, IsExtracted
<1>5. Recorded'
  BY <1>1 DEF RunInv, Recorded
<1>6. QED
  BY <1>2, <1>3, <1>4, <1>5 DEF RunInv

LEMMA PerformanceKeeps ==
  ASSUME RunInv, NEW w \in Workbooks, ResolvePerformance(w)
  PROVE  RunInv'
<1>1. /\ UNCHANGED <<vars, bundle, document, workbook, content, fields, route, decision, queue, score, fleet>>
      /\ stage = "performance" /\ stage' \in {"queue", "ValueError"}
      /\ table' = table \/ (table' = w /\ Normalizable(w.days))
  BY DEF ResolvePerformance
<1>2. Chosen'
  BY <1>1 DEF RunInv, Chosen, Stages, Endings
<1>3. Answered'
  BY <1>1, AnsweredStays
<1>4. Read'
  BY <1>1 DEF RunInv, Read, HasRead, IsExtracted
<1>5. Judgement'
  BY <1>1 DEF RunInv, Judgement, Normalizable, Months
<1>6. Recorded'
  BY <1>1, SameDecision DEF RunInv, Recorded
<1>7. QED
  BY <1>2, <1>3, <1>4, <1>5, <1>6 DEF RunInv

LEMMA QueueKeeps ==
  ASSUME RunInv, QueueItems
  PROVE  RunInv'
<1>1. /\ UNCHANGED <<vars, bundle, document, workbook, content, fields, route, decision, table, score, fleet>>
      /\ stage = "queue" /\ stage' = "score" /\ queue' = Queued
  BY DEF QueueItems
<1>2. Chosen'
  BY <1>1 DEF RunInv, Chosen, Stages, Endings
<1>3. Answered'
  BY <1>1, AnsweredStays
<1>4. Read' /\ Judgement'
  BY <1>1, SameEvidence DEF RunInv, Read, Judgement, HasRead, IsExtracted
<1>5. Recorded'
  BY <1>1, SameDecision DEF RunInv, Recorded
<1>6. QED
  BY <1>2, <1>3, <1>4, <1>5 DEF RunInv

LEMMA ScoreKeeps ==
  ASSUME RunInv, Score
  PROVE  RunInv'
<1>1. /\ UNCHANGED <<vars, bundle, document, workbook, content, fields, route, decision, table, queue, fleet>>
      /\ stage = "score"
      /\ \/ stage' = "ValueError"
         \/ stage' = "summarize" /\ score' = Explanation /\ (Explanation = "scored" => Explainable)
  BY DEF Score
<1>2. Chosen'
  BY <1>1 DEF RunInv, Chosen, Stages, Endings
<1>3. Answered'
  BY <1>1, AnsweredStays
<1>4. Read' /\ Judgement'
  BY <1>1, SameEvidence DEF RunInv, Read, Judgement, HasRead, IsExtracted
<1>5. Recorded'
  BY <1>1, SameDecision, SameEvidence DEF RunInv, Recorded
<1>6. QED
  BY <1>2, <1>3, <1>4, <1>5 DEF RunInv

LEMMA SummaryKeeps ==
  ASSUME RunInv, Summarize
  PROVE  RunInv'
<1>1. /\ UNCHANGED <<vars, bundle, document, workbook, content, fields, route, decision, table, queue, score>>
      /\ stage = "summarize" /\ stage' = "ended" /\ fleet' = FleetSummary
  BY DEF Summarize
<1>2. Chosen'
  BY <1>1 DEF RunInv, Chosen, Stages, Endings
<1>3. Answered'
  BY <1>1, AnsweredStays
<1>4. Read' /\ Judgement'
  BY <1>1, SameEvidence DEF RunInv, Read, Judgement, HasRead, IsExtracted
<1>5. FleetSummary' = FleetSummary
  BY <1>1 DEF FleetSummary, ThresholdSummary
<1>6. Recorded'
  BY <1>1, <1>5, SameDecision, SameEvidence DEF RunInv, Recorded
<1>7. QED
  BY <1>2, <1>3, <1>4, <1>6 DEF RunInv

LEMMA LibraryCallKeeps ==
  ASSUME CallInv, RunInv, LibraryCall
  PROVE  RunInv'
<1>1. stage = "none" /\ stage' = "none" /\ UNCHANGED pipeline
  BY DEF LibraryCall, pipeline
<1>2. UNCHANGED arguments /\ result'.documents \in Deliveries \cup {<<>>}
  <2>1. CASE \E outcome \in Outcomes : PrimaryAttempt(outcome) \/ FallbackAttempt(outcome)
    <3>1. PICK outcome \in Outcomes : PrimaryAttempt(outcome) \/ FallbackAttempt(outcome)
      BY <2>1
    <3>2. result = Pending
      BY <3>1, AttemptsFindNothing
    <3>3. PICK name : Conclude(name, outcome)
      BY <3>1 DEF PrimaryAttempt, FallbackAttempt
    <3>4. outcome.documents \in Deliveries \cup {<<>>}
      BY DEF Outcomes, Delivered, NothingReturned, Raised
    <3>5. QED
      BY <3>2, <3>3, <3>4, AttemptAnswers DEF Pending
  <2>2. CASE Escalate \/ EmitMetrics
    BY <2>2, <1>1 DEF Escalate, EmitMetrics, Escalation, RunInv, Answered
  <2>3. QED
    BY <2>1, <2>2 DEF LibraryCall, Next
<1>3. Answered'
  BY <1>1, <1>2 DEF Answered
<1>4. QED
  BY <1>1, <1>2, <1>3, CallInProgressKeeps DEF RunInv

LEMMA SettledRoute ==
  ASSUME CallInv
  PROVE  /\ result.route \in {"none"} \cup Open
         /\ result.resolved => result.provider_used \in Providers
<1>1. Route(attempts) \in Open /\ CrossCheckRoute(result.documents) \in {"none"} \cup Open
  BY DEF Route, CrossCheckRoute, Open
<1>2. CASE pc \in {"idle", "primary", "retry"}
  BY <1>2 DEF CallInv, Settles, Pending
<1>3. CASE pc \in {"emit", "returned", "raised"}
  <2>1. /\ Len(attempts) \in 1..Len(attempts)
        /\ attempts[Len(attempts)].provider \in Providers
    BY <1>3 DEF CallInv, CallTypeOK, Attempted
  <2>2. CASE result = Resolved(attempts, result)
    <3>1. /\ result.route = CrossCheckRoute(result.documents)
          /\ result.provider_used = attempts[Len(attempts)].provider
      BY <2>2 DEF Resolved, Last
    <3>2. QED
      BY <1>1, <2>1, <3>1
  <2>3. CASE result = Escalation(attempts)
    <3>1. result.route = Route(attempts) /\ ~result.resolved
      BY <2>3 DEF Escalation
    <3>2. QED
      BY <1>1, <3>1
  <2>4. QED
    BY <1>3, <2>2, <2>3 DEF CallInv, Settles
<1>4. QED
  BY <1>2, <1>3 DEF CallInv, CallTypeOK

\* Every step of the pipeline is a step of the call in progress, or none.
LEMMA PipelineCalls ==
  ASSUME CallInv, [PipelineNext]_<<vars, pipeline>>
  PROVE  CallInv'
<1>1. CASE UNCHANGED vars
  BY <1>1, CallStutters
<1>2. CASE Begin
  BY <1>2, CallBegins
<1>3. CASE \E outcome : PrimaryAttempt(outcome) \/ FallbackAttempt(outcome)
  BY <1>3, CallAttempts
<1>4. CASE Escalate \/ EmitMetrics
  BY <1>4, CallEscalates, CallEmits
<1>5. \/ UNCHANGED vars \/ Begin \/ Escalate \/ EmitMetrics
      \/ \E outcome : PrimaryAttempt(outcome) \/ FallbackAttempt(outcome)
  <2>1. CASE LibraryCall
    BY <2>1 DEF LibraryCall, Next
  <2>2. CASE Extract
    BY <2>2 DEF Extract, CallOrchestrator, ReadPrimary, ReadWorkbook, AnswerWithoutReading,
       RefuseWorkbook, OrchestratorStep, AcceptExtraction, AcceptEscalation, SkipSecondary, vars
  <2>3. CASE Register \/ SelectDocuments \/ ApplyThresholds \/ QueueItems \/ Score \/ Summarize
    BY <2>3 DEF Register, SelectDocuments, ApplyThresholds, QueueItems, Score, Summarize, vars
  <2>4. CASE \E w \in Workbooks : ResolvePerformance(w)
    BY <2>4 DEF ResolvePerformance, vars
  <2>5. QED
    BY <2>1, <2>2, <2>3, <2>4 DEF PipelineNext, vars
<1>6. QED
  BY <1>1, <1>2, <1>3, <1>4, <1>5

LEMMA PipelineRuns ==
  ASSUME CallInv, RunInv, [PipelineNext]_<<vars, pipeline>>
  PROVE  RunInv'
<1>1. CASE UNCHANGED <<vars, pipeline>>
  <2>1. UNCHANGED <<arguments, pipeline>>
    BY <1>1 DEF vars, arguments
  <2>2. Answered'
    BY <1>1 DEF RunInv, Answered, vars, pipeline, IsExtracted
  <2>3. QED
    BY <2>1, <2>2, CallInProgressKeeps DEF RunInv
<1>2. CASE LibraryCall
  BY <1>2, LibraryCallKeeps
<1>3. CASE Register \/ SelectDocuments \/ ApplyThresholds
  BY <1>3, RegisterKeeps, SelectKeeps, ThresholdsKeep
<1>4. CASE \E w \in Workbooks : ResolvePerformance(w)
  BY <1>4, PerformanceKeeps
<1>5. CASE QueueItems \/ Score \/ Summarize
  BY <1>5, QueueKeeps, ScoreKeeps, SummaryKeeps
<1>6. CASE Extract
  <2>1. CASE \/ CallOrchestrator("extract", "extracting")
             \/ CallOrchestrator("secondary", "escalating")
    BY <2>1, CallsKeep
  <2>2. CASE \E c \in Contents : ReadPrimary(c)
    BY <2>2, PrimaryReadKeeps
  <2>3. CASE AnswerWithoutReading \/ RefuseWorkbook \/ \E c \in Contents : ReadWorkbook(c)
    BY <2>3, OtherAttemptsKeep
  <2>4. CASE OrchestratorStep
    BY <2>4, OrchestratorStepKeeps
  <2>5. CASE AcceptExtraction \/ AcceptEscalation \/ SkipSecondary
    BY <2>5, AcceptsKeep, SettledRoute
  <2>6. QED
    BY <1>6, <2>1, <2>2, <2>3, <2>4, <2>5 DEF Extract
<1>7. QED
  BY <1>1, <1>2, <1>3, <1>4, <1>5, <1>6 DEF PipelineNext

LEMMA AlwaysRuns == PipelineSpec => [](CallInv /\ RunInv)
<1>1. CallInv /\ RunInv /\ [PipelineNext]_<<vars, pipeline>> => (CallInv /\ RunInv)'
  BY PipelineCalls, PipelineRuns
<1>2. QED
  BY <1>1, RunBegins, PTL DEF PipelineSpec

(***************************************************************************)
(* From the thresholds on the decision is the verdict of the policy on the *)
(* fields, and neither is touched again.                                   *)
(***************************************************************************)
AfterThresholds == {"performance", "queue", "score", "summarize", "ended"}

Verdict ==
  LET profile == SelectedProfile(content.type, ToSet(StandardFields), BaseConfig, Profiles)
      d == ThresholdDecision(fields, profile.key_fields, profile.config)
  IN [escalate |-> d.escalate, reasons |-> d.reasons]

Decided == stage \in AfterThresholds => decision = Verdict

LEMMA DecisionStands ==
  ASSUME Decided, [PipelineNext]_<<vars, pipeline>>
  PROVE  Decided'
<1> USE DEF AfterThresholds
<1>1. CASE ApplyThresholds
  BY <1>1 DEF ApplyThresholds, Decided, Verdict
<1>2. CASE /\ UNCHANGED <<content, fields, decision>>
           /\ stage' \in AfterThresholds => stage \in AfterThresholds
  <2>1. Verdict' = Verdict
    BY <1>2 DEF Verdict
  <2>2. QED
    BY <1>2, <2>1 DEF Decided
<1>3. CASE stage' \notin AfterThresholds
  BY <1>3 DEF Decided
<1>4. CASE LibraryCall \/ UNCHANGED <<vars, pipeline>>
  BY <1>2, <1>4 DEF LibraryCall, pipeline
<1>5. CASE Extract
  BY <1>3, <1>5 DEF Extract, CallOrchestrator, ReadPrimary, ReadWorkbook, AnswerWithoutReading,
     RefuseWorkbook, OrchestratorStep, AcceptExtraction, AcceptEscalation, SkipSecondary, pipeline
<1>6. CASE Register \/ SelectDocuments
  BY <1>3, <1>6 DEF Register, SelectDocuments
<1>7. CASE QueueItems \/ Score \/ Summarize \/ \E w \in Workbooks : ResolvePerformance(w)
  BY <1>2, <1>7 DEF QueueItems, Score, Summarize, ResolvePerformance
<1>8. QED
  BY <1>1, <1>4, <1>5, <1>6, <1>7 DEF PipelineNext

LEMMA AlwaysDecided == PipelineSpec => []Decided
<1>1. PipelineInit => Decided
  BY DEF PipelineInit, Decided, AfterThresholds
<1>2. QED
  BY <1>1, DecisionStands, PTL DEF PipelineSpec

(***************************************************************************)
(* The verdict on the fields extracted from a document lets it pass        *)
(* exactly if what it states satisfies the profile of its type.            *)
(***************************************************************************)
LEMMA VerdictIsSatisfaction ==
  ASSUME content \in Contents, document.ext \in PrimaryExtensions,
         fields = Extracted(content, document.ext)
  PROVE  (Verdict.escalate <=> ~Satisfies) /\ (Verdict.reasons = {} <=> Satisfies)
<1> DEFINE profile == SelectedProfile(content.type, ToSet(StandardFields), BaseConfig, Profiles)
           limits == profile.config
           best == FieldByKey(fields)
           Sure(min) == {k \in content.stated : Confidence[document.ext][k] >= min}
           covered == 100 * Cardinality(profile.key_fields \cap Sure(limits.key_field_confidence_min))
                        >= limits.document_key_field_coverage_min * Cardinality(profile.key_fields)
           complete == limits.mandatory_fields \subseteq Sure(limits.mandatory_field_min)
           failures == MandatoryFailures(best, limits) \cup
                       {<<"duplicate_field_key", k>> : k \in DuplicateKeys(fields)}
<1>1. /\ DuplicateKeys(fields) = {} /\ DOMAIN best = content.stated
      /\ \A k \in content.stated : best[k].confidence = Confidence[document.ext][k]
  BY ExtractionsAreUnique
<1>2. Satisfies <=> complete /\ covered
  BY DEF Satisfies
<1>3. CoverageMet(best, profile.key_fields, limits) <=> covered
  <2> HIDE DEF profile, best
  <2>1. Eligible(best, profile.key_fields, limits)
          = profile.key_fields \cap Sure(limits.key_field_confidence_min)
    BY <1>1 DEF Eligible
  <2>2. QED
    BY <2>1 DEF CoverageMet
<1>4. failures = {} <=> complete
  <2> HIDE DEF profile, best
  <2>1. limits.mandatory_field_min \in Int
    BY ConfigIsThresholdConfig DEF profile, SelectedProfile, ThresholdConfig, Percent
  <2>2. \A k \in content.stated : Confidence[document.ext][k] \in Int
    BY InputsAreReadable, FiveFields DEF Content, Confidence, PrimaryExtensions
  <2>3. failures = MandatoryFailures(best, limits)
    BY <1>1
  <2>4. MandatoryFailures(best, limits) = {} <=>
          \A k \in limits.mandatory_fields :
            k \in DOMAIN best /\ ~(best[k].confidence < limits.mandatory_field_min)
    BY DEF MandatoryFailures
  <2>5. complete <=> \A k \in limits.mandatory_fields :
          k \in content.stated /\ Confidence[document.ext][k] >= limits.mandatory_field_min
    OBVIOUS
  <2>6. QED
    BY <1>1, <2>1, <2>2, <2>3, <2>4, <2>5
<1>5. /\ Verdict.escalate = (failures # {} \/ ~CoverageMet(best, profile.key_fields, limits))
      /\ Verdict.reasons = IF failures # {} THEN failures
                           ELSE IF CoverageMet(best, profile.key_fields, limits) THEN {}
                           ELSE {<<"low_key_field_coverage">>}
  BY DEF Verdict, ThresholdDecision
<1> HIDE DEF failures, covered, complete
<1>6. QED
  BY <1>2, <1>3, <1>4, <1>5

-----------------------------------------------------------------------------
(***************************************************************************)
(* Every state of the pipeline and of the orchestrator is one the sources  *)
(* allow: the document read is one of the bundle's, its fields have keys   *)
(* and confidences of the extractors, and a record for the queue is a      *)
(* ValidationQueueItem.                                                    *)
(***************************************************************************)
THEOREM PipelineTypeCorrect == PipelineSpec => []StateOK
<1>1. ASSUME CallInv, RunInv PROVE StateOK
  <2>1. TypeOK
    BY <1>1, SettledRoute DEF TypeOK, CallInv, CallTypeOK, Attempt
  <2>2. \A i \in 1..Len(fields) : fields[i].key \in Keys /\ fields[i].confidence \in Percent
    <3>1. CASE fields = <<>>
      BY <3>1
    <3>2. CASE IsExtracted(fields)
      <4>1. fields \in Seq(ExtractedField)
        BY <3>2, FieldsAreExtracted DEF IsExtracted
      <4>2. \A i \in 1..Len(fields) : fields[i] \in ExtractedField
        BY <4>1, ElementOfSeq
      <4>3. QED
        BY <4>2 DEF ExtractedField, Keys
    <3>3. QED
      BY <1>1, <3>1, <3>2 DEF RunInv, Read
  <2>3. \A r \in queue : r.item \in ValidationQueueItem
    <3>1. NewItem(0) \in ValidationQueueItem
      <4>1. <<>> \in Seq(QueueEvent)
        OBVIOUS
      <4>2. QED
        BY <4>1 DEF NewItem, ValidationQueueItem, States, Open
    <3>2. QED
      BY <1>1, <3>1 DEF RunInv, Recorded, Queued
  <2>4. fleet.review_queue_outcome \in {"none"} \cup Open
    BY <1>1 DEF RunInv, Recorded, FleetSummary, NoFleet, Open
  <2>5. QED
    BY <1>1, <2>1, <2>2, <2>3, <2>4 DEF StateOK, RunInv, Chosen, Read, Judgement
<1>2. QED
  BY <1>1, AlwaysRuns, PTL

(***************************************************************************)
(* Whatever the limits of the policy, negative ones included, and whoever  *)
(* the providers are, a call retries as often as the policy allows and not *)
(* once more (RetriesUsePolicyUp).                                         *)
(***************************************************************************)
THEOREM RetriesMatchPolicy == PipelineSpec => []RetriesUsePolicyUp
BY AlwaysRuns, CallUsesPolicyUp, PTL

(***************************************************************************)
(* The counts, the route, the errors and the metrics of a result are those *)
(* of the attempts behind it (ResultTellsAttempts).                        *)
(***************************************************************************)
THEOREM ResultsTellAttempts == PipelineSpec => []ResultTellsAttempts
BY AlwaysRuns, CallTellsAttempts, PTL

\* The result of a call that returned, and the documents in it.
LEMMA SettledResult ==
  ASSUME CallInv, RunInv, Settled
  PROVE  /\ result.route = CrossCheckRoute(result.documents)
         /\ \/ result.documents = <<>>
            \/ result.documents \in Seq(Seq(Observation))
            \/ \E fs \in Seq(ExtractedField) : result.documents = <<fs>>
<1>1. result = Resolved(attempts, result)
  <2>1. pc = "returned" /\ result.resolved
    BY DEF Settled
  <2>2. ~Escalation(attempts).resolved
    BY DEF Escalation
  <2>3. QED
    BY <2>1, <2>2 DEF CallInv, Settles
<1>2. result.route = CrossCheckRoute(result.documents)
  BY <1>1 DEF Resolved
<1>3. CASE stage = "none"
  BY <1>2, <1>3, DeliveriesAreDocuments DEF RunInv, Answered
<1>4. CASE stage # "none"
  <2>1. CASE result.documents = <<>>
    BY <1>2, <2>1
  <2>2. CASE result.documents # <<>>
    <3>1. PICK fs : IsExtracted(fs) /\ result.documents = <<fs>>
      BY <1>4, <2>2 DEF RunInv, Answered
    <3>2. fs \in Seq(ExtractedField)
      BY <3>1, FieldsAreExtracted DEF IsExtracted
    <3>3. QED
      BY <1>2, <3>1, <3>2
  <2>3. QED
    BY <2>1, <2>2
<1>5. QED
  BY <1>3, <1>4

LEMMA DisagreementsSettled ==
  ASSUME CallInv, RunInv
  PROVE  DisagreementEscalates
<1> SUFFICES ASSUME Settled, Len(result.documents) > 1
             PROVE  result.route = "pending_triage" <=>
                      \E k \in KeyNumericFields : Contradictory(result.documents, k)
  BY DEF DisagreementEscalates
<1>1. result.documents \in Seq(Seq(Observation))
  <2>1. result.documents # <<>>
    OBVIOUS
  <2>2. \A fs : result.documents # <<fs>>
    <3> SUFFICES ASSUME NEW fs, result.documents = <<fs>> PROVE FALSE
      OBVIOUS
    <3>1. Len(result.documents) = 1
      OBVIOUS
    <3>2. QED
      BY <3>1
  <2>3. QED
    BY <2>1, <2>2, SettledResult
<1>2. result.route = CrossCheckRoute(result.documents)
  BY SettledResult
<1>3. disabled \in BOOLEAN
  BY DEF CallInv, CallTypeOK
<1>4. QED
  BY <1>1, <1>2, <1>3, ReportFindsContradictions DEF CrossCheckRoute

(***************************************************************************)
(* However many documents, fields and readings there are and whatever the  *)
(* tolerance, the cross-check asks an analyst exactly when the documents   *)
(* contradict each other (DisagreementEscalates).                          *)
(***************************************************************************)
THEOREM DisagreementsEscalate == PipelineSpec => []DisagreementEscalates
BY AlwaysRuns, DisagreementsSettled, PTL

(***************************************************************************)
(* Under no threshold policy does a contradiction escape both the          *)
(* cross-check and the duplicate rule (NoContradictionUnseen).             *)
(***************************************************************************)
THEOREM ContradictionsAreSeen == PipelineSpec => []NoContradictionUnseen
<1>1. ASSUME CallInv, RunInv PROVE NoContradictionUnseen
  <2> SUFFICES ASSUME Settled, NEW k \in KeyNumericFields, Contradictory(result.documents, k)
               PROVE  \/ result.route = "pending_triage"
                      \/ Len(result.documents) = 1 /\ Judged(Head(result.documents)).escalate
    BY DEF NoContradictionUnseen
  <2>1. Cardinality(Observed(result.documents, k)) > 1
    BY DEF Contradictory
  <2>2. ASSUME NEW S, NEW fs \in Seq(S), result.documents = <<fs>>
        PROVE  Len(result.documents) = 1 /\ Judged(Head(result.documents)).escalate
    <3>1. PICK i \in 1..Len(fs) : \E j \in 1..Len(fs) : i # j /\ fs[i].key = fs[j].key
      BY <2>1, <2>2, SpokenOfTwice
    <3>2. Judged(fs).escalate
      BY <3>1, DuplicatesEscalate
    <3>3. QED
      BY <2>2, <3>2
  <2>3. result.documents # <<>>
    <3>1. Observed(<<>>, k) = {}
      BY DEF Observed, Places
    <3>2. Cardinality({}) = 0
      BY FS_EmptySet
    <3> SUFFICES ASSUME result.documents = <<>> PROVE FALSE
      OBVIOUS
    <3>3. Cardinality(Observed(result.documents, k)) = 0
      BY <3>1, <3>2
    <3>4. QED
      BY <2>1, <3>3
  <2>4. CASE \E fs \in Seq(ExtractedField) : result.documents = <<fs>>
    BY <2>2, <2>4
  <2>5. CASE result.documents \in Seq(Seq(Observation)) /\ Len(result.documents) = 1
    <3>1. result.documents[1] \in Seq(Observation) /\ result.documents = <<result.documents[1]>>
      BY <2>5
    <3>2. QED
      BY <2>2, <3>1
  <2>6. CASE result.documents \in Seq(Seq(Observation)) /\ Len(result.documents) > 1
    BY <1>1, <2>6, DisagreementsSettled DEF DisagreementEscalates
  <2>7. result.documents \in Seq(Seq(Observation)) =>
          Len(result.documents) = 1 \/ Len(result.documents) > 1
    <3> SUFFICES ASSUME NEW ds \in Seq(Seq(Observation)), ds # <<>>
                 PROVE  Len(ds) = 1 \/ Len(ds) > 1
      BY <2>3
    <3> DEFINE n == Len(ds)
    <3>1. n \in Nat /\ n # 0
      BY EmptySeq, LenProperties
    <3> HIDE DEF n
    <3>2. n = 1 \/ n > 1
      BY <3>1
    <3>3. QED
      BY <3>2 DEF n
  <2>8. QED
    BY <1>1, <2>3, <2>4, <2>5, <2>6, <2>7, SettledResult
<1>2. QED
  BY <1>1, AlwaysRuns, PTL

(***************************************************************************)
(* For every bundle, document and profile, a run that returns has queued a *)
(* review exactly when the document does not satisfy its profile, and its  *)
(* warning and its summary tell the same (ReviewMatchesVerdict).           *)
(***************************************************************************)
THEOREM ReviewsMatchVerdict == PipelineSpec => []ReviewMatchesVerdict
<1>1. ASSUME RunInv, Decided PROVE ReviewMatchesVerdict
  <2> SUFFICES ASSUME stage = "ended" PROVE ReviewMatchesVerdict!2
    BY DEF ReviewMatchesVerdict
  <2>1. /\ content \in Contents /\ document.ext \in PrimaryExtensions
        /\ fields = Extracted(content, document.ext)
        /\ queue = Queued /\ fleet = FleetSummary
    BY <1>1 DEF RunInv, Chosen, Read, Recorded, HasRead
  <2>2. decision = Verdict
    BY <1>1 DEF Decided, AfterThresholds
  <2>3. (decision.escalate <=> ~Satisfies) /\ (decision.reasons = {} <=> Satisfies)
    BY <2>1, <2>2, VerdictIsSatisfaction
  <2>4. queue = IF Satisfies THEN {} ELSE {[reasons |-> decision.reasons, item |-> NewItem(0)]}
    BY <2>1, <2>3 DEF Queued
  <2>5. decision.escalate <=> "threshold" \in Warnings
    BY DEF Warnings
  <2>6. /\ fleet.validation_status = IF decision.escalate THEN "escalated" ELSE "accepted"
        /\ fleet.review_queue_outcome = IF queue # {} THEN "pending_triage" ELSE "none"
    BY <2>1 DEF FleetSummary
  <2>7. QED
    BY <2>3, <2>4, <2>5, <2>6
<1>2. QED
  BY <1>1, AlwaysRuns, AlwaysDecided, PTL

(***************************************************************************)
(* For every bundle, content and workbook, a score has the evidence that   *)
(* ScoreRestsOnEvidence lists behind it, without a gap between its months. *)
(***************************************************************************)
THEOREM ScoresRestOnEvidence == PipelineSpec => []ScoreRestsOnEvidence
<1>1. ASSUME CallInv, RunInv PROVE ScoreRestsOnEvidence
  <2> SUFFICES ASSUME stage = "ended", score = "scored" PROVE ScoreRestsOnEvidence!2
    BY DEF ScoreRestsOnEvidence
  <2>1. /\ content \in Contents /\ document.format = document.ext
        /\ document.ext \in PrimaryExtensions
        /\ fields = Extracted(content, document.ext)
        /\ table \in Workbooks \cup {NoFile} /\ (table # NoFile => Normalizable(table.days))
        /\ Explanation = "scored" /\ Explainable
    BY <1>1 DEF RunInv, Chosen, Read, Judgement, Recorded, HasRead
  <2>2. Evidenced /\ ~NonStandard
    BY <2>1 DEF Explanation
  <2>3. content.stated = ToSet(StandardFields)
    BY <2>1, <2>2, FieldsAreExtracted DEF Evidenced
  <2>4. document.ext = "pdf" => content.paged = content.stated
    <3> SUFFICES ASSUME document.ext = "pdf" PROVE content.paged = content.stated
      OBVIOUS
    <3>1. content.paged \subseteq content.stated
      BY <2>1, <2>3, InputsAreReadable DEF Content
    <3>2. \A i \in 1..Len(fields) : fields[i].key \in content.paged
      BY <2>1, FieldsAreExtracted DEF Explainable
    <3>3. content.stated \subseteq {fields[i].key : i \in 1..Len(fields)}
      <4> DEFINE fs == Extracted(content, document.ext)
      <4>1. content.stated \subseteq {fs[i].key : i \in 1..Len(fs)}
        BY <2>1, FieldsAreExtracted
      <4>2. QED
        BY <2>1, <4>1
    <3>4. QED
      BY <3>1, <3>2, <3>3
  <2>5. /\ table \in Workbooks /\ table.days # {} /\ ~table.flat /\ content.legible
        /\ Cardinality(table.days) >= 3
    BY <2>1, <2>2 DEF Evidenced, Available, MinWorkbookObservations
  <2>6. \A f \in ToSet(bundle) : ~f.tagged
    BY <2>2 DEF NonStandard
  <2>7. ~HasGap(table.days)
    BY <2>2 DEF NonStandard
  <2> DEFINE months == Months(table.days)
  <2>8. Cardinality(months) = Cardinality(table.days)
    BY <2>1, <2>5, NoFileIsNoFile, InputsAreReadable DEF Normalizable
  <2>9. IsFiniteSet(months) /\ months # {} /\ months \subseteq Int
    <3>1. table.days \subseteq DOMAIN Month /\ IsFiniteSet(table.days)
      BY <2>5, InputsAreReadable
    <3> DEFINE f == [d \in table.days |-> Month[d]]
    <3>2. /\ DOMAIN f = table.days /\ f \in [DOMAIN f -> {f[x] : x \in DOMAIN f}]
          /\ months = {f[x] : x \in DOMAIN f}
      BY DEF Months
    <3>3. IsFiniteSet(months)
      <4> HIDE DEF f, months
      <4>1. QED
        BY <3>1, <3>2, RangeIsFinite
    <3>4. months # {} /\ months \subseteq Int
      BY <2>5, <3>1, InputsAreReadable DEF Months
    <3>5. QED
      BY <3>3, <3>4
  <2>10. months = Min(months)..Max(months)
    <3>1. \A m \in Min(months)..Max(months) : m \in months
      BY <2>5, <2>7 DEF HasGap
    <3> HIDE DEF months
    <3>2. Max(months) \in months /\ \A m \in months : m <= Max(months)
      BY <2>9, FiniteSetsHaveMaximum
    <3>3. Min(months) \in months /\ \A m \in months : Min(months) <= m
      BY <2>9, FiniteSetsHaveMinimum
    <3>4. \A m \in months : m \in Min(months)..Max(months)
      BY <2>9, <3>2, <3>3
    <3>5. QED
      BY <3>1, <3>4
  <2>11. QED
    BY <2>1, <2>3, <2>4, <2>5, <2>6, <2>8, <2>10
<1>2. QED
  BY <1>1, AlwaysRuns, PTL
=============================================================================
