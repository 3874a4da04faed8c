---------------------------- MODULE SummaryProofs ----------------------------
(***************************************************************************)
(* Proofs about Summary, for any floating point system, any scores and any *)
(* number of records.                                                      *)
(***************************************************************************)
EXTENDS Summary, WellFoundedInduction, FiniteSetTheorems, TLAPS

-----------------------------------------------------------------------------
(* Rounding *)

\* A set of natural numbers that is not empty has a smallest element.
LEMMA SmallestOf ==
    ASSUME NEW T, T \subseteq Nat, T # {}
    PROVE  \E m \in T : \A k \in T : m <= k
<1> DEFINE R == {p \in Nat \X Nat : p[1] < p[2]}
<1>1. IsWellFoundedOn(R, Nat)
  BY NatLessThanWellFounded DEF OpToRel
<1>2. \A a, b \in Nat : a < b => <<a, b>> \in R
  OBVIOUS
<1> HIDE DEF R
<1>3. \E m \in T : \A k \in T : <<k, m>> \notin R
  BY <1>1, WFMin
<1>4. \A a, b \in Nat : <<a, b>> \notin R => b <= a
  BY <1>2
<1>5. QED
  BY <1>3, <1>4

\* Products of integers, as the provers need them.
LEMMA TimesOrder ==
    ASSUME NEW a \in Int, NEW b \in Int, NEW d \in Nat \ {0}
    PROVE  a * d \in Int /\ (a < b => a * d < b * d)
  OBVIOUS

\* Rounding returns a float, and one of those nearest to the quotient.
LEMMA RoundIsNearest ==
    ASSUME NEW n \in Int, NEW d \in Nat \ {0}
    PROVE  Round(n, d) \in Nearest(n, d) /\ Round(n, d) \in Floats
<1> DEFINE T == {Distance(f, n, d) : f \in Floats}
<1>1. \A f \in Floats : Distance(f, n, d) \in Nat
  <2> TAKE f \in Floats
  <2>1. f * d \in Int
    BY FloatsAssumption, TimesOrder
  <2>2. QED
    BY <2>1 DEF Distance
<1>2. T \subseteq Nat /\ T # {}
  BY <1>1, ScoresAssumption
<1>3. Nearest(n, d) # {}
  <2>1. \E m \in T : \A k \in T : m <= k
    <3> HIDE DEF T
    <3>1. QED
      BY <1>2, SmallestOf
  <2>2. PICK f \in Floats : \A g \in Floats : Distance(f, n, d) <= Distance(g, n, d)
    BY <2>1
  <2>3. QED
    BY <2>2 DEF Nearest
<1>4. \E f \in Nearest(n, d) : Nearest(n, d) \cap EvenFloats # {} => f \in EvenFloats
  BY <1>3
<1>5. Round(n, d) \in Nearest(n, d)
  BY <1>4 DEF Round
<1>6. QED
  BY <1>5 DEF Nearest

\* summary.go:148: the division alone never moves a mean out of the range of the scores,
\* whatever their signs.
\* As long as the sum itself was exact, count * min <= sum <= count * max, and then the
\* rounded quotient stays between min and max.
THEOREM RoundedMeanStaysInRange ==
    ASSUME NEW sum \in Int, NEW count \in Nat \ {0}, NEW lo \in Floats, NEW hi \in Floats,
           lo * count <= sum, sum <= hi * count
    PROVE  lo <= Round(sum, count) /\ Round(sum, count) <= hi
<1> DEFINE m == Round(sum, count)
<1>1. /\ m \in Floats
      /\ \A g \in Floats : Distance(m, sum, count) <= Distance(g, sum, count)
  BY RoundIsNearest DEF Nearest
<1>2. m \in Int /\ lo \in Int /\ hi \in Int
  BY <1>1, FloatsAssumption
<1> HIDE DEF m
<1>3. m * count \in Int /\ lo * count \in Int /\ hi * count \in Int
  BY <1>2, TimesOrder
<1>4. CASE m < lo
  <2>1. m * count < lo * count
    BY <1>2, <1>4, TimesOrder
  <2>2. Distance(m, sum, count) = sum - m * count
    BY <1>3, <2>1 DEF Distance
  <2>3. Distance(lo, sum, count) = sum - lo * count
    BY <1>3 DEF Distance
  <2>4. QED
    BY <1>1, <1>3, <2>1, <2>2, <2>3
<1>5. CASE hi < m
  <2>1. hi * count < m * count
    BY <1>2, <1>5, TimesOrder
  <2>2. Distance(m, sum, count) = m * count - sum
    BY <1>3, <2>1 DEF Distance
  <2>3. Distance(hi, sum, count) = hi * count - sum
    BY <1>3 DEF Distance
  <2>4. QED
    BY <1>1, <1>3, <2>1, <2>2, <2>3
<1>6. QED
  BY <1>2, <1>4, <1>5 DEF m

-----------------------------------------------------------------------------
(* The inductive invariant *)

\* A skipped record needs a stop; the totals satisfy the identities at every moment, and
\* the extremes are ordered from the first score on.
IInv ==
    /\ TypeOK
    /\ CountingIdentities
    /\ ScoreRange
    /\ acc.skipped > 0 => stop # "none"

LEMMA IInvInit == Init => IInv
  BY ScoresAssumption DEF Init, IInv, TypeOK, AccumulatorType, EmptyAccumulator, CountingIdentities,
     FailSum, ScoreRange, Codes, FailureCodes, BackfillReasons

\* The accumulator after one more score.
LEMMA AddScoreInv ==
    ASSUME NEW a \in AccumulatorType, NEW s \in Scores
    PROVE  /\ AddScore(a, s) \in AccumulatorType
           /\ AddScore(a, s).total = a.total /\ AddScore(a, s).completed = a.completed
           /\ AddScore(a, s).skipped = a.skipped /\ AddScore(a, s).success = a.success
           /\ AddScore(a, s).fail = a.fail /\ AddScore(a, s).byCode = a.byCode
           /\ AddScore(a, s).scoreCount = a.scoreCount + 1
           /\ AddScore(a, s).scoreMin <= s /\ s <= AddScore(a, s).scoreMax
           /\ AddScore(a, s).scoreMin = IF a.scoreCount > 0 /\ a.scoreMin < s THEN a.scoreMin ELSE s
           /\ AddScore(a, s).scoreMax = IF a.scoreCount > 0 /\ a.scoreMax > s THEN a.scoreMax ELSE s
           /\ AddScore(a, s).usage = a.usage
<1> DEFINE sum == Round(a.scoreSum + s, 1)
           low == IF a.scoreCount > 0 /\ a.scoreMin < s THEN a.scoreMin ELSE s
           high == IF a.scoreCount > 0 /\ a.scoreMax > s THEN a.scoreMax ELSE s
<1>1. a.scoreSum \in Int /\ s \in Int /\ a.scoreMin \in Int /\ a.scoreMax \in Int
  BY FloatsAssumption, ScoresAssumption DEF AccumulatorType
<1>2. sum \in Floats
  BY <1>1, RoundIsNearest
<1>3. /\ low \in Scores \cup {0} /\ high \in Scores \cup {0}
      /\ low <= s /\ s <= high
  BY <1>1 DEF AccumulatorType
<1>4. AddScore(a, s) = [a EXCEPT !.scoreCount = @ + 1, !.scoreSum = sum,
                                 !.scoreMin = low, !.scoreMax = high]
  BY DEF AddScore
<1> HIDE DEF sum, low, high
<1>5. AddScore(a, s) \in AccumulatorType
  <2> DEFINE n == a.scoreCount + 1
  <2>1. n \in Nat
    BY DEF AccumulatorType
  <2>2. AddScore(a, s) = [a EXCEPT !.scoreCount = n, !.scoreSum = sum,
                                   !.scoreMin = low, !.scoreMax = high]
    BY <1>4
  <2> HIDE DEF n
  <2>3. QED
    BY <1>2, <1>3, <2>1, <2>2, Zenon DEF AccumulatorType
<1>6. /\ AddScore(a, s).scoreMin = low
      /\ AddScore(a, s).scoreMax = high
  BY <1>4 DEF AccumulatorType
<1>7. /\ AddScore(a, s).total = a.total /\ AddScore(a, s).completed = a.completed
      /\ AddScore(a, s).skipped = a.skipped /\ AddScore(a, s).success = a.success
      /\ AddScore(a, s).fail = a.fail /\ AddScore(a, s).byCode = a.byCode
      /\ AddScore(a, s).scoreCount = a.scoreCount + 1
      /\ AddScore(a, s).usage = a.usage
  BY <1>4 DEF AccumulatorType
<1>8. QED
  BY <1>3, <1>5, <1>6, <1>7 DEF low, high

\* The accumulator before the status of an evaluation is looked at.
Started(a, e) == [a EXCEPT !.total = @ + 1, !.completed = @ + 1, !.usage = @ + e.usage]

LEMMA StartedInv ==
    ASSUME NEW a \in AccumulatorType, NEW e \in Evaluation
    PROVE  /\ Started(a, e) \in AccumulatorType
           /\ Started(a, e).total = a.total + 1 /\ Started(a, e).completed = a.completed + 1
           /\ Started(a, e).skipped = a.skipped /\ Started(a, e).success = a.success
           /\ Started(a, e).fail = a.fail /\ Started(a, e).byCode = a.byCode
           /\ Started(a, e).scoreCount = a.scoreCount
           /\ Started(a, e).scoreMin = a.scoreMin /\ Started(a, e).scoreMax = a.scoreMax
           /\ Started(a, e).usage = a.usage + e.usage
<1> DEFINE t == a.total + 1
           c == a.completed + 1
           u == a.usage + e.usage
<1>1. t \in Nat /\ c \in Nat /\ u \in Nat
  BY DEF AccumulatorType, Evaluation
<1>2. Started(a, e) = [a EXCEPT !.total = t, !.completed = c, !.usage = u]
  BY DEF Started
<1>3. Started(a, e) \in AccumulatorType
  <2> HIDE DEF t, c, u
  <2>1. QED
    BY <1>1, <1>2, Zenon DEF AccumulatorType
<1>4. QED
  BY <1>2, <1>3 DEF AccumulatorType

\* A valid evaluation that failed carries a code that may classify a failure.
LEMMA CodeOfFailure ==
    ASSUME NEW e \in Evaluation, ValidEvaluation(e), e.status = "fail"
    PROVE  CodeOf(e) \in FailureCodes
<1>1. \E x \in e.error : TRUE
  BY DEF ValidEvaluation
<1>2. QED
  BY <1>1 DEF ValidEvaluation, CodeOf, The

\* Folding in one valid evaluation keeps the identities and the order of the extremes.
LEMMA AddEvaluationInv ==
    ASSUME acc \in AccumulatorType, CountingIdentities, ScoreRange,
           NEW e \in Evaluation, ValidEvaluation(e), acc' = AddEvaluation(acc, e)
    PROVE  /\ acc' \in AccumulatorType
           /\ CountingIdentities' /\ ScoreRange'
           /\ acc'.skipped = acc.skipped
<1> DEFINE b == Started(acc, e)
<1>1. /\ b \in AccumulatorType
      /\ b.total = acc.total + 1 /\ b.completed = acc.completed + 1
      /\ b.skipped = acc.skipped /\ b.success = acc.success
      /\ b.fail = acc.fail /\ b.byCode = acc.byCode
      /\ b.scoreCount = acc.scoreCount
      /\ b.scoreMin = acc.scoreMin /\ b.scoreMax = acc.scoreMax
  BY StartedInv
<1>2. CASE e.status = "fail"
  <2> DEFINE c == CodeOf(e)
             n == b.fail + 1
             m == b.byCode[c] + 1
             g == [b.byCode EXCEPT ![c] = m]
  <2>1. c \in FailureCodes /\ c \in Codes
    BY <1>2, CodeOfFailure DEF Codes
  <2>2. n \in Nat /\ m \in Nat
    BY <1>1, <2>1 DEF AccumulatorType
  <2>3. acc' = [b EXCEPT !.fail = n, !.byCode = g]
    BY <1>2 DEF AddEvaluation, Started
  <2>4. acc' \in AccumulatorType
    <3>1. g \in [Codes -> Nat]
      <4> HIDE DEF b, c, m
      <4>1. QED
        BY <1>1, <2>1, <2>2 DEF AccumulatorType
    <3> HIDE DEF b, n, g
    <3>2. QED
      BY <1>1, <2>2, <2>3, <3>1, Zenon DEF AccumulatorType
  <2>5. /\ acc'.total = b.total /\ acc'.completed = b.completed /\ acc'.skipped = b.skipped
        /\ acc'.success = b.success /\ acc'.fail = n
        /\ acc'.byCode = g
        /\ acc'.scoreCount = b.scoreCount /\ acc'.scoreMin = b.scoreMin /\ acc'.scoreMax = b.scoreMax
    BY <1>1, <2>3 DEF AccumulatorType
  <2>6. acc.byCode \in [Codes -> Nat]
    BY DEF AccumulatorType
  <2>7. FailSum' = FailSum + 1 /\ acc'.byCode["skipped"] = acc.byCode["skipped"]
    BY <1>1, <2>1, <2>5, <2>6 DEF FailSum, Codes, FailureCodes
  <2>8. FailSum \in Nat
    BY <2>6 DEF FailSum, Codes, FailureCodes
  <2> HIDE DEF b, c, m, g
  <2>9. QED
    BY <1>1, <2>4, <2>5, <2>7, <2>8 DEF AccumulatorType, CountingIdentities, ScoreRange
<1>3. CASE e.status # "fail"
  <2> DEFINE n == b.success + 1
             d == [b EXCEPT !.success = n]
  <2>1. n \in Nat
    BY <1>1 DEF AccumulatorType
  <2>2. d \in AccumulatorType
    <3> HIDE DEF b, n
    <3>1. QED
      BY <1>1, <2>1, Zenon DEF AccumulatorType
  <2>3. /\ d.total = b.total /\ d.completed = b.completed /\ d.skipped = b.skipped
        /\ d.success = n /\ d.fail = b.fail /\ d.byCode = b.byCode
        /\ d.scoreCount = b.scoreCount /\ d.scoreMin = b.scoreMin /\ d.scoreMax = b.scoreMax
    BY <1>1 DEF AccumulatorType
  <2>4. acc.byCode \in [Codes -> Nat]
    BY DEF AccumulatorType
  <2>5. d.byCode = acc.byCode
    BY <1>1, <2>3
  <2>6. CASE e.score = {}
    <3>1. acc' = d
      BY <1>3, <2>6 DEF AddEvaluation, Started
    <3>2. FailSum' = FailSum
      BY <2>5, <3>1 DEF FailSum
    <3> HIDE DEF b, d
    <3>3. QED
      BY <1>1, <2>2, <2>3, <2>5, <3>1, <3>2 DEF AccumulatorType, CountingIdentities, ScoreRange
  <2>7. CASE e.score # {}
    <3> DEFINE s == The(e.score)
    <3>1. s \in Scores
      <4>1. PICK x \in Scores : e.score = {x}
        BY <2>7 DEF Evaluation, Optional
      <4>2. QED
        BY <4>1 DEF The
    <3>2. acc' = AddScore(d, s)
      BY <1>3, <2>7 DEF AddEvaluation, Started
    <3> HIDE DEF s, b, d
    <3>3. /\ acc' \in AccumulatorType
          /\ acc'.total = d.total /\ acc'.completed = d.completed
          /\ acc'.skipped = d.skipped /\ acc'.success = d.success
          /\ acc'.fail = d.fail /\ acc'.byCode = d.byCode
          /\ acc'.scoreCount = d.scoreCount + 1
          /\ acc'.scoreMin <= s /\ s <= acc'.scoreMax
      BY <2>2, <3>1, <3>2, AddScoreInv
    <3>4. FailSum' = FailSum
      BY <2>5, <3>3 DEF FailSum
    <3>5. acc'.scoreMin \in Int /\ acc'.scoreMax \in Int /\ s \in Int
      BY <3>1, <3>3, FloatsAssumption, ScoresAssumption DEF AccumulatorType
    <3>6. CountingIdentities'
      BY <1>1, <2>2, <2>3, <2>5, <3>3, <3>4 DEF AccumulatorType, CountingIdentities
    <3>7. QED
      BY <1>1, <2>3, <3>3, <3>5, <3>6 DEF ScoreRange
  <2>8. QED
    BY <2>6, <2>7
<1>4. QED
  BY <1>2, <1>3

LEMMA IInvStep == IInv /\ [Next]_vars => IInv'
<1> SUFFICES ASSUME IInv, [Next]_vars PROVE IInv'
  OBVIOUS
<1>1. /\ acc \in AccumulatorType /\ records \in Seq(RecordType)
      /\ stop \in BackfillReasons \cup {"none"}
      /\ phase \in {"grading", "backfill", "written", "refused", "faulty"}
      /\ CountingIdentities /\ ScoreRange /\ (acc.skipped > 0 => stop # "none")
  BY DEF IInv, TypeOK
<1>2. CASE Stop
  BY <1>1, <1>2 DEF Stop, IInv, TypeOK, CountingIdentities, FailSum, ScoreRange, BackfillReasons
<1>3. CASE WriteCompleted
  <2>1. PICK e \in Evaluation :
          \/ /\ ValidEvaluation(e)
             /\ acc' = AddEvaluation(acc, e)
             /\ records' = Append(records, [status |-> "completed", evaluation |-> e])
             /\ UNCHANGED phase
          \/ /\ ~ValidEvaluation(e)
             /\ phase' = "faulty"
             /\ UNCHANGED <<acc, records>>
    BY <1>3 DEF WriteCompleted
  <2>2. stop' = stop
    BY <1>3 DEF WriteCompleted
  <2>3. CASE ~ValidEvaluation(e)
    BY <1>1, <2>1, <2>2, <2>3 DEF IInv, TypeOK, CountingIdentities, FailSum, ScoreRange
  <2>4. CASE ValidEvaluation(e)
    <3>1. /\ acc' \in AccumulatorType /\ CountingIdentities' /\ ScoreRange'
          /\ acc'.skipped = acc.skipped
      BY <1>1, <2>1, <2>4, AddEvaluationInv
    <3>2. [status |-> "completed", evaluation |-> e] \in RecordType
      BY DEF RecordType
    <3>3. records' \in Seq(RecordType)
      BY <1>1, <2>1, <2>4, <3>2
    <3>4. QED
      BY <1>1, <2>1, <2>2, <2>4, <3>1, <3>3 DEF IInv, TypeOK
  <2>5. QED
    BY <2>3, <2>4
<1>4. CASE EndGrading
  BY <1>1, <1>4 DEF EndGrading, IInv, TypeOK, CountingIdentities, FailSum, ScoreRange
<1>5. CASE WriteSkipped
  <2> DEFINE t == acc.total + 1
             k == acc.skipped + 1
  <2>1. t \in Nat /\ k \in Nat
    BY <1>1 DEF AccumulatorType
  <2>2. /\ acc' = [acc EXCEPT !.total = t, !.skipped = k]
        /\ stop' = stop /\ phase' = phase /\ stop # "none"
    BY <1>5 DEF WriteSkipped, AddSkipped
  <2>3. acc' \in AccumulatorType
    <3> HIDE DEF t, k
    <3>1. QED
      BY <1>1, <2>1, <2>2, Zenon DEF AccumulatorType
  <2>4. /\ acc'.total = t /\ acc'.completed = acc.completed /\ acc'.skipped = k
        /\ acc'.success = acc.success /\ acc'.fail = acc.fail /\ acc'.byCode = acc.byCode
        /\ acc'.scoreCount = acc.scoreCount
        /\ acc'.scoreMin = acc.scoreMin /\ acc'.scoreMax = acc.scoreMax
    BY <1>1, <2>2 DEF AccumulatorType
  <2>5. FailSum' = FailSum
    BY <2>4 DEF FailSum
  <2>6. CountingIdentities' /\ ScoreRange'
    BY <1>1, <2>4, <2>5 DEF AccumulatorType, CountingIdentities, ScoreRange
  <2>7. [status |-> "skipped", reason |-> stop] \in RecordType
    BY <1>1, <2>2 DEF RecordType
  <2>8. records' \in Seq(RecordType)
    BY <1>1, <1>5, <2>7 DEF WriteSkipped
  <2>9. QED
    BY <1>1, <2>2, <2>3, <2>6, <2>8 DEF IInv, TypeOK
<1>6. CASE Finish
  BY <1>1, <1>6 DEF Finish, IInv, TypeOK, CountingIdentities, FailSum, ScoreRange
<1>7. CASE Terminating \/ UNCHANGED vars
  BY <1>1, <1>7 DEF Terminating, vars, IInv, TypeOK, CountingIdentities, FailSum, ScoreRange
<1>8. QED
  BY <1>2, <1>3, <1>4, <1>5, <1>6, <1>7 DEF Next

\* The totals agree with one another after every single record, not only in the result:
\* what the theorems below rest on.
LEMMA TotalsAlwaysAgree == Spec => []IInv
  BY IInvInit, IInvStep, PTL DEF Spec

\* The states of Summary are well typed: the totals never go below zero, and a sum is
\* always a number a float64 can be.
THEOREM TypeCorrect == Spec => []TypeOK
<1>1. IInv => TypeOK
  BY DEF IInv
<1>2. QED
  BY TotalsAlwaysAgree, <1>1, PTL

\* evalspec/validate.go:312-394: whatever valid records a run writes and however it stops,
\* the status, the stop reason and the totals of its result satisfy every identity that
\* EvalResult.Validate checks, the place of the mean apart.
THEOREM IdentitiesHold == Spec => []ResultIdentities
<1>1. IInv => ResultIdentities
  <2> SUFFICES ASSUME IInv PROVE ResultIdentities
    OBVIOUS
  <2>1. acc.skipped \in Nat
    BY DEF IInv, TypeOK, AccumulatorType
  <2>2. stop \in BackfillReasons \cup {"none"}
    BY DEF IInv, TypeOK
  <2>3. StatusBinding
    BY <2>1, <2>2 DEF IInv, StatusBinding, Status, StopReason
  <2>4. QED
    BY <2>3 DEF IInv, ResultIdentities
<1>2. QED
  BY TotalsAlwaysAgree, <1>1, PTL

-----------------------------------------------------------------------------
(* The totals and the records *)

Count(s, T) == Cardinality({i \in DOMAIN s : s[i] \in T})

\* One more record is one more of the kinds it belongs to.
LEMMA CountAppend ==
    ASSUME NEW R, NEW s \in Seq(R), NEW x \in R, NEW T
    PROVE  /\ Count(s, T) \in Nat
           /\ Count(Append(s, x), T) = Count(s, T) + (IF x \in T THEN 1 ELSE 0)
<1> DEFINE A == {i \in DOMAIN s : s[i] \in T}
           B == {i \in DOMAIN Append(s, x) : Append(s, x)[i] \in T}
           n == Len(s) + 1
<1>1. IsFiniteSet(A) /\ Cardinality(A) \in Nat
  <2>1. IsFiniteSet(1..Len(s))
    BY FS_Interval
  <2>2. A \subseteq 1..Len(s)
    OBVIOUS
  <2>3. QED
    BY <2>1, <2>2, FS_Subset, FS_CardinalityType
<1>2. /\ DOMAIN Append(s, x) = DOMAIN s \cup {n} /\ n \notin DOMAIN s
      /\ Append(s, x)[n] = x
      /\ \A i \in DOMAIN s : Append(s, x)[i] = s[i]
  OBVIOUS
<1>3. CASE x \in T
  <2>1. B = A \cup {n} /\ n \notin A
    BY <1>2, <1>3
  <2>2. QED
    BY <1>1, <1>3, <2>1, FS_AddElement DEF Count
<1>4. CASE x \notin T
  <2>1. B = A
    BY <1>2, <1>4
  <2>2. QED
    <3>1. Count(s, T) = Cardinality(A) /\ Count(Append(s, x), T) = Cardinality(B)
      BY DEF Count
    <3> HIDE DEF A, B
    <3>2. QED
      BY <1>1, <1>4, <2>1, <3>1
<1>5. QED
  BY <1>3, <1>4

\* What one valid evaluation adds to each total.
LEMMA AddEvaluationTotals ==
    ASSUME acc \in AccumulatorType, NEW e \in Evaluation, ValidEvaluation(e),
           acc' = AddEvaluation(acc, e)
    PROVE  /\ acc'.total = acc.total + 1 /\ acc'.skipped = acc.skipped
           /\ acc'.usage = acc.usage + e.usage
           /\ acc'.success = acc.success + (IF e.status = "success" THEN 1 ELSE 0)
           /\ \A c \in Codes : acc'.byCode[c] =
                acc.byCode[c] + (IF e.status = "fail" /\ c \in e.error THEN 1 ELSE 0)
           /\ e.score = {} => /\ acc'.scoreCount = acc.scoreCount
                              /\ acc'.scoreMin = acc.scoreMin /\ acc'.scoreMax = acc.scoreMax
           /\ e.score # {} =>
                LET s == The(e.score)
                IN /\ s \in Scores /\ acc'.scoreCount = acc.scoreCount + 1
                   /\ acc'.scoreMin = IF acc.scoreCount > 0 /\ acc.scoreMin < s THEN acc.scoreMin ELSE s
                   /\ acc'.scoreMax = IF acc.scoreCount > 0 /\ acc.scoreMax > s THEN acc.scoreMax ELSE s
<1> DEFINE b == Started(acc, e)
<1>1. /\ b \in AccumulatorType
      /\ b.total = acc.total + 1 /\ b.skipped = acc.skipped /\ b.success = acc.success
      /\ b.fail = acc.fail /\ b.byCode = acc.byCode /\ b.usage = acc.usage + e.usage
      /\ b.scoreCount = acc.scoreCount
      /\ b.scoreMin = acc.scoreMin /\ b.scoreMax = acc.scoreMax
  BY StartedInv
<1>2. acc.byCode \in [Codes -> Nat] /\ acc.success \in Nat /\ b.fail \in Nat
  BY <1>1 DEF AccumulatorType
<1>3. CASE e.status = "fail"
  <2> DEFINE c == CodeOf(e)
             g == [b.byCode EXCEPT ![c] = b.byCode[c] + 1]
  <2>1. c \in Codes /\ e.error = {c} /\ e.score = {}
    <3>1. PICK x \in Codes : e.error = {x}
      BY <1>3 DEF Evaluation, Optional, ValidEvaluation
    <3>2. c = x
      BY <3>1 DEF CodeOf, The
    <3>3. QED
      BY <1>3, <3>1, <3>2 DEF ValidEvaluation
  <2>2. acc' = [b EXCEPT !.fail = b.fail + 1, !.byCode = g]
    BY <1>3 DEF AddEvaluation, Started
  <2>3. /\ acc'.total = b.total /\ acc'.skipped = b.skipped /\ acc'.success = b.success
        /\ acc'.byCode = g /\ acc'.usage = b.usage
        /\ acc'.scoreCount = b.scoreCount /\ acc'.scoreMin = b.scoreMin /\ acc'.scoreMax = b.scoreMax
    BY <1>1, <2>2 DEF AccumulatorType
  <2>4. \A d \in Codes : acc'.byCode[d] = acc.byCode[d] + (IF d \in e.error THEN 1 ELSE 0)
    <3> HIDE DEF b, c
    <3>1. QED
      BY <1>1, <1>2, <2>1, <2>3
  <2> HIDE DEF b, c, g
  <2>5. QED
    BY <1>1, <1>2, <1>3, <2>1, <2>3, <2>4
<1>4. CASE e.status # "fail"
  <2> DEFINE n == b.success + 1
             d == [b EXCEPT !.success = n]
  <2>1. e.status = "success" /\ n \in Nat
    BY <1>1, <1>2, <1>4 DEF ValidEvaluation
  <2>2. d \in AccumulatorType
    <3> HIDE DEF b, n
    <3>1. QED
      BY <1>1, <2>1, Zenon DEF AccumulatorType
  <2>3. /\ d.total = b.total /\ d.skipped = b.skipped /\ d.success = n /\ d.byCode = b.byCode
        /\ d.usage = b.usage /\ d.scoreCount = b.scoreCount
        /\ d.scoreMin = b.scoreMin /\ d.scoreMax = b.scoreMax
    BY <1>1 DEF AccumulatorType
  <2>4. \A c \in Codes : b.byCode[c] = acc.byCode[c] + (IF e.status = "fail" /\ c \in e.error THEN 1 ELSE 0)
    BY <1>1, <1>2, <1>4
  <2>5. CASE e.score = {}
    <3>1. acc' = d
      BY <1>4, <2>5 DEF AddEvaluation, Started
    <3> HIDE DEF b, d
    <3>2. QED
      BY <1>1, <2>1, <2>3, <2>4, <2>5, <3>1 DEF n
  <2>6. CASE e.score # {}
    <3> DEFINE s == The(e.score)
    <3>1. s \in Scores
      <4>1. PICK x \in Scores : e.score = {x}
        BY <2>6 DEF Evaluation, Optional
      <4>2. QED
        BY <4>1 DEF The
    <3>2. acc' = AddScore(d, s)
      BY <1>4, <2>6 DEF AddEvaluation, Started
    <3> HIDE DEF s, b, d
    <3>3. /\ acc'.total = d.total /\ acc'.skipped = d.skipped /\ acc'.success = d.success
          /\ acc'.byCode = d.byCode /\ acc'.usage = d.usage /\ acc'.scoreCount = d.scoreCount + 1
          /\ acc'.scoreMin = IF d.scoreCount > 0 /\ d.scoreMin < s THEN d.scoreMin ELSE s
          /\ acc'.scoreMax = IF d.scoreCount > 0 /\ d.scoreMax > s THEN d.scoreMax ELSE s
      BY <2>2, <3>1, <3>2, AddScoreInv
    <3>4. QED
      BY <1>1, <2>1, <2>3, <2>4, <2>6, <3>1, <3>3 DEF n, s
  <2>7. QED
    BY <2>5, <2>6
<1>5. QED
  BY <1>3, <1>4

SkippedRecords == {r \in RecordType : r.status = "skipped"}
SuccessRecords == {r \in RecordType : r.status = "completed" /\ r.evaluation.status = "success"}
FailRecords(c) == {r \in RecordType : /\ r.status = "completed"
                                      /\ r.evaluation.status = "fail" /\ c \in r.evaluation.error}
UsageRecords == {r \in RecordType : r.status = "completed" /\ r.evaluation.usage = 1}
ScoresOf(s) == {The(s[i].evaluation.score) :
                    i \in {j \in DOMAIN s : s[j].status = "completed" /\ s[j].evaluation.score # {}}}

\* What the totals a say of the records s: the scores have been counted, too.
CountsOf(a, s) ==
    /\ a.total = Len(s)
    /\ a.skipped = Count(s, SkippedRecords)
    /\ a.success = Count(s, SuccessRecords)
    /\ \A c \in Codes : a.byCode[c] = Count(s, FailRecords(c))
    /\ a.usage = Count(s, UsageRecords)

ExtremesOf(a, s) ==
    /\ ScoresOf(s) \subseteq Scores
    /\ a.scoreCount > 0 <=> ScoresOf(s) # {}
    /\ a.scoreCount > 0 => /\ a.scoreMin \in ScoresOf(s) /\ \A x \in ScoresOf(s) : a.scoreMin <= x
                           /\ a.scoreMax \in ScoresOf(s) /\ \A x \in ScoresOf(s) : a.scoreMax >= x

TotalsInv == CountsOf(acc, records) /\ ExtremesOf(acc, records)

\* One more record adds its score to those there are, if it has one.
LEMMA ScoresAppend ==
    ASSUME NEW s \in Seq(RecordType), NEW x \in RecordType
    PROVE  ScoresOf(Append(s, x)) =
             ScoresOf(s) \cup (IF x.status = "completed" /\ x.evaluation.score # {}
                               THEN {The(x.evaluation.score)} ELSE {})
<1>1. /\ DOMAIN Append(s, x) = DOMAIN s \cup {Len(s) + 1} /\ Len(s) + 1 \notin DOMAIN s
      /\ Append(s, x)[Len(s) + 1] = x
      /\ \A i \in DOMAIN s : Append(s, x)[i] = s[i]
  OBVIOUS
<1> DEFINE t == Append(s, x)
<1> HIDE DEF t
<1>2. QED
  BY <1>1 DEF t, ScoresOf

LEMMA TotalsInit == Init => TotalsInv
<1> SUFFICES ASSUME Init PROVE TotalsInv
  OBVIOUS
<1>1. records = <<>> /\ acc = EmptyAccumulator
  BY DEF Init
<1>2. \A T : Count(<<>>, T) = 0
  BY FS_EmptySet DEF Count
<1>3. ScoresOf(<<>>) = {}
  BY DEF ScoresOf
<1>4. QED
  BY <1>1, <1>2, <1>3 DEF TotalsInv, CountsOf, ExtremesOf, EmptyAccumulator

\* Folding in one valid evaluation keeps totals and records together.
LEMMA TotalsEvaluation ==
    ASSUME IInv, TotalsInv, NEW e \in Evaluation, ValidEvaluation(e),
           acc' = AddEvaluation(acc, e),
           records' = Append(records, [status |-> "completed", evaluation |-> e])
    PROVE  TotalsInv'
<1> DEFINE rec == [status |-> "completed", evaluation |-> e]
<1>1. /\ acc \in AccumulatorType /\ records \in Seq(RecordType)
      /\ rec \in RecordType /\ records' = Append(records, rec)
  BY DEF IInv, TypeOK, RecordType
<1>2. /\ rec \notin SkippedRecords
      /\ rec \in SuccessRecords <=> e.status = "success"
      /\ \A c \in Codes : rec \in FailRecords(c) <=> e.status = "fail" /\ c \in e.error
      /\ rec \in UsageRecords <=> e.usage = 1
      /\ e.usage \in {0, 1}
      /\ rec.status = "completed" /\ rec.evaluation = e
  BY <1>1 DEF SkippedRecords, SuccessRecords, FailRecords, UsageRecords, Evaluation
<1> HIDE DEF rec
<1>3. \A T : /\ Count(records, T) \in Nat
             /\ Count(records', T) = Count(records, T) + (IF rec \in T THEN 1 ELSE 0)
  BY <1>1, CountAppend
<1>4. CountsOf(acc, records)'
  <2>1. acc'.total = Len(records')
    BY <1>1, AddEvaluationTotals DEF TotalsInv, CountsOf
  <2>2. acc'.skipped = Count(records', SkippedRecords)
    BY <1>1, <1>2, <1>3, AddEvaluationTotals DEF TotalsInv, CountsOf
  <2>3. acc'.success = Count(records', SuccessRecords)
    BY <1>1, <1>2, <1>3, AddEvaluationTotals DEF TotalsInv, CountsOf
  <2>4. ASSUME NEW c \in Codes PROVE acc'.byCode[c] = Count(records', FailRecords(c))
    BY <1>1, <1>2, <1>3, AddEvaluationTotals DEF TotalsInv, CountsOf
  <2>5. acc'.usage = Count(records', UsageRecords)
    BY <1>1, <1>2, <1>3, AddEvaluationTotals DEF TotalsInv, CountsOf
  <2>6. QED
    BY <2>1, <2>2, <2>3, <2>4, <2>5 DEF CountsOf
<1>5. ExtremesOf(acc, records)'
  <2>1. ScoresOf(records') = ScoresOf(records) \cup (IF e.score # {} THEN {The(e.score)} ELSE {})
    BY <1>1, <1>2, ScoresAppend
  <2>2. ExtremesOf(acc, records) /\ acc.scoreCount \in Nat /\ Scores \subseteq Int
    BY <1>1, FloatsAssumption, ScoresAssumption DEF TotalsInv, AccumulatorType
  <2>3. CASE e.score = {}
    <3>1. ScoresOf(records') = ScoresOf(records)
      BY <2>1, <2>3
    <3>2. QED
      BY <1>1, <2>2, <2>3, <3>1, AddEvaluationTotals DEF ExtremesOf
  <2>4. CASE e.score # {}
    <3> DEFINE v == The(e.score)
    <3>1. ScoresOf(records') = ScoresOf(records) \cup {v}
      BY <2>1, <2>4
    <3>2. /\ v \in Scores /\ acc'.scoreCount = acc.scoreCount + 1
          /\ acc'.scoreMin = IF acc.scoreCount > 0 /\ acc.scoreMin < v THEN acc.scoreMin ELSE v
          /\ acc'.scoreMax = IF acc.scoreCount > 0 /\ acc.scoreMax > v THEN acc.scoreMax ELSE v
      BY <1>1, <2>4, AddEvaluationTotals
    <3> HIDE DEF v
    <3>3. CASE acc.scoreCount > 0
      <4> DEFINE S == ScoresOf(records)
      <4>1. /\ S \subseteq Int /\ v \in Int
            /\ acc.scoreMin \in S /\ \A x \in S : acc.scoreMin <= x
            /\ acc.scoreMax \in S /\ \A x \in S : acc.scoreMax >= x
        BY <2>2, <3>2, <3>3 DEF ExtremesOf
      <4> HIDE DEF S
      <4>2. acc'.scoreMin \in S \cup {v} /\ \A x \in S \cup {v} : acc'.scoreMin <= x
        <5> DEFINE m == acc.scoreMin
                   k == acc'.scoreMin
        <5>1. k = IF m < v THEN m ELSE v
          BY <3>2, <3>3
        <5>2. m \in Int /\ m \in S /\ \A x \in S : m <= x
          BY <4>1
        <5> HIDE DEF m, k
        <5>3. k \in S \cup {v}
          BY <5>1, <5>2
        <5>4. k <= v /\ \A x \in S : k <= x
          BY <5>1, <5>2, <4>1
        <5>5. QED
          BY <5>3, <5>4 DEF k
      <4>3. acc'.scoreMax \in S \cup {v} /\ \A x \in S \cup {v} : acc'.scoreMax >= x
        <5> DEFINE m == acc.scoreMax
                   k == acc'.scoreMax
        <5>1. k = IF m > v THEN m ELSE v
          BY <3>2, <3>3
        <5>2. m \in Int /\ m \in S /\ \A x \in S : m >= x
          BY <4>1
        <5> HIDE DEF m, k
        <5>3. k \in S \cup {v}
          BY <5>1, <5>2
        <5>4. k >= v /\ \A x \in S : k >= x
          BY <5>1, <5>2, <4>1
        <5>5. QED
          BY <5>3, <5>4 DEF k
      <4>4. S \cup {v} \subseteq Scores /\ acc'.scoreCount > 0
        BY <2>2, <3>2, <3>3 DEF S, ExtremesOf
      <4>5. QED
        BY <3>1, <4>2, <4>3, <4>4 DEF S, ExtremesOf
    <3>4. CASE acc.scoreCount = 0
      BY <2>2, <3>1, <3>2, <3>4 DEF ExtremesOf
    <3>5. QED
      BY <2>2, <3>3, <3>4
  <2>5. QED
    BY <2>3, <2>4
<1>6. QED
  BY <1>4, <1>5 DEF TotalsInv

LEMMA TotalsSkipped == ASSUME IInv, TotalsInv, WriteSkipped PROVE TotalsInv'
<1> DEFINE rec == [status |-> "skipped", reason |-> stop]
           t == acc.total + 1
           k == acc.skipped + 1
<1>1. /\ acc \in AccumulatorType /\ records \in Seq(RecordType)
      /\ rec \in RecordType /\ records' = Append(records, rec)
  BY DEF IInv, TypeOK, RecordType, WriteSkipped
<1>2. /\ rec \in SkippedRecords /\ rec \notin SuccessRecords /\ rec \notin UsageRecords
      /\ \A c \in Codes : rec \notin FailRecords(c)
      /\ rec.status = "skipped"
  BY <1>1 DEF SkippedRecords, SuccessRecords, FailRecords, UsageRecords
<1>3. acc' = [acc EXCEPT !.total = t, !.skipped = k]
  BY DEF WriteSkipped, AddSkipped
<1>4. /\ acc'.total = t /\ acc'.skipped = k /\ acc'.success = acc.success
      /\ acc'.byCode = acc.byCode /\ acc'.usage = acc.usage
      /\ acc'.scoreCount = acc.scoreCount
      /\ acc'.scoreMin = acc.scoreMin /\ acc'.scoreMax = acc.scoreMax
  BY <1>1, <1>3 DEF AccumulatorType
<1> HIDE DEF rec
<1>5. \A T : /\ Count(records, T) \in Nat
             /\ Count(records', T) = Count(records, T) + (IF rec \in T THEN 1 ELSE 0)
  BY <1>1, CountAppend
<1>6. CountsOf(acc, records)'
  <2>1. acc'.total = Len(records')
    BY <1>1, <1>4 DEF TotalsInv, CountsOf
  <2>2. acc'.skipped = Count(records', SkippedRecords)
    BY <1>2, <1>4, <1>5 DEF TotalsInv, CountsOf
  <2>3. acc'.success = Count(records', SuccessRecords)
    BY <1>2, <1>4, <1>5 DEF TotalsInv, CountsOf
  <2>4. ASSUME NEW c \in Codes PROVE acc'.byCode[c] = Count(records', FailRecords(c))
    BY <1>2, <1>4, <1>5 DEF TotalsInv, CountsOf
  <2>5. acc'.usage = Count(records', UsageRecords)
    BY <1>2, <1>4, <1>5 DEF TotalsInv, CountsOf
  <2>6. QED
    BY <2>1, <2>2, <2>3, <2>4, <2>5 DEF CountsOf
<1>7. ExtremesOf(acc, records)'
  <2>1. ScoresOf(records') = ScoresOf(records)
    BY <1>1, <1>2, ScoresAppend
  <2>2. QED
    BY <1>4, <2>1 DEF TotalsInv, ExtremesOf
<1>8. QED
  BY <1>6, <1>7 DEF TotalsInv

LEMMA TotalsStep == IInv /\ TotalsInv /\ [Next]_vars => TotalsInv'
<1> SUFFICES ASSUME IInv, TotalsInv, [Next]_vars PROVE TotalsInv'
  OBVIOUS
<1>1. CASE UNCHANGED <<acc, records>>
  BY <1>1 DEF TotalsInv, CountsOf, ExtremesOf
<1>2. CASE WriteCompleted /\ ~UNCHANGED <<acc, records>>
  BY <1>2, TotalsEvaluation DEF WriteCompleted
<1>3. CASE WriteSkipped
  BY <1>3, TotalsSkipped
<1>4. QED
  BY <1>1, <1>2, <1>3 DEF Next, Stop, EndGrading, Finish, Terminating, vars

\* summary.go:47-107: however many records are folded in, each total is the number of
\* the records it is about, and the extremes are those of the scores in the file.
THEOREM TotalsAreCounted == Spec => []TotalsAreTheRecords
<1>1. IInv /\ TotalsInv => TotalsAreTheRecords
  <2> SUFFICES ASSUME IInv, TotalsInv PROVE TotalsAreTheRecords
    OBVIOUS
  <2>1. records \in Seq(RecordType) /\ \A i \in DOMAIN records : records[i] \in RecordType
    BY DEF IInv, TypeOK
  <2>2. Where(LAMBDA r : r.status = "skipped") = {i \in DOMAIN records : records[i] \in SkippedRecords}
    BY <2>1 DEF Where, SkippedRecords
  <2>3. Evaluated(LAMBDA e : e.status = "success") = {i \in DOMAIN records : records[i] \in SuccessRecords}
    BY <2>1 DEF Evaluated, Where, SuccessRecords
  <2>4. \A c \in Codes : Evaluated(LAMBDA e : e.status = "fail" /\ c \in e.error)
                           = {i \in DOMAIN records : records[i] \in FailRecords(c)}
    BY <2>1 DEF Evaluated, Where, FailRecords
  <2>5. Evaluated(LAMBDA e : e.usage = 1) = {i \in DOMAIN records : records[i] \in UsageRecords}
    BY <2>1 DEF Evaluated, Where, UsageRecords
  <2>6. {The(records[i].evaluation.score) : i \in Evaluated(LAMBDA e : e.score # {})} = ScoresOf(records)
    BY DEF Evaluated, Where, ScoresOf
  <2>7. /\ acc.total = Len(records)
        /\ acc.skipped = Cardinality(Where(LAMBDA r : r.status = "skipped"))
        /\ acc.success = Cardinality(Evaluated(LAMBDA e : e.status = "success"))
        /\ \A c \in Codes : acc.byCode[c] = Cardinality(Evaluated(LAMBDA e : e.status = "fail" /\ c \in e.error))
        /\ acc.usage = Cardinality(Evaluated(LAMBDA e : e.usage = 1))
    BY <2>2, <2>3, <2>4, <2>5 DEF TotalsInv, CountsOf, Count
  <2>8. QED
    BY <2>6, <2>7 DEF TotalsInv, ExtremesOf, TotalsAreTheRecords
<1>2. QED
  BY IInvInit, IInvStep, TotalsInit, TotalsStep, <1>1, PTL DEF Spec

=============================================================================
