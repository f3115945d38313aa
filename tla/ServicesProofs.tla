--------------------------- MODULE ServicesProofs ----------------------------
(* Proofs about the services around the rounds: that a score is capped by the *)
(* gates, fair and never raised by the second model, and that the payload for *)
(* the oracle is complete and sorted, for every rubric and whatever the models*)
(* answer; that only entrants are given a private problem and that solutions  *)
(* are scored against the text that was given out, for any number of wallets  *)
(* and texts and whatever fails or restarts in between; and that form tokens  *)
(* and sessions of the admin dashboard which came to their end let nobody in  *)
(* again, for any number of them, any times and any restarts.                 *)
EXTENDS Scorer, ConfidentialProblem, Credentials, SumTheorems

-----------------------------------------------------------------------------
(* The score of one answer                                                    *)

Checks == Seq([weight : Int, unskippable : BOOLEAN])

\* A fifth of the rubric, which limits a score that must not be below 0.
Fifth(checks) == PercentOf(UNSKIPPABLE_FAIL_CAP_PERCENT, MaxPossible(checks))
Cap(checks)   == Max({0, Fifth(checks)})

\* The greater of two numbers.
LEMMA MaxOfTwo ==
  ASSUME NEW a \in Int, NEW b \in Int
  PROVE  Max({a, b}) = IF a >= b THEN a ELSE b
BY DEF Max

\* The smaller of two numbers.
LEMMA MinOfTwo ==
  ASSUME NEW a \in Int, NEW b \in Int
  PROVE  Min({a, b}) = IF a <= b THEN a ELSE b
BY DEF Min

\* Every rubric a round may be scored with is a list of weighed checks
\* (build_full_rubric, parse_sponsor_rubric).
LEMMA RubricIsChecks ==
  ASSUME NEW items \in SponsorRubrics
  PROVE  LET checks == build_full_rubric(parse_sponsor_rubric(items))
         IN  checks \in Checks /\ PassSets(Len(checks)) \subseteq SUBSET DOMAIN checks
<1> DEFINE checks == build_full_rubric(parse_sponsor_rubric(items))
           weights == <<600, 600, 400, 500, 300, 600, 300, 400, 400, 300, 500, 400,
                        400, 500, 400, 400, 300, 350, 350, 600, 500, 400, 250, 250>>
<1>1. DEFAULT_SPONSOR_CHECKS \in Checks
  <2>1. weights \in Seq(Int)
    OBVIOUS
  <2>2. DEFAULT_SPONSOR_CHECKS
          = [i \in DOMAIN weights |-> Check(weights[i], i \in {1, 2, 4, 6, 10, 20})]
    BY DEF DEFAULT_SPONSOR_CHECKS
  <2> HIDE DEF weights
  <2>3. DOMAIN weights = 1 .. Len(weights) /\ Len(weights) \in Nat
        /\ \A i \in DOMAIN weights : weights[i] \in Int
    BY <2>1
  <2>4. \A i \in DOMAIN weights :
          Check(weights[i], i \in {1, 2, 4, 6, 10, 20})
            \in [weight : Int, unskippable : BOOLEAN]
    BY <2>3 DEF Check
  <2> QED
    BY <2>2, <2>3, <2>4 DEF Checks
<1>2. parse_sponsor_rubric(items) \in Checks
  <2>1. items \in Seq(RubricItems)
    BY RubricAssumption
  <2>2. DOMAIN items = 1 .. Len(items) /\ Len(items) \in Nat
        /\ \A i \in DOMAIN items : items[i] \in RubricItems
    BY <2>1
  <2> DEFINE weight(i) == IF "weight" \in DOMAIN items[i] THEN items[i].weight
                          ELSE DEFAULT_WEIGHT
             gate(i)   == "unskippable" \in DOMAIN items[i] /\ items[i].unskippable
  <2>3. parse_sponsor_rubric(items) = [i \in DOMAIN items |-> Check(weight(i), gate(i))]
    BY DEF parse_sponsor_rubric
  <2>4. \A i \in DOMAIN items : weight(i) \in Int /\ gate(i) \in BOOLEAN
    BY <2>2 DEF RubricItems, DEFAULT_WEIGHT
  <2> HIDE DEF weight, gate
  <2>5. \A i \in DOMAIN items :
          Check(weight(i), gate(i)) \in [weight : Int, unskippable : BOOLEAN]
    BY <2>4 DEF Check
  <2> QED
    BY <2>2, <2>3, <2>5 DEF Checks
<1>3. checks \in Checks
  BY <1>1, <1>2 DEF build_full_rubric
<1>4. PassSets(Len(checks)) \subseteq SUBSET DOMAIN checks
  BY PassAssumption
<1> QED
  BY <1>3, <1>4

\* What a sequence over S holds.
LEMMA ElementOf ==
  ASSUME NEW S, NEW seq \in Seq(S), NEW i \in DOMAIN seq
  PROVE  seq[i] \in S
OBVIOUS

\* The checks are finitely many and weigh integers.
LEMMA ChecksWeigh ==
  ASSUME NEW checks \in Checks
  PROVE  IsFiniteSet(DOMAIN checks) /\ \A i \in DOMAIN checks : checks[i].weight \in Int
<1>1. DOMAIN checks = 1 .. Len(checks) /\ Len(checks) \in Nat
  BY DEF Checks
<1>2. IsFiniteSet(1 .. Len(checks))
  BY <1>1, FS_Interval
<1>3. \A i \in DOMAIN checks : checks[i] \in [weight : Int, unskippable : BOOLEAN]
  BY ElementOf DEF Checks
<1> QED
  BY <1>1, <1>2, <1>3

\* What passed checks weigh (compute_score, base_score).
LEMMA WeighIsInt ==
  ASSUME NEW checks \in Checks, NEW S \in SUBSET DOMAIN checks
  PROVE  Weigh(checks, S) \in Int
<1> DEFINE w == [i \in DOMAIN checks |-> checks[i].weight]
<1>1. IsFiniteSet(DOMAIN checks) /\ \A i \in DOMAIN checks : w[i] \in Int
  BY ChecksWeigh
<1> HIDE DEF w
<1>2. IsFiniteSet(S) /\ \A i \in S : w[i] \in Int
  BY <1>1, FS_Subset
<1>3. SumFunctionOnSet(w, S) \in Int
  BY <1>2, SumRemove
<1> QED
  BY <1>3 DEF Weigh, w

\* One check more adds its weight.
LEMMA WeighOneMore ==
  ASSUME NEW checks \in Checks, NEW S \in SUBSET DOMAIN checks, NEW i \in DOMAIN checks \ S
  PROVE  /\ checks[i].weight \in Int
         /\ Weigh(checks, S \cup {i}) = Weigh(checks, S) + checks[i].weight
<1> DEFINE w == [k \in DOMAIN checks |-> checks[k].weight]
           T == S \cup {i}
<1>1. /\ IsFiniteSet(DOMAIN checks) /\ \A k \in DOMAIN checks : w[k] \in Int
      /\ checks[i].weight \in Int /\ w[i] = checks[i].weight
  BY ChecksWeigh
<1>2. T \ {i} = S /\ T \subseteq DOMAIN checks /\ S \subseteq DOMAIN checks /\ i \in T
  OBVIOUS
<1> HIDE DEF w, T
<1>3. /\ IsFiniteSet(T) /\ \A k \in T : w[k] \in Int
      /\ IsFiniteSet(S) /\ \A k \in S : w[k] \in Int
  BY <1>1, <1>2, FS_Subset
<1>4. SumFunctionOnSet(w, T) = w[i] + SumFunctionOnSet(w, S)
  BY <1>2, <1>3, SumRemove
<1>5. SumFunctionOnSet(w, S) \in Int
  BY <1>3, SumRemove
<1> QED
  BY <1>1, <1>4, <1>5 DEF Weigh, w, T

\* The rubric and its fifth are numbers, the cap is not below 0.
LEMMA CapIsNat ==
  ASSUME NEW checks \in Checks
  PROVE  /\ MaxPossible(checks) \in Int /\ Fifth(checks) \in Int /\ Cap(checks) \in Nat
         /\ Cap(checks) = IF Fifth(checks) <= 0 THEN 0 ELSE Fifth(checks)
<1>1. PICK m, fifth : m = MaxPossible(checks) /\ fifth = Fifth(checks)
  OBVIOUS
<1>2. m \in Int
  BY <1>1, WeighIsInt DEF MaxPossible
<1>3. fifth \in Int
  BY <1>1, <1>2 DEF Fifth, PercentOf, UNSKIPPABLE_FAIL_CAP_PERCENT
<1>4. Max({0, fifth}) = IF 0 >= fifth THEN 0 ELSE fifth
  BY <1>3, MaxOfTwo
<1> QED
  BY <1>1, <1>2, <1>3, <1>4 DEF Cap

\* The parts of a score as numbers: what passed, what was missed of the
\* skippable checks, and what the verdict makes of it.
Missed(checks, S) == Weigh(checks, DOMAIN checks \ (S \cup Gates(checks)))

Adjusted(base, missed, cap, verdict) ==
  CASE verdict = "EXCEPTIONAL"  -> base + missed
    [] verdict = "ELEGANT"      -> base + Truncated(missed, 2)
    [] verdict = "COHERENT"     -> base
    [] verdict = "MINOR_ISSUES" -> base + Truncated(-base, 10)
    [] verdict = "FLAWED"       -> base + Truncated(-base, 5)
    [] verdict = "FUNDAMENTALLY_BROKEN" -> IF base <= cap THEN base ELSE cap

VerdictNames == {"EXCEPTIONAL", "ELEGANT", "COHERENT", "MINOR_ISSUES", "FLAWED",
                 "FUNDAMENTALLY_BROKEN"}

Limited(max, cap, whole, sum) ==
  LET final == IF whole THEN sum ELSE IF sum <= cap THEN sum ELSE cap
      most  == IF max <= final THEN max ELSE final
  IN  IF 0 >= most THEN 0 ELSE most

\* The verdicts are six (Verdict).
LEMMA VerdictsAre == Range(Verdicts) = VerdictNames
BY DEF Range, Verdicts, VerdictNames

\* A base score with the bonus or the malus of a verdict is a number.
LEMMA AdjustedIsInt ==
  ASSUME NEW base \in Int, NEW missed \in Int, NEW cap \in Int, NEW verdict \in VerdictNames
  PROVE  Adjusted(base, missed, cap, verdict) \in Int
BY DEF Adjusted, VerdictNames, Truncated

\* The score in terms of these numbers (compute_score).
LEMMA ScoreIs ==
  ASSUME NEW checks \in Checks, NEW S \in SUBSET DOMAIN checks, NEW verdict \in VerdictNames
  PROVE  /\ Weigh(checks, S) \in Int /\ Missed(checks, S) \in Int
         /\ compute_score(checks, Answer(S, FALSE, verdict)) = 0
         /\ compute_score(checks, Answer(S, TRUE, verdict))
              = Limited(MaxPossible(checks), Fifth(checks), Gates(checks) \subseteq S,
                        Adjusted(Weigh(checks, S), Missed(checks, S), Fifth(checks), verdict))
<1>1. PICK base, missed, max, cap, adj :
        /\ base = Weigh(checks, S) /\ missed = Missed(checks, S)
        /\ max = MaxPossible(checks) /\ cap = Fifth(checks)
        /\ adj = VerdictAdjustment(checks, S, verdict)
  OBVIOUS
<1>2. base \in Int /\ missed \in Int /\ max \in Int /\ cap \in Int
  <2>1. DOMAIN checks \ (S \cup Gates(checks)) \in SUBSET DOMAIN checks
    OBVIOUS
  <2> QED
    BY <1>1, <2>1, WeighIsInt, CapIsNat DEF Missed
<1>3. base + adj = Adjusted(base, missed, cap, verdict)
  <2>1. adj = CASE verdict = "EXCEPTIONAL"  -> missed
                [] verdict = "ELEGANT"      -> Truncated(missed, 2)
                [] verdict = "COHERENT"     -> 0
                [] verdict = "MINOR_ISSUES" -> Truncated(-base, 10)
                [] verdict = "FLAWED"       -> Truncated(-base, 5)
                [] verdict = "FUNDAMENTALLY_BROKEN" -> -(base - Min({base, cap}))
    BY <1>1 DEF VerdictAdjustment, Missed, Fifth, FUNDAMENTALLY_BROKEN_CAP_PERCENT,
                UNSKIPPABLE_FAIL_CAP_PERCENT
  <2>2. Min({base, cap}) = IF base <= cap THEN base ELSE cap
    BY <1>2, MinOfTwo
  <2> QED
    BY <1>2, <2>1, <2>2 DEF Adjusted, VerdictNames, Truncated
<1>4. Adjusted(base, missed, cap, verdict) \in Int
  BY <1>2, AdjustedIsInt
<1>5. PICK sum : sum = base + adj
  OBVIOUS
<1>6. /\ Answer(S, FALSE, verdict).baseline = FALSE
      /\ Answer(S, TRUE, verdict).baseline = TRUE
      /\ Answer(S, TRUE, verdict).passed = S /\ Answer(S, TRUE, verdict).verdict = verdict
  BY DEF Answer
<1>7. compute_score(checks, Answer(S, FALSE, verdict)) = 0
  BY <1>6 DEF compute_score
<1>8. compute_score(checks, Answer(S, TRUE, verdict))
        = LET final == IF Gates(checks) \subseteq S THEN sum ELSE Min({sum, cap})
          IN  Max({0, Min({max, final})})
  BY <1>1, <1>5, <1>6 DEF compute_score, Fifth
<1>9. PICK final : final = IF Gates(checks) \subseteq S THEN sum ELSE Min({sum, cap})
  OBVIOUS
<1>10. /\ sum \in Int /\ final \in Int
       /\ final = IF Gates(checks) \subseteq S THEN sum ELSE IF sum <= cap THEN sum ELSE cap
  BY <1>2, <1>3, <1>4, <1>5, <1>9, MinOfTwo
<1>11. /\ Min({max, final}) = IF max <= final THEN max ELSE final
       /\ Min({max, final}) \in Int
  BY <1>2, <1>10, MinOfTwo
<1>12. Max({0, Min({max, final})}) = IF 0 >= Min({max, final}) THEN 0 ELSE Min({max, final})
  BY <1>11, MaxOfTwo
<1> QED
  BY <1>1, <1>2, <1>3, <1>5, <1>7, <1>8, <1>9, <1>10, <1>11, <1>12 DEF Limited

\* A failed gate leaves a fifth of the rubric at most (compute_score).
LEMMA FailedGateCaps ==
  ASSUME NEW checks \in Checks, NEW S \in SUBSET DOMAIN checks, NEW baseline \in BOOLEAN,
         NEW verdict \in VerdictNames, NEW answer, answer = Answer(S, baseline, verdict)
  PROVE  /\ compute_score(checks, answer) \in Nat
         /\ FailsGate(checks, answer) => compute_score(checks, answer) <= Cap(checks)
<1>3. PICK max, fifth, cap, sum :
        /\ max = MaxPossible(checks) /\ fifth = Fifth(checks) /\ cap = Cap(checks)
        /\ sum = Adjusted(Weigh(checks, S), Missed(checks, S), Fifth(checks), verdict)
  OBVIOUS
<1>4. /\ max \in Int /\ fifth \in Int /\ sum \in Int
      /\ cap \in Nat /\ cap = IF fifth <= 0 THEN 0 ELSE fifth
  BY <1>3, CapIsNat, ScoreIs, AdjustedIsInt
<1>5. CASE baseline = FALSE
  <2>1. compute_score(checks, answer) = 0
    <3>1. answer = Answer(S, FALSE, verdict)
      BY <1>5
    <3>2. compute_score(checks, Answer(S, FALSE, verdict)) = 0
      BY ZenonT(30), ScoreIs
    <3> QED
      BY <3>1, <3>2
  <2> QED
    BY <1>3, <1>4, <2>1
<1>6. CASE baseline = TRUE
  <2>1. compute_score(checks, answer) = Limited(max, fifth, Gates(checks) \subseteq S, sum)
    <3>1. answer = Answer(S, TRUE, verdict)
      BY <1>6
    <3>2. compute_score(checks, Answer(S, TRUE, verdict))
            = Limited(MaxPossible(checks), Fifth(checks), Gates(checks) \subseteq S,
                      Adjusted(Weigh(checks, S), Missed(checks, S), Fifth(checks), verdict))
      BY ZenonT(30), ScoreIs
    <3> QED
      BY <1>3, <3>1, <3>2
  <2>2. FailsGate(checks, answer) => ~(Gates(checks) \subseteq S)
    BY <1>6 DEF FailsGate, Answer
  <2>3. Limited(max, fifth, Gates(checks) \subseteq S, sum) \in Nat
    BY <1>4 DEF Limited
  <2>4. ~(Gates(checks) \subseteq S)
          => Limited(max, fifth, Gates(checks) \subseteq S, sum) <= cap
    BY <1>4 DEF Limited
  <2> QED
    BY <1>3, <2>1, <2>2, <2>3, <2>4
<1> QED
  BY <1>5, <1>6

-----------------------------------------------------------------------------
(* Better never scores less                                                  *)

\* A higher sum never becomes a lower score, nor does passing all gates.
LEMMA LimitedIsMonotone ==
  ASSUME NEW max \in Int, NEW cap \in Int, NEW whole \in BOOLEAN, NEW whole2 \in BOOLEAN,
         NEW sum \in Int, NEW sum2 \in Int, sum <= sum2, whole => whole2
  PROVE  Limited(max, cap, whole, sum) <= Limited(max, cap, whole2, sum2)
BY DEF Limited

\* Truncation loses nothing of the order, and a step is not longer than before.
LEMMA TruncatedSteps ==
  ASSUME NEW n \in Int, NEW k \in Nat, NEW d \in {2, 5, 10}
  PROVE  /\ Truncated(n, d) \in Int
         /\ Truncated(n - k, d) <= Truncated(n, d)
         /\ Truncated(n, d) <= k + Truncated(n - k, d)
<1>1. d = 2 \/ d = 5 \/ d = 10
  OBVIOUS
<1>2. CASE n >= 0 /\ n - k >= 0
  BY <1>1, <1>2 DEF Truncated
<1>3. CASE n >= 0 /\ n - k < 0
  BY <1>1, <1>3 DEF Truncated
<1>4. CASE n < 0
  BY <1>1, <1>4 DEF Truncated
<1> QED
  BY <1>2, <1>3, <1>4

\* A check more that passes, of the skippable ones or a gate.
LEMMA AdjustedIsMonotone ==
  ASSUME NEW base \in Int, NEW missed \in Int, NEW weight \in Nat, NEW cap \in Int,
         NEW missed2 \in Int, missed2 = missed \/ missed2 + weight = missed,
         NEW verdict \in VerdictNames
  PROVE  Adjusted(base, missed, cap, verdict)
           <= Adjusted(base + weight, missed2, cap, verdict)
<1>1. (base + weight) \in Int
  OBVIOUS
<1>2. CASE verdict = "EXCEPTIONAL"
  BY <1>2 DEF Adjusted
<1>3. CASE verdict = "ELEGANT"
  <2>1. missed2 = missed \/ missed2 = missed - weight
    OBVIOUS
  <2>2. /\ Truncated(missed, 2) \in Int /\ Truncated(missed - weight, 2) \in Int
        /\ Truncated(missed, 2) <= weight + Truncated(missed - weight, 2)
    BY TruncatedSteps
  <2>3. base + Truncated(missed, 2) <= (base + weight) + Truncated(missed2, 2)
    BY <2>1, <2>2
  <2> QED
    BY <1>3, <2>3 DEF Adjusted
<1>4. CASE verdict = "COHERENT"
  BY <1>4 DEF Adjusted
<1>5. ASSUME NEW d \in {5, 10}
      PROVE  base + Truncated(-base, d) <= (base + weight) + Truncated(-(base + weight), d)
  <2>1. -(base + weight) = (-base) - weight /\ (-base) \in Int
    OBVIOUS
  <2>2. /\ Truncated(-base, d) \in Int /\ Truncated((-base) - weight, d) \in Int
        /\ Truncated(-base, d) <= weight + Truncated((-base) - weight, d)
    BY <2>1, TruncatedSteps
  <2> QED
    BY <2>1, <2>2
<1>6. CASE verdict = "MINOR_ISSUES"
  BY <1>5, <1>6 DEF Adjusted
<1>7. CASE verdict = "FLAWED"
  BY <1>5, <1>7 DEF Adjusted
<1>8. CASE verdict = "FUNDAMENTALLY_BROKEN"
  BY <1>8 DEF Adjusted
<1> QED
  BY <1>2, <1>3, <1>4, <1>6, <1>7, <1>8 DEF VerdictNames

\* The verdicts that are rates are ordered.
LEMMA VerdictsAreOrdered ==
  ASSUME NEW base \in Nat, NEW missed \in Nat, NEW cap \in Int
  PROVE  /\ Adjusted(base, missed, cap, "EXCEPTIONAL")
              >= Adjusted(base, missed, cap, "ELEGANT")
         /\ Adjusted(base, missed, cap, "ELEGANT")
              >= Adjusted(base, missed, cap, "COHERENT")
         /\ Adjusted(base, missed, cap, "COHERENT")
              >= Adjusted(base, missed, cap, "MINOR_ISSUES")
         /\ Adjusted(base, missed, cap, "MINOR_ISSUES")
              >= Adjusted(base, missed, cap, "FLAWED")
BY DEF Adjusted, Truncated

\* Who passes one check more that weighs something, or nothing, does not score
\* less, for whatever rubric and verdict (compute_score).
LEMMA PassingMoreIsBetter ==
  ASSUME NEW checks \in Checks, NEW S \in SUBSET DOMAIN checks, NEW i \in DOMAIN checks \ S,
         checks[i].weight >= 0, NEW verdict \in VerdictNames
  PROVE  compute_score(checks, Answer(S, TRUE, verdict))
           <= compute_score(checks, Answer(S \cup {i}, TRUE, verdict))
<1>1. PICK T : T = S \cup {i}
  OBVIOUS
<1>2. T \in SUBSET DOMAIN checks
  BY <1>1
<1>3. PICK max, cap, weight, base, missed, base2, missed2 :
        /\ max = MaxPossible(checks) /\ cap = Fifth(checks) /\ weight = checks[i].weight
        /\ base = Weigh(checks, S) /\ missed = Missed(checks, S)
        /\ base2 = Weigh(checks, T) /\ missed2 = Missed(checks, T)
  OBVIOUS
<1>4. /\ max \in Int /\ cap \in Int /\ weight \in Nat /\ base \in Int /\ missed \in Int
      /\ base2 = base + weight /\ missed2 \in Int
  <2>1. max \in Int /\ cap \in Int
    BY <1>3, CapIsNat
  <2>2. base \in Int /\ missed \in Int
    BY <1>3, ScoreIs
  <2>3. missed2 \in Int
    BY <1>2, <1>3, ScoreIs
  <2>4. weight \in Int /\ weight >= 0 /\ base2 = base + weight
    BY <1>1, <1>3, WeighOneMore
  <2> QED
    BY <2>1, <2>2, <2>3, <2>4
<1>5. missed2 = missed \/ missed2 + weight = missed
  <2> DEFINE rest  == DOMAIN checks \ (S \cup Gates(checks))
             rest2 == DOMAIN checks \ (T \cup Gates(checks))
  <2>1. CASE i \in Gates(checks)
    <3>1. rest = rest2
      BY <1>1, <2>1
    <3> QED
      BY <1>3, <3>1 DEF Missed
  <2>2. CASE i \notin Gates(checks)
    <3>1. /\ rest = rest2 \cup {i} /\ i \in DOMAIN checks \ rest2
          /\ rest2 \in SUBSET DOMAIN checks
      BY <1>1, <2>2
    <3> HIDE DEF rest, rest2
    <3>2. Weigh(checks, rest2 \cup {i}) = Weigh(checks, rest2) + checks[i].weight
      BY <3>1, WeighOneMore
    <3> QED
      BY <1>3, <3>1, <3>2 DEF Missed, rest, rest2
  <2> QED
    BY <2>1, <2>2
<1>6. Adjusted(base, missed, cap, verdict) <= Adjusted(base2, missed2, cap, verdict)
  BY <1>4, <1>5, AdjustedIsMonotone
<1>7. /\ Adjusted(base, missed, cap, verdict) \in Int
      /\ Adjusted(base2, missed2, cap, verdict) \in Int
  BY <1>4, AdjustedIsInt
<1>8. PICK whole, whole2 \in BOOLEAN : /\ whole = (Gates(checks) \subseteq S)
                                       /\ whole2 = (Gates(checks) \subseteq T)
  OBVIOUS
<1>9. whole => whole2
  BY <1>1, <1>8
<1>10. Limited(max, cap, whole, Adjusted(base, missed, cap, verdict))
         <= Limited(max, cap, whole2, Adjusted(base2, missed2, cap, verdict))
  BY <1>4, <1>6, <1>7, <1>9, LimitedIsMonotone
<1>11. /\ compute_score(checks, Answer(S, TRUE, verdict))
            = Limited(max, cap, whole, Adjusted(base, missed, cap, verdict))
       /\ compute_score(checks, Answer(T, TRUE, verdict))
            = Limited(max, cap, whole2, Adjusted(base2, missed2, cap, verdict))
  <2>1. compute_score(checks, Answer(S, TRUE, verdict))
          = Limited(MaxPossible(checks), Fifth(checks), Gates(checks) \subseteq S,
                    Adjusted(Weigh(checks, S), Missed(checks, S), Fifth(checks), verdict))
    BY ZenonT(30), ScoreIs
  <2>2. compute_score(checks, Answer(T, TRUE, verdict))
          = Limited(MaxPossible(checks), Fifth(checks), Gates(checks) \subseteq T,
                    Adjusted(Weigh(checks, T), Missed(checks, T), Fifth(checks), verdict))
    BY ZenonT(30), <1>1, <1>2, ScoreIs
  <2> QED
    BY <1>3, <1>8, <2>1, <2>2
<1> QED
  BY <1>1, <1>10, <1>11

\* What checks without a negative weight weigh.
LEMMA WeighIsNat ==
  ASSUME NEW checks \in Checks, NonNegative(checks), NEW S \in SUBSET DOMAIN checks
  PROVE  Weigh(checks, S) \in Nat
<1> DEFINE w == [i \in DOMAIN checks |-> checks[i].weight]
<1>1. IsFiniteSet(DOMAIN checks) /\ \A i \in DOMAIN checks : w[i] \in Nat
  BY ChecksWeigh DEF NonNegative
<1> HIDE DEF w
<1>2. IsFiniteSet(S) /\ \A i \in S : w[i] \in Nat
  BY <1>1, FS_Subset
<1>3. SumFunctionOnSet(w, S) \in Nat
  BY <1>2, SumNat
<1> QED
  BY <1>3 DEF Weigh, w

\* A score follows the sum it is made of (compute_score).
LEMMA BetterSumIsBetter ==
  ASSUME NEW checks \in Checks, NEW S \in SUBSET DOMAIN checks,
         NEW v \in VerdictNames, NEW u \in VerdictNames,
         Adjusted(Weigh(checks, S), Missed(checks, S), Fifth(checks), v)
           >= Adjusted(Weigh(checks, S), Missed(checks, S), Fifth(checks), u)
  PROVE  compute_score(checks, Answer(S, TRUE, v)) >= compute_score(checks, Answer(S, TRUE, u))
<1>1. PICK max, cap, base, missed :
        /\ max = MaxPossible(checks) /\ cap = Fifth(checks)
        /\ base = Weigh(checks, S) /\ missed = Missed(checks, S)
  OBVIOUS
<1>2. PICK whole \in BOOLEAN : whole = (Gates(checks) \subseteq S)
  OBVIOUS
<1>3. max \in Int /\ cap \in Int /\ base \in Int /\ missed \in Int
  BY <1>1, CapIsNat, ScoreIs
<1>4. \A x \in VerdictNames :
        compute_score(checks, Answer(S, TRUE, x))
          = Limited(max, cap, whole, Adjusted(base, missed, cap, x))
  BY ZenonT(30), <1>1, <1>2, ScoreIs
<1>5. /\ Adjusted(base, missed, cap, v) \in Int
      /\ Adjusted(base, missed, cap, u) \in Int
      /\ Adjusted(base, missed, cap, v) >= Adjusted(base, missed, cap, u)
  BY <1>1, <1>3, AdjustedIsInt
<1>6. Limited(max, cap, whole, Adjusted(base, missed, cap, u))
        <= Limited(max, cap, whole, Adjusted(base, missed, cap, v))
  BY <1>3, <1>5, LimitedIsMonotone
<1>7. \A x \in Int : Limited(max, cap, whole, x) \in Int
  BY <1>3 DEF Limited
<1> QED
  BY <1>4, <1>5, <1>6, <1>7

\* What is fundamentally broken never beats what is coherent (compute_score).
LEMMA CoherentBeatsBroken ==
  ASSUME NEW checks \in Checks, NEW S \in SUBSET DOMAIN checks
  PROVE  compute_score(checks, Answer(S, TRUE, "COHERENT"))
           >= compute_score(checks, Answer(S, TRUE, "FUNDAMENTALLY_BROKEN"))
<1>1. "COHERENT" \in VerdictNames /\ "FUNDAMENTALLY_BROKEN" \in VerdictNames
  BY DEF VerdictNames
<1>2. Weigh(checks, S) \in Int /\ Missed(checks, S) \in Int /\ Fifth(checks) \in Int
  BY <1>1, ScoreIs, CapIsNat
<1>3. Adjusted(Weigh(checks, S), Missed(checks, S), Fifth(checks), "COHERENT")
        >= Adjusted(Weigh(checks, S), Missed(checks, S), Fifth(checks), "FUNDAMENTALLY_BROKEN")
  BY <1>2 DEF Adjusted
<1> QED
  BY <1>1, <1>3, BetterSumIsBetter

\* A better verdict never scores less (compute_score).
LEMMA BetterVerdictIsBetter ==
  ASSUME NEW checks \in Checks, NonNegative(checks), NEW S \in SUBSET DOMAIN checks
  PROVE  \A k \in 1 .. 4 : compute_score(checks, Answer(S, TRUE, Verdicts[k]))
                             >= compute_score(checks, Answer(S, TRUE, Verdicts[k + 1]))
<1> DEFINE score(v) == compute_score(checks, Answer(S, TRUE, v))
           sum(v)   == Adjusted(Weigh(checks, S), Missed(checks, S), Fifth(checks), v)
<1>1. Weigh(checks, S) \in Nat /\ Missed(checks, S) \in Nat /\ Fifth(checks) \in Int
  <2>1. DOMAIN checks \ (S \cup Gates(checks)) \in SUBSET DOMAIN checks
    OBVIOUS
  <2> QED
    BY <2>1, WeighIsNat, CapIsNat DEF Missed
<1>2. /\ sum("EXCEPTIONAL") >= sum("ELEGANT") /\ sum("ELEGANT") >= sum("COHERENT")
      /\ sum("COHERENT") >= sum("MINOR_ISSUES") /\ sum("MINOR_ISSUES") >= sum("FLAWED")
  BY <1>1, VerdictsAreOrdered
<1>3. \A v, u \in VerdictNames : sum(v) >= sum(u) => score(v) >= score(u)
  BY BetterSumIsBetter
<1>4. {"EXCEPTIONAL", "ELEGANT", "COHERENT", "MINOR_ISSUES", "FLAWED"} \subseteq VerdictNames
  BY DEF VerdictNames
<1> HIDE DEF score, sum
<1>5. /\ score("EXCEPTIONAL") >= score("ELEGANT") /\ score("ELEGANT") >= score("COHERENT")
      /\ score("COHERENT") >= score("MINOR_ISSUES") /\ score("MINOR_ISSUES") >= score("FLAWED")
  BY <1>2, <1>3, <1>4
<1>6. /\ Verdicts[1] = "EXCEPTIONAL" /\ Verdicts[2] = "ELEGANT" /\ Verdicts[3] = "COHERENT"
      /\ Verdicts[4] = "MINOR_ISSUES" /\ Verdicts[5] = "FLAWED"
  BY DEF Verdicts
<1>7. \A k \in 1 .. 4 : score(Verdicts[k]) >= score(Verdicts[k + 1])
  <2>1. \A k \in 1 .. 4 : k = 1 \/ k = 2 \/ k = 3 \/ k = 4
    OBVIOUS
  <2>2. 1 + 1 = 2 /\ 2 + 1 = 3 /\ 3 + 1 = 4 /\ 4 + 1 = 5
    OBVIOUS
  <2> QED
    BY <1>5, <1>6, <2>1, <2>2
<1> QED
  BY <1>7 DEF score

-----------------------------------------------------------------------------
(* The order of the payload                                                  *)

Predecessors(ranked, i) == {j \in DOMAIN ranked : Before(ranked, j, i)}

\* Who stands before another has the smaller place (score_round, results.sort).
LEMMA PlacesAreOrdered ==
  ASSUME NEW ranked, NEW n \in Nat, DOMAIN ranked = 1 .. n,
         \A i \in 1 .. n : ranked[i].score \in Int
  PROVE  /\ \A i \in 1 .. n : Place(ranked, i) \in 1 .. n
         /\ \A i, j \in 1 .. n : Before(ranked, i, j) => Place(ranked, i) < Place(ranked, j)
         /\ \A i, j \in 1 .. n : i # j => Before(ranked, i, j) \/ Before(ranked, j, i)
<1>1. /\ IsFiniteSet(1 .. n) /\ Cardinality(1 .. n) = n
      /\ \A i \in 1 .. n : i \in Int
  <2>1. 1 \in Int /\ n \in Int /\ (IF 1 > n THEN 0 ELSE n - 1 + 1) = n
    OBVIOUS
  <2> QED
    BY <2>1, FS_Interval
<1>2. \A i \in 1 .. n : /\ Predecessors(ranked, i) \subseteq 1 .. n
                        /\ i \notin Predecessors(ranked, i)
                        /\ IsFiniteSet(Predecessors(ranked, i))
                        /\ Cardinality(Predecessors(ranked, i)) \in Nat
                        /\ Place(ranked, i) = 1 + Cardinality(Predecessors(ranked, i))
  <2>1. \A i \in 1 .. n : /\ Predecessors(ranked, i) \subseteq 1 .. n
                          /\ i \notin Predecessors(ranked, i)
    BY <1>1 DEF Predecessors, Before
  <2>2. \A i \in 1 .. n : IsFiniteSet(Predecessors(ranked, i))
    BY <1>1, <2>1, FS_Subset
  <2>3. \A i \in 1 .. n : Cardinality(Predecessors(ranked, i)) \in Nat
    BY <2>2, FS_CardinalityType
  <2> QED
    BY <2>1, <2>2, <2>3 DEF Place, Predecessors
<1>3. ASSUME NEW S, IsFiniteSet(S), NEW T \in SUBSET S, NEW x \in S \ T
      PROVE  Cardinality(T) + 1 <= Cardinality(S)
  <2>1. T \cup {x} \subseteq S
    OBVIOUS
  <2>2. /\ IsFiniteSet(T) /\ Cardinality(T \cup {x}) = Cardinality(T) + 1
    BY <1>3, FS_Subset, FS_AddElement
  <2>3. Cardinality(T \cup {x}) <= Cardinality(S)
    BY <1>3, <2>1, FS_Subset
  <2> QED
    BY <2>2, <2>3
<1>4. \A i \in 1 .. n : Place(ranked, i) \in 1 .. n
  <2>1. \A i \in 1 .. n : Cardinality(Predecessors(ranked, i)) + 1 <= n
    BY <1>1, <1>2, <1>3
  <2> QED
    BY SMTT(30), <1>2, <2>1
<1>5. ASSUME NEW i \in 1 .. n, NEW j \in 1 .. n, Before(ranked, i, j)
      PROVE  Place(ranked, i) < Place(ranked, j)
  <2>1. i \in Predecessors(ranked, j)
    BY <1>5 DEF Predecessors
  <2>2. Predecessors(ranked, i) \subseteq Predecessors(ranked, j)
    <3>1. ASSUME NEW k \in 1 .. n, Before(ranked, k, i)
          PROVE  Before(ranked, k, j)
      BY <1>1, <1>5, <3>1 DEF Before
    <3> QED
      BY <3>1 DEF Predecessors
  <2>3. Cardinality(Predecessors(ranked, i)) + 1 <= Cardinality(Predecessors(ranked, j))
    BY <1>2, <1>3, <2>1, <2>2
  <2> QED
    BY <1>2, <2>3
<1>6. \A i, j \in 1 .. n : i # j => Before(ranked, i, j) \/ Before(ranked, j, i)
  BY <1>1 DEF Before
<1> QED
  BY <1>4, <1>5, <1>6

\* What is sorted is all that there was, the best first, ties in their order.
LEMMA RankingSorts ==
  ASSUME NEW ranked, NEW n \in Nat, DOMAIN ranked = 1 .. n,
         \A i \in 1 .. n : ranked[i].score \in Int
  PROVE  \E f \in [1 .. n -> 1 .. n] :
           /\ \A i \in 1 .. n : \E k \in 1 .. n : f[k] = i
           /\ Ranking(ranked) = [k \in 1 .. n |-> ranked[f[k]]]
           /\ \A k, l \in 1 .. n : k < l => Before(ranked, f[k], f[l])
<1> DEFINE place == [i \in 1 .. n |-> Place(ranked, i)]
           f == [k \in 1 .. n |-> CHOOSE i \in 1 .. n : Place(ranked, i) = k]
<1>1. /\ IsFiniteSet(1 .. n)
      /\ \A i, j \in 1 .. n : i < j => ~(j <= i)
      /\ \A i \in 1 .. n : ~(i < i)
  BY FS_Interval
<1>2. \A i, j \in 1 .. n : Place(ranked, i) = Place(ranked, j) => i = j
  BY <1>1, PlacesAreOrdered
<1>3. place \in Injection(1 .. n, 1 .. n)
  <2>1. place \in [1 .. n -> 1 .. n]
    BY PlacesAreOrdered
  <2> QED
    BY <1>2, <2>1 DEF Injection, IsInjective
<1>4. place \in Surjection(1 .. n, 1 .. n)
  BY <1>1, <1>3, FS_Injection
<1>5. \A k \in 1 .. n : \E i \in 1 .. n : Place(ranked, i) = k
  BY <1>4 DEF Surjection
<1>6. \A k \in 1 .. n : f[k] \in 1 .. n /\ Place(ranked, f[k]) = k
  BY <1>5
<1>7. \A i \in 1 .. n : Place(ranked, i) \in 1 .. n /\ f[Place(ranked, i)] = i
  <2>1. \A i \in 1 .. n : Place(ranked, i) \in 1 .. n
    BY PlacesAreOrdered
  <2> HIDE DEF f
  <2> QED
    BY <1>2, <1>6, <2>1
<1>8. f \in [1 .. n -> 1 .. n]
  <2>1. f = [k \in 1 .. n |-> f[k]]
    OBVIOUS
  <2> HIDE DEF f
  <2> QED
    BY <1>6, <2>1
<1>9. Ranking(ranked) = [k \in 1 .. n |-> ranked[f[k]]]
  BY DEF Ranking
<1> HIDE DEF f, place
<1>10. ASSUME NEW k \in 1 .. n, NEW l \in 1 .. n, k < l
       PROVE  Before(ranked, f[k], f[l])
  <2>1. f[k] # f[l]
    BY <1>1, <1>6, <1>10
  <2>2. ~Before(ranked, f[l], f[k])
    <3>1. \A i, j \in 1 .. n : Before(ranked, i, j) => Place(ranked, i) < Place(ranked, j)
      BY PlacesAreOrdered
    <3>2. Before(ranked, f[l], f[k]) => l < k
      BY <1>6, <3>1
    <3>3. ~(l < k)
      BY <1>10
    <3> QED
      BY <3>2, <3>3
  <2> QED
    BY <1>6, <2>1, <2>2, PlacesAreOrdered
<1> QED
  BY <1>7, <1>8, <1>9, <1>10

-----------------------------------------------------------------------------
(* The state of a round while it is scored                                   *)

Scored == [agent : Range(Solutions), score : Nat, gated : BOOLEAN, error : BOOLEAN]

\* The results in the order of the solutions.
InOrder(ranked, cap) ==
  /\ ranked \in Seq(Scored) /\ Len(ranked) <= Len(Solutions)
  /\ \A i \in DOMAIN ranked :
       /\ ranked[i].agent = Solutions[i]
       /\ ranked[i].error => ranked[i].score = 0
       /\ ranked[i].gated => ranked[i].score <= cap

\* What the two passes over a solution gave so far.
PassIsSound ==
  /\ pass \in [primary : Int, second : Int, gated : BOOLEAN]
  /\ pass # NoPass =>
       /\ Scoring
       /\ pass.primary \in Nat /\ pass.second \in Nat \cup {None}
       /\ pass.gated => pass.primary <= Cap(Rubric)

ResultsAreSound ==
  \/ outcome \in {"scoring", "raised"} /\ InOrder(results, Cap(Rubric))
  \/ /\ outcome = "scored"
     /\ \E ranked : /\ InOrder(ranked, Cap(Rubric)) /\ Len(ranked) = Len(Solutions)
                    /\ results = Ranking(ranked)

ScorerInv == rubric_json \in SponsorRubrics /\ PassIsSound /\ ResultsAreSound

\* What is sorted keeps the agents, the errors and the gates (results.sort).
LEMMA SortedIsSound ==
  ASSUME NEW ranked, NEW cap \in Nat, InOrder(ranked, cap)
  PROVE  /\ DOMAIN Ranking(ranked) = DOMAIN ranked
         /\ \A k \in DOMAIN ranked : \E i \in DOMAIN ranked : Ranking(ranked)[k] = ranked[i]
<1>1. PICK n \in Nat : n = Len(ranked) /\ DOMAIN ranked = 1 .. n
  BY DEF InOrder
<1>2. \A i \in 1 .. n : ranked[i].score \in Int
  <2>1. \A i \in 1 .. n : ranked[i] \in Scored
    BY <1>1, ElementOf DEF InOrder
  <2> QED
    BY <2>1 DEF Scored
<1>3. DOMAIN ranked = 1 .. n
  BY <1>1
<1>4. PICK f \in [1 .. n -> 1 .. n] :
        /\ \A i \in 1 .. n : \E k \in 1 .. n : f[k] = i
        /\ Ranking(ranked) = [k \in 1 .. n |-> ranked[f[k]]]
        /\ \A k, l \in 1 .. n : k < l => Before(ranked, f[k], f[l])
  BY <1>2, <1>3, RankingSorts
<1> QED
  BY <1>3, <1>4

\* GatesHold, from the invariant.
LEMMA InvHoldsGates == ASSUME ScorerInv PROVE GatesHold
<1>1. PICK cap : cap = Cap(Rubric)
  OBVIOUS
<1>2. Rubric \in Checks
  BY RubricIsChecks DEF ScorerInv, Rubric
<1>3. cap \in Nat
  BY <1>1, <1>2, CapIsNat
<1> SUFFICES ASSUME NEW i \in DOMAIN results, results[i].gated
             PROVE  results[i].score <= cap
  BY <1>1 DEF GatesHold, Cap, Fifth
<1>4. CASE outcome \in {"scoring", "raised"}
  BY <1>1, <1>4 DEF ScorerInv, ResultsAreSound, InOrder
<1>5. CASE outcome \notin {"scoring", "raised"}
  <2>1. PICK ranked : InOrder(ranked, cap) /\ results = Ranking(ranked)
    BY <1>1, <1>5 DEF ScorerInv, ResultsAreSound
  <2>2. PICK k \in DOMAIN ranked : results[i] = ranked[k]
    BY <1>3, <2>1, SortedIsSound
  <2> QED
    BY <2>1, <2>2 DEF InOrder
<1> QED
  BY <1>4, <1>5

\* PayloadComplete, from the invariant.
LEMMA InvCompletesPayload == ASSUME ScorerInv PROVE PayloadComplete
<1> SUFFICES ASSUME outcome = "scored"
             PROVE  /\ {results[i].agent : i \in DOMAIN results} = Range(Solutions)
                    /\ Len(results) = Len(Solutions)
                    /\ \A i \in DOMAIN results : results[i].error => results[i].score = 0
                    /\ \A i, j \in DOMAIN results : i < j =>
                         \/ results[i].score > results[j].score
                         \/ /\ results[i].score = results[j].score
                            /\ \A k, l \in DOMAIN Solutions :
                                 Solutions[k] = results[i].agent
                                   /\ Solutions[l] = results[j].agent => k < l
  BY DEF PayloadComplete
<1>1. PICK ranked, cap : /\ InOrder(ranked, cap) /\ Len(ranked) = Len(Solutions)
                         /\ results = Ranking(ranked)
  BY DEF ScorerInv, ResultsAreSound
<1>2. PICK n \in Nat : n = Len(Solutions)
  BY RubricAssumption
<1>3. DOMAIN ranked = 1 .. n /\ DOMAIN Solutions = 1 .. n
  BY <1>1, <1>2, RubricAssumption DEF InOrder
<1>4. \A i \in 1 .. n :
        /\ ranked[i].agent = Solutions[i] /\ ranked[i].score \in Int
        /\ ranked[i].error => ranked[i].score = 0
  <2>1. \A i \in 1 .. n : ranked[i] \in Scored
    BY <1>1, <1>3, ElementOf DEF InOrder
  <2> QED
    BY <1>1, <1>3, <2>1 DEF InOrder, Scored
<1>5. PICK f \in [1 .. n -> 1 .. n] :
        /\ \A i \in 1 .. n : \E k \in 1 .. n : f[k] = i
        /\ results = [k \in 1 .. n |-> ranked[f[k]]]
        /\ \A k, l \in 1 .. n : k < l => Before(ranked, f[k], f[l])
  BY <1>1, <1>3, <1>4, RankingSorts
<1>6. /\ DOMAIN results = 1 .. n /\ Len(results) = n
      /\ \A i \in 1 .. n : results[i] = ranked[f[i]] /\ f[i] \in 1 .. n
  BY <1>5
<1>7. {results[i].agent : i \in DOMAIN results} = Range(Solutions)
  <2>1. ASSUME NEW a \in Range(Solutions)
        PROVE  \E i \in 1 .. n : results[i].agent = a
    <3>1. PICK k \in 1 .. n : a = Solutions[k]
      BY <1>3 DEF Range
    <3>2. PICK i \in 1 .. n : f[i] = k
      BY <1>5
    <3> QED
      BY SMTT(30), <1>4, <1>6, <3>1, <3>2
  <2>2. \A i \in 1 .. n : results[i].agent \in Range(Solutions)
    BY <1>3, <1>4, <1>6 DEF Range
  <2>3. \A a \in Range(Solutions) : a \in {results[i].agent : i \in 1 .. n}
    BY <2>1
  <2>4. \A a \in {results[i].agent : i \in 1 .. n} : a \in Range(Solutions)
    BY <2>2
  <2> QED
    BY <1>6, <2>3, <2>4
<1>8. \A i \in DOMAIN results : results[i].error => results[i].score = 0
  BY SMTT(30), <1>4, <1>6
<1>9. ASSUME NEW i \in DOMAIN results, NEW j \in DOMAIN results, i < j
      PROVE  \/ results[i].score > results[j].score
             \/ /\ results[i].score = results[j].score
                /\ \A k, l \in DOMAIN Solutions :
                     Solutions[k] = results[i].agent
                       /\ Solutions[l] = results[j].agent => k < l
  <2>1. i \in 1 .. n /\ j \in 1 .. n
    BY <1>6
  <2>2. Before(ranked, f[i], f[j])
    BY <1>5, <1>9, <2>1
  <2>3. CASE ranked[f[i]].score > ranked[f[j]].score
    BY <1>6, <2>1, <2>3
  <2>4. CASE ranked[f[i]].score = ranked[f[j]].score /\ f[i] < f[j]
    <3>1. ASSUME NEW k \in DOMAIN Solutions, NEW l \in DOMAIN Solutions,
                 Solutions[k] = results[i].agent, Solutions[l] = results[j].agent
          PROVE  k < l
      <4>1. Solutions[k] = Solutions[f[i]] /\ Solutions[l] = Solutions[f[j]]
        BY <1>4, <1>6, <2>1, <3>1
      <4>2. k = f[i] /\ l = f[j]
        BY <1>3, <1>6, <2>1, <4>1, RubricAssumption DEF IsInjective
      <4> QED
        BY <2>4, <4>2
    <3> QED
      BY <1>6, <2>1, <2>4, <3>1
  <2> QED
    BY <2>2, <2>3, <2>4 DEF Before
<1> QED
  BY <1>2, <1>6, <1>7, <1>8, <1>9

-----------------------------------------------------------------------------
(* The invariant holds                                                       *)

\* What the invariant says while a solution is scored.
LEMMA RubricIsSound ==
  ASSUME ScorerInv
  PROVE  /\ Rubric \in Checks /\ Cap(Rubric) \in Nat
         /\ \A answer \in parse_output(Rubric) :
              \E S \in SUBSET DOMAIN Rubric, baseline \in BOOLEAN, verdict \in VerdictNames :
                answer = Answer(S, baseline, verdict)
<1>1. Rubric \in Checks /\ PassSets(Len(Rubric)) \subseteq SUBSET DOMAIN Rubric
  BY RubricIsChecks DEF ScorerInv, Rubric
<1>2. Cap(Rubric) \in Nat
  BY <1>1, CapIsNat
<1> QED
  BY <1>1, <1>2, VerdictsAre DEF parse_output

\* Every answer a model gives has a natural score, a failed gate below the
\* cap (compute_score, _verification_pass).
LEMMA AnswersAreSound ==
  ASSUME ScorerInv, NEW answer \in parse_output(Rubric)
  PROVE  /\ compute_score(Rubric, answer) \in Nat /\ FailsGate(Rubric, answer) \in BOOLEAN
         /\ FailsGate(Rubric, answer) => compute_score(Rubric, answer) <= Cap(Rubric)
<1>1. PICK checks : checks = Rubric
  OBVIOUS
<1>2. checks \in Checks
  BY <1>1, RubricIsSound
<1>3. PICK S \in SUBSET DOMAIN checks, baseline \in BOOLEAN, verdict \in VerdictNames :
        answer = Answer(S, baseline, verdict)
  BY <1>1, RubricIsSound
<1>4. FailsGate(checks, answer) \in BOOLEAN
  BY DEF FailsGate
<1>5. /\ compute_score(checks, answer) \in Nat
      /\ FailsGate(checks, answer) => compute_score(checks, answer) <= Cap(checks)
  BY <1>2, <1>3, FailedGateCaps
<1> QED
  BY <1>1, <1>4, <1>5

\* One more result of a solution that is being scored (score_round).
LEMMA AppendKeeps ==
  ASSUME ScorerInv, Scoring, NEW score \in Nat, NEW gated \in BOOLEAN, NEW error \in BOOLEAN,
         error => score = 0, gated => score <= Cap(Rubric), Append1(score, gated, error)
  PROVE  ScorerInv'
<1>1. PICK cap, n, m : cap = Cap(Rubric) /\ n = Len(results) /\ m = Len(Solutions)
  OBVIOUS
<1>2. PICK new : new = ScoredSolution(Solutions[n + 1], score, gated, error)
  OBVIOUS
<1>3. /\ results \in Seq(Scored) /\ n \in Nat /\ DOMAIN results = 1 .. n
      /\ \A i \in 1 .. n :
           /\ results[i].agent = Solutions[i]
           /\ results[i].error => results[i].score = 0
           /\ results[i].gated => results[i].score <= cap
  BY <1>1 DEF ScorerInv, ResultsAreSound, InOrder, Scoring
<1>4. m \in Nat /\ n + 1 <= m /\ DOMAIN Solutions = 1 .. m
  BY <1>1, <1>3, RubricAssumption DEF Scoring
<1>5. new \in Scored /\ new.agent = Solutions[n + 1] /\ new.score = score
      /\ new.gated = gated /\ new.error = error
  BY <1>2, <1>3, <1>4 DEF ScoredSolution, Scored, Range
<1>6. /\ results' = Append(results, new) /\ pass' = NoPass
      /\ rubric_json' = rubric_json /\ outcome' = outcome
  BY <1>1, <1>2 DEF Append1
<1>7. Rubric' = Rubric
  BY <1>6 DEF Rubric
<1>8. Cap(Rubric)' = cap
  BY <1>1, <1>7 DEF Cap, Fifth
<1>9. InOrder(results', cap)
  <2>1. /\ results' \in Seq(Scored) /\ Len(results') = n + 1
        /\ DOMAIN results' = 1 .. (n + 1)
    BY <1>1, <1>3, <1>5, <1>6
  <2>2. \A i \in 1 .. n : results'[i] = results[i]
    BY <1>1, <1>3, <1>6
  <2>3. results'[n + 1] = new
    BY <1>1, <1>3, <1>6
  <2>4. \A i \in 1 .. (n + 1) : i \in 1 .. n \/ i = n + 1
    BY <1>3
  <2>5. error => score = 0 /\ (gated => score <= cap)
    BY <1>1
  <2>6. gated => score <= cap
    BY <1>1
  <2>7. ASSUME NEW i \in 1 .. (n + 1)
        PROVE  /\ results'[i].agent = Solutions[i]
               /\ results'[i].error => results'[i].score = 0
               /\ results'[i].gated => results'[i].score <= cap
    <3>1. CASE i \in 1 .. n
      BY <1>3, <2>2, <3>1
    <3>2. CASE i = n + 1
      BY <1>5, <2>3, <2>5, <2>6, <3>2
    <3> QED
      BY <2>4, <3>1, <3>2
  <2> QED
    BY <1>1, <1>4, <2>1, <2>7 DEF InOrder
<1>10. ResultsAreSound'
  <2>1. InOrder(results, Cap(Rubric))'
    BY <1>8, <1>9 DEF InOrder
  <2>2. outcome' = "scoring"
    BY <1>6 DEF Scoring
  <2> QED
    BY <2>1, <2>2 DEF ResultsAreSound
<1>11. PassIsSound'
  BY <1>6 DEF PassIsSound, NoPass, None
<1> QED
  BY <1>6, <1>10, <1>11 DEF ScorerInv

\* A failed blob, call or output stands with no points and an error
\* (_score_one, score_round).
LEMMA FailureKeeps ==
  ASSUME ScorerInv, DecryptionFails \/ ModelFails \/ OutputInvalid
  PROVE  ScorerInv'
<1>1. Scoring
  BY DEF DecryptionFails, ModelFails, OutputInvalid, FirstPass
<1>2. compute_score(Rubric, Answer({}, FALSE, "COHERENT")) = 0
  <2>1. PICK checks : checks = Rubric
    OBVIOUS
  <2>2. checks \in Checks /\ {} \in SUBSET DOMAIN checks /\ "COHERENT" \in VerdictNames
    BY <2>1, RubricIsSound DEF VerdictNames
  <2>3. compute_score(checks, Answer({}, FALSE, "COHERENT")) = 0
    BY ZenonT(30), <2>2, ScoreIs
  <2> QED
    BY <2>1, <2>3
<1>3. Append1(0, TRUE, TRUE)
  BY <1>2 DEF DecryptionFails, ModelFails, OutputInvalid
<1>4. 0 <= Cap(Rubric)
  BY RubricIsSound
<1> QED
  BY <1>1, <1>3, <1>4, AppendKeeps

\* A step that leaves the results alone leaves them sound.
LEMMA SameResults ==
  ASSUME ScorerInv, outcome \in {"scoring", "raised"}, outcome' \in {"scoring", "raised"},
         UNCHANGED <<rubric_json, results>>
  PROVE  /\ Rubric' = Rubric /\ Cap(Rubric)' = Cap(Rubric)
         /\ rubric_json' \in SponsorRubrics /\ ResultsAreSound'
<1>1. Rubric' = Rubric
  BY DEF Rubric
<1>2. Cap(Rubric)' = Cap(Rubric)
  BY <1>1 DEF Cap, Fifth
<1>3. InOrder(results, Cap(Rubric))
  BY DEF ScorerInv, ResultsAreSound
<1>4. InOrder(results, Cap(Rubric))'
  BY <1>2, <1>3 DEF InOrder
<1> QED
  BY <1>1, <1>2, <1>4 DEF ScorerInv, ResultsAreSound

\* The rubric is read, the primary score computed (score_solution).
LEMMA PrimaryKeeps == ASSUME ScorerInv, PrimaryPass PROVE ScorerInv'
<1>1. Scoring /\ pass = NoPass
  BY DEF PrimaryPass, FirstPass
<1>2. PICK answer \in parse_output(Rubric) :
        LET primary == compute_score(Rubric, answer)
            gated == FailsGate(Rubric, answer)
        IN IF primary = 0 THEN Append1(0, gated, FALSE)
           ELSE /\ pass' = [NoPass EXCEPT !.primary = primary, !.gated = gated]
                /\ UNCHANGED <<rubric_json, results, outcome>>
  BY DEF PrimaryPass
<1>3. PICK primary, gated : primary = compute_score(Rubric, answer)
                            /\ gated = FailsGate(Rubric, answer)
  OBVIOUS
<1>4. primary \in Nat /\ gated \in BOOLEAN /\ (gated => primary <= Cap(Rubric))
  BY <1>3, AnswersAreSound
<1>5. CASE primary = 0
  <2>1. Append1(0, gated, FALSE)
    BY <1>2, <1>3, <1>5
  <2>2. gated => 0 <= Cap(Rubric)
    BY <1>4, <1>5
  <2> QED
    BY <1>1, <1>4, <2>1, <2>2, AppendKeeps
<1>6. CASE primary # 0
  <2>1. /\ pass' = [NoPass EXCEPT !.primary = primary, !.gated = gated]
        /\ UNCHANGED <<rubric_json, results, outcome>>
    BY <1>2, <1>3, <1>6
  <2>2. Rubric' = Rubric /\ Cap(Rubric)' = Cap(Rubric)
        /\ rubric_json' \in SponsorRubrics /\ ResultsAreSound'
    BY <1>1, <2>1, SameResults DEF Scoring
  <2>3. pass' = [primary |-> primary, second |-> None, gated |-> gated]
    BY <2>1 DEF NoPass
  <2>4. /\ pass' \in [primary : Int, second : Int, gated : BOOLEAN]
        /\ pass'.primary = primary /\ pass'.second = None /\ pass'.gated = gated
    BY <1>4, <2>3 DEF None
  <2>5. Scoring'
    BY <1>1, <2>1 DEF Scoring
  <2>6. PassIsSound'
    BY <1>4, <2>2, <2>4, <2>5 DEF PassIsSound
  <2> QED
    BY <2>2, <2>6 DEF ScorerInv
<1> QED
  BY <1>5, <1>6

\* The second model's score is noted (_verification_pass).
LEMMA SecondKeeps == ASSUME ScorerInv, SecondPass PROVE ScorerInv'
<1>1. PICK answer \in parse_output(Rubric) :
        pass' = [pass EXCEPT !.second = compute_score(Rubric, answer)]
  BY DEF SecondPass
<1>2. PICK second \in Nat : second = compute_score(Rubric, answer)
  BY AnswersAreSound
<1>3. /\ pass # NoPass /\ UNCHANGED <<rubric_json, results, outcome>>
  BY DEF SecondPass
<1>4. /\ Scoring /\ pass \in [primary : Int, second : Int, gated : BOOLEAN]
      /\ pass.primary \in Nat /\ (pass.gated => pass.primary <= Cap(Rubric))
  BY <1>3 DEF ScorerInv, PassIsSound
<1>5. Rubric' = Rubric /\ Cap(Rubric)' = Cap(Rubric)
      /\ rubric_json' \in SponsorRubrics /\ ResultsAreSound'
  BY <1>3, <1>4, SameResults DEF Scoring
<1>6. /\ pass' \in [primary : Int, second : Int, gated : BOOLEAN]
      /\ pass'.primary = pass.primary /\ pass'.gated = pass.gated /\ pass'.second = second
  BY <1>1, <1>2, <1>4
<1>7. PassIsSound'
  BY <1>2, <1>3, <1>4, <1>5, <1>6 DEF PassIsSound, Scoring
<1> QED
  BY <1>5, <1>7 DEF ScorerInv

\* The lower of two scores, when they are far apart (_verification_pass).
LEMMA ConservativeIs ==
  ASSUME NEW primary \in Nat, NEW second \in Nat
  PROVE  /\ Conservative(primary, second) \in Nat
         /\ Conservative(primary, second) <= primary
         /\ Conservative(primary, second) <= second + DUAL_PASS_THRESHOLD
<1>1. /\ primary - second \in Int /\ second - primary \in Int
      /\ primary \in Int /\ second \in Int
  OBVIOUS
<1>2. Max({primary - second, second - primary})
        = IF primary - second >= second - primary THEN primary - second ELSE second - primary
  BY <1>1, MaxOfTwo
<1>3. Min({primary, second}) = IF primary <= second THEN primary ELSE second
  BY <1>1, MinOfTwo
<1> QED
  BY <1>2, <1>3 DEF Conservative, DUAL_PASS_THRESHOLD

\* The score that stands after the passes (_verification_pass).
LEMMA AcceptKeeps ==
  ASSUME ScorerInv, Accept
  PROVE  ScorerInv' /\ Conserved
<1>1. PICK primary, second, gated :
        primary = pass.primary /\ second = pass.second /\ gated = pass.gated
  OBVIOUS
<1>2. /\ Scoring /\ primary \in Nat /\ second \in Nat \cup {None} /\ gated \in BOOLEAN
      /\ gated => primary <= Cap(Rubric)
  BY <1>1 DEF ScorerInv, PassIsSound, Accept
<1>3. PICK cap \in Nat : cap = Cap(Rubric)
  BY RubricIsSound
<1>4. results \in Seq(Scored)
  BY <1>2 DEF Scoring, ScorerInv, ResultsAreSound, InOrder
<1>5. CASE second # None
  <2>1. PICK score : score = Conservative(primary, second)
    OBVIOUS
  <2>2. score \in Nat /\ score <= primary /\ score <= second + DUAL_PASS_THRESHOLD
    BY <1>2, <1>5, <2>1, ConservativeIs
  <2>3. Append1(score, gated, FALSE)
    BY <1>1, <1>5, <2>1 DEF Accept
  <2>4. gated => score <= Cap(Rubric)
    BY <1>2, <1>3, <2>2
  <2>5. ScorerInv'
    BY <1>2, <2>2, <2>3, <2>4, AppendKeeps
  <2>6. results'[Len(results')].score = score
    BY <1>4, <2>3 DEF Append1, ScoredSolution
  <2> QED
    BY <1>1, <2>2, <2>5, <2>6 DEF Conserved
<1>6. CASE second = None
  <2>1. Append1(primary, gated, FALSE)
    BY <1>1, <1>6 DEF Accept
  <2> QED
    BY <1>1, <1>2, <1>6, <2>1, AppendKeeps DEF Conserved
<1> QED
  BY <1>5, <1>6

\* A round starts sound (score_round).
LEMMA ScorerStarts == Init => ScorerInv
<1> SUFFICES ASSUME Init PROVE ScorerInv
  OBVIOUS
<1>1. InOrder(results, Cap(Rubric)) /\ outcome = "scoring"
  <2>1. results = <<>> /\ results \in Seq(Scored) /\ Len(results) = 0 /\ Len(Solutions) \in Nat
    BY RubricAssumption DEF Init
  <2> QED
    BY <2>1 DEF Init, InOrder
<1>2. PassIsSound
  BY DEF Init, PassIsSound, NoPass, None
<1> QED
  BY <1>1, <1>2 DEF Init, ScorerInv, ResultsAreSound

\* Every step of a round leaves it sound (score_round).
LEMMA ScorerStep == ASSUME ScorerInv, [Next]_vars PROVE ScorerInv'
<1>1. CASE DecryptionFails \/ ModelFails \/ OutputInvalid
  BY <1>1, FailureKeeps
<1>2. CASE PrimaryPass
  BY <1>2, PrimaryKeeps
<1>3. CASE SecondPass
  BY <1>3, SecondKeeps
<1>4. CASE Accept
  BY <1>4, AcceptKeeps
<1>5. CASE OutputRaises
  <2>1. /\ outcome = "scoring" /\ outcome' = "raised" /\ pass = NoPass
        /\ UNCHANGED <<rubric_json, results, pass>>
    BY <1>5 DEF OutputRaises, FirstPass, Scoring
  <2>2. rubric_json' \in SponsorRubrics /\ ResultsAreSound'
    BY <2>1, SameResults
  <2>3. PassIsSound'
    BY <2>1 DEF PassIsSound, NoPass, None
  <2> QED
    BY <2>2, <2>3 DEF ScorerInv
<1>6. CASE FinishRound
  <2>1. /\ outcome = "scoring" /\ Len(results) = Len(Solutions)
        /\ results' = Ranking(results) /\ outcome' = "scored"
        /\ UNCHANGED <<rubric_json, pass>>
    BY <1>6 DEF FinishRound
  <2>2. Rubric' = Rubric
    BY <2>1 DEF Rubric
  <2>3. PICK cap, ranked : cap = Cap(Rubric) /\ ranked = results
    OBVIOUS
  <2>4. Cap(Rubric)' = cap
    BY <2>2, <2>3 DEF Cap, Fifth
  <2>5. InOrder(ranked, cap) /\ Len(ranked) = Len(Solutions) /\ results' = Ranking(ranked)
    BY <2>1, <2>3 DEF ScorerInv, ResultsAreSound
  <2>6. ResultsAreSound'
    BY <2>1, <2>4, <2>5 DEF ResultsAreSound
  <2>7. pass = NoPass
    <3>1. Len(Solutions) \in Nat
      BY RubricAssumption
    <3> QED
      BY <2>1, <3>1 DEF ScorerInv, PassIsSound, Scoring
  <2>8. PassIsSound'
    BY <2>1, <2>7 DEF PassIsSound, NoPass, None
  <2> QED
    BY <2>1, <2>6, <2>8 DEF ScorerInv
<1>7. CASE UNCHANGED vars
  <2>1. UNCHANGED <<rubric_json, results, pass, outcome>>
    BY <1>7 DEF vars
  <2>2. Rubric' = Rubric
    BY <2>1 DEF Rubric
  <2>3. Cap(Rubric)' = Cap(Rubric)
    BY <2>2 DEF Cap, Fifth
  <2>4. Scoring' = Scoring
    BY <2>1 DEF Scoring
  <2>5. PassIsSound'
    BY <2>1, <2>3, <2>4 DEF ScorerInv, PassIsSound
  <2>6. ResultsAreSound'
    BY <2>1, <2>3 DEF ScorerInv, ResultsAreSound
  <2> QED
    BY <2>1, <2>5, <2>6 DEF ScorerInv
<1> QED
  BY <1>1, <1>2, <1>3, <1>4, <1>5, <1>6, <1>7 DEF Next

\* What any step may do to a score that has seen a second model: only Accept
\* adds one (_verification_pass).
LEMMA ConservedStep == ASSUME ScorerInv, [Next]_vars PROVE Conserved
<1>1. CASE Accept
  BY <1>1, AcceptKeeps
<1>2. CASE pass = NoPass
  BY <1>2 DEF Conserved, NoPass
<1>3. CASE pass # NoPass /\ UNCHANGED results
  <2>1. results \in Seq(Scored)
    BY <1>3 DEF ScorerInv, PassIsSound, ResultsAreSound, Scoring, InOrder
  <2> QED
    BY <1>3, <2>1 DEF Conserved
<1>4. CASE pass # NoPass /\ FinishRound
  <2>1. Scoring /\ Len(Solutions) \in Nat /\ Len(results) = Len(Solutions)
    BY <1>4, RubricAssumption DEF ScorerInv, PassIsSound, FinishRound
  <2> QED
    BY <2>1 DEF Scoring
<1>5. Accept \/ pass = NoPass \/ (pass # NoPass /\ UNCHANGED results)
      \/ (pass # NoPass /\ FinishRound)
  BY DEF Next, vars, DecryptionFails, ModelFails, OutputInvalid, OutputRaises, PrimaryPass,
         SecondPass, FirstPass
<1> QED
  BY <1>1, <1>2, <1>3, <1>4, <1>5

-----------------------------------------------------------------------------
(* The theorems                                                              *)

\* The invariant in every reachable state.
LEMMA ScorerAlways == Spec => []ScorerInv
<1>1. Init => ScorerInv
  BY ScorerStarts
<1>2. ScorerInv /\ [Next]_vars => ScorerInv'
  BY ScorerStep
<1> QED
  BY <1>1, <1>2, PTL DEF Spec

\* Failing a gate caps the score at a fifth of the rubric, whatever bonus the
\* verdict brings and whatever the second model says, for every rubric and
\* every list of solutions (scorer.py:15, compute_score).
THEOREM GatesAlwaysHold == Spec => []GatesHold
<1>1. ScorerInv => GatesHold
  BY InvHoldsGates
<1> QED
  BY <1>1, ScorerAlways, PTL

\* The payload for the oracle lists every solution exactly once, failed ones
\* with 0 points, best first, ties in the order of the list (score_round).
THEOREM PayloadAlwaysComplete == Spec => []PayloadComplete
<1>1. ScorerInv => PayloadComplete
  BY InvCompletesPayload
<1> QED
  BY <1>1, ScorerAlways, PTL

\* Passing one more check never lowers a score unless that check weighs less
\* than nothing, and a better verdict never does in a rubric without such
\* checks, for every rubric the service accepts (compute_score).
THEOREM ScoringIsFair == Spec => []BetterNeverScoresLess
<1>1. ASSUME ScorerInv PROVE BetterNeverScoresLess
  <2>1. PICK checks : checks = Rubric
    OBVIOUS
  <2>2. checks \in Checks /\ PassSets(Len(checks)) \subseteq SUBSET DOMAIN checks
    BY <1>1, <2>1, RubricIsChecks DEF ScorerInv, Rubric
  <2> DEFINE score(S, v) == compute_score(checks, Answer(S, TRUE, v))
  <2>3. \A S \in SUBSET DOMAIN checks : \A v \in VerdictNames : \A i \in DOMAIN checks \ S :
          checks[i].weight >= 0 => score(S, v) <= score(S \cup {i}, v)
    BY <2>2, PassingMoreIsBetter
  <2>4. \A S \in SUBSET DOMAIN checks : NonNegative(checks) =>
          \A k \in 1 .. 4 : score(S, Verdicts[k]) >= score(S, Verdicts[k + 1])
    BY <2>2, BetterVerdictIsBetter
  <2>5. \A S \in SUBSET DOMAIN checks :
          score(S, "COHERENT") >= score(S, "FUNDAMENTALLY_BROKEN")
    BY <2>2, CoherentBeatsBroken
  <2> HIDE DEF score
  <2>6. \A S \in PassSets(Len(checks)) : S \in SUBSET DOMAIN checks
    BY <2>2
  <2>7. \A S \in PassSets(Len(checks)) :
          /\ \A v \in Range(Verdicts) : \A i \in DOMAIN checks \ S :
               checks[i].weight >= 0 => score(S, v) <= score(S \cup {i}, v)
          /\ NonNegative(checks) =>
               \A k \in 1 .. 4 : score(S, Verdicts[k]) >= score(S, Verdicts[k + 1])
          /\ score(S, "COHERENT") >= score(S, "FUNDAMENTALLY_BROKEN")
    BY <2>3, <2>4, <2>5, <2>6, VerdictsAre
  <2> QED
    BY <2>1, <2>7 DEF BetterNeverScoresLess, score
<1>2. ScorerInv => BetterNeverScoresLess
  BY <1>1
<1> QED
  BY <1>2, ScorerAlways, PTL

\* A second model can only lower a score, and by so much only that the score
\* that stands is within the threshold of its own (_verification_pass).
THEOREM DualPassAlwaysConservative == Spec => DualPassIsConservative
<1>1. ScorerInv /\ [Next]_vars => [Conserved]_vars
  BY ConservedStep
<1> QED
  BY <1>1, ScorerAlways, PTL DEF Spec, DualPassIsConservative

-----------------------------------------------------------------------------
(* Who is given the problem                                                  *)

\* ProblemNeedsEntry is not inductive: a request that has passed the proxy must
\* still name an entrant.
EntrantsAreNamed == \A request \in forwarding : request.wallet \in entered

ReadersInv ==
  /\ ProblemNeedsEntry
  /\ EntrantsAreNamed
  /\ DOMAIN held = Wallets
  /\ granted # NoText => granted.wallet \in Wallets
  /\ \A request \in forwarding : request.wallet \in Wallets

\* A positive answer of the chain is given to entrants only, since a failing
\* read answers no (solutions.py, has_agent_committed).
LEMMA YesMeansEntered ==
  ASSUME NEW w, TRUE \in has_agent_committed(w)
  PROVE  w \in entered
BY Zenon DEF has_agent_committed

\* Every step keeps it that requests and answers name entrants.
LEMMA ReadersStep ==
  ASSUME ReadersInv, [ProblemNext]_problem_vars
  PROVE  ReadersInv'
<1> USE DEF ReadersInv, ProblemNeedsEntry, EntrantsAreNamed
<1>1. CASE NextPhase
  BY <1>1 DEF NextPhase, vault_vars, tee_vars, proxy_vars, answer_vars
<1>2. CASE RefreshIndex
  BY <1>2 DEF RefreshIndex, chain_vars, vault_vars, tee_vars, answer_vars
<1>3. CASE FetchPublicKey
  BY <1>3 DEF FetchPublicKey, chain_vars, vault_vars, tee_vars, answer_vars
<1>4. CASE ExpireWindow
  BY <1>4 DEF ExpireWindow, chain_vars, vault_vars, proxy_vars, answer_vars
<1>5. CASE GetProblemForScoring
  BY <1>5 DEF GetProblemForScoring, chain_vars, vault_vars, proxy_vars, answer_vars
<1>6. CASE DeleteProblem
  BY <1>6 DEF DeleteProblem, chain_vars, vault_vars, proxy_vars, answer_vars
<1>7. CASE RestartTee
  BY <1>7 DEF RestartTee, chain_vars, vault_vars, proxy_vars, answer_vars
<1>8. ASSUME NEW w \in Wallets, Enter(w)
      PROVE  ReadersInv'
  BY <1>8 DEF Enter, vault_vars, tee_vars, proxy_vars, answer_vars
<1>9. ASSUME NEW caller \in Callers, NEW w \in Wallets, RequestProblemKey(caller, w)
      PROVE  ReadersInv'
  <2>1. w \in entered
    BY <1>9, YesMeansEntered DEF RequestProblemKey
  <2>2. caller # w => held[w] # "none"
    BY <1>9 DEF RequestProblemKey, Presents
  <2> QED
    BY <1>9, <2>1, <2>2 DEF RequestProblemKey, release_problem_key, chain_vars, vault_vars,
                            tee_vars, proxy_vars
<1>10. ASSUME NEW caller \in Callers, NEW w \in Wallets, AgentProblemProxy(caller, w)
       PROVE  ReadersInv'
  <2>1. w \in entered
    BY <1>10, YesMeansEntered DEF AgentProblemProxy
  <2> QED
    BY <1>10, <2>1 DEF AgentProblemProxy, chain_vars, vault_vars, tee_vars, answer_vars
<1>11. ASSUME NEW request \in forwarding, GetProblemForAgent(request)
       PROVE  ReadersInv'
  BY <1>11 DEF GetProblemForAgent, EncryptedFor, chain_vars, vault_vars
<1>12. ASSUME NEW text \in Texts, StoreProblem(text)
       PROVE  ReadersInv'
  BY <1>12 DEF StoreProblem, chain_vars, vault_vars, proxy_vars, answer_vars
<1>13. ASSUME NEW visibility \in {"PUBLIC", "PRIVATE"}, StorePrivateProblem(visibility)
       PROVE  ReadersInv'
  BY <1>13 DEF StorePrivateProblem, store_private_problem, chain_vars, tee_vars, proxy_vars,
                 answer_vars
<1>14. ASSUME NEW w \in Wallets, NEW age \in {"fresh", "unstamped"}, HandOver(w, age)
       PROVE  ReadersInv'
  BY <1>14 DEF HandOver, chain_vars, vault_vars, proxy_vars
<1>15. ASSUME NEW w \in Wallets, MessageGrowsOld(w)
       PROVE  ReadersInv'
  BY <1>15 DEF MessageGrowsOld, chain_vars, vault_vars, proxy_vars
<1>16. CASE UNCHANGED problem_vars
  BY <1>16 DEF problem_vars
<1> QED
  BY <1>1, <1>2, <1>3, <1>4, <1>5, <1>6, <1>7, <1>8, <1>9, <1>10, <1>11, <1>12, <1>13,
     <1>14, <1>15, <1>16 DEF ProblemNext

\* The problem is given out, by the vault or by the TEE, only in the name of a
\* wallet that has paid to enter, whatever the chain answers and whoever asks;
\* the vault answers another caller only if a message the wallet signed has
\* come into other hands (private_bounties.py, tee_proxy.py).
THEOREM ProblemAlwaysNeedsEntry == ProblemSpec => []ProblemNeedsEntry
<1>1. ProblemInit => ReadersInv
  BY DEF ProblemInit, ReadersInv, ProblemNeedsEntry, EntrantsAreNamed
<1>2. ReadersInv /\ [ProblemNext]_problem_vars => ReadersInv'
  BY ReadersStep
<1>3. ReadersInv => ProblemNeedsEntry
  BY DEF ReadersInv
<1> QED
  BY <1>1, <1>2, <1>3, PTL DEF ProblemSpec

-----------------------------------------------------------------------------
(* Which text is scored                                                      *)

Problems == [text : Texts, expired : BOOLEAN]

\* Before the first scoring the agents were given nothing but the problem the
\* TEE still holds, since it is neither replaced nor deleted until then.
ServedIsHeld ==
  scored = NoText =>
    served \subseteq (IF active_problem = NoText THEN {} ELSE {active_problem.text})

TextInv ==
  /\ ScoredAsServed
  /\ ServedIsHeld
  /\ active_problem # NoText => active_problem \in Problems

\* Every step keeps it, for a mark NoText that is not itself a problem.
LEMMA TextStep ==
  ASSUME NoText \notin Problems, TextInv, [ProblemNext]_problem_vars
  PROVE  TextInv'
<1> USE DEF TextInv, ScoredAsServed, ServedIsHeld, Problems
<1>1. CASE NextPhase
  BY <1>1 DEF NextPhase, tee_vars
<1>2. CASE RefreshIndex
  BY <1>2 DEF RefreshIndex, tee_vars
<1>3. CASE FetchPublicKey
  BY <1>3 DEF FetchPublicKey, tee_vars
<1>4. CASE ExpireWindow
  <2>1. active_problem' = [text |-> active_problem.text, expired |-> TRUE]
    BY <1>4 DEF ExpireWindow
  <2> QED
    BY <1>4, <2>1 DEF ExpireWindow
<1>5. CASE GetProblemForScoring
  BY <1>5 DEF GetProblemForScoring
<1>6. CASE DeleteProblem
  BY <1>6 DEF DeleteProblem
<1>7. CASE RestartTee
  BY <1>7 DEF RestartTee
<1>8. ASSUME NEW w \in Wallets, NEW caller, NEW age,
             \/ Enter(w) \/ HandOver(w, age)
             \/ RequestProblemKey(caller, w) \/ AgentProblemProxy(caller, w)
      PROVE  TextInv'
  BY <1>8 DEF Enter, HandOver, RequestProblemKey, AgentProblemProxy, tee_vars
<1>9. ASSUME NEW request, GetProblemForAgent(request)
      PROVE  TextInv'
  BY <1>9 DEF GetProblemForAgent
<1>10. ASSUME NEW text \in Texts, StoreProblem(text)
       PROVE  TextInv'
  BY <1>10 DEF StoreProblem, Replaceable
<1>11. ASSUME NEW visibility \in {"PUBLIC", "PRIVATE"}, StorePrivateProblem(visibility)
       PROVE  TextInv'
  BY <1>11 DEF StorePrivateProblem, tee_vars
<1>12. ASSUME NEW w \in Wallets, MessageGrowsOld(w)
       PROVE  TextInv'
  BY <1>12 DEF MessageGrowsOld, tee_vars
<1>13. CASE UNCHANGED problem_vars
  BY <1>13 DEF problem_vars
<1> QED
  BY <1>1, <1>2, <1>3, <1>4, <1>5, <1>6, <1>7, <1>8, <1>9, <1>10, <1>11, <1>12, <1>13
  DEF ProblemNext

\* As long as the TEE runs, every agent served before the first scoring saw
\* the text that is used there (tee_vault.py, store_problem).
THEOREM ScoredAlwaysAsServed ==
  ASSUME NoText \notin Problems
  PROVE  ProblemSpec => []ScoredAsServed
<1>1. ProblemInit => TextInv
  BY DEF ProblemInit, TextInv, ScoredAsServed, ServedIsHeld
<1>2. TextInv /\ [ProblemNext]_problem_vars => TextInv'
  BY TextStep
<1>3. TextInv => ScoredAsServed
  BY DEF TextInv
<1> QED
  BY <1>1, <1>2, <1>3, PTL DEF ProblemSpec

-----------------------------------------------------------------------------
(* The form tokens and sessions of the dashboard                             *)

\* EndedStaysEnded looks only at rows that are fresh and, of the sessions, only
\* at those in memory.  What is inductive: nothing that was accepted or ended is
\* in either copy, fresh or not, and memory holds no session that SQLite lacks.
SpentIsGone == spent \cap Tokens(csrf_cache \cup csrf_tokens) = {}

LoggedOutIsGone == logged_out \cap Tokens(session_cache \cup sessions) = {}

MemoryIsStored == session_cache \subseteq sessions

CredentialInv == SpentIsGone /\ LoggedOutIsGone /\ MemoryIsStored

\* Taking the rows of one token out takes the token out and adds none.
LEMMA WithoutTokens ==
  ASSUME NEW rows, NEW token
  PROVE  /\ Without(rows, token) \subseteq rows
         /\ token \notin Tokens(Without(rows, token))
BY DEF Without, Tokens

\* The tokens of some of the rows.
LEMMA TokensOfPart ==
  ASSUME NEW rows, NEW part \in SUBSET rows
  PROVE  Tokens(part) \subseteq Tokens(rows)
BY DEF Tokens

\* The tokens of two sets of rows.
LEMMA TokensOfUnion ==
  ASSUME NEW r1, NEW r2
  PROVE  Tokens(r1 \cup r2) = Tokens(r1) \cup Tokens(r2)
BY DEF Tokens

\* A new row brings its token and no other.
LEMMA TokensOfOne ==
  ASSUME NEW token, NEW at
  PROVE  Tokens({[token |-> token, at |-> at]}) = {token}
BY DEF Tokens

\* A form token that is accepted leaves both copies (_verify_csrf).
LEMMA AcceptedIsGone ==
  ASSUME SpentIsGone, NEW token, _verify_csrf(token)
  PROVE  SpentIsGone'
<1>1. /\ csrf_cache' = Without(csrf_cache, token)
      /\ csrf_tokens' = Without(csrf_tokens, token)
      /\ spent' = spent \cup {token}
  BY DEF _verify_csrf, ForgetCsrf
<1>2. /\ token \notin Tokens(csrf_cache') \cup Tokens(csrf_tokens')
      /\ csrf_cache' \in SUBSET csrf_cache /\ csrf_tokens' \in SUBSET csrf_tokens
  BY <1>1, WithoutTokens
<1>3. Tokens(csrf_cache') \cup Tokens(csrf_tokens')
        \subseteq Tokens(csrf_cache) \cup Tokens(csrf_tokens)
  BY <1>2, TokensOfPart
<1>4. spent' \cap (Tokens(csrf_cache') \cup Tokens(csrf_tokens')) = {}
  BY <1>1, <1>2, <1>3, TokensOfUnion DEF SpentIsGone
<1>5. (Tokens(csrf_cache \cup csrf_tokens))' = Tokens(csrf_cache') \cup Tokens(csrf_tokens')
  BY TokensOfUnion DEF Tokens
<1> QED
  BY <1>4, <1>5 DEF SpentIsGone

\* A token that is given out was not accepted before (login_page).
LEMMA LoginPageStep ==
  ASSUME CredentialInv, LoginPage
  PROVE  CredentialInv'
<1> PICK token \in (1 .. MaxTokens) \ Issued : _save_csrf(token)
  BY DEF LoginPage
<1> DEFINE new == {[token |-> token, at |-> hour]}
           kept == {r \in csrf_tokens : hour - r.at <= CSRF_MAX_AGE}
<1>1. /\ csrf_cache' = csrf_cache \cup new /\ csrf_tokens' = kept \cup new
      /\ spent' = spent
  BY DEF LoginPage, _save_csrf
<1>2. Tokens(new) = {token}
  BY TokensOfOne
<1>3. Tokens(kept) \subseteq Tokens(csrf_tokens)
  BY DEF Tokens
<1>4. token \notin spent
  BY DEF Issued
<1>5. (Tokens(csrf_cache \cup csrf_tokens))' = Tokens(csrf_cache') \cup Tokens(csrf_tokens')
  BY TokensOfUnion DEF Tokens
<1>6. SpentIsGone'
  <2>1. Tokens(csrf_cache') = Tokens(csrf_cache) \cup Tokens(new)
    BY <1>1, TokensOfUnion
  <2>2. Tokens(csrf_tokens') = Tokens(kept) \cup Tokens(new)
    BY <1>1, TokensOfUnion
  <2>3. spent \cap (Tokens(csrf_cache) \cup Tokens(csrf_tokens)) = {}
    BY TokensOfUnion DEF CredentialInv, SpentIsGone
  <2> HIDE DEF new, kept
  <2> QED
    BY <1>1, <1>2, <1>3, <1>4, <1>5, <2>1, <2>2, <2>3 DEF SpentIsGone
<1> QED
  BY <1>6 DEF LoginPage, session_vars, CredentialInv, LoggedOutIsGone, MemoryIsStored, Tokens

\* A new session was not ended before (_save_session).
LEMMA LoginStep ==
  ASSUME CredentialInv, NEW token, Login(token)
  PROVE  CredentialInv'
<1> PICK s \in (1 .. MaxSessions) \ (Tokens(session_cache \cup sessions) \cup logged_out) :
           _save_session(s)
  BY DEF Login
<1> DEFINE new == {[token |-> s, at |-> hour]}
<1>1. /\ session_cache' = session_cache \cup new /\ sessions' = sessions \cup new
      /\ logged_out' = logged_out
  BY DEF Login, _save_session
<1>2. MemoryIsStored'
  BY <1>1 DEF CredentialInv, MemoryIsStored
<1>3. LoggedOutIsGone'
  <2>1. Tokens(new) = {s}
    BY TokensOfOne
  <2>2. Tokens((session_cache \cup sessions) \cup new)
          = Tokens(session_cache \cup sessions) \cup Tokens(new)
    BY TokensOfUnion
  <2>3. (Tokens(session_cache \cup sessions))' = Tokens((session_cache \cup sessions) \cup new)
    BY <1>1 DEF Tokens
  <2> HIDE DEF new
  <2> QED
    BY <1>1, <2>1, <2>2, <2>3 DEF CredentialInv, LoggedOutIsGone
<1>4. SpentIsGone'
  BY AcceptedIsGone DEF Login, CredentialInv
<1> QED
  BY <1>2, <1>3, <1>4 DEF CredentialInv

\* The session that is ended leaves both copies (_delete_session).
LEMMA LogoutStep ==
  ASSUME CredentialInv, NEW token, Logout(token)
  PROVE  CredentialInv'
<1>1. /\ session_cache' = Without(session_cache, token)
      /\ sessions' = Without(sessions, token)
      /\ logged_out' = logged_out \cup {token}
  BY DEF Logout, _delete_session
<1>2. MemoryIsStored'
  BY <1>1 DEF CredentialInv, MemoryIsStored, Without
<1>3. LoggedOutIsGone'
  BY <1>1 DEF CredentialInv, LoggedOutIsGone, Without, Tokens
<1>4. SpentIsGone'
  BY DEF Logout, csrf_vars, CredentialInv, SpentIsGone, Tokens
<1> QED
  BY <1>2, <1>3, <1>4 DEF CredentialInv

\* What a restart brings back was in SQLite before (_load_sessions).
LEMMA RestartStep ==
  ASSUME CredentialInv, Restart
  PROVE  CredentialInv'
<1>1. /\ session_cache' = sessions' /\ sessions' \subseteq sessions
      /\ logged_out' = logged_out
      /\ csrf_cache' = {} /\ csrf_tokens' = csrf_tokens /\ spent' = spent
  BY DEF Restart
<1> QED
  BY <1>1 DEF CredentialInv, SpentIsGone, LoggedOutIsGone, MemoryIsStored, Tokens

\* Every step keeps it.
LEMMA CredentialStep ==
  ASSUME CredentialInv, [CredentialNext]_credential_vars
  PROVE  CredentialInv'
<1> USE DEF CredentialInv, SpentIsGone, LoggedOutIsGone, MemoryIsStored, Tokens,
            csrf_vars, session_vars
<1>1. CASE HourPasses
  BY <1>1 DEF HourPasses
<1>2. CASE LoginPage
  BY <1>2, LoginPageStep
<1>3. CASE Restart
  BY <1>3, RestartStep
<1>4. CASE CreateKey \/ RevokeAllKeys
  BY <1>4 DEF CreateKey, RevokeAllKeys
<1>5. ASSUME NEW token \in 1 .. MaxTokens, WrongPassword(token)
      PROVE  CredentialInv'
  BY <1>5, AcceptedIsGone DEF WrongPassword
<1>6. ASSUME NEW token \in 1 .. MaxTokens, Login(token)
      PROVE  CredentialInv'
  BY <1>6, LoginStep
<1>7. ASSUME NEW token \in Tokens(session_cache), ShowExpired(token)
      PROVE  CredentialInv'
  BY <1>7 DEF ShowExpired, Without
<1>8. ASSUME NEW token \in Tokens(session_cache), Logout(token)
      PROVE  CredentialInv'
  BY <1>8, LogoutStep
<1>9. ASSUME NEW k \in DOMAIN api_keys, RevokeKey(k)
      PROVE  CredentialInv'
  BY <1>9 DEF RevokeKey
<1>10. CASE UNCHANGED credential_vars
  BY <1>10 DEF credential_vars
<1> QED
  BY <1>1, <1>2, <1>3, <1>4, <1>5, <1>6, <1>7, <1>8, <1>9, <1>10 DEF CredentialNext

\* A form token is accepted once, and a session is over after the logout and
\* after its time, whatever was forgotten in a restart (admin_dashboard.py).
THEOREM EndedAlwaysStaysEnded == CredentialSpec => []EndedStaysEnded
<1>1. CredentialInit => CredentialInv
  BY DEF CredentialInit, CredentialInv, SpentIsGone, LoggedOutIsGone, MemoryIsStored
<1>2. CredentialInv /\ [CredentialNext]_credential_vars => CredentialInv'
  BY CredentialStep
<1>3. CredentialInv => EndedStaysEnded
  <2> SUFFICES ASSUME CredentialInv PROVE EndedStaysEnded
    OBVIOUS
  <2>1. spent \cap Tokens(Fresh(csrf_cache \cup csrf_tokens, CSRF_MAX_AGE)) = {}
    <3>1. Fresh(csrf_cache \cup csrf_tokens, CSRF_MAX_AGE)
            \in SUBSET (csrf_cache \cup csrf_tokens)
      BY DEF Fresh
    <3> QED
      BY <3>1, TokensOfPart DEF CredentialInv, SpentIsGone
  <2>2. ASSUME NEW token \in 1 .. MaxSessions, Admitted(token)
        PROVE  /\ token \notin logged_out
               /\ \E r \in sessions : r.token = token /\ hour - r.at <= SESSION_MAX_AGE
    BY <2>2 DEF Admitted, CredentialInv, LoggedOutIsGone, MemoryIsStored, Tokens
  <2> QED
    BY <2>1, <2>2 DEF EndedStaysEnded
<1> QED
  BY <1>1, <1>2, <1>3, PTL DEF CredentialSpec
=============================================================================
