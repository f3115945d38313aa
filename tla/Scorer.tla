------------------------------- MODULE Scorer -------------------------------
(* scorer.py: one round is scored, one solution after another.  A language  *)
(* model answers which checks of the rubric pass and gives a verdict; the   *)
(* code computes the score from that, a second model may lower it, and the  *)
(* results are sorted for the oracle.  The answers of both models are       *)
(* arbitrary, malformed ones included.                                      *)
EXTENDS Integers, Sequences, FiniteSets, Functions, FiniteSetsExt, SequencesExt

CONSTANTS
  Solutions,      \* agent ids in the order the solutions are listed
  SponsorRubrics, \* rubric JSONs: the items of all criteria, in order
  PassSets(_)     \* sets of checks a model may find passing, out of 1 .. n

(* The weight is any number, whatever the forms of the frontend ask for, and *)
(* may be missing, as may the flag; neither bounties.py nor the service      *)
(* looks at a sign.                                                          *)
RubricItems == [weight : Int] \cup [unskippable : BOOLEAN]
                 \cup [weight : Int, unskippable : BOOLEAN]

ASSUME RubricAssumption ==
  /\ SponsorRubrics \subseteq Seq(RubricItems)
  /\ Solutions \in Seq(Range(Solutions)) /\ IsInjective(Solutions)

VARIABLES
  rubric_json,    \* the round's rubric as received
  results,        \* ScoredSolutions so far, sorted when the round is scored
  pass,           \* what the passes over the current solution gave
  outcome         \* "scoring", "scored" or "raised"

vars == <<rubric_json, results, pass, outcome>>

UNSKIPPABLE_FAIL_CAP_PERCENT == 20
FUNDAMENTALLY_BROKEN_CAP_PERCENT == 20
DUAL_PASS_THRESHOLD == 1500
Verdicts == <<"EXCEPTIONAL", "ELEGANT", "COHERENT", "MINOR_ISSUES", "FLAWED",
              "FUNDAMENTALLY_BROKEN">>
None == -1

-----------------------------------------------------------------------------
(* The rubric.  The sponsor's checks C1 .. Cn are 1 .. n; the four baseline *)
(* checks weigh nothing and only matter together: all of them pass or not.  *)

Check(weight, unskippable) == [weight |-> weight, unskippable |-> unskippable]

DEFAULT_SPONSOR_CHECKS ==
  LET weights == <<600, 600, 400, 500, 300, 600, 300, 400, 400, 300, 500, 400,
                   400, 500, 400, 400, 300, 350, 350, 600, 500, 400, 250, 250>>
  IN [i \in DOMAIN weights |-> Check(weights[i], i \in {1, 2, 4, 6, 10, 20})]

DEFAULT_WEIGHT == 400

\* A sum other than 10000 is only logged.
parse_sponsor_rubric(items) ==
  [i \in DOMAIN items |->
     Check(IF "weight" \in DOMAIN items[i] THEN items[i].weight ELSE DEFAULT_WEIGHT,
           "unskippable" \in DOMAIN items[i] /\ items[i].unskippable)]

build_full_rubric(checks) ==
  IF checks = <<>> THEN DEFAULT_SPONSOR_CHECKS ELSE checks

Rubric == build_full_rubric(parse_sponsor_rubric(rubric_json))

ASSUME PassAssumption ==
  \A items \in SponsorRubrics :
    LET checks == build_full_rubric(parse_sponsor_rubric(items))
    IN  PassSets(Len(checks)) \subseteq SUBSET DOMAIN checks

Weigh(checks, S) == SumFunctionOnSet([i \in DOMAIN checks |-> checks[i].weight], S)
MaxPossible(checks) == Weigh(checks, DOMAIN checks)
Gates(checks) == {i \in DOMAIN checks : checks[i].unskippable}
PercentOf(percent, n) == (n * percent) \div 100    \* n * percent // 100

-----------------------------------------------------------------------------
(* compute_score()                                                           *)

\* int(n / d), which truncates towards zero; the code multiplies by 1 / d.
Truncated(n, d) == IF n >= 0 THEN n \div d ELSE -((-n) \div d)

\* Mutant of VerdictAdjustment: a bonus counts the missed gates as well.
VerdictAdjustmentOfAll(checks, passed, verdict) ==
  LET missed == Weigh(checks, DOMAIN checks \ passed) IN
  IF verdict = "EXCEPTIONAL" THEN missed - Weigh(checks, passed) \div 2 ELSE 0

VerdictAdjustment(checks, passed, verdict) ==
  LET base == Weigh(checks, passed)
      missed == Weigh(checks, DOMAIN checks \ (passed \cup Gates(checks)))
      cap == PercentOf(FUNDAMENTALLY_BROKEN_CAP_PERCENT, MaxPossible(checks))
  IN CASE verdict = "EXCEPTIONAL"  -> missed
       [] verdict = "ELEGANT"      -> Truncated(missed, 2)
       [] verdict = "COHERENT"     -> 0
       [] verdict = "MINOR_ISSUES" -> Truncated(-base, 10)
       [] verdict = "FLAWED"       -> Truncated(-base, 5)
       [] verdict = "FUNDAMENTALLY_BROKEN" -> -(base - Min({base, cap}))

\* Mutant of compute_score: the gate caps the base score, before the bonus.
compute_score_gate_first(checks, answer) ==
  LET max == MaxPossible(checks)
      base == Weigh(checks, answer.passed)
      cap == PercentOf(UNSKIPPABLE_FAIL_CAP_PERCENT, max)
      gated == IF Gates(checks) \subseteq answer.passed THEN base ELSE Min({base, cap})
  IN IF ~answer.baseline THEN 0
     ELSE Max({0, Min({max, gated + VerdictAdjustment(checks, answer.passed, answer.verdict)})})

compute_score(checks, answer) ==
  LET max == MaxPossible(checks)
      sum == Weigh(checks, answer.passed)
               + VerdictAdjustment(checks, answer.passed, answer.verdict)
      cap == PercentOf(UNSKIPPABLE_FAIL_CAP_PERCENT, max)
      final == IF Gates(checks) \subseteq answer.passed THEN sum ELSE Min({sum, cap})
  IN IF ~answer.baseline THEN 0 ELSE Max({0, Min({max, final})})

-----------------------------------------------------------------------------
(* What a model may answer.  An invalid verdict counts as COHERENT; text    *)
(* that is no JSON object with both parts is None; JSON of another type, or *)
(* a verdict that is no string, makes parse_output() raise.                 *)

Answer(passed, baseline, verdict) ==
  [passed |-> passed, baseline |-> baseline, verdict |-> verdict]

parse_output(checks) ==
  {Answer(S, baseline, verdict) :
     S \in PassSets(Len(checks)), baseline \in BOOLEAN, verdict \in Range(Verdicts)}

\* gated says whether the first model found a gate failing.
ScoredSolution(agent, score, gated, error) ==
  [agent |-> agent, score |-> score, gated |-> gated, error |-> error]
NoPass == [primary |-> None, second |-> None, gated |-> FALSE]

FailsGate(checks, answer) == ~answer.baseline \/ ~(Gates(checks) \subseteq answer.passed)

Append1(score, gated, error) ==
  /\ results' = Append(results, ScoredSolution(Solutions[Len(results) + 1], score, gated, error))
  /\ pass' = NoPass
  /\ UNCHANGED <<rubric_json, outcome>>

Scoring == outcome = "scoring" /\ Len(results) < Len(Solutions)
FirstPass == Scoring /\ pass = NoPass

Init ==
  /\ rubric_json \in SponsorRubrics
  /\ results = <<>>
  /\ pass = NoPass
  /\ outcome = "scoring"

\* The blob does not open with the key of its path, AES or ECIES: no
\* breakdown, final_score 0.
DecryptionFails ==
  FirstPass /\ Append1(0, TRUE, TRUE)

\* The call of the first model raises: likewise.
ModelFails ==
  FirstPass /\ Append1(0, TRUE, TRUE)

\* Unparsable output: everything fails, with an error, and no second pass.
OutputInvalid ==
  /\ FirstPass
  /\ Append1(compute_score(Rubric, Answer({}, FALSE, "COHERENT")), TRUE, TRUE)

\* parse_output() raises in the first pass: nothing catches it before the
\* caller of score_round().
OutputRaises ==
  /\ FirstPass
  /\ outcome' = "raised"
  /\ UNCHANGED <<rubric_json, results, pass>>

\* A primary score of 0 gets no second pass.
PrimaryPass ==
  /\ FirstPass
  /\ \E answer \in parse_output(Rubric) :
       LET primary == compute_score(Rubric, answer)
           gated == FailsGate(Rubric, answer)
       IN IF primary = 0 THEN Append1(0, gated, FALSE)
          ELSE /\ pass' = [NoPass EXCEPT !.primary = primary, !.gated = gated]
               /\ UNCHANGED <<rubric_json, results, outcome>>

SecondPass ==
  /\ pass # NoPass
  /\ pass.second = None
  /\ \E answer \in parse_output(Rubric) :
       pass' = [pass EXCEPT !.second = compute_score(Rubric, answer)]
  /\ UNCHANGED <<rubric_json, results, outcome>>

\* Mutant of Conservative: only the size of the difference is looked at.
ConservativeOfSecond(primary, second) ==
  IF Max({primary - second, second - primary}) > DUAL_PASS_THRESHOLD
  THEN second ELSE primary

\* _verification_pass(): the lower score if the difference is flagged.
Conservative(primary, second) ==
  IF Max({primary - second, second - primary}) > DUAL_PASS_THRESHOLD
  THEN Min({primary, second}) ELSE primary

\* Every failure of the second pass, a raising parse included, accepts the
\* primary score.
Accept ==
  /\ pass # NoPass
  /\ \/ pass.second # None /\ Append1(Conservative(pass.primary, pass.second), pass.gated, FALSE)
     \/ pass.second = None /\ Append1(pass.primary, pass.gated, FALSE)

\* results.sort(key = final_score, reverse = True) keeps the order of ties.
Before(scored, i, j) ==
  \/ scored[i].score > scored[j].score
  \/ scored[i].score = scored[j].score /\ i < j

Place(scored, i) == 1 + Cardinality({j \in DOMAIN scored : Before(scored, j, i)})

\* Mutant of Ranking: an unstable sort.
RankingUnstable(scored) ==
  LET reversed == Reverse(scored) IN
  [k \in DOMAIN scored |-> reversed[CHOOSE i \in DOMAIN scored : Place(reversed, i) = k]]

Ranking(scored) ==
  [k \in DOMAIN scored |-> scored[CHOOSE i \in DOMAIN scored : Place(scored, i) = k]]

FinishRound ==
  /\ outcome = "scoring"
  /\ Len(results) = Len(Solutions)
  /\ results' = Ranking(results)
  /\ outcome' = "scored"
  /\ UNCHANGED <<rubric_json, pass>>

Next ==
  \/ DecryptionFails
  \/ ModelFails
  \/ OutputInvalid
  \/ OutputRaises
  \/ PrimaryPass
  \/ SecondPass
  \/ Accept
  \/ FinishRound

Spec == Init /\ [][Next]_vars

-----------------------------------------------------------------------------
(* Properties *)

\* Failing a gate caps the score at a fifth of the rubric, whatever bonus the
\* verdict brings and whatever the second model says (scorer.py:15).  No score
\* is below 0, not even for a rubric whose weights sum to less.
GatesHold ==
  \A i \in DOMAIN results :
    results[i].gated =>
      results[i].score <= Max({0, PercentOf(UNSKIPPABLE_FAIL_CAP_PERCENT, MaxPossible(Rubric))})

NonNegative(checks) == \A i \in DOMAIN checks : checks[i].weight >= 0

\* The computation is fair (compute_score): passing one more check never lowers
\* the score unless that check weighs less than nothing, in whatever rubric it
\* stands, and a fundamentally broken solution never beats a coherent one; a
\* better verdict never lowers the score, for the five verdicts that are rates,
\* when no weight of the rubric is negative.  Looked at when a round starts.
BetterNeverScoresLess ==
  outcome = "scoring" /\ results = <<>> /\ pass = NoPass =>
    LET checks == Rubric
        score(S, v) == compute_score(checks, Answer(S, TRUE, v))
    IN \A S \in PassSets(Len(checks)) :
         /\ \A v \in Range(Verdicts) : \A i \in DOMAIN checks \ S :
              checks[i].weight >= 0 => score(S, v) <= score(S \cup {i}, v)
         /\ NonNegative(checks) =>
              \A k \in 1 .. 4 : score(S, Verdicts[k]) >= score(S, Verdicts[k + 1])
         /\ score(S, "COHERENT") >= score(S, "FUNDAMENTALLY_BROKEN")

\* A second model can only lower a score, and a score that stands above the
\* second model's does so by no more than the threshold (_verification_pass).
Conserved ==
  Len(results') > Len(results) /\ pass.second # None =>
    LET score == results'[Len(results')].score IN
      /\ score <= pass.primary
      /\ score <= pass.second + DUAL_PASS_THRESHOLD
DualPassIsConservative == [][Conserved]_vars

\* The payload for the oracle lists every solution exactly once, failed ones
\* with 0 points, best first, ties in the order of the list (score_round).
PayloadComplete ==
  outcome = "scored" =>
    /\ {results[i].agent : i \in DOMAIN results} = Range(Solutions)
    /\ Len(results) = Len(Solutions)
    /\ \A i \in DOMAIN results : results[i].error => results[i].score = 0
    /\ \A i, j \in DOMAIN results : i < j =>
         \/ results[i].score > results[j].score
         \/ /\ results[i].score = results[j].score
            /\ \A k, l \in DOMAIN Solutions :
                 Solutions[k] = results[i].agent /\ Solutions[l] = results[j].agent => k < l
=============================================================================
