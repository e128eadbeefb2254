------------------------------ MODULE Scoring -------------------------------
(***************************************************************************)
(* The arithmetic of grades, skills and difficulty: pure functions of the  *)
(* voice, MCQ and coding tools, the radar report and the judge.            *)
(*                                                                         *)
(* A grade between 0.0 and 1.0 is counted in thousandths, the precision to *)
(* which the code rounds.  A skill score is 1 .. 10, or NA (None).  The    *)
(* difficulties beginner, intermediate and advanced are 0, 1 and 2.        *)
(***************************************************************************)
EXTENDS Integers, FiniteSets, FiniteSetsExt

NA   == 0
Unit == 1000

\* Python's round of n/d: to the nearest integer, a half to the even one.
Round(n, d) ==
  LET q == n \div d
      r == n % d
  IN  IF 2 * r < d \/ (2 * r = d /\ q % 2 = 0) THEN q ELSE q + 1

Clamp(x) == IF x \in 1 .. 10 THEN x ELSE IF x < 1 THEN 1 ELSE 10

-----------------------------------------------------------------------------
(* Grades.                                                                 *)

PassMark == 600

VoicePassMark == 500

\* Wrong variant: the halves are added whole.
BlendSum(tests, opinion) == tests + opinion

\* Wrong variant: only the rubric's opinion is left.
BlendForgets(tests, opinion) == opinion

\* Blend of the tests that passed and the rubric's opinion, one half each.
Blend(tests, opinion) == Round(tests + opinion, 2)

\* The opinion that stands in for the language model's until it has graded:
\* the mean of approach (the tests' score, cut when they fail) and efficiency.
Heuristic(tests) ==
  LET approach   == IF tests >= PassMark THEN 10 * tests ELSE 7 * tests
      efficiency == 9 * tests
  IN  Round(approach + efficiency, 20)

\* What is made of a run in a local process, by how it went: to its end, too
\* long, with an exit code, without output that can be read, or not at all.
LocalOutcome ==
  [finished |-> "success", late |-> "sandbox_timeout", crashed |-> "sandbox_error",
   garbled |-> "sandbox_error", lost |-> "sandbox_unavailable"]

\* In a sandbox of the E2B service the same; lost is whatever it raises.
CloudOutcome == LocalOutcome

Runs == DOMAIN LocalOutcome

\* Without a key the code runs locally, and in development also when the
\* service is unavailable.
Executed(key, development, cloud, local) ==
  IF ~key \/ (CloudOutcome[cloud] = "sandbox_unavailable" /\ development)
    THEN LocalOutcome[local] ELSE CloudOutcome[cloud]

\* Passed tests by weight; whatever kept the run from its end fails them all.
TestScore(outcome, passed, all) ==
  IF outcome # "success" \/ all = 0 THEN 0 ELSE Round(Unit * passed, all)

-----------------------------------------------------------------------------
(* Skills: from memory cards to the scores of a row.                       *)

Passed(cards)       == {c \in cards : c.passed}
Signalling(cards, d) == {c \in cards : d \in c.signals}

\* Wrong variant: passing is taken for showing the skill.
RateOfPasses(cards, d) ==
  IF cards = {} THEN NA ELSE Clamp(Round(10 * Cardinality(Passed(cards)), Cardinality(cards)))

\* MCQ and voice: how many of the cards signal the dimension.
RateToScore(cards, d) ==
  IF cards = {} THEN NA
  ELSE Clamp(Round(10 * Cardinality(Signalling(cards, d)), Cardinality(cards)))

\* Coding: how many passed, for a dimension that some card signals.
ScoreFromPassRate(cards, d) ==
  IF Signalling(cards, d) = {} THEN NA
  ELSE Clamp(Round(Cardinality(cards) + 9 * Cardinality(Passed(cards)), Cardinality(cards)))

\* Overall mastery, from the pass rate.
Mastery(cards) ==
  LET passed == 10 * Cardinality(Passed(cards))
      all    == Cardinality(cards)
  IN  IF cards # {} /\ passed >= 7 * all THEN "high"
      ELSE IF cards # {} /\ passed >= 4 * all THEN "medium" ELSE "low"

-----------------------------------------------------------------------------
(* Means of scores, where NA does not count.                               *)

\* The mean of Value over those members of S that have one.
MeanOf(S, Value(_)) ==
  LET scored == {x \in S : Value(x) # NA}
  IN  IF scored = {} THEN NA
      ELSE Clamp(Round(MapThenSumSet(Value, scored), Cardinality(scored)))

\* A dimension over all rows of the session.
DimensionMean(rows, d) == MeanOf(rows, LAMBDA r : r.score[d])

\* Over the dimensions in D.
OverallMean(score, D) == MeanOf(D, LAMBDA d : score[d])

-----------------------------------------------------------------------------
(* Difficulty of the next question.                                        *)

Least(a, b) == IF a < b THEN a ELSE b

\* Wrong variant: a step up ignores the cap.
SelectNextUncapped(current, mastery, cap) ==
  CASE mastery = "high"   -> Least(current + 1, 2)
    [] mastery = "medium" -> current
    [] OTHER              -> IF current = 0 THEN 0 ELSE current - 1

\* Voice: up, held or down by one.  Only the first two are capped, though the
\* docstring says that all are.
SelectNextDifficulty(current, mastery, cap) ==
  CASE mastery = "high"   -> Least(current + 1, cap)
    [] mastery = "medium" -> Least(current, cap)
    [] OTHER              -> IF current = 0 THEN 0 ELSE current - 1

\* Coding: the thresholds as configured, each {} or {n}: from 1 to 10, and the
\* upper one not below the lower one.
PolicyOf(config) ==
  LET lower == {Clamp(n) : n \in config.intermediate}
  IN  [initial |-> config.initial, intermediate |-> lower,
       advanced |-> {IF \E l \in lower : l > Clamp(n) THEN CHOOSE l \in lower : TRUE ELSE Clamp(n) :
                       n \in config.advanced}]

\* By the average of the engaged dimensions; below the thresholds it is the
\* initial difficulty, however high that is.
DifficultyFor(average, policy) ==
  IF average # NA /\ \E n \in policy.advanced : average >= n THEN 2
  ELSE IF average # NA /\ \E n \in policy.intermediate : average >= n THEN 1
  ELSE policy.initial

=============================================================================
