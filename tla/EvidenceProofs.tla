--------------------------- MODULE EvidenceProofs ---------------------------
(* What holds of grades, cards, judge and report for sittings of any        *)
(* length, any number of tests, dimensions and failures.                   *)
EXTENDS Evidence, FiniteSetTheorems, WellFoundedInduction, TLAPS

-----------------------------------------------------------------------------
(* Arithmetic.                                                             *)

LEMMA RoundHalf ==
  ASSUME NEW n \in Nat
  PROVE  Round(n, 2) \in Nat /\ n - 1 <= 2 * Round(n, 2) /\ 2 * Round(n, 2) <= n + 1
BY DEF Round

LEMMA BlendWeighs ==
  ASSUME NEW t \in 0 .. Unit, NEW o \in 0 .. Unit
  PROVE  /\ Blend(t, o) \in 0 .. Unit
         /\ t - 1 <= 2 * Blend(t, o) /\ 2 * Blend(t, o) <= t + Unit + 1
<1>1. t + o \in Nat /\ t + o <= 2 * Unit
  BY DEF Unit
<1>2. /\ Blend(t, o) \in Nat
      /\ (t + o) - 1 <= 2 * Blend(t, o) /\ 2 * Blend(t, o) <= (t + o) + 1
  BY <1>1, RoundHalf DEF Blend
<1> DEFINE b == Blend(t, o)
<1> HIDE DEF b
<1>3. ASSUME b \in Nat, (t + o) - 1 <= 2 * b, 2 * b <= (t + o) + 1
      PROVE  b \in 0 .. Unit /\ t - 1 <= 2 * b /\ 2 * b <= t + Unit + 1
  <2>1. t \in Nat /\ o \in Nat /\ t <= 1000 /\ o <= 1000
    BY DEF Unit
  <2>2. t - 1 <= 2 * b
    BY <1>3, <2>1
  <2>3. 2 * b <= t + 1001 /\ 2 * b <= 2001
    BY <1>3, <2>1
  <2>4. b <= 1000
    BY <1>3, <2>3
  <2> QED
    BY <1>3, <2>2, <2>3, <2>4, <2>1 DEF Unit
<1> QED
  BY <1>2, <1>3 DEF b

LEMMA RoundTwentieth ==
  ASSUME NEW n \in Nat, n <= 20000
  PROVE  Round(n, 20) \in Nat /\ Round(n, 20) <= 1000
<1> DEFINE q == n \div 20
           r == n % 20
<1>1. q \in Nat /\ q <= 1000 /\ r \in Nat /\ (q = 1000 => r = 0)
  OBVIOUS
<1>2. Round(n, 20) = IF 2 * r < 20 \/ (2 * r = 20 /\ q % 2 = 0) THEN q ELSE q + 1
  BY DEF Round
<1> HIDE DEF q, r
<1> QED
  BY <1>1, <1>2

LEMMA HeuristicTyped ==
  ASSUME NEW t \in 0 .. Unit
  PROVE  Heuristic(t) \in 0 .. Unit
<1>1. PICK n \in Nat : n <= 20000 /\ Heuristic(t) = Round(n, 20)
  <2>1. CASE t >= PassMark
    <3>1. 10 * t + 9 * t \in Nat /\ 10 * t + 9 * t <= 20000
      BY DEF Unit
    <3> QED
      BY <2>1, <3>1 DEF Heuristic
  <2>2. CASE ~(t >= PassMark)
    <3>1. 7 * t + 9 * t \in Nat /\ 7 * t + 9 * t <= 20000
      BY DEF Unit
    <3> QED
      BY <2>2, <3>1 DEF Heuristic
  <2> QED
    BY <2>1, <2>2
<1>2. Heuristic(t) \in Nat /\ Heuristic(t) <= 1000
  BY <1>1, RoundTwentieth
<1> QED
  BY <1>2 DEF Unit

LEMMA RoundShare ==
  ASSUME NEW n \in Nat \ {0}, NEW k \in 0 .. n
  PROVE  Round(Unit * k, n) \in 0 .. Unit
<1> DEFINE m == Unit * k
           q == m \div n
           r == m % n
<1>1. m \in Nat /\ m <= Unit * n
  BY DEF Unit
<1>2. q \in Nat /\ r \in 0 .. n - 1 /\ m = q * n + r
  BY <1>1
<1>3. q <= Unit /\ (q = Unit => r = 0)
  <2>1. CASE q > Unit
    <3>1. q * n >= (Unit + 1) * n
      BY <1>2, <2>1 DEF Unit
    <3> QED
      BY <1>1, <1>2, <3>1 DEF Unit
  <2>2. CASE q = Unit
    BY <1>1, <1>2, <2>2 DEF Unit
  <2> QED
    BY <1>2, <2>1, <2>2 DEF Unit
<1>4. Round(m, n) = IF 2 * r < n \/ (2 * r = n /\ q % 2 = 0) THEN q ELSE q + 1
  BY DEF Round
<1> HIDE DEF q, r, m
<1>5. Round(m, n) \in 0 .. Unit
  BY <1>2, <1>3, <1>4 DEF Unit
<1> QED
  BY <1>5 DEF m

LEMMA TestScoreTyped ==
  ASSUME NEW outcome, NEW k \in 0 .. Tests, outcome # "success" => k = 0
  PROVE  TestScore(outcome, k, Tests) \in 0 .. Unit
<1>1. Tests \in Nat \ {0}
  BY EvidenceAssumption
<1>2. Round(Unit * k, Tests) \in 0 .. Unit
  BY <1>1, RoundShare
<1> QED
  BY <1>2 DEF TestScore, Unit

LEMMA ClampTyped ==
  ASSUME NEW x
  PROVE  Clamp(x) \in 1 .. 10
BY DEF Clamp

LEMMA RadarTyped ==
  ASSUME NEW R
  PROVE  Radar(R) \in ReportType
<1>1. \A d \in Dims : DimensionMean(R, d) \in Skill
  BY ClampTyped DEF DimensionMean, MeanOf, Skill, NA
<1>2. ASSUME NEW score PROVE OverallMean(score, Dims) \in Skill
  BY ClampTyped DEF OverallMean, MeanOf, Skill, NA
<1> DEFINE score == [d \in Dims |-> DimensionMean(R, d)]
<1>3. score \in [Dims -> Skill] /\ OverallMean(score, Dims) \in Skill
  BY <1>1, <1>2
<1>4. Radar(R) = [score |-> score, overall |-> OverallMean(score, Dims),
                  strengths |-> {d \in Dims : score[d] >= 7},
                  growth    |-> {d \in Dims : score[d] # NA /\ score[d] <= 4}]
  BY DEF Radar
<1> HIDE DEF score
<1> QED
  BY <1>3, <1>4 DEF ReportType

(* The difficulty follows from the average, by a policy that is fixed.     *)
ContractType == [average : Skill, difficulty : 0 .. 2]

LEMMA ContractTyped ==
  ASSUME NEW R
  PROVE  /\ ContractFrom(R) \in ContractType
         /\ ContractFrom(R).difficulty = DifficultyFor(ContractFrom(R).average, Policy)
<1> DEFINE x == EngagedMean(R)
<1>1. x \in Skill
  BY ClampTyped DEF EngagedMean, OverallMean, MeanOf, Skill, NA
<1>2. ContractFrom(R) = [average |-> x, difficulty |-> DifficultyFor(x, Policy)]
  BY DEF ContractFrom
<1>3. Policy.initial \in 0 .. 2
  BY EvidenceAssumption DEF Policy, PolicyOf
<1> HIDE DEF x
<1>4. DifficultyFor(x, Policy) \in 0 .. 2
  BY <1>3 DEF DifficultyFor
<1> QED
  BY <1>1, <1>2, <1>4 DEF ContractType

LEMMA PolicyTyped ==
  Policy.advanced \subseteq Int /\ Policy.intermediate \subseteq Int
<1>1. Policy.intermediate \subseteq Int
  BY ClampTyped DEF Policy, PolicyOf
<1>2. ASSUME NEW n \in Config.advanced
      PROVE  (IF \E l \in Policy.intermediate : l > Clamp(n)
                THEN CHOOSE l \in Policy.intermediate : TRUE ELSE Clamp(n)) \in Int
  <2>1. Policy.intermediate # {} => (CHOOSE l \in Policy.intermediate : TRUE) \in Policy.intermediate
    OBVIOUS
  <2> QED
    BY <1>1, <2>1, ClampTyped
<1>3. Policy.advanced =
        {IF \E l \in Policy.intermediate : l > Clamp(n)
           THEN CHOOSE l \in Policy.intermediate : TRUE ELSE Clamp(n) : n \in Config.advanced}
  BY DEF Policy, PolicyOf
<1> QED
  BY <1>1, <1>2, <1>3

(* With a beginner's start a lower average is never worth more.            *)
LEMMA DifficultyMonotone ==
  ASSUME NEW x \in Skill, NEW y \in Skill, x <= y, Policy.initial = 0
  PROVE  DifficultyFor(x, Policy) <= DifficultyFor(y, Policy)
BY PolicyTyped DEF DifficultyFor, Skill, NA

LEMMA StepTyped ==
  ASSUME NEW t \in 0 .. 2, NEW mastery
  PROVE  LET n == SelectNextDifficulty(t, mastery, Cap)
         IN  /\ n \in 0 .. 2
             /\ n > t => n = t + 1 /\ n <= Cap /\ mastery = "high"
             /\ n > Cap => n = t - 1
BY EvidenceAssumption DEF SelectNextDifficulty, Least

-----------------------------------------------------------------------------
(* Sums and means.  A sum over a finite set is a recursive function; what   *)
(* it computes is proved by taking the least size at which a set would      *)
(* violate the claim.                                                       *)

LEMMA LeastNat ==
  ASSUME NEW T \in SUBSET Nat, T # {}
  PROVE  \E n \in T : \A m \in T : n <= m
<1> DEFINE R == {ss \in Nat \X Nat : ss[1] < ss[2]}
<1>1. IsWellFoundedOn(OpToRel(<, Nat), Nat)
  BY NatLessThanWellFounded
<1>2. OpToRel(<, Nat) = R
  BY DEF OpToRel
<1>3. IsWellFoundedOn(R, Nat)
  BY <1>1, <1>2
<1> HIDE DEF R
<1>4. PICK n \in T : \A m \in T : ~(<<m, n>> \in R)
  BY <1>3, WFMin
<1>5. ASSUME NEW m \in T PROVE n <= m
  <2>1. m \in Nat /\ n \in Nat /\ ~(<<m, n>> \in R)
    BY <1>4
  <2>2. ~(m < n)
    BY <2>1 DEF R
  <2> QED
    BY <2>1, <2>2
<1> QED
  BY <1>5

Picked(s) == CHOOSE x \in s : TRUE

(* One step of the sum of v over s, with the sums f of smaller sets.        *)
SumStep(v, f, s) == IF s = {} THEN 0 ELSE v[Picked(s)] + f[s \ {Picked(s)}]

Sums(S, v) == CHOOSE f : f = [s \in SUBSET S |-> SumStep(v, f, s)]

LEMMA SmallerSet ==
  ASSUME NEW s, IsFiniteSet(s), s # {}
  PROVE  /\ Picked(s) \in s /\ IsFiniteSet(s \ {Picked(s)})
         /\ Cardinality(s) \in Nat \ {0}
         /\ Cardinality(s \ {Picked(s)}) = Cardinality(s) - 1
<1>1. Picked(s) \in s
  BY DEF Picked
<1> QED
  BY <1>1, FS_RemoveElement, FS_CardinalityType, FS_EmptySet

LEMMA SumsDefined ==
  ASSUME NEW S, IsFiniteSet(S), NEW v
  PROVE  \A s \in SUBSET S : Sums(S, v)[s] = SumStep(v, Sums(S, v), s)
<1> DEFINE D(n) == {s \in SUBSET S : Cardinality(s) <= n}
           Good(n) == \E f : f = [s \in D(n) |-> SumStep(v, f, s)]
           T == {n \in Nat : ~Good(n)}
<1>0. \A s \in SUBSET S : IsFiniteSet(s) /\ Cardinality(s) \in Nat
  BY FS_Subset, FS_CardinalityType
<1>1. T = {}
  <2> SUFFICES ASSUME T # {} PROVE FALSE
    OBVIOUS
  <2>1. PICK n \in T : \A m \in T : n <= m
    <3> HIDE DEF T
    <3>1. T \in SUBSET Nat
      BY DEF T
    <3> QED
      BY <3>1, LeastNat
  <2>2. n \in Nat /\ ~Good(n)
    OBVIOUS
  <2>3. CASE n = 0
    <3> DEFINE f == [s \in D(n) |-> 0]
    <3>1. \A s \in D(n) : s = {}
      BY <1>0, <2>3, FS_EmptySet
    <3>2. f = [s \in D(n) |-> SumStep(v, f, s)]
      BY <3>1 DEF SumStep
    <3> QED
      BY <2>2, <3>2
  <2>4. CASE n # 0
    <3>1. n - 1 \in Nat /\ ~(n <= n - 1)
      BY <2>2, <2>4
    <3>2. Good(n - 1)
      BY <2>1, <3>1
    <3>3. PICK g : g = [s \in D(n - 1) |-> SumStep(v, g, s)]
      BY <3>2
    <3> DEFINE f == [s \in D(n) |-> SumStep(v, g, s)]
    <3>4. ASSUME NEW s \in D(n) PROVE f[s] = SumStep(v, f, s)
      <4>1. CASE s = {}
        BY <4>1 DEF SumStep
      <4>2. CASE s # {}
        <5> DEFINE r == s \ {Picked(s)}
        <5>1. r \in SUBSET S /\ Cardinality(r) = Cardinality(s) - 1 /\ Cardinality(s) \in Nat
          BY <1>0, <4>2, SmallerSet
        <5>2. r \in D(n - 1) /\ r \in D(n)
          BY <2>2, <5>1
        <5>3. g[r] = SumStep(v, g, r) /\ f[r] = SumStep(v, g, r)
          <6> HIDE DEF r
          <6> QED
            BY <3>3, <5>2
        <5> HIDE DEF f
        <5>4. f[s] = SumStep(v, g, s)
          BY DEF f
        <5> QED
          BY <4>2, <5>3, <5>4 DEF SumStep
      <4> QED
        BY <4>1, <4>2
    <3>5. f = [s \in D(n) |-> SumStep(v, f, s)]
      BY <3>4
    <3> HIDE DEF f
    <3> QED
      BY <2>2, <3>5
  <2> QED
    BY <2>3, <2>4
<1>2. Cardinality(S) \in Nat /\ D(Cardinality(S)) = SUBSET S
  BY FS_Subset, FS_CardinalityType
<1>3. Good(Cardinality(S))
  BY <1>1, <1>2
<1>4. \E f : f = [s \in SUBSET S |-> SumStep(v, f, s)]
  BY <1>2, <1>3
<1>5. Sums(S, v) = [s \in SUBSET S |-> SumStep(v, Sums(S, v), s)]
  BY <1>4 DEF Sums
<1> DEFINE F == Sums(S, v)
<1> HIDE DEF F
<1>6. F = [s \in SUBSET S |-> SumStep(v, F, s)]
  BY <1>5 DEF F
<1>7. \A s \in SUBSET S : F[s] = SumStep(v, F, s)
  BY <1>6
<1> QED
  BY <1>7 DEF F

(* A sum of n numbers from lo to hi is at least n times lo and no more than *)
(* n times hi.                                                              *)
LEMMA SumsWithin ==
  ASSUME NEW S, IsFiniteSet(S), NEW v, NEW lo \in Nat, NEW hi \in Nat,
         \A x \in S : v[x] \in lo .. hi
  PROVE  /\ Sums(S, v)[S] \in Nat
         /\ lo * Cardinality(S) <= Sums(S, v)[S] /\ Sums(S, v)[S] <= hi * Cardinality(S)
<1> DEFINE F == Sums(S, v)
           P(s) == /\ F[s] \in Nat
                   /\ lo * Cardinality(s) <= F[s] /\ F[s] <= hi * Cardinality(s)
           T == {n \in Nat : \E s \in SUBSET S : Cardinality(s) = n /\ ~P(s)}
<1>0. \A s \in SUBSET S : IsFiniteSet(s) /\ Cardinality(s) \in Nat
  BY FS_Subset, FS_CardinalityType
<1> HIDE DEF F
<1>1. \A s \in SUBSET S : F[s] = SumStep(v, F, s)
  BY SumsDefined DEF F
<1>2. T = {}
  <2> SUFFICES ASSUME T # {} PROVE FALSE
    OBVIOUS
  <2>1. PICK n \in T : \A m \in T : n <= m
    <3> HIDE DEF T
    <3>1. T \in SUBSET Nat
      BY DEF T
    <3> QED
      BY <3>1, LeastNat
  <2>2. PICK s \in SUBSET S : Cardinality(s) = n /\ ~P(s)
    OBVIOUS
  <2>3. IsFiniteSet(s) /\ n \in Nat
    BY <1>0
  <2>4. CASE s = {}
    <3>1. F[s] = 0 /\ Cardinality(s) = 0
      BY <1>1, <2>4, FS_EmptySet DEF SumStep
    <3> QED
      BY <2>2, <3>1
  <2>5. CASE s # {}
    <3> DEFINE x == Picked(s)
               r == s \ {x}
    <3>0. /\ x \in s /\ Cardinality(r) = Cardinality(s) - 1
          /\ Cardinality(s) \in Nat \ {0}
      BY <2>3, <2>5, SmallerSet
    <3>1. x \in s /\ Cardinality(r) = n - 1 /\ n - 1 \in Nat /\ r \in SUBSET S
      BY <2>2, <2>3, <3>0
    <3> HIDE DEF x
    <3>2. F[s] = v[x] + F[r]
      BY <1>1, <2>5 DEF SumStep, x
    <3> HIDE DEF r
    <3>3. P(r)
      <4>1. ~(n - 1 \in T)
        BY <2>1, <2>3, <3>1
      <4> QED
        BY <3>1, <4>1
    <3>4. v[x] \in Nat /\ lo <= v[x] /\ v[x] <= hi
      BY <3>1
    <3>5. lo * (n - 1) = lo * n - lo /\ hi * (n - 1) = hi * n - hi
      BY <2>3
    <3>6. lo * n \in Nat /\ hi * n \in Nat
      BY <2>3
    <3> QED
      BY <2>2, <2>3, <3>1, <3>2, <3>3, <3>4, <3>5, <3>6
  <2> QED
    BY <2>4, <2>5
<1>3. P(S)
  BY <1>0, <1>2
<1> QED
  BY <1>3 DEF F

LEMMA RoundBetween ==
  ASSUME NEW n \in Nat \ {0}, NEW m \in Nat, NEW lo \in Nat, NEW hi \in Nat,
         lo * n <= m, m <= hi * n
  PROVE  Round(m, n) \in lo .. hi
<1> DEFINE q == m \div n
           r == m % n
<1>1. q \in Nat /\ r \in 0 .. n - 1 /\ m = q * n + r
  OBVIOUS
<1>2. Round(m, n) = IF 2 * r < n \/ (2 * r = n /\ q % 2 = 0) THEN q ELSE q + 1
  BY DEF Round
<1> HIDE DEF q, r
<1>3. lo <= q
  <2> SUFFICES ASSUME q + 1 <= lo PROVE FALSE
    BY <1>1
  <2>1. (q + 1) * n <= lo * n
    BY <1>1
  <2>2. (q + 1) * n = q * n + n
    BY <1>1
  <2> QED
    BY <1>1, <2>1, <2>2
<1>4. q <= hi /\ (q = hi => r = 0)
  <2>1. CASE q = hi
    BY <1>1, <2>1
  <2>2. CASE hi + 1 <= q
    <3>1. (hi + 1) * n <= q * n /\ (hi + 1) * n = hi * n + n
      BY <1>1, <2>2
    <3> QED
      BY <1>1, <3>1
  <2> QED
    BY <1>1, <2>1, <2>2
<1> QED
  BY <1>1, <1>2, <1>3, <1>4

(* The mean of scores lies between the least and the greatest of them.      *)
LEMMA MeanWithin ==
  ASSUME NEW S, IsFiniteSet(S), S # {}, NEW v, \A x \in S : v[x] \in 1 .. 10
  PROVE  LET m == Clamp(Round(Sums(S, v)[S], Cardinality(S)))
         IN  \E a, b \in S : v[a] <= m /\ m <= v[b]
<1> DEFINE L == {v[x] : x \in S}
           H == {10 - v[x] : x \in S}
<1>1. L \in SUBSET Nat /\ L # {} /\ H \in SUBSET Nat /\ H # {}
  OBVIOUS
<1>2. PICK a \in S : \A x \in S : v[a] <= v[x]
  <2>1. PICK l \in L : \A m \in L : l <= m
    <3> HIDE DEF L
    <3> QED
      BY <1>1, LeastNat
  <2> QED
    BY <2>1
<1>3. PICK b \in S : \A x \in S : v[x] <= v[b]
  <2>1. PICK l \in H : \A m \in H : l <= m
    <3> HIDE DEF H
    <3> QED
      BY <1>1, LeastNat
  <2>2. PICK b \in S : l = 10 - v[b]
    OBVIOUS
  <2>3. ASSUME NEW x \in S PROVE v[x] <= v[b]
    <3>1. 10 - v[b] <= 10 - v[x]
      BY <2>1, <2>2
    <3>2. v[x] \in Nat /\ v[b] \in Nat
      OBVIOUS
    <3> QED
      BY <3>1, <3>2
  <2> QED
    BY <2>3
<1> DEFINE s == Sums(S, v)[S]
           n == Cardinality(S)
<1> HIDE DEF s, n, L, H
<1>4. v[a] \in 1 .. 10 /\ v[b] \in 1 .. 10 /\ \A x \in S : v[x] \in v[a] .. v[b]
  BY <1>2, <1>3
<1>5. n \in Nat \ {0}
  BY FS_CardinalityType, FS_EmptySet DEF n
<1>6. s \in Nat /\ v[a] * n <= s /\ s <= v[b] * n
  BY <1>4, SumsWithin DEF s, n
<1>7. Round(s, n) \in v[a] .. v[b]
  <2>1. v[a] \in Nat /\ v[b] \in Nat
    BY <1>4
  <2> QED
    BY <1>5, <1>6, <2>1, RoundBetween
<1>8. Clamp(Round(s, n)) = Round(s, n)
  BY <1>4, <1>7 DEF Clamp
<1>9. v[a] <= Clamp(Round(s, n)) /\ Clamp(Round(s, n)) <= v[b]
  BY <1>4, <1>7, <1>8
<1> QED
  BY <1>9 DEF s, n

LEMMA DimensionMeanWithin ==
  ASSUME NEW R, IsFiniteSet(R), NEW d, \A r \in R : r.score[d] \in 0 .. 10,
         DimensionMean(R, d) # NA
  PROVE  \E a, b \in R : /\ a.score[d] # NA
                         /\ a.score[d] <= DimensionMean(R, d) /\ DimensionMean(R, d) <= b.score[d]
<1> DEFINE S == {r \in R : r.score[d] # NA}
           v == [r \in S |-> r.score[d]]
<1>1. S \in SUBSET R /\ IsFiniteSet(S)
  BY FS_Subset
<1>2. MapThenSumSet(LAMBDA r : r.score[d], S) = Sums(S, v)[S]
  BY DEF MapThenSumSet, MapThenFoldSet, Sums, SumStep, Picked
<1>3. S # {} /\ DimensionMean(R, d) = Clamp(Round(MapThenSumSet(LAMBDA r : r.score[d], S), Cardinality(S)))
  BY DEF DimensionMean, MeanOf
<1>4. \A r \in S : v[r] \in 1 .. 10 /\ v[r] = r.score[d] /\ r.score[d] # NA /\ r \in R
  BY DEF NA
<1> HIDE DEF S, v
<1>5. PICK a \in S, b \in S : v[a] <= DimensionMean(R, d) /\ DimensionMean(R, d) <= v[b]
  BY <1>1, <1>2, <1>3, <1>4, MeanWithin
<1> QED
  BY <1>4, <1>5

LEMMA OverallMeanWithin ==
  ASSUME NEW D, IsFiniteSet(D), NEW score, \A d \in D : score[d] \in 0 .. 10,
         OverallMean(score, D) # NA
  PROVE  \E d, e \in D : score[d] <= OverallMean(score, D) /\ OverallMean(score, D) <= score[e]
<1> DEFINE S == {d \in D : score[d] # NA}
<1>1. S \in SUBSET D /\ IsFiniteSet(S)
  BY FS_Subset
<1>2. MapThenSumSet(LAMBDA d : score[d], S) = Sums(S, score)[S]
  BY DEF MapThenSumSet, MapThenFoldSet, Sums, SumStep, Picked
<1>3. S # {} /\ OverallMean(score, D) = Clamp(Round(MapThenSumSet(LAMBDA d : score[d], S), Cardinality(S)))
  BY DEF OverallMean, MeanOf
<1>4. \A d \in S : score[d] \in 1 .. 10 /\ d \in D
  BY DEF NA
<1> HIDE DEF S
<1>5. PICK d \in S, e \in S : score[d] <= OverallMean(score, D) /\ OverallMean(score, D) <= score[e]
  BY <1>1, <1>2, <1>3, <1>4, MeanWithin
<1> QED
  BY <1>4, <1>5

-----------------------------------------------------------------------------
(* The invariant.                                                          *)

(* Why answer i may have no card though nothing failed.                    *)
Remembered(i) ==
  \/ \E c \in cards : c.answer = i
  \/ Is(i, "voice") /\ \A g \in grade[i] : g.tests = 0
  \/ Is(i, "mcq") /\ Concludes(i)
  \/ Is(i, "diagram") /\ InPhase(i, "done") /\ grade[i] = {}

(* What the phase of answer i says of its grade, its card and its upgrade.  *)
Kept(i) ==
  /\ Is(i, "none") => InPhase(i, "idle")
  /\ InPhase(i, "idle") => grade[i] = {}
  /\ Is(i, "diagram") \/ Is(i, "coding") => InPhase(i, "done") \/ grade[i] = {}
  /\ Is(i, "mcq") \/ Is(i, "voice") => InPhase(i, "idle") \/ grade[i] # {}
  /\ Is(i, "coding") /\ InPhase(i, "done") => grade[i] # {}
  /\ InPhase(i, "carded") => \E c \in cards : c.answer = i /\ c.try = job[i].try
  /\ InPhase(i, "failed") => faults > 0
  /\ upgrade[i].phase # "none" => Is(i, "coding") /\ InPhase(i, "done")
  /\ faults = 0 /\ job[i].phase \in {"carded", "stored", "done"} => Remembered(i)

Weighs(g) == g.tests - 1 <= 2 * g.overall /\ 2 * g.overall <= g.tests + Unit + 1

(* A card's answer is graded, or still being processed, or failed.          *)
InProcess(i) == job[i].phase \in {"graded", "carded", "stored", "failed"}

(* For a learner who completes after the last answer nothing moves behind   *)
(* the judge and the report but the upgrades of rubrics.                    *)
Closed ==
  delays = 0 =>
    /\ chain.phase # "none" => \A i \in Answers : Over(i)
    /\ chain.phase \in {"judging", "held", "confirmed", "reported"} => chain.read = GradedAnswers
    /\ chain.phase \in {"confirmed", "reported"} =>
         \A i \in Answers : \A g \in grade[i] : g.judged
    /\ chain.phase = "reported" => report = Radar(rows)

Contracted == contract.difficulty = DifficultyFor(contract.average, Policy)

IInv ==
  /\ TypeOK
  /\ \A i \in Answers : Kept(i)
  /\ VectorsHaveCards /\ CardsGraded /\ TextsAgree
  /\ TestsWeigh
  /\ Closed
  /\ Contracted

LEMMA InitIInv == Init => IInv
<1> SUFFICES ASSUME Init PROVE IInv
  OBVIOUS
<1>1. PICK plan \in Plans : job = [i \in Answers |-> NewJob(plan[i])]
  BY DEF Init
<1>2. /\ job \in [Answers -> JobType]
      /\ \A i \in Answers : InPhase(i, "idle") /\ grade[i] = {} /\ upgrade[i].phase = "none"
  BY <1>1, EvidenceAssumption DEF Init, NewJob, JobType, Unit, InPhase
<1>3. contract \in [average : Skill, difficulty : 0 .. 2] /\ Contracted
  BY ContractTyped DEF Init, ContractType, Contracted
<1>4. NoReport \in ReportType
  BY DEF NoReport, ReportType, Skill, NA
<1>5. TypeOK
  BY <1>2, <1>3, <1>4, EvidenceAssumption DEF Init, TypeOK, NoChain
<1>6. \A i \in Answers : Kept(i)
  BY <1>2 DEF Kept, InPhase
<1>7. VectorsHaveCards /\ CardsGraded /\ TextsAgree /\ TestsWeigh
  BY <1>2 DEF Init, VectorsHaveCards, CardsGraded, TextsAgree, TestsWeigh
<1>8. Closed
  BY DEF Init, Closed, NoChain
<1> QED
  BY <1>3, <1>5, <1>6, <1>7, <1>8 DEF IInv

-----------------------------------------------------------------------------
(* Steps of one answer: its job moves on, what it stores is its own.        *)

LEMMA JobStep ==
  ASSUME IInv, NEW i \in Answers,
         ~Over(i) \/ chain.phase = "none",
         NEW j \in JobType, job' = [job EXCEPT ![i] = j], j.tool = job[i].tool,
         NEW G \in SUBSET GradeType, grade' = [grade EXCEPT ![i] = G],
         G = grade[i] \/ grade[i] = {},
         Is(i, "coding") => \A g \in G : Weighs(g),
         cards \subseteq cards', cards' \subseteq CardType,
         \A c \in cards' : c \in cards \/ (c.answer = i /\ c.text = "first"),
         \A c \in cards' : c.answer = i => G # {} \/ InProcess(i)',
         vectors' \subseteq Answers \X Nat,
         \A v \in vectors' : v \in vectors \/ \E c \in cards : v = <<c.answer, c.try>>,
         rows' \subseteq RowType,
         tier' \in 0 .. 2, contract' \in ContractType, Contracted',
         NEW u \in {"none", "queued", "loaded", "done"},
         upgrade' = [upgrade EXCEPT ![i].phase = u],
         faults' \in Nat, faults' >= faults,
         UNCHANGED <<closing, delays>>,
         Kept(i)'
  PROVE  IInv'
<1>0. /\ job \in [Answers -> JobType] /\ grade \in [Answers -> SUBSET GradeType]
      /\ upgrade \in [Answers -> [phase : {"none", "queued", "loaded", "done"},
                                  copy : SUBSET GradeType]]
      /\ faults \in Nat /\ chain' = chain /\ report' = report /\ delays' = delays
  BY DEF IInv, TypeOK, closing
<1>1. /\ job'[i] = j /\ \A k \in Answers : k # i => job'[k] = job[k]
      /\ \A k \in Answers : job'[k].tool = job[k].tool
      /\ grade'[i] = G /\ \A k \in Answers : k # i => grade'[k] = grade[k]
      /\ \A k \in Answers : k # i => upgrade'[k] = upgrade[k]
  BY <1>0
<1>2. TypeOK'
  <2>1. job' \in [Answers -> JobType] /\ grade' \in [Answers -> SUBSET GradeType]
    BY <1>0
  <2>2. upgrade' \in [Answers -> [phase : {"none", "queued", "loaded", "done"},
                                  copy : SUBSET GradeType]]
    BY <1>0
  <2> QED
    BY <1>0, <2>1, <2>2 DEF IInv, TypeOK, ContractType
<1>3. ASSUME NEW k \in Answers PROVE Kept(k)'
  <2>1. CASE k = i
    BY <2>1
  <2>2. CASE k # i
    <3>1. Concludes(k)' = Concludes(k)
      BY <1>1 DEF Concludes
    <3>2. Kept(k)
      BY DEF IInv
    <3>3. Remembered(k) => Remembered(k)'
      BY <1>1, <2>2, <3>1 DEF Remembered, Is, InPhase
    <3> QED
      BY <1>0, <1>1, <2>2, <3>2, <3>3 DEF Kept, Is, InPhase
  <2> QED
    BY <2>1, <2>2
<1>4. VectorsHaveCards'
  BY DEF IInv, VectorsHaveCards, Id
<1>5. CardsGraded'
  <2> SUFFICES ASSUME NEW c \in cards'
               PROVE  grade'[c.answer] # {} \/ InProcess(c.answer)'
    BY DEF CardsGraded, InProcess
  <2>1. c.answer \in Answers
    BY DEF CardType
  <2> QED
    BY <1>1, <2>1 DEF IInv, CardsGraded, InProcess
<1>6. TextsAgree'
  <2> SUFFICES ASSUME NEW c \in cards', c.text = "full"
               PROVE  \E g \in grade'[c.answer] : g.rubric = "full"
    BY DEF TextsAgree
  <2>1. c \in cards /\ c.answer \in Answers
    BY DEF CardType
  <2>2. \E g \in grade[c.answer] : g.rubric = "full"
    BY <2>1 DEF IInv, TextsAgree
  <2> QED
    BY <1>1, <2>1, <2>2
<1>7. TestsWeigh'
  BY <1>1 DEF IInv, TestsWeigh, Weighs, Is
<1>8. Closed'
  <2> SUFFICES ASSUME delays = 0, chain.phase # "none" PROVE Closed'
    BY <1>0 DEF Closed
  <2>1. \A k \in Answers : Over(k)
    BY DEF IInv, Closed
  <2> QED
    BY <2>1
<1> QED
  BY <1>2, <1>3, <1>4, <1>5, <1>6, <1>7, <1>8 DEF IInv

LEMMA Now ==
  ASSUME IInv, NEW i \in Answers
  PROVE  /\ job[i] \in JobType /\ grade[i] \in SUBSET GradeType /\ Kept(i)
         /\ grade = [grade EXCEPT ![i] = grade[i]]
         /\ upgrade[i].phase \in {"none", "queued", "loaded", "done"}
         /\ upgrade = [upgrade EXCEPT ![i].phase = upgrade[i].phase]
         /\ faults \in Nat /\ contract \in ContractType /\ Contracted
         /\ cards \subseteq CardType /\ vectors \subseteq Answers \X Nat
         /\ rows \subseteq RowType /\ tier \in 0 .. 2
         /\ \A c \in cards : c.answer = i => grade[i] # {} \/ InProcess(i)
         /\ Is(i, "coding") => \A g \in grade[i] : Weighs(g)
  BY DEF IInv, TypeOK, CardsGraded, InProcess, ContractType, TestsWeigh, Weighs

LEMMA Active ==
  ASSUME IInv, NEW i \in Answers, job[i].phase \in {"graded", "carded", "stored"}
  PROVE  ~Over(i) /\ job[i].tool \in Tools
  BY Now DEF Over, Kept, Is, InPhase, JobType

(* A job that goes on to phase ph.                                          *)
LEMMA Moved ==
  ASSUME IInv, NEW i \in Answers, NEW ph \in {"carded", "stored", "done", "failed"}, Goes(i, ph)
  PROVE  \E j \in JobType :
           /\ job' = [job EXCEPT ![i] = j]
           /\ j = [job[i] EXCEPT !.phase = ph]
           /\ job'[i] = j
           /\ j.tool = job[i].tool /\ j.phase = ph /\ j.try = job[i].try
           /\ \A t \in Tools \cup {"none"} : Is(i, t)' = Is(i, t)
           /\ \A p \in {"idle", "graded", "carded", "stored", "done", "failed"} :
                InPhase(i, p)' = (p = ph)
           /\ Concludes(i)' = Concludes(i)
<1> DEFINE j == [job[i] EXCEPT !.phase = ph]
<1>1. job[i] \in JobType /\ job \in [Answers -> JobType]
  BY DEF IInv, TypeOK
<1>2. /\ j \in JobType /\ j.tool = job[i].tool /\ j.phase = ph /\ j.try = job[i].try
      /\ job' = [job EXCEPT ![i] = j] /\ job'[i] = j
      /\ \A k \in Answers : job'[k].tool = job[k].tool
  BY <1>1 DEF JobType, Goes
<1> HIDE DEF j
<1>3. Concludes(i)' = Concludes(i)
  BY <1>2 DEF Concludes
<1> QED
  BY <1>2, <1>3 DEF Is, InPhase, j

(* A failure on the way of answer i: the card, the vector, or what was not  *)
(* committed is lost.                                                      *)
LEMMA FaultKeeps ==
  ASSUME IInv, NEW i \in Answers,
         Forgets(i) \/ CodingForgets(i) \/ EmbedFails(i) \/ Fails(i)
  PROVE  IInv'
<1>1. PICK ph \in {"stored", "failed"} : Goes(i, ph)
  BY DEF Forgets, CodingForgets, EmbedFails, Fails
<1>2. /\ job[i].phase \in {"graded", "carded", "stored"} /\ faults' = faults + 1
      /\ UNCHANGED <<grade, cards, vectors, rows, tier, contract, upgrade, closing, delays>>
  BY DEF Forgets, CodingForgets, EmbedFails, Fails, Fault, InPhase, stores, steers
<1>3. PICK j \in JobType :
        /\ job' = [job EXCEPT ![i] = j]
        /\ job'[i] = j /\ j.tool = job[i].tool /\ j.phase = ph
        /\ \A t \in Tools \cup {"none"} : Is(i, t)' = Is(i, t)
        /\ \A p \in {"idle", "graded", "carded", "stored", "done", "failed"} :
             InPhase(i, p)' = (p = ph)
  BY <1>1, Moved
<1>4. faults' \in Nat /\ faults' > 0
  BY <1>2, Now
<1>5. Kept(i)'
  BY <1>2, <1>3, <1>4, Now, Active DEF Kept, Tools, InPhase
<1>6. InProcess(i)'
  BY <1>3 DEF InProcess
<1>7. Contracted'
  BY <1>2, Now DEF Contracted
<1>8. ~Over(i) /\ faults' >= faults
  BY <1>2, Now, Active
<1>9. /\ grade' = [grade EXCEPT ![i] = grade[i]]
      /\ upgrade' = [upgrade EXCEPT ![i].phase = upgrade[i].phase]
      /\ UNCHANGED <<cards, vectors, rows, tier, contract, closing, delays>>
  BY <1>2, Now
<1> QED
  BY <1>3, <1>4, <1>5, <1>6, <1>7, <1>8, <1>9, Now, JobStep

(* A job that takes in an answer.                                           *)
LEMMA Taken ==
  ASSUME IInv, NEW i \in Answers, NEW ph \in {"graded", "stored", "done"},
         NEW passed \in BOOLEAN, NEW score \in 0 .. Unit, Received(i, ph, passed, score)
  PROVE  \E j \in JobType :
           /\ job' = [job EXCEPT ![i] = j]
           /\ j.tool = job[i].tool /\ j.phase = ph
           /\ \A t \in Tools \cup {"none"} : Is(i, t)' = Is(i, t)
           /\ \A p \in {"idle", "graded", "carded", "stored", "done", "failed"} :
                InPhase(i, p)' = (p = ph)
           /\ InProcess(i)' <=> ph # "done"
           /\ Concludes(i)' = Concludes(i)
<1> DEFINE j == [tool |-> job[i].tool, phase |-> ph, passed |-> passed,
                 score |-> score, try |-> job[i].try + 1, left |-> FALSE]
<1>1. job[i] \in JobType /\ job \in [Answers -> JobType]
  BY DEF IInv, TypeOK
<1>2. /\ j \in JobType /\ j.tool = job[i].tool /\ j.phase = ph
      /\ job' = [job EXCEPT ![i] = j]
  BY <1>1 DEF JobType, Received
<1> HIDE DEF j
<1>3. job'[i] = j /\ \A k \in Answers : job'[k].tool = job[k].tool
  BY <1>1, <1>2
<1>4. Concludes(i)' = Concludes(i)
  BY <1>3 DEF Concludes
<1>5. InProcess(i)' <=> ph # "done"
  BY <1>2, <1>3 DEF InProcess
<1> QED
  BY <1>2, <1>3, <1>4, <1>5 DEF Is, InPhase

LEMMA GradedTyped ==
  ASSUME NEW x \in 0 .. Unit, NEW y \in 0 .. Unit
  PROVE  Graded(x, y) \in GradeType /\ Graded(x, y).tests = x /\ Graded(x, y).overall = y
BY DEF Graded, GradeType

(* A graded answer of multiple choice or voice.                             *)
LEMMA GradedKeeps ==
  ASSUME IInv, NEW i \in Answers, AnswerMcq(i) \/ AnswerVoice(i)
  PROVE  IInv'
<1>1. PICK ph \in {"graded", "stored", "done"}, passed \in BOOLEAN, score \in 0 .. Unit :
        /\ Received(i, ph, passed, score)
        /\ grade' = [grade EXCEPT ![i] = {Graded(score, score)}]
        /\ ph = "done" => Is(i, "mcq") /\ Concludes(i)
        /\ ph = "stored" => Is(i, "voice") /\ score = 0
  <2>1. CASE AnswerMcq(i)
    <3>1. PICK passed \in BOOLEAN :
            LET score == IF passed THEN Unit ELSE 0
            IN  /\ grade' = [grade EXCEPT ![i] = {Graded(score, score)}]
                /\ Received(i, IF Concludes(i) THEN "done" ELSE "graded", passed, score)
      BY <2>1 DEF AnswerMcq
    <3>2. Is(i, "mcq")
      BY <2>1 DEF AnswerMcq
    <3> DEFINE score == IF passed THEN Unit ELSE 0
               ph == IF Concludes(i) THEN "done" ELSE "graded"
    <3>3. /\ score \in 0 .. Unit /\ ph \in {"graded", "stored", "done"}
          /\ ph # "stored" /\ (ph = "done" => Concludes(i))
      BY DEF Unit
    <3>4. /\ grade' = [grade EXCEPT ![i] = {Graded(score, score)}]
          /\ Received(i, ph, passed, score)
      BY <3>1
    <3> HIDE DEF score, ph
    <3> QED
      BY <3>2, <3>3, <3>4
  <2>2. CASE AnswerVoice(i)
    <3>1. PICK flagged \in BOOLEAN, score \in Opinions \cup {0} :
            /\ flagged => score = 0
            /\ grade' = [grade EXCEPT ![i] = {Graded(score, score)}]
            /\ Received(i, IF flagged THEN "stored" ELSE "graded", score >= VoicePassMark, score)
      BY <2>2 DEF AnswerVoice
    <3>2. score \in 0 .. Unit
      <4>1. Opinions \subseteq 0 .. Unit /\ 0 \in 0 .. Unit
        BY EvidenceAssumption DEF Unit
      <4> QED
        BY <4>1
    <3>3. Is(i, "voice")
      BY <2>2 DEF AnswerVoice
    <3> DEFINE ph == IF flagged THEN "stored" ELSE "graded"
               passed == score >= VoicePassMark
    <3>4. ph \in {"graded", "stored", "done"} /\ ph # "done" /\ (ph = "stored" => flagged)
      OBVIOUS
    <3>5. passed \in BOOLEAN /\ Received(i, ph, passed, score)
      BY <3>1
    <3> HIDE DEF ph, passed
    <3> QED
      BY <3>1, <3>2, <3>3, <3>4, <3>5
  <2> QED
    BY <2>1, <2>2
<1>2. /\ Is(i, "mcq") \/ Is(i, "voice")
      /\ InPhase(i, "idle") /\ chain.phase = "none"
      /\ UNCHANGED <<cards, vectors, rows, tier, contract, upgrade, closing, faults, delays>>
  BY DEF AnswerMcq, AnswerVoice, Answering, steers, Is, InPhase
<1>3. PICK j \in JobType :
        /\ job' = [job EXCEPT ![i] = j] /\ j.tool = job[i].tool
        /\ \A t \in Tools \cup {"none"} : Is(i, t)' = Is(i, t)
        /\ \A p \in {"idle", "graded", "carded", "stored", "done", "failed"} :
             InPhase(i, p)' = (p = ph)
        /\ job'[i].phase = ph
        /\ Concludes(i)' = Concludes(i)
  BY <1>1, Taken DEF InPhase
<1> DEFINE G == {Graded(score, score)}
<1>4. /\ G \in SUBSET GradeType /\ G # {} /\ grade'[i] = G
      /\ \A g \in G : g.tests = score
      /\ grade' = [grade EXCEPT ![i] = G]
  BY <1>1, GradedTyped DEF IInv, TypeOK
<1>5. grade[i] = {} /\ ~Is(i, "coding") /\ ~Is(i, "diagram") /\ ~Is(i, "none") /\ upgrade[i].phase = "none"
  BY <1>2, Now DEF Kept, Is
<1> HIDE DEF G
<1>6. Kept(i)'
  <2>1. ph # "carded" /\ ph # "failed" /\ ph # "idle"
    OBVIOUS
  <2>2. ph \in {"stored", "done"} => Remembered(i)'
    BY <1>1, <1>3, <1>4 DEF Remembered, Tools
  <2> QED
    BY <1>2, <1>3, <1>4, <1>5, <2>1, <2>2 DEF Kept, Tools
<1>7. Contracted' /\ faults' >= faults
  BY <1>2, Now DEF Contracted
<1>8. /\ upgrade' = [upgrade EXCEPT ![i].phase = upgrade[i].phase]
      /\ UNCHANGED <<cards, vectors, rows, tier, contract, closing, delays, faults>>
  BY <1>2, Now
<1>9. /\ Is(i, "coding") => \A g \in G : Weighs(g)
      /\ G = grade[i] \/ grade[i] = {}
      /\ \A c \in cards' : c.answer = i => G # {} \/ InProcess(i)'
      /\ faults' \in Nat /\ (~Over(i) \/ chain.phase = "none")
      /\ cards \subseteq cards' /\ cards' \subseteq CardType
      /\ \A c \in cards' : c \in cards \/ (c.answer = i /\ c.text = "first")
      /\ vectors' \subseteq Answers \X Nat /\ rows' \subseteq RowType
      /\ \A v \in vectors' : v \in vectors \/ \E c \in cards : v = <<c.answer, c.try>>
      /\ tier' \in 0 .. 2 /\ contract' \in ContractType
      /\ upgrade[i].phase \in {"none", "queued", "loaded", "done"}
  BY <1>2, <1>4, <1>5, <1>8, Now
<1> DEFINE u == upgrade[i].phase
<1>10. /\ upgrade' = [upgrade EXCEPT ![i].phase = u]
       /\ u \in {"none", "queued", "loaded", "done"}
  BY <1>8, <1>9
<1> HIDE DEF u
<1> QED
  BY <1>3, <1>4, <1>6, <1>7, <1>8, <1>9, <1>10, JobStep

(* An answer of diagram or coding, which has no grade before its end.       *)
LEMMA ReceivedKeeps ==
  ASSUME IInv, NEW i \in Answers, AnswerDiagram(i) \/ AnswerCoding(i)
  PROVE  IInv'
<1>1. PICK ph \in {"graded", "stored", "done"}, passed \in BOOLEAN, score \in 0 .. Unit :
        /\ Received(i, ph, passed, score)
        /\ ph # "stored" /\ (ph = "done" => Is(i, "diagram"))
  <2>1. CASE AnswerDiagram(i)
    BY <2>1 DEF AnswerDiagram, Unit
  <2>2. CASE AnswerCoding(i)
    <3>0. PICK cloud \in Runs, local \in Runs, k \in 0 .. Tests :
            LET outcome == Executed(Key, Development, cloud, local)
            IN  /\ outcome # "success" => k = 0
                /\ Received(i, "graded", TestScore(outcome, k, Tests) >= PassMark,
                            TestScore(outcome, k, Tests))
      BY <2>2 DEF AnswerCoding
    <3> DEFINE outcome == Executed(Key, Development, cloud, local)
    <3>1. /\ outcome # "success" => k = 0
          /\ Received(i, "graded", TestScore(outcome, k, Tests) >= PassMark,
                      TestScore(outcome, k, Tests))
      BY <3>0
    <3> HIDE DEF outcome
    <3>2. TestScore(outcome, k, Tests) \in 0 .. Unit
      BY <3>1, TestScoreTyped
    <3>3. (TestScore(outcome, k, Tests) >= PassMark) \in BOOLEAN
      OBVIOUS
    <3> QED
      BY <3>1, <3>2, <3>3
  <2> QED
    BY <2>1, <2>2
<1>2. /\ Is(i, "diagram") \/ Is(i, "coding")
      /\ InPhase(i, "idle") \/ InPhase(i, "failed")
      /\ chain.phase = "none"
      /\ UNCHANGED <<grade, cards, vectors, rows, tier, contract, upgrade, closing, faults, delays>>
  BY DEF AnswerDiagram, AnswerCoding, Answering, stores, steers
<1>3. PICK j \in JobType :
        /\ job' = [job EXCEPT ![i] = j] /\ j.tool = job[i].tool
        /\ \A t \in Tools \cup {"none"} : Is(i, t)' = Is(i, t)
        /\ \A p \in {"idle", "graded", "carded", "stored", "done", "failed"} :
             InPhase(i, p)' = (p = ph)
        /\ job'[i].phase = ph
        /\ InProcess(i)' <=> ph # "done"
  BY <1>1, Taken DEF InPhase
<1>4. /\ grade[i] = {} /\ ~Is(i, "mcq") /\ ~Is(i, "voice") /\ ~Is(i, "none")
      /\ upgrade[i].phase = "none"
      /\ ph = "done" => ~Is(i, "coding")
  BY <1>1, <1>2, Now DEF Kept, Is, InPhase
<1>5. Kept(i)'
  <2>1. ph = "done" => Remembered(i)'
    BY <1>1, <1>2, <1>3, <1>4 DEF Remembered, Tools
  <2> QED
    BY <1>1, <1>2, <1>3, <1>4, <2>1 DEF Kept, Tools
<1>6. \A c \in cards : c.answer # i \/ InProcess(i)'
  <2>1. CASE InPhase(i, "idle") \/ ph # "done"
    BY <1>2, <1>3, <1>4, <2>1, Now DEF InProcess, InPhase
  <2>2. CASE InPhase(i, "failed") /\ ph = "done"
    BY <1>1, <1>2, <2>2 DEF AnswerDiagram, AnswerCoding, Answering, Is, InPhase
  <2> QED
    BY <1>2, <2>1, <2>2
<1>7. Contracted' /\ faults' >= faults
  BY <1>2, Now DEF Contracted
<1>8. /\ upgrade' = [upgrade EXCEPT ![i].phase = upgrade[i].phase]
      /\ grade' = [grade EXCEPT ![i] = grade[i]]
      /\ UNCHANGED <<cards, vectors, rows, tier, contract, closing, delays, faults>>
  BY <1>2, Now
<1>9. /\ ~Over(i) \/ chain.phase = "none"
      /\ Is(i, "coding") => \A g \in grade[i] : Weighs(g)
      /\ \A c \in cards : c.answer = i => grade[i] # {} \/ InProcess(i)'
  BY <1>2, <1>6, Now
<1> QED
  BY ZenonT(30), <1>2, <1>3, <1>4, <1>5, <1>7, <1>8, <1>9, Now, JobStep
(* The memory agent or the analysis goes on: nothing graded changes.        *)
LEMMA WorkStep ==
  ASSUME IInv, NEW i \in Answers, job[i].phase \in {"graded", "carded", "stored"},
         NEW ph \in {"carded", "stored", "done"}, Goes(i, ph),
         ph = "done" => Is(i, "mcq") \/ Is(i, "voice"),
         UNCHANGED <<grade, contract, upgrade, closing, faults, delays>>,
         cards \subseteq cards', cards' \subseteq CardType,
         \A c \in cards' : c \in cards \/ (c.answer = i /\ c.text = "first"),
         vectors' \subseteq Answers \X Nat,
         \A v \in vectors' : v \in vectors \/ \E c \in cards : v = <<c.answer, c.try>>,
         rows' \subseteq RowType, tier' \in 0 .. 2,
         ph = "carded" => \E c \in cards' : c.answer = i /\ c.try = job[i].try,
         faults = 0 => Remembered(i) \/ \E c \in cards' : c.answer = i
  PROVE  IInv'
<1>1. PICK j \in JobType :
        /\ job' = [job EXCEPT ![i] = j]
        /\ job'[i] = j /\ j.tool = job[i].tool /\ j.phase = ph /\ j.try = job[i].try
        /\ \A t \in Tools \cup {"none"} : Is(i, t)' = Is(i, t)
        /\ \A p \in {"idle", "graded", "carded", "stored", "done", "failed"} :
             InPhase(i, p)' = (p = ph)
        /\ Concludes(i)' = Concludes(i)
  BY Moved
<1>2. /\ ~Over(i) /\ grade' = [grade EXCEPT ![i] = grade[i]]
      /\ grade[i] \in SUBSET GradeType
      /\ contract' \in ContractType /\ faults' \in Nat /\ faults' >= faults
      /\ Is(i, "coding") => \A g \in grade[i] : Weighs(g)
      /\ UNCHANGED <<closing, delays>>
  BY Now, Active
<1>3. Contracted'
  BY Now DEF Contracted
<1>4. /\ Kept(i) /\ ~InPhase(i, "idle") /\ ~InPhase(i, "done") /\ ~InPhase(i, "failed")
      /\ grade'[i] = grade[i] /\ faults' = faults /\ upgrade' = upgrade
  BY Now DEF InPhase
<1>5. faults = 0 => Remembered(i)'
  BY <1>1, <1>4 DEF Remembered, Tools
<1>6. upgrade[i].phase = "none" /\ ~Is(i, "none")
  BY <1>4 DEF Kept
<1>7. ph # "idle" /\ ph # "failed"
  OBVIOUS
<1>8. Kept(i)'
  BY <1>1, <1>4, <1>5, <1>6, <1>7 DEF Kept, Tools
<1>9. \A c \in cards' : c.answer = i => grade[i] # {} \/ InProcess(i)'
  <2>1. CASE ph = "done"
    BY <1>4, <2>1 DEF Kept
  <2>2. CASE ph # "done"
    BY <1>1, <2>2 DEF InProcess
  <2> QED
    BY <2>1, <2>2
<1> DEFINE u == upgrade[i].phase
<1>10. /\ upgrade' = [upgrade EXCEPT ![i].phase = u]
       /\ u \in {"none", "queued", "loaded", "done"}
  BY <1>4, Now
<1> HIDE DEF u
<1> DEFINE G == grade[i]
<1>11. /\ G \in SUBSET GradeType /\ grade' = [grade EXCEPT ![i] = G] /\ G = grade[i]
       /\ Is(i, "coding") => \A g \in G : Weighs(g)
       /\ \A c \in cards' : c.answer = i => G # {} \/ InProcess(i)'
  BY <1>2, <1>9
<1> HIDE DEF G
<1> QED
  BY <1>1, <1>2, <1>3, <1>8, <1>10, <1>11, JobStep

LEMMA MemoryKeeps ==
  ASSUME IInv, NEW i \in Answers, Remembers(i) \/ Embeds(i)
  PROVE  IInv'
<1>1. CASE Remembers(i)
  <2>1. PICK s \in Signals :
          cards' = cards \cup {[answer |-> i, try |-> job[i].try, tool |-> job[i].tool,
                                signals |-> s, passed |-> job[i].passed, text |-> "first"]}
    BY <1>1 DEF Remembers
  <2> DEFINE e == [answer |-> i, try |-> job[i].try, tool |-> job[i].tool,
                   signals |-> s, passed |-> job[i].passed, text |-> "first"]
  <2>2. /\ job[i].phase = "graded" /\ Goes(i, "carded")
        /\ UNCHANGED <<grade, vectors, rows, tier, contract, upgrade, closing, faults, delays>>
    BY <1>1 DEF Remembers, InPhase, steers
  <2>3. job[i] \in JobType /\ job[i].tool \in Tools /\ s \subseteq Dims
    BY <2>2, Now, Active, EvidenceAssumption
  <2>4. e \in CardType /\ e.answer = i /\ e.try = job[i].try /\ e.text = "first"
    BY <2>3 DEF CardType, JobType
  <2>5. cards' = cards \cup {e}
    BY <2>1
  <2> HIDE DEF e
  <2>6. /\ cards \subseteq cards' /\ cards' \subseteq CardType
        /\ \A c \in cards' : c \in cards \/ (c.answer = i /\ c.text = "first")
        /\ \E c \in cards' : c.answer = i /\ c.try = job[i].try
    BY <2>4, <2>5, Now
  <2>7. vectors' \subseteq Answers \X Nat /\ rows' \subseteq RowType /\ tier' \in 0 .. 2
    BY <2>2, Now
  <2>8. \A v \in vectors' : v \in vectors
    BY <2>2
  <2> QED
    BY <2>2, <2>6, <2>7, <2>8, WorkStep
<1>2. CASE Embeds(i)
  <2>1. /\ job[i].phase = "carded" /\ Goes(i, "stored")
        /\ vectors' = vectors \cup {<<i, job[i].try>>}
        /\ UNCHANGED <<grade, cards, rows, tier, contract, upgrade, closing, faults, delays>>
    BY <1>2 DEF Embeds, InPhase, steers
  <2>2. job[i] \in JobType /\ Kept(i)
    BY Now
  <2>3. PICK c \in cards : c.answer = i /\ c.try = job[i].try
    BY <2>1, <2>2 DEF Kept, InPhase
  <2>4. /\ vectors' \subseteq Answers \X Nat
        /\ \A v \in vectors' : v \in vectors \/ \E d \in cards : v = <<d.answer, d.try>>
    BY <2>1, <2>2, <2>3, Now DEF JobType
  <2>5. /\ cards \subseteq cards' /\ cards' \subseteq CardType
        /\ \A d \in cards' : d \in cards
        /\ rows' \subseteq RowType /\ tier' \in 0 .. 2
    BY <2>1, Now
  <2>6. faults = 0 => Remembered(i)
    BY <2>1, <2>2 DEF Kept
  <2> QED
    BY <2>1, <2>4, <2>5, <2>6, WorkStep
<1> QED
  BY <1>1, <1>2

LEMMA ScoredTyped ==
  ASSUME NEW i \in Answers, job[i].tool \in Tools, rows \subseteq RowType, cards \subseteq CardType,
         NEW score \in [Dims -> Skill], Scored(i, score)
  PROVE  rows' \subseteq RowType
<1> DEFINE from == {Id(c) : c \in CardsOf(job[i].tool)}
<1>1. from \in SUBSET (Answers \X Nat)
  BY DEF CardsOf, CardType, Id
<1>2. rows' = rows \cup {[answer |-> i, tool |-> job[i].tool, score |-> score, from |-> from]}
  BY DEF Scored
<1> HIDE DEF from
<1> QED
  BY <1>1, <1>2 DEF RowType

LEMMA AnalysisKeeps ==
  ASSUME IInv, NEW i \in Answers, AnalysesMcq(i) \/ AnalysesVoice(i)
  PROVE  IInv'
<1>1. /\ job[i].phase = "stored" /\ Goes(i, "done") /\ Scores(i)
      /\ Is(i, "mcq") \/ Is(i, "voice")
      /\ UNCHANGED <<grade, cards, vectors, contract, upgrade, closing, faults, delays>>
  BY DEF AnalysesMcq, AnalysesVoice, InPhase, steers
<1>2. tier' \in 0 .. 2
  <2>1. CASE AnalysesMcq(i)
    BY <2>1, Now DEF AnalysesMcq, steers
  <2>2. CASE AnalysesVoice(i)
    <3>1. tier' = tier \/ tier' = SelectNextDifficulty(tier, Mastery(CardsOf("voice")), Cap)
      BY <2>2 DEF AnalysesVoice
    <3> QED
      BY <3>1, Now, StepTyped
  <2> QED
    BY <2>1, <2>2
<1>3. rows' \subseteq RowType
  <2>1. CASE CardsOf(job[i].tool) = {}
    BY <1>1, <2>1, Now DEF Scores
  <2>2. CASE CardsOf(job[i].tool) # {}
    <3> DEFINE score == [d \in Dims |-> RateToScore(CardsOf(job[i].tool), d)]
    <3>1. \A d \in Dims : RateToScore(CardsOf(job[i].tool), d) \in Skill
      BY ClampTyped DEF RateToScore, Skill, NA
    <3>2. score \in [Dims -> Skill]
      BY <3>1
    <3>3. Scored(i, score)
      BY <1>1, <2>2 DEF Scores
    <3> HIDE DEF score
    <3> QED
      BY <1>1, <3>2, <3>3, ScoredTyped, Now, Active
  <2> QED
    BY <2>1, <2>2
<1>4. /\ cards \subseteq cards' /\ cards' \subseteq CardType
      /\ \A d \in cards' : d \in cards
      /\ vectors' \subseteq Answers \X Nat /\ \A v \in vectors' : v \in vectors
  BY <1>1, Now
<1>5. faults = 0 => Remembered(i)
  BY <1>1, Now DEF Kept
<1> QED
  BY <1>1, <1>2, <1>3, <1>4, <1>5, WorkStep

(* The page is loaded again: nothing is stored.                             *)
LEMMA ReloadsKeeps ==
  ASSUME IInv, NEW i \in Answers, Reloads(i)
  PROVE  IInv'
<1>1. /\ job' = [job EXCEPT ![i].left = TRUE] /\ tier' = Start /\ chain.phase = "none"
      /\ UNCHANGED <<grade, cards, vectors, rows, contract, upgrade, closing, faults, delays>>
  BY DEF Reloads, stores
<1> DEFINE j == [job[i] EXCEPT !.left = TRUE]
<1>2. job \in [Answers -> JobType] /\ job[i] \in JobType
  BY DEF IInv, TypeOK
<1>3. /\ j \in JobType /\ j.tool = job[i].tool /\ j.phase = job[i].phase /\ j.try = job[i].try
      /\ job' = [job EXCEPT ![i] = j]
  BY <1>1, <1>2 DEF JobType
<1> HIDE DEF j
<1>4. /\ job'[i] = j /\ \A k \in Answers : job'[k].tool = job[k].tool
  BY <1>2, <1>3
<1>5. /\ Concludes(i)' = Concludes(i) /\ \A t : Is(i, t)' = Is(i, t)
      /\ \A p : InPhase(i, p)' = InPhase(i, p)
  BY <1>3, <1>4 DEF Concludes, Is, InPhase
<1>6. Kept(i)'
  <2>1. Remembered(i)' = Remembered(i)
    BY <1>1, <1>5 DEF Remembered
  <2> QED
    BY <1>1, <1>3, <1>4, <1>5, <2>1, Now DEF Kept
<1>7. InProcess(i)' = InProcess(i) /\ Contracted'
  BY <1>1, <1>3, <1>4, Now DEF InProcess, Contracted
<1>8. tier' \in 0 .. 2
  BY <1>1, EvidenceAssumption
<1> DEFINE G == grade[i]
           u == upgrade[i].phase
<1>9. /\ G \in SUBSET GradeType /\ grade' = [grade EXCEPT ![i] = G] /\ G = grade[i]
      /\ Is(i, "coding") => \A g \in G : Weighs(g)
      /\ \A c \in cards' : c.answer = i => G # {} \/ InProcess(i)'
      /\ upgrade' = [upgrade EXCEPT ![i].phase = u]
      /\ u \in {"none", "queued", "loaded", "done"}
  BY <1>1, <1>7, Now
<1>10. /\ cards \subseteq cards' /\ cards' \subseteq CardType /\ \A c \in cards' : c \in cards
       /\ vectors' \subseteq Answers \X Nat /\ \A v \in vectors' : v \in vectors
       /\ rows' \subseteq RowType /\ contract' \in ContractType
       /\ faults' \in Nat /\ faults' >= faults /\ UNCHANGED <<closing, delays>>
  BY <1>1, Now
<1> HIDE DEF G, u
<1> QED
  BY <1>1, <1>3, <1>6, <1>7, <1>8, <1>9, <1>10, JobStep

(* The end of a pipeline or a submit: its grade is committed.               *)
LEMMA CommitKeeps ==
  ASSUME IInv, NEW i \in Answers, DiagramCommits(i) \/ CodingCommits(i)
  PROVE  IInv'
<1>1. /\ job[i].phase = "stored" /\ Goes(i, "done")
      /\ Is(i, "diagram") \/ Is(i, "coding")
      /\ UNCHANGED <<cards, vectors, tier, closing, faults, delays>>
  BY DEF DiagramCommits, CodingCommits, InPhase, steers
<1>2. /\ job[i] \in JobType /\ Kept(i) /\ ~Over(i) /\ faults' = faults /\ faults' \in Nat
      /\ grade[i] = {} /\ upgrade[i].phase = "none" /\ ~Is(i, "none")
      /\ job[i].tool \in Tools
      /\ grade \in [Answers -> SUBSET GradeType]
      /\ upgrade \in [Answers -> [phase : {"none", "queued", "loaded", "done"},
                                  copy : SUBSET GradeType]]
  BY <1>1, Now, Active DEF Kept, InPhase, IInv, TypeOK
<1>3. PICK j \in JobType :
        /\ job' = [job EXCEPT ![i] = j]
        /\ job'[i] = j /\ j.tool = job[i].tool /\ j.phase = "done"
        /\ \A t \in Tools \cup {"none"} : Is(i, t)' = Is(i, t)
        /\ \A p \in {"idle", "graded", "carded", "stored", "done", "failed"} :
             InPhase(i, p)' = (p = "done")
  BY <1>1, Moved
<1>4. PICK g \in GradeType, u \in {"none", "queued"} :
        /\ grade' = [grade EXCEPT ![i] = {g}]
        /\ upgrade' = [upgrade EXCEPT ![i].phase = u]
        /\ Is(i, "coding") => Weighs(g)
        /\ u # "none" => Is(i, "coding")
  <2>1. CASE DiagramCommits(i)
    <3>1. Graded(job[i].score, job[i].score) \in GradeType
      BY <1>2, GradedTyped DEF JobType
    <3>2. /\ grade' = [grade EXCEPT ![i] = {Graded(job[i].score, job[i].score)}]
          /\ upgrade' = [upgrade EXCEPT ![i].phase = "none"]
      BY <1>2, <2>1 DEF DiagramCommits
    <3>3. ~Is(i, "coding")
      BY <2>1 DEF DiagramCommits, Is
    <3> QED
      BY <3>1, <3>2, <3>3
  <2>2. CASE CodingCommits(i)
    <3> DEFINE t == job[i].score
               b == Blend(t, Heuristic(t))
    <3>1. t \in 0 .. Unit
      BY <1>2 DEF JobType
    <3>2. /\ b \in 0 .. Unit
          /\ t - 1 <= 2 * b /\ 2 * b <= t + Unit + 1
      BY <3>1, HeuristicTyped, BlendWeighs
    <3>3. /\ grade' = [grade EXCEPT ![i] = {Graded(t, b)}]
          /\ upgrade' = [upgrade EXCEPT ![i].phase = "queued"]
          /\ Is(i, "coding")
      BY <2>2 DEF CodingCommits, FirstGrade
    <3> HIDE DEF t, b
    <3>4. Graded(t, b) \in GradeType /\ Weighs(Graded(t, b))
      BY <3>1, <3>2, GradedTyped DEF Weighs
    <3> QED
      BY <3>3, <3>4
  <2> QED
    BY <2>1, <2>2
<1>5. /\ rows' \subseteq RowType
      /\ contract' \in ContractType
      /\ Contracted'
  <2>1. CASE DiagramCommits(i)
    BY <2>1, Now DEF DiagramCommits, steers, Contracted
  <2>2. CASE CodingCommits(i)
    <3>1. \A d \in Dims : (IF d \in Engaged THEN ScoreFromPassRate(CardsOf("coding"), d) ELSE NA) \in Skill
      BY ClampTyped DEF ScoreFromPassRate, Skill, NA
    <3>2. CodingRow \in [Dims -> Skill] /\ Scored(i, CodingRow) /\ contract' = ContractFrom(rows')
      BY <2>2, <3>1 DEF CodingCommits, CodingRow
    <3>3. rows' \subseteq RowType
      BY <1>2, <3>2, ScoredTyped, Now
    <3> QED
      BY <3>2, <3>3, ContractTyped DEF Contracted
  <2> QED
    BY <2>1, <2>2
<1>6. faults = 0 => \E c \in cards : c.answer = i
  BY <1>1, <1>2 DEF Kept, Remembered, Is, InPhase
<1>7. grade'[i] = {g} /\ upgrade'[i].phase = u
  BY <1>2, <1>4
<1>8. Kept(i)'
  <2>1. faults' = 0 => Remembered(i)'
    BY <1>1, <1>2, <1>6 DEF Remembered
  <2>2. Is(i, "mcq")' = Is(i, "mcq") /\ Is(i, "voice")' = Is(i, "voice")
    BY <1>3 DEF Tools
  <2> QED
    BY <1>2, <1>3, <1>4, <1>7, <2>1, <2>2 DEF Kept, Tools
<1> DEFINE G == {g}
<1>9. /\ G \in SUBSET GradeType /\ grade' = [grade EXCEPT ![i] = G] /\ grade[i] = {}
      /\ Is(i, "coding") => \A h \in G : Weighs(h)
      /\ \A c \in cards' : c.answer = i => G # {} \/ InProcess(i)'
  BY <1>2, <1>4
<1> HIDE DEF G
<1>10. /\ cards \subseteq cards' /\ cards' \subseteq CardType
       /\ \A c \in cards' : c \in cards \/ (c.answer = i /\ c.text = "first")
       /\ vectors' \subseteq Answers \X Nat
       /\ \A v \in vectors' : v \in vectors \/ \E c \in cards : v = <<c.answer, c.try>>
       /\ tier' \in 0 .. 2 /\ faults' >= faults
       /\ u \in {"none", "queued", "loaded", "done"}
       /\ UNCHANGED <<closing, delays>>
  BY <1>1, <1>2, Now
<1> QED
  BY <1>2, <1>3, <1>4, <1>5, <1>8, <1>9, <1>10, JobStep

-----------------------------------------------------------------------------
(* Steps behind the answers: grades and cards are rewritten in place.       *)

LEMMA Rewritten ==
  ASSUME IInv, TypeOK', TextsAgree', TestsWeigh', Closed',
         UNCHANGED <<job, vectors, contract, faults>>,
         \A k \in Answers : upgrade'[k].phase # "none" => upgrade[k].phase # "none",
         \A k \in Answers : grade'[k] = {} <=> grade[k] = {},
         \A k \in Answers : \A h \in grade'[k] : \E g \in grade[k] : h.tests = g.tests,
         \A c \in cards : \E e \in cards' : e.answer = c.answer /\ e.try = c.try,
         \A e \in cards' : \E c \in cards : e.answer = c.answer /\ e.try = c.try
  PROVE  IInv'
<1>1. ASSUME NEW k \in Answers PROVE Kept(k)'
  <2>1. /\ Kept(k) /\ Concludes(k)' = Concludes(k) /\ job'[k] = job[k] /\ faults' = faults
        /\ upgrade'[k].phase # "none" => upgrade[k].phase # "none"
        /\ grade'[k] = {} <=> grade[k] = {}
    BY DEF IInv, Concludes
  <2>2. Remembered(k) => Remembered(k)'
    BY <2>1 DEF Remembered, Is, InPhase
  <2>3. (\E c \in cards : c.answer = k /\ c.try = job[k].try)
          => \E e \in cards' : e.answer = k /\ e.try = job[k].try
    OBVIOUS
  <2> QED
    BY <2>1, <2>2, <2>3 DEF Kept, Is, InPhase
<1>2. VectorsHaveCards'
  <2> SUFFICES ASSUME NEW v \in vectors' PROVE \E e \in cards' : v = <<e.answer, e.try>>
    BY DEF VectorsHaveCards, Id
  <2>1. PICK c \in cards : v = <<c.answer, c.try>>
    BY DEF IInv, VectorsHaveCards, Id
  <2> QED
    BY <2>1
<1>3. CardsGraded'
  <2> SUFFICES ASSUME NEW e \in cards'
               PROVE  grade'[e.answer] # {} \/ job[e.answer].phase \in {"graded", "carded", "stored", "failed"}
    BY DEF CardsGraded
  <2>1. PICK c \in cards : e.answer = c.answer
    OBVIOUS
  <2>2. c.answer \in Answers
    BY DEF IInv, TypeOK, CardType
  <2> QED
    BY <2>1, <2>2 DEF IInv, CardsGraded
<1>4. Contracted'
  BY DEF IInv, Contracted
<1> QED
  BY <1>1, <1>2, <1>3, <1>4 DEF IInv
LEMMA UpgradedTyped ==
  ASSUME NEW g \in GradeType, NEW o \in 0 .. Unit
  PROVE  /\ Upgraded(g, o) \in GradeType /\ Weighs(Upgraded(g, o))
         /\ Upgraded(g, o).tests = g.tests /\ Upgraded(g, o).judged = g.judged
         /\ Upgraded(g, o).rubric = "full"
<1> DEFINE b == Blend(g.tests, o)
<1>1. g.tests \in 0 .. Unit
  BY DEF GradeType
<1>2. b \in 0 .. Unit /\ g.tests - 1 <= 2 * b /\ 2 * b <= g.tests + Unit + 1
  BY <1>1, BlendWeighs
<1>3. Upgraded(g, o) = [g EXCEPT !.rubric = "full", !.overall = b]
  BY DEF Upgraded
<1> HIDE DEF b
<1> QED
  BY <1>2, <1>3 DEF GradeType, Weighs

LEMMA UpgradeKeeps ==
  ASSUME IInv, NEW i \in Answers, Upgrade(i)
  PROVE  IInv'
<1>0. /\ TypeOK /\ upgrade[i].phase # "none" /\ Closed /\ TextsAgree /\ TestsWeigh
      /\ UNCHANGED <<job, vectors, rows, tier, contract, chain, report, delays>>
  BY DEF Upgrade, UpgradeLoads, UpgradeWrites, UpgradeFails, IInv, stores, steers, closing
<1>1. Is(i, "coding") /\ grade[i] # {}
  BY <1>0 DEF IInv, Kept
<1>2. CASE UpgradeLoads(i) \/ UpgradeFails(i)
  <2>1. UNCHANGED <<grade, cards>> /\ faults' \in Nat /\ faults' >= faults
    BY <1>0, <1>2 DEF UpgradeLoads, UpgradeFails, stores, Fault, TypeOK
  <2>2. /\ upgrade' \in [Answers -> [phase : {"none", "queued", "loaded", "done"},
                                     copy : SUBSET GradeType]]
        /\ \A k \in Answers : upgrade'[k].phase # "none" => upgrade[k].phase # "none"
    <3> DEFINE Entry == [phase : {"none", "queued", "loaded", "done"}, copy : SUBSET GradeType]
    <3>1. PICK r \in Entry : upgrade' = [upgrade EXCEPT ![i] = r]
      <4>1. CASE UpgradeLoads(i)
        BY <1>0, <4>1 DEF UpgradeLoads, TypeOK
      <4>2. CASE UpgradeFails(i)
        <5>1. upgrade' = [upgrade EXCEPT ![i] = [upgrade[i] EXCEPT !.phase = "done"]]
          BY <4>2 DEF UpgradeFails
        <5>2. [upgrade[i] EXCEPT !.phase = "done"] \in Entry
          BY <1>0 DEF TypeOK
        <5> QED
          BY <5>1, <5>2
      <4> QED
        BY <1>2, <4>1, <4>2
    <3>2. upgrade \in [Answers -> Entry]
      BY <1>0 DEF TypeOK
    <3> HIDE DEF Entry
    <3>3. upgrade' \in [Answers -> Entry] /\ \A k \in Answers : k # i => upgrade'[k] = upgrade[k]
      BY <3>1, <3>2
    <3> QED
      BY <1>0, <3>3 DEF Entry
  <2>3. TypeOK'
    BY <1>0, <2>1, <2>2 DEF TypeOK
  <2>4. TextsAgree' /\ TestsWeigh' /\ Closed'
    BY <1>0, <2>1 DEF TextsAgree, TestsWeigh, Closed, Is, Over, InPhase, GradedAnswers
  <2>5. CASE UpgradeLoads(i)
    <3>1. faults' = faults
      BY <2>5 DEF UpgradeLoads
    <3> QED
      BY <1>0, <2>1, <2>2, <2>3, <2>4, <3>1, Rewritten
  <2>6. CASE UpgradeFails(i)
    <3>1. ASSUME NEW k \in Answers PROVE Kept(k)'
      <4>1. /\ Kept(k) /\ Concludes(k)' = Concludes(k) /\ faults' > 0 /\ faults' # 0
        BY <1>0, <2>6 DEF IInv, Concludes, UpgradeFails, Fault, TypeOK
      <4> QED
        BY <1>0, <2>1, <2>2, <4>1 DEF Kept, Is, InPhase
    <3>2. VectorsHaveCards' /\ CardsGraded' /\ Contracted'
      BY <1>0, <2>1 DEF IInv, VectorsHaveCards, CardsGraded, Contracted
    <3> QED
      BY <2>3, <2>4, <3>1, <3>2 DEF IInv
  <2> QED
    BY <1>2, <2>5, <2>6
<1>3. CASE UpgradeWrites(i)
  <2>1. PICK o \in Opinions : grade' = [grade EXCEPT ![i] = {Upgraded(g, o) : g \in grade[i]}]
    BY <1>3 DEF UpgradeWrites
  <2>2. o \in 0 .. Unit
    BY EvidenceAssumption
  <2> DEFINE G == {Upgraded(g, o) : g \in grade[i]}
  <2>3. /\ G \in SUBSET GradeType /\ G # {}
        /\ \A h \in G : /\ Weighs(h) /\ h.rubric = "full"
                        /\ \E g \in grade[i] : h.tests = g.tests /\ h.judged = g.judged
    BY <1>0, <1>1, <2>2, UpgradedTyped DEF TypeOK
  <2>4. grade' = [grade EXCEPT ![i] = G]
    BY <2>1
  <2> HIDE DEF G
  <2>5. /\ grade'[i] = G /\ \A k \in Answers : k # i => grade'[k] = grade[k]
        /\ grade' \in [Answers -> SUBSET GradeType]
    BY <1>0, <2>3, <2>4 DEF TypeOK
  <2>6. /\ upgrade' \in [Answers -> [phase : {"none", "queued", "loaded", "done"},
                                     copy : SUBSET GradeType]]
        /\ \A k \in Answers : upgrade'[k].phase # "none" => upgrade[k].phase # "none"
        /\ cards' = Refreshed(i) /\ faults' = faults
    BY <1>0, <1>3 DEF UpgradeWrites, TypeOK
  <2>7. /\ \A c \in cards : \E e \in cards' : e.answer = c.answer /\ e.try = c.try
        /\ \A e \in cards' : \E c \in cards :
             /\ e.answer = c.answer /\ e.try = c.try /\ e \in CardType
             /\ e.text = "full" => c.text = "full" \/ c.answer = i
    <3>1. ASSUME NEW c \in CardType
          PROVE  LET e == [c EXCEPT !.text = "full"]
                 IN  e \in CardType /\ e.answer = c.answer /\ e.try = c.try
      BY DEF CardType
    <3> DEFINE New(c) == IF c.answer = i /\ c.try = job[i].try THEN [c EXCEPT !.text = "full"] ELSE c
    <3>2. \A c \in cards : /\ New(c) \in CardType
                           /\ New(c).answer = c.answer /\ New(c).try = c.try
                           /\ New(c).text = "full" => c.text = "full" \/ c.answer = i
      BY <1>0, <3>1 DEF TypeOK
    <3>3. cards' = {New(c) : c \in cards}
      BY <2>6 DEF Refreshed
    <3> HIDE DEF New
    <3> QED
      BY <3>2, <3>3
  <2>8. TypeOK'
    BY <1>0, <2>5, <2>6, <2>7 DEF TypeOK
  <2>9. TextsAgree'
    <3> SUFFICES ASSUME NEW e \in cards', e.text = "full"
                 PROVE  \E g \in grade'[e.answer] : g.rubric = "full"
      BY DEF TextsAgree
    <3>1. PICK c \in cards : e.answer = c.answer /\ (c.text = "full" \/ c.answer = i)
      BY <2>7
    <3>2. CASE c.answer = i
      BY <2>3, <2>5, <3>1, <3>2
    <3>3. CASE c.answer # i
      BY <1>0, <2>5, <3>1, <3>3 DEF TextsAgree, TypeOK, CardType
    <3> QED
      BY <3>2, <3>3
  <2>10. TestsWeigh'
    BY <1>0, <2>3, <2>5 DEF TestsWeigh, Weighs, Is
  <2>11. \A k \in Answers : grade'[k] = {} <=> grade[k] = {}
    BY <1>1, <2>3, <2>5
  <2>12. \A k \in Answers : \A h \in grade'[k] :
           \E g \in grade[k] : h.tests = g.tests /\ (g.judged => h.judged)
    BY <2>3, <2>5
  <2>13. Closed'
    <3>1. GradedAnswers' = GradedAnswers
      BY <2>11 DEF GradedAnswers
    <3>2. \A k \in Answers : Over(k)' = Over(k)
      BY <1>0 DEF Over, Is, InPhase
    <3>3. (\A k \in Answers : \A g \in grade[k] : g.judged)
            => \A k \in Answers : \A h \in grade'[k] : h.judged
      BY <2>12
    <3>4. UNCHANGED <<rows, chain, report, delays>>
      BY <1>0
    <3> QED
      BY <1>0, <3>1, <3>2, <3>3, <3>4 DEF Closed
  <2> QED
    BY <1>0, <2>6, <2>7, <2>8, <2>9, <2>10, <2>11, <2>12, <2>13, Rewritten
<1> QED
  BY <1>2, <1>3 DEF Upgrade

(* The judge's score on every grade.                                        *)
LEMMA JudgedTyped ==
  ASSUME IInv, grade' = Judged
  PROVE  /\ grade' \in [Answers -> SUBSET GradeType]
         /\ \A k \in Answers : grade'[k] = {} <=> grade[k] = {}
         /\ \A k \in Answers : \A h \in grade'[k] : \E g \in grade[k] :
              /\ h.tests = g.tests /\ h.overall = g.overall
              /\ g.judged => h.judged
         /\ \A k \in Answers : \A g \in grade[k] : \E h \in grade'[k] :
              /\ h.rubric = g.rubric /\ g.judged => h.judged
              /\ h.rubric = g.rubric
         /\ chain.read # {} => \A k \in Answers : \A h \in grade'[k] : h.judged
<1>1. grade \in [Answers -> SUBSET GradeType]
  BY DEF IInv, TypeOK
<1>2. CASE chain.read = {}
  BY <1>1, <1>2 DEF Judged
<1>3. CASE chain.read # {}
  <2> DEFINE Said(g) == [g EXCEPT !.judged = TRUE]
  <2>1. \A g \in GradeType : /\ Said(g) \in GradeType /\ Said(g).judged
                             /\ Said(g).tests = g.tests /\ Said(g).overall = g.overall
                             /\ Said(g).rubric = g.rubric
    BY DEF GradeType
  <2>2. grade' = [k \in Answers |-> {Said(g) : g \in grade[k]}]
    BY <1>3 DEF Judged
  <2> HIDE DEF Said
  <2>3. \A k \in Answers : grade'[k] = {Said(g) : g \in grade[k]} /\ grade[k] \subseteq GradeType
    BY <1>1, <2>2
  <2>4. grade' \in [Answers -> SUBSET GradeType]
    BY <2>1, <2>2, <2>3
  <2> QED
    BY <2>1, <2>3, <2>4
<1> QED
  BY <1>2, <1>3

(* A step of judge, report or learner that leaves all evidence but the      *)
(* judge's scores alone.                                                    *)
LEMMA Settled ==
  ASSUME IInv, UNCHANGED <<job, cards, vectors, rows, tier, contract, upgrade, faults>>,
         grade' = grade \/ grade' = Judged,
         chain' \in [phase : {"none", "queued", "judging", "held", "confirmed", "reported"},
                     read : SUBSET Answers],
         report' \in ReportType, delays' \in Nat,
         Closed'
  PROVE  IInv'
<1>1. /\ TypeOK /\ TextsAgree /\ TestsWeigh
      /\ grade' \in [Answers -> SUBSET GradeType]
      /\ \A k \in Answers : grade'[k] = {} <=> grade[k] = {}
      /\ \A k \in Answers : \A h \in grade'[k] : \E g \in grade[k] :
           h.tests = g.tests /\ h.overall = g.overall
      /\ \A k \in Answers : \A g \in grade[k] : \E h \in grade'[k] : h.rubric = g.rubric
  <2>1. CASE grade' = grade
    BY <2>1 DEF IInv, TypeOK
  <2>2. CASE grade' = Judged
    BY <2>2, JudgedTyped DEF IInv
  <2> QED
    BY <2>1, <2>2
<1>2. TypeOK'
  BY <1>1 DEF TypeOK
<1>3. TextsAgree'
  <2> SUFFICES ASSUME NEW c \in cards, c.text = "full"
               PROVE  \E h \in grade'[c.answer] : h.rubric = "full"
    BY DEF TextsAgree
  <2>1. c.answer \in Answers /\ \E g \in grade[c.answer] : g.rubric = "full"
    BY <1>1 DEF TextsAgree, TypeOK, CardType
  <2> QED
    BY <1>1, <2>1
<1>4. TestsWeigh'
  BY <1>1 DEF TestsWeigh, Is
<1>5. UNCHANGED <<job, vectors, contract, faults>> /\ upgrade' = upgrade /\ cards' = cards
  OBVIOUS
<1> QED
  BY <1>1, <1>2, <1>3, <1>4, <1>5, Rewritten

LEMMA SameOver ==
  ASSUME UNCHANGED job
  PROVE  \A k \in Answers : Over(k)' <=> Over(k)
BY DEF Over, Is, InPhase

LEMMA CompletesKeeps ==
  ASSUME IInv, Completes
  PROVE  IInv'
<1>1. /\ TypeOK /\ Closed /\ chain.phase = "none"
      /\ chain' = [chain EXCEPT !.phase = "queued"]
      /\ UNCHANGED <<job, grade, cards, vectors, rows, tier, contract, upgrade, report, faults>>
  BY DEF Completes, IInv, stores, steers
<1>2. /\ delays' \in Nat
      /\ delays' = 0 => \A k \in Answers : Over(k)
  <2>1. CASE \A k \in Answers : Over(k)
    BY <1>1, <2>1 DEF Completes, TypeOK
  <2>2. CASE ~\A k \in Answers : Over(k)
    BY <1>1, <2>2 DEF Completes, TypeOK
  <2> QED
    BY <2>1, <2>2
<1>3. /\ chain' \in [phase : {"none", "queued", "judging", "held", "confirmed", "reported"},
                    read : SUBSET Answers]
      /\ chain'.phase = "queued" /\ report' \in ReportType
  BY <1>1 DEF TypeOK
<1>4. Closed'
  BY <1>1, <1>2, <1>3, SameOver DEF Closed
<1> QED
  BY <1>1, <1>2, <1>3, <1>4, Settled

LEMMA ReviewKeeps ==
  ASSUME IInv, Review
  PROVE  IInv'
<1>1. /\ TypeOK /\ Closed /\ chain.phase # "none"
      /\ UNCHANGED <<job, cards, vectors, rows, tier, contract, upgrade, faults, delays>>
      /\ delays' \in Nat
      /\ chain \in [phase : {"none", "queued", "judging", "held", "confirmed", "reported"},
                    read : SUBSET Answers]
      /\ report \in ReportType
  BY DEF Review, JudgeReads, JudgeConfirms, JudgeHolds, Approves, Builds, IInv, TypeOK, stores, steers
<1>2. \A k \in Answers : Over(k)' <=> Over(k)
  BY <1>1, SameOver
<1>3. GradedAnswers \subseteq Answers
  BY DEF GradedAnswers
<1>4. CASE JudgeReads \/ JudgeHolds \/ Builds
  <2>1. /\ grade' = grade /\ GradedAnswers' = GradedAnswers
        /\ chain' \in [phase : {"none", "queued", "judging", "held", "confirmed", "reported"},
                       read : SUBSET Answers]
        /\ report' \in ReportType
    BY <1>1, <1>3, <1>4, RadarTyped
       DEF JudgeReads, JudgeHolds, Builds, stores, GradedAnswers
  <2>2. Closed'
    <3>1. CASE JudgeReads
      <4>1. chain'.phase = "judging" /\ chain'.read = GradedAnswers
        BY <3>1 DEF JudgeReads
      <4> QED
        BY <1>1, <1>2, <2>1, <4>1 DEF Closed
    <3>2. CASE JudgeHolds
      <4>1. chain.phase = "judging" /\ chain'.phase = "held" /\ chain'.read = chain.read
        BY <1>1, <3>2 DEF JudgeHolds
      <4> QED
        BY <1>1, <1>2, <2>1, <4>1 DEF Closed
    <3>3. CASE Builds
      <4>1. /\ chain.phase = "confirmed" /\ chain'.phase = "reported" /\ chain'.read = chain.read
            /\ report' = Radar(rows)
        BY <1>1, <3>3 DEF Builds
      <4>2. report' = Radar(rows)'
        BY <1>1, <4>1
      <4> QED
        BY <1>1, <1>2, <2>1, <4>1, <4>2 DEF Closed
    <3> QED
      BY <1>4, <3>1, <3>2, <3>3
  <2> QED
    BY <1>1, <2>1, <2>2, Settled
<1>5. CASE JudgeConfirms \/ Approves
  <2>1. /\ chain.phase \in {"judging", "held"} /\ chain'.phase = "confirmed"
        /\ chain'.read = chain.read /\ grade' = Judged /\ report' = report
        /\ chain' \in [phase : {"none", "queued", "judging", "held", "confirmed", "reported"},
                       read : SUBSET Answers]
    BY <1>1, <1>5 DEF JudgeConfirms, Approves
  <2>2. GradedAnswers' = GradedAnswers
    BY <2>1, JudgedTyped DEF GradedAnswers
  <2>3. delays = 0 => \A k \in Answers : \A h \in grade'[k] : h.judged
    <3> SUFFICES ASSUME delays = 0 PROVE \A k \in Answers : \A h \in grade'[k] : h.judged
      OBVIOUS
    <3>1. CASE chain.read = {}
      <4>1. GradedAnswers = {}
        BY <1>1, <2>1, <3>1 DEF Closed
      <4> QED
        BY <2>2, <4>1 DEF GradedAnswers
    <3>2. CASE chain.read # {}
      BY <2>1, <3>2, JudgedTyped
    <3> QED
      BY <3>1, <3>2
  <2>4. Closed'
    BY <1>1, <1>2, <2>1, <2>2, <2>3 DEF Closed
  <2> QED
    BY <1>1, <2>1, <2>4, Settled
<1> QED
  BY <1>4, <1>5 DEF Review

LEMMA NextIInv == IInv /\ [Next]_vars => IInv'
<1> SUFFICES ASSUME IInv, [Next]_vars PROVE IInv'
  OBVIOUS
<1>1. ASSUME NEW i \in Answers, Answer(i) PROVE IInv'
  BY <1>1, GradedKeeps, ReceivedKeeps DEF Answer
<1>2. ASSUME NEW i \in Answers, Process(i) PROVE IInv'
  BY <1>2, MemoryKeeps, FaultKeeps, AnalysisKeeps, CommitKeeps DEF Process
<1>3. ASSUME NEW i \in Answers, Upgrade(i) PROVE IInv'
  BY <1>3, UpgradeKeeps
<1>7. ASSUME NEW i \in Answers, Reloads(i) PROVE IInv'
  BY <1>7, ReloadsKeeps
<1>4. CASE Completes
  BY <1>4, CompletesKeeps
<1>5. CASE Review
  BY <1>5, ReviewKeeps
<1>6. CASE UNCHANGED vars
  <2>1. /\ UNCHANGED <<job, grade, cards, vectors, rows, tier, contract, upgrade, chain, report, faults, delays>>
        /\ TypeOK /\ Closed
    BY <1>6 DEF vars, stores, steers, closing, IInv
  <2>2. Closed'
    BY <2>1, SameOver DEF Closed, GradedAnswers
  <2>3. /\ chain' \in [phase : {"none", "queued", "judging", "held", "confirmed", "reported"},
                       read : SUBSET Answers]
        /\ report' \in ReportType /\ delays' \in Nat
    BY <2>1 DEF TypeOK
  <2> QED
    BY <2>1, <2>2, <2>3, Settled
<1> QED
  BY <1>1, <1>2, <1>3, <1>4, <1>5, <1>6, <1>7 DEF Next

LEMMA SpecIInv == Spec => []IInv
  BY InitIInv, NextIInv, PTL DEF Spec

-----------------------------------------------------------------------------
(* What the rows rest on.                                                  *)

(* Ten times the share of k in n cards rounds to no more than one when k is *)
(* zero, and to ten only when k is nineteen twentieths of n or more.        *)
LEMMA RoundShareOfTen ==
  ASSUME NEW n \in Nat \ {0}, NEW k \in 0 .. n
  PROVE  /\ Clamp(Round(10 * k, n)) > 1 => k # 0
         /\ Clamp(Round(10 * k, n)) = 10 => 20 * k >= 19 * n
<1> DEFINE q == (10 * k) \div n
           r == (10 * k) % n
<1>0. n \in Nat \ {0} /\ k \in Nat /\ k <= n
  OBVIOUS
<1>1. q \in Nat /\ r \in 0 .. n - 1 /\ 10 * k = q * n + r
  BY <1>0
<1>2. Round(10 * k, n) = IF 2 * r < n \/ (2 * r = n /\ q % 2 = 0) THEN q ELSE q + 1
  BY DEF Round
<1> HIDE DEF q, r
<1>3. CASE k = 0
  <2>1. q * n + r = 0 /\ q * n >= 0
    BY <1>0, <1>1, <1>3
  <2>2. r = 0 /\ q * n = 0
    BY <1>0, <1>1, <2>1
  <2>3. q = 0
    BY <1>0, <1>1, <2>2
  <2>4. Round(10 * k, n) = 0
    BY <1>0, <1>2, <2>2, <2>3
  <2> QED
    BY <1>3, <2>4, <1>0 DEF Clamp
<1>4. CASE k # 0
  <2>1. Clamp(Round(10 * k, n)) = 10 => Round(10 * k, n) >= 10
    BY <1>1, <1>2 DEF Clamp
  <2>2. CASE q >= 10
    <3>1. q * n >= 10 * n
      BY <1>0, <1>1, <2>2
    <3> QED
      BY <1>0, <1>1, <1>4, <3>1
  <2>3. CASE q = 9 /\ 2 * r >= n
    BY <1>0, <1>1, <1>4, <2>3
  <2>4. CASE q < 9 \/ (q = 9 /\ 2 * r < n)
    BY <1>0, <1>1, <1>2, <1>4, <2>1, <2>4
  <2> QED
    BY <1>0, <1>1, <2>2, <2>3, <2>4
<1> QED
  BY <1>3, <1>4, <1>0

(* A row of MCQ or voice: from all cards of the tool.                       *)
LEMMA RateSupported ==
  ASSUME NEW C, IsFiniteSet(C), C # {}, NEW d
  PROVE  /\ RateToScore(C, d) > 1 => \E c \in C : d \in c.signals
         /\ RateToScore(C, d) = 10 => 20 * Cardinality(Signalling(C, d)) >= 19 * Cardinality(C)
<1> DEFINE S == Signalling(C, d)
           n == Cardinality(C)
           k == Cardinality(S)
<1>1. S \in SUBSET C
  BY DEF Signalling
<1>2. IsFiniteSet(S) /\ k <= n
  BY <1>1, FS_Subset
<1>3. n \in Nat \ {0} /\ k \in 0 .. n /\ (k # 0 => S # {})
  BY <1>2, FS_CardinalityType, FS_EmptySet
<1>4. RateToScore(C, d) = Clamp(Round(10 * k, n))
  BY DEF RateToScore
<1> HIDE DEF k, n
<1>5. /\ RateToScore(C, d) > 1 => S # {}
      /\ RateToScore(C, d) = 10 => 20 * k >= 19 * n
  BY <1>3, <1>4, RoundShareOfTen
<1> QED
  BY <1>5 DEF Signalling, k, n

(* A row of coding: from the cards that signal the dimension.               *)
LEMMA PassRateSupported ==
  ASSUME NEW C, NEW d, ScoreFromPassRate(C, d) > NA
  PROVE  \E c \in C : d \in c.signals
BY DEF ScoreFromPassRate, Signalling, NA

-----------------------------------------------------------------------------
(* The invariant behind the rows: a card is of a try that has been graded,  *)
(* so a new card has an identity that no row counts yet, and every row      *)
(* keeps the cards it was computed from.                                    *)

CardsTell ==
  /\ IsFiniteSet(cards)
  /\ \A c \in cards :
       /\ c.tool = job[c.answer].tool /\ c.try <= job[c.answer].try
       /\ InPhase(c.answer, "graded") => c.try < job[c.answer].try

SInv == CardsTell /\ RowsSupported /\ IsFiniteSet(rows)

(* Row r counts only cards of C, and claims no more than they show.         *)
Supported(r, C) ==
  /\ r.from \subseteq {Id(c) : c \in C}
  /\ \A d \in Dims :
       /\ r.score[d] > (IF r.tool = "coding" THEN NA ELSE 1) => \E c \in C : d \in c.signals
       /\ r.score[d] = 10 /\ r.tool # "coding" =>
            20 * Cardinality(Signalling(C, d)) >= 19 * Cardinality(C)

Seen(r) == {c \in CardsOf(r.tool) : Id(c) \in r.from}

LEMMA RowsSeen == RowsSupported <=> \A r \in rows : Supported(r, Seen(r))
BY DEF RowsSupported, Supported, Seen

LEMMA InitSInv == Init => SInv
<1> SUFFICES ASSUME Init PROVE SInv
  OBVIOUS
<1>1. cards = {} /\ rows = {} /\ IsFiniteSet(cards) /\ IsFiniteSet(rows)
  BY FS_EmptySet DEF Init
<1> QED
  BY <1>1 DEF SInv, CardsTell, RowsSupported

(* A step of answer i that may add its cards E or its rows R.               *)
LEMMA SupportStep ==
  ASSUME IInv, SInv, NEW i \in Answers,
         NEW j, job' = [job EXCEPT ![i] = j],
         j.tool = job[i].tool, j.try \in Nat, j.try >= job[i].try,
         j.phase = "graded" => j.try > job[i].try \/ InPhase(i, "graded"),
         NEW E, cards' = cards \cup E, IsFiniteSet(E),
         E # {} => InPhase(i, "graded") /\ j.phase = "carded",
         \A e \in E : e.answer = i /\ e.tool = job[i].tool /\ e.try = job[i].try,
         NEW R, rows' = rows \cup R, IsFiniteSet(R),
         R # {} => E = {},
         \A r \in R : Supported(r, Seen(r))
  PROVE  SInv'
<1>0. /\ job \in [Answers -> JobType] /\ job[i].try \in Nat
      /\ \A c \in cards : c.answer \in Answers /\ c.try \in Nat
      /\ \A k \in Answers : job[k].try \in Nat
  BY DEF IInv, TypeOK, CardType, JobType
<1>1. /\ job'[i] = j /\ \A k \in Answers : k # i => job'[k] = job[k]
  BY <1>0
<1>2. CardsTell /\ IsFiniteSet(rows) /\ \A r \in rows : Supported(r, Seen(r))
  BY RowsSeen DEF SInv
<1>3. CardsTell'
  <2>1. IsFiniteSet(cards')
    BY <1>2, FS_Union DEF CardsTell
  <2>2. ASSUME NEW c \in cards'
        PROVE  /\ c.tool = job'[c.answer].tool /\ c.try <= job'[c.answer].try
               /\ InPhase(c.answer, "graded")' => c.try < job'[c.answer].try
    <3>1. CASE c \in cards /\ c.answer # i
      BY <1>0, <1>1, <1>2, <3>1 DEF CardsTell, InPhase
    <3>2. CASE c \in cards /\ c.answer = i
      <4>1. /\ c.tool = job[i].tool /\ c.try <= job[i].try /\ c.try \in Nat
            /\ InPhase(i, "graded") => c.try < job[i].try
        BY <1>0, <1>2, <3>2 DEF CardsTell
      <4> QED
        BY <1>0, <1>1, <3>2, <4>1 DEF InPhase
    <3>3. CASE c \in E
      BY <1>0, <1>1, <3>3 DEF InPhase
    <3> QED
      BY <3>1, <3>2, <3>3
  <2> QED
    BY <2>1, <2>2 DEF CardsTell
<1>4. ASSUME NEW r \in rows, NEW e \in E PROVE Id(e) \notin r.from
  <2> SUFFICES ASSUME Id(e) \in r.from PROVE FALSE
    OBVIOUS
  <2>1. PICK c \in cards : Id(e) = Id(c)
    BY <1>2 DEF Supported, Seen, CardsOf
  <2>2. c.answer = i /\ c.try = job[i].try /\ InPhase(i, "graded")
    BY <2>1 DEF Id
  <2>3. c.try < job[i].try
    BY <1>2, <2>2 DEF CardsTell
  <2> QED
    BY <1>0, <2>2, <2>3
<1>5. ASSUME NEW r \in rows' PROVE Supported(r, Seen(r)')
  <2>1. CASE r \in rows
    <3>1. Seen(r)' = Seen(r)
      BY <1>4, <2>1 DEF Seen, CardsOf
    <3> QED
      BY <1>2, <2>1, <3>1
  <2>2. CASE r \in R
    <3>1. E = {} /\ cards' = cards
      BY <2>2
    <3>2. Seen(r)' = Seen(r)
      BY <3>1 DEF Seen, CardsOf
    <3> QED
      BY <2>2, <3>2
  <2> QED
    BY <2>1, <2>2
<1>6. RowsSupported'
  <2>1. \A r \in rows' : Supported(r, Seen(r)')
    BY <1>5
  <2> QED
    BY <2>1 DEF RowsSupported, Supported, Seen
<1>7. IsFiniteSet(rows')
  BY <1>2, FS_Union
<1> QED
  BY <1>3, <1>6, <1>7 DEF SInv

(* A step that only moves the job of answer i on.                           *)
LEMMA JobSupports ==
  ASSUME IInv, SInv, NEW i \in Answers,
         NEW j, job' = [job EXCEPT ![i] = j], j.tool = job[i].tool,
         j.try \in Nat, j.try >= job[i].try,
         j.phase = "graded" => j.try > job[i].try \/ InPhase(i, "graded"),
         UNCHANGED <<cards, rows>>
  PROVE  SInv'
<1>1. PICK N : N = {}
  OBVIOUS
<1>2. /\ cards' = cards \cup N /\ rows' = rows \cup N /\ IsFiniteSet(N)
      /\ \A e \in N : e.answer = i /\ e.tool = job[i].tool /\ e.try = job[i].try
      /\ \A r \in N : Supported(r, Seen(r))
  BY <1>1, FS_EmptySet
<1> QED
  BY <1>1, <1>2, SupportStep

LEMMA AnswersSupport ==
  ASSUME IInv, SInv, NEW i \in Answers, Answer(i)
  PROVE  SInv'
<1>1. UNCHANGED <<cards, rows>>
  BY DEF Answer, AnswerMcq, AnswerDiagram, AnswerVoice, AnswerCoding, stores
<1>2. PICK ph, passed, score : Received(i, ph, passed, score)
  BY DEF Answer, AnswerMcq, AnswerDiagram, AnswerVoice, AnswerCoding
<1> DEFINE j == [tool |-> job[i].tool, phase |-> ph, passed |-> passed,
                 score |-> score, try |-> job[i].try + 1, left |-> FALSE]
<1>3. job[i].try \in Nat
  BY DEF IInv, TypeOK, JobType
<1>4. /\ job' = [job EXCEPT ![i] = j] /\ j.tool = job[i].tool
      /\ j.try \in Nat /\ j.try > job[i].try
  BY <1>2, <1>3 DEF Received, IInv, TypeOK
<1> HIDE DEF j
<1>5. /\ j.try >= job[i].try
      /\ j.phase = "graded" => j.try > job[i].try \/ InPhase(i, "graded")
      /\ UNCHANGED <<cards, rows>>
  BY <1>1, <1>3, <1>4
<1> QED
  BY <1>4, <1>5, JobSupports

LEMMA ReloadSupports ==
  ASSUME IInv, SInv, NEW i \in Answers, Reloads(i)
  PROVE  SInv'
<1> DEFINE j == [job[i] EXCEPT !.left = TRUE]
<1>1. job \in [Answers -> JobType] /\ job[i] \in JobType
  BY DEF IInv, TypeOK
<1>2. /\ job' = [job EXCEPT ![i] = j] /\ UNCHANGED <<cards, rows>>
      /\ j.tool = job[i].tool /\ j.try = job[i].try /\ j.phase = job[i].phase /\ j.try \in Nat
  BY <1>1 DEF Reloads, stores, JobType
<1> HIDE DEF j
<1>3. /\ j.try >= job[i].try
      /\ j.phase = "graded" => j.try > job[i].try \/ InPhase(i, "graded")
      /\ UNCHANGED <<cards, rows>>
  BY <1>2 DEF InPhase
<1> QED
  BY <1>2, <1>3, JobSupports

(* Steps of a job that leave cards and rows alone.                          *)
LEMMA ProcessSupports ==
  ASSUME IInv, SInv, NEW i \in Answers,
         Forgets(i) \/ CodingForgets(i) \/ Embeds(i) \/ EmbedFails(i) \/ DiagramCommits(i) \/ Fails(i)
  PROVE  SInv'
<1>1. PICK ph \in {"stored", "done", "failed"} : Goes(i, ph)
  BY DEF Forgets, CodingForgets, Embeds, EmbedFails, DiagramCommits, Fails
<1>2. UNCHANGED <<cards, rows>>
  BY DEF Forgets, CodingForgets, Embeds, EmbedFails, DiagramCommits, Fails, stores
<1>3. PICK j \in JobType : /\ job' = [job EXCEPT ![i] = j] /\ j.tool = job[i].tool
                           /\ j.phase = ph /\ j.try = job[i].try
  BY <1>1, Moved
<1>4. /\ j.try \in Nat /\ j.try >= job[i].try
      /\ j.phase = "graded" => j.try > job[i].try \/ InPhase(i, "graded")
  BY <1>1, <1>3 DEF JobType
<1> QED
  BY <1>2, <1>3, <1>4, JobSupports

LEMMA MemorySupports ==
  ASSUME IInv, SInv, NEW i \in Answers, Remembers(i)
  PROVE  SInv'
<1>1. PICK s \in Signals :
        cards' = cards \cup {[answer |-> i, try |-> job[i].try, tool |-> job[i].tool,
                              signals |-> s, passed |-> job[i].passed, text |-> "first"]}
  BY DEF Remembers
<1> DEFINE e == [answer |-> i, try |-> job[i].try, tool |-> job[i].tool,
                 signals |-> s, passed |-> job[i].passed, text |-> "first"]
           E == {e}
<1>2. /\ cards' = cards \cup E
      /\ \A c \in E : c.answer = i /\ c.tool = job[i].tool /\ c.try = job[i].try
  BY <1>1
<1>3. IsFiniteSet(E)
  BY FS_Singleton
<1>4. PICK N : N = {}
  OBVIOUS
<1>5. rows' = rows \cup N /\ IsFiniteSet(N) /\ \A r \in N : Supported(r, Seen(r))
  BY <1>4, FS_EmptySet DEF Remembers
<1>6. Goes(i, "carded") /\ InPhase(i, "graded")
  BY DEF Remembers
<1>7. PICK j \in JobType : /\ job' = [job EXCEPT ![i] = j] /\ j.tool = job[i].tool
                           /\ j.phase = "carded" /\ j.try = job[i].try
  BY <1>6, Moved
<1>8. /\ j.try \in Nat /\ j.try >= job[i].try
      /\ j.phase = "graded" => j.try > job[i].try \/ InPhase(i, "graded")
  BY <1>7 DEF JobType
<1> HIDE DEF E
<1> QED
  BY <1>2, <1>3, <1>4, <1>5, <1>6, <1>7, <1>8, SupportStep

(* The analysis of answer i writes a row.                                   *)
RowOf(i, score) ==
  [answer |-> i, tool |-> job[i].tool, score |-> score,
   from |-> {Id(c) : c \in CardsOf(job[i].tool)}]

LEMMA RowSupports ==
  ASSUME IInv, SInv, NEW i \in Answers, Goes(i, "done"),
         cards' = cards, NEW score, Scored(i, score),
         Supported(RowOf(i, score), CardsOf(job[i].tool))
  PROVE  SInv'
<1> DEFINE r == RowOf(i, score)
           R == {r}
<1>1. Seen(r) = CardsOf(job[i].tool)
  BY DEF RowOf, Seen
<1>2. rows' = rows \cup R
  BY DEF Scored, RowOf
<1>3. \A q \in R : Supported(q, Seen(q))
  BY <1>1
<1>4. PICK N : N = {}
  OBVIOUS
<1>5. cards' = cards \cup N /\ IsFiniteSet(N)
  BY <1>4, FS_EmptySet
<1>6. PICK j \in JobType : /\ job' = [job EXCEPT ![i] = j] /\ j.tool = job[i].tool
                           /\ j.phase = "done" /\ j.try = job[i].try
  BY Moved
<1>7. /\ j.try \in Nat /\ j.try >= job[i].try
      /\ j.phase = "graded" => j.try > job[i].try \/ InPhase(i, "graded")
  BY <1>6 DEF JobType
<1>8. IsFiniteSet(R)
  BY FS_Singleton
<1> HIDE DEF R
<1> QED
  BY <1>2, <1>3, <1>4, <1>5, <1>6, <1>7, <1>8, SupportStep

LEMMA AnalysisSupports ==
  ASSUME IInv, SInv, NEW i \in Answers, AnalysesMcq(i) \/ AnalysesVoice(i)
  PROVE  SInv'
<1>1. /\ Goes(i, "done") /\ cards' = cards /\ Scores(i)
      /\ job[i].tool \in Tools /\ job[i].tool # "coding"
  BY DEF AnalysesMcq, AnalysesVoice, Is, Tools
<1> DEFINE C == CardsOf(job[i].tool)
<1>2. CASE C = {}
  <2>1. UNCHANGED <<cards, rows>>
    BY <1>1, <1>2 DEF Scores
  <2>2. PICK j \in JobType : /\ job' = [job EXCEPT ![i] = j] /\ j.tool = job[i].tool
                             /\ j.phase = "done" /\ j.try = job[i].try
    BY <1>1, Moved
  <2>3. /\ j.try \in Nat /\ j.try >= job[i].try
        /\ j.phase = "graded" => j.try > job[i].try \/ InPhase(i, "graded")
    BY <2>2 DEF JobType
  <2> QED
    BY <2>1, <2>2, <2>3, JobSupports
<1>3. CASE C # {}
  <2> DEFINE score == [d \in Dims |-> RateToScore(C, d)]
  <2>1. Scored(i, score)
    BY <1>1, <1>3 DEF Scores
  <2>2. IsFiniteSet(C)
    <3>1. C \in SUBSET cards /\ IsFiniteSet(cards)
      BY DEF SInv, CardsTell, CardsOf
    <3> QED
      BY <3>1, FS_Subset
  <2>3. ASSUME NEW d \in Dims
        PROVE  /\ score[d] > 1 => \E c \in C : d \in c.signals
               /\ score[d] = 10 => 20 * Cardinality(Signalling(C, d)) >= 19 * Cardinality(C)
    <3>1. score[d] = RateToScore(C, d)
      OBVIOUS
    <3> HIDE DEF C, score
    <3> QED
      BY <1>3, <2>2, <3>1, RateSupported
  <2> HIDE DEF score
  <2>4. Supported(RowOf(i, score), C)
    BY <1>1, <2>3 DEF Supported, RowOf
  <2> QED
    BY <1>1, <2>1, <2>4, RowSupports
<1> QED
  BY <1>2, <1>3

LEMMA CommitSupports ==
  ASSUME IInv, SInv, NEW i \in Answers, CodingCommits(i)
  PROVE  SInv'
<1>1. /\ Goes(i, "done") /\ cards' = cards /\ Scored(i, CodingRow)
      /\ job[i].tool = "coding"
  BY DEF CodingCommits, Is
<1>2. ASSUME NEW d \in Dims, CodingRow[d] > NA
      PROVE  \E c \in CardsOf("coding") : d \in c.signals
  <2>1. CodingRow[d] = IF d \in Engaged THEN ScoreFromPassRate(CardsOf("coding"), d) ELSE NA
    BY DEF CodingRow
  <2>2. ScoreFromPassRate(CardsOf("coding"), d) > NA
    BY <1>2, <2>1 DEF NA
  <2> QED
    BY <2>2, PassRateSupported
<1>3. Supported(RowOf(i, CodingRow), CardsOf(job[i].tool))
  BY <1>1, <1>2 DEF Supported, RowOf
<1> QED
  BY <1>1, <1>3, RowSupports

(* A refreshed card tells of the same answer, and signals the same.         *)
LEMMA UpgradeSupports ==
  ASSUME IInv, SInv, NEW i \in Answers, UpgradeWrites(i)
  PROVE  SInv'
<1> DEFINE F(c) == IF c.answer = i /\ c.try = job[i].try THEN [c EXCEPT !.text = "full"] ELSE c
           f == [c \in cards |-> F(c)]
<1>0. /\ cards' = {F(c) : c \in cards} /\ UNCHANGED <<job, rows>> /\ job[i].tool = "coding"
      /\ cards \subseteq CardType
  BY DEF UpgradeWrites, Refreshed, IInv, TypeOK, Kept, Is
<1>1. \A c \in cards : /\ F(c).answer = c.answer /\ F(c).tool = c.tool
                       /\ F(c).signals = c.signals /\ F(c).try = c.try
  BY <1>0 DEF CardType
<1>2. \A c \in cards : c.tool # "coding" => F(c) = c
  BY <1>0 DEF SInv, CardsTell
<1>3. CardsTell /\ IsFiniteSet(rows) /\ \A r \in rows : Supported(r, Seen(r))
  BY RowsSeen DEF SInv
<1>4. IsFiniteSet(cards') /\ IsFiniteSet(rows')
  <2>1. f \in Surjection(cards, cards')
    BY <1>0 DEF Surjection
  <2>2. IsFiniteSet(cards')
    BY <1>3, <2>1, FS_Surjection DEF CardsTell
  <2>3. rows' = rows
    BY <1>0
  <2> QED
    BY <1>3, <2>2, <2>3
<1> HIDE DEF F, f
<1>5. CardsTell'
  BY <1>0, <1>1, <1>3, <1>4 DEF CardsTell, InPhase
<1>6. \A c \in cards : Id(F(c)) = Id(c)
  BY <1>1 DEF Id
<1>7. ASSUME NEW r \in rows' PROVE Supported(r, Seen(r)')
  <2>1. Seen(r)' = {F(c) : c \in Seen(r)}
    BY <1>0, <1>1, <1>6 DEF Seen, CardsOf
  <2>2. \A c \in Seen(r) : c \in cards /\ c.tool = r.tool
    BY DEF Seen, CardsOf
  <2>3. Supported(r, Seen(r))
    BY <1>0, <1>3
  <2> DEFINE S == Seen(r)
  <2> HIDE DEF S
  <2>4. CASE r.tool # "coding"
    <3>1. {F(c) : c \in Seen(r)} = Seen(r)
      BY <1>2, <2>2, <2>4
    <3> QED
      BY <2>1, <2>3, <3>1
  <2>5. CASE r.tool = "coding"
    BY <1>1, <1>6, <2>1, <2>2, <2>3, <2>5 DEF Supported
  <2> QED
    BY <2>4, <2>5
<1>8. RowsSupported'
  <2>1. \A r \in rows' : Supported(r, Seen(r)')
    BY <1>7
  <2> QED
    BY <2>1 DEF RowsSupported, Supported, Seen
<1> QED
  BY <1>4, <1>5, <1>8 DEF SInv

LEMMA SameSupport ==
  ASSUME SInv, UNCHANGED <<job, cards, rows>>
  PROVE  SInv'
<1>1. CardsTell'
  BY DEF SInv, CardsTell, InPhase
<1>2. RowsSupported'
  BY DEF SInv, RowsSupported, CardsOf
<1> QED
  BY <1>1, <1>2 DEF SInv

LEMMA NextSInv == IInv /\ SInv /\ [Next]_vars => SInv'
<1> SUFFICES ASSUME IInv, SInv, [Next]_vars PROVE SInv'
  OBVIOUS
<1>1. ASSUME NEW i \in Answers, Answer(i) PROVE SInv'
  BY <1>1, AnswersSupport
<1>2. ASSUME NEW i \in Answers, Process(i) PROVE SInv'
  BY <1>2, ProcessSupports, MemorySupports, AnalysisSupports, CommitSupports DEF Process
<1>3. ASSUME NEW i \in Answers, UpgradeWrites(i) PROVE SInv'
  BY <1>3, UpgradeSupports
<1>4. ASSUME NEW i \in Answers, UpgradeLoads(i) \/ UpgradeFails(i) PROVE SInv'
  BY <1>4, SameSupport DEF UpgradeLoads, UpgradeFails, stores
<1>8. ASSUME NEW i \in Answers, Reloads(i) PROVE SInv'
  BY <1>8, ReloadSupports
<1>5. CASE Completes
  BY <1>5, SameSupport DEF Completes, stores
<1>6. CASE Review
  BY <1>6, SameSupport DEF Review, JudgeReads, JudgeConfirms, JudgeHolds, Approves, Builds, stores
<1>7. CASE UNCHANGED vars
  BY <1>7, SameSupport DEF vars, stores
<1> QED
  BY <1>1, <1>2, <1>3, <1>4, <1>5, <1>6, <1>7, <1>8 DEF Next, Upgrade

LEMMA SpecSInv == Spec => []SInv
  BY InitSInv, NextSInv, SpecIInv, PTL DEF Spec

(* The report: what is said of skills lies between rows, and rows stay.     *)
Within(rep, R) ==
  /\ \A d \in Dims : rep.score[d] # NA =>
       /\ \E r \in R : r.score[d] # NA /\ r.score[d] <= rep.score[d]
       /\ \E r \in R : r.score[d] >= rep.score[d]
  /\ rep.overall # NA =>
       \E d, e \in Dims : rep.score[d] <= rep.overall /\ rep.overall <= rep.score[e]
  /\ rep.strengths \cap rep.growth = {}

LEMMA RadarWithin ==
  ASSUME NEW R \in SUBSET RowType, IsFiniteSet(R)
  PROVE  Within(Radar(R), R)
<1> DEFINE rep == Radar(R)
<1>1. /\ \A d \in Dims : rep.score[d] = DimensionMean(R, d)
      /\ rep.overall = OverallMean(rep.score, Dims)
      /\ rep.strengths = {d \in Dims : rep.score[d] >= 7}
      /\ rep.growth = {d \in Dims : rep.score[d] # NA /\ rep.score[d] <= 4}
      /\ rep \in ReportType
  BY RadarTyped DEF Radar
<1> HIDE DEF rep
<1>2. \A d \in Dims : rep.score[d] \in 0 .. 10
  BY <1>1 DEF ReportType, Skill
<1>3. ASSUME NEW d \in Dims, rep.score[d] # NA
      PROVE  /\ \E r \in R : r.score[d] # NA /\ r.score[d] <= rep.score[d]
             /\ \E r \in R : r.score[d] >= rep.score[d]
  <2>1. \A r \in R : r.score[d] \in 0 .. 10
    BY DEF RowType, Skill
  <2>2. PICK a, b \in R : /\ a.score[d] # NA
                          /\ a.score[d] <= rep.score[d] /\ rep.score[d] <= b.score[d]
    BY <1>1, <1>3, <2>1, DimensionMeanWithin
  <2>3. b.score[d] >= rep.score[d]
    BY <1>2, <2>1, <2>2
  <2> QED
    BY <2>2, <2>3
<1>4. ASSUME rep.overall # NA
      PROVE  \E d, e \in Dims : rep.score[d] <= rep.overall /\ rep.overall <= rep.score[e]
  <2>1. IsFiniteSet(Dims)
    BY EvidenceAssumption
  <2> QED
    BY <1>1, <1>2, <1>4, <2>1, OverallMeanWithin
<1>5. rep.strengths \cap rep.growth = {}
  BY <1>1, <1>2
<1>6. Within(rep, R)
  BY <1>3, <1>4, <1>5 DEF Within
<1> QED
  BY <1>6 DEF rep

LEMMA WithinMore ==
  ASSUME NEW rep, NEW R, NEW Q, Within(rep, R), R \subseteq Q
  PROVE  Within(rep, Q)
BY DEF Within

LEMMA NextWithin == IInv /\ SInv /\ ReportWithin /\ [Next]_vars => ReportWithin'
<1> SUFFICES ASSUME IInv, SInv, ReportWithin, [Next]_vars PROVE ReportWithin'
  OBVIOUS
<1>1. Within(report, rows)
  BY DEF ReportWithin, Within
<1>2. CASE Builds
  <2>1. report' = Radar(rows) /\ rows' = rows
    BY <1>2 DEF Builds, stores
  <2>2. Within(report', rows')
    BY <2>1, RadarWithin DEF SInv, IInv, TypeOK
  <2> QED
    BY <2>2 DEF ReportWithin, Within
<1>3. CASE ~Builds
  <2>1. report' = report
    BY <1>3 DEF Next, Answer, Process, Upgrade, Review, AnswerMcq, AnswerDiagram, AnswerVoice,
         AnswerCoding, Remembers, Forgets, CodingForgets, Embeds, EmbedFails, AnalysesMcq,
         AnalysesVoice, DiagramCommits, CodingCommits, Fails, UpgradeLoads, UpgradeWrites,
         UpgradeFails, Reloads, Completes, JudgeReads, JudgeConfirms, JudgeHolds, Approves, closing, vars
  <2>2. rows \subseteq rows'
    BY DEF Next, Answer, Process, Upgrade, Review, AnswerMcq, AnswerDiagram, AnswerVoice,
       AnswerCoding, Remembers, Forgets, CodingForgets, Embeds, EmbedFails, AnalysesMcq,
       AnalysesVoice, Scores, Scored, DiagramCommits, CodingCommits, Fails, UpgradeLoads,
       UpgradeWrites, UpgradeFails, Reloads, Completes, JudgeReads, JudgeConfirms, JudgeHolds,
       Approves, Builds, stores, vars
  <2>3. Within(report', rows')
    BY <1>1, <2>1, <2>2, WithinMore
  <2> QED
    BY <2>3 DEF ReportWithin, Within
<1> QED
  BY <1>2, <1>3

LEMMA SpecWithin == Spec => []ReportWithin
<1>1. Init => ReportWithin
  BY DEF Init, ReportWithin, NoReport
<1> QED
  BY <1>1, NextWithin, SpecIInv, SpecSInv, PTL DEF Spec

-----------------------------------------------------------------------------
(* Theorems.                                                               *)

(* Every grade, card, skill row, contract and report is one the schemas     *)
(* validated before the writes accept (RubricScores,                        *)
(* SkillDimensionScoreCreate), whatever the models say.                     *)
THEOREM EvidenceTypeCorrect == Spec => []TypeOK
<1>1. IInv => TypeOK
  BY DEF IInv
<1> QED
  BY <1>1, SpecIInv, PTL

(* Half of a coding grade is what its tests say, through every rubric and   *)
(* every upgrade (_compose_rubric, upgrade_grade_with_llm).                 *)
THEOREM TestsAlwaysWeigh == Spec => []TestsWeigh
<1>1. IInv => TestsWeigh
  BY DEF IInv
<1> QED
  BY <1>1, SpecIInv, PTL

(* A vector has its card, a card its grade (or an answer that is still      *)
(* processed or failed), and an upgraded card an upgraded grade             *)
(* (save_card_node, embed_and_store_node, run_llm_grade_upgrade).           *)
THEOREM EvidenceCommitted == Spec => [](VectorsHaveCards /\ CardsGraded /\ TextsAgree)
<1>1. IInv => VectorsHaveCards /\ CardsGraded /\ TextsAgree
  BY DEF IInv
<1> QED
  BY <1>1, SpecIInv, PTL

(* Nothing the platform stores says more than what was committed before it: *)
(* with the above, a skill row is computed from committed cards of its      *)
(* tool, credits no dimension that none of them signals, and gives MCQ and  *)
(* voice full marks only where nineteen of twenty do, however many cards    *)
(* answers given again have left (rate_to_score, _score_from_pass_rate).    *)
THEOREM EvidenceAlwaysSupported == Spec => []EvidenceSupported
<1>1. IInv /\ SInv => EvidenceSupported
  BY DEF IInv, SInv, EvidenceSupported
<1> QED
  BY <1>1, SpecIInv, SpecSInv, PTL

(* A sitting completed after its last answer is reported on all its rows,   *)
(* with every grade read and scored by the judge and, where nothing failed, *)
(* a card behind every grade above zero but the last MCQ answer's           *)
(* (submit_adaptive_mcq_answer, persist_session_judge_result,               *)
(* run_memory_agent).                                                       *)
THEOREM ReportsComplete == Spec => [](ReportCurrent /\ JudgedAll /\ GradesRemembered)
<1>1. IInv => ReportCurrent /\ JudgedAll /\ GradesRemembered
  <2> SUFFICES ASSUME IInv PROVE ReportCurrent /\ JudgedAll /\ GradesRemembered
    OBVIOUS
  <2>1. Closed
    BY DEF IInv
  <2>2. ReportCurrent /\ JudgedAll
    BY <2>1 DEF Closed, ReportCurrent, JudgedAll, Reported, GradedAnswers
  <2>3. GradesRemembered
    <3> SUFFICES ASSUME chain.phase = "reported", faults = 0, delays = 0,
                        NEW i \in Answers, NEW g \in grade[i], g.tests > 0,
                        Is(i, "mcq") => \E k \in Answers : k > i /\ Is(k, "mcq")
                 PROVE  \E c \in cards : c.answer = i
      BY DEF GradesRemembered, Reported
    <3>1. Over(i) /\ Kept(i)
      BY <2>1 DEF Closed, IInv
    <3>2. InPhase(i, "done")
      BY <3>1 DEF Over, Kept, InPhase, Is
    <3>3. Remembered(i)
      BY <3>1, <3>2 DEF Kept, InPhase
    <3>4. g.tests # 0
      BY DEF IInv, TypeOK, GradeType
    <3> QED
      BY <3>3, <3>4 DEF Remembered, Concludes, Is
  <2> QED
    BY <2>2, <2>3
<1> QED
  BY <1>1, SpecIInv, PTL

(* The report as a whole: what ReportsComplete says, and each skill between *)
(* the worst and the best row that scores it, through both means and their  *)
(* rounding, with no skill both a strength and an area to grow              *)
(* (build_session_radar_report).                                            *)
THEOREM ReportAlwaysSound == Spec => []ReportSound
<1>1. ReportWithin /\ (ReportCurrent /\ JudgedAll /\ GradesRemembered) => ReportSound
  BY DEF ReportSound
<1> QED
  BY <1>1, SpecWithin, ReportsComplete, PTL

(* An upgrade that loaded a grade before the judge scored it does not undo  *)
(* the score, in any order of the two (upgrade_grade_with_llm,              *)
(* persist_session_judge_result).                                           *)
THEOREM JudgeAlwaysKept == Spec => JudgeKept
<1> DEFINE Keeps == \A i \in Answers : (\E g \in grade[i] : g.judged) => \E g \in grade'[i] : g.judged
<1>1. IInv /\ [Next]_vars => [Keeps]_vars
  <2> SUFFICES ASSUME IInv, Next PROVE Keeps
    OBVIOUS
  <2>0. TypeOK
    BY DEF IInv
  <2>1. CASE grade' = grade
    BY <2>1
  <2>2. ASSUME NEW i \in Answers, NEW G, grade' = [grade EXCEPT ![i] = G], grade[i] = {}
        PROVE  Keeps
    BY <2>0, <2>2 DEF TypeOK
  <2>3. ASSUME NEW i \in Answers, Answer(i) PROVE Keeps
    <3>1. CASE AnswerDiagram(i) \/ AnswerCoding(i)
      BY <2>1, <3>1 DEF AnswerDiagram, AnswerCoding, stores
    <3>2. CASE AnswerMcq(i) \/ AnswerVoice(i)
      <4>1. PICK G : grade' = [grade EXCEPT ![i] = G]
        BY <3>2 DEF AnswerMcq, AnswerVoice
      <4>2. grade[i] = {}
        BY <3>2, Now DEF AnswerMcq, AnswerVoice, Answering, Kept, Is, InPhase
      <4> QED
        BY <2>2, <4>1, <4>2
    <3> QED
      BY <2>3, <3>1, <3>2 DEF Answer
  <2>4. ASSUME NEW i \in Answers, Process(i) PROVE Keeps
    <3>1. CASE DiagramCommits(i) \/ CodingCommits(i)
      <4>1. PICK G : grade' = [grade EXCEPT ![i] = G]
        BY <3>1 DEF DiagramCommits, CodingCommits
      <4>2. grade[i] = {}
        BY <3>1, Now DEF DiagramCommits, CodingCommits, Kept, Is, InPhase
      <4> QED
        BY <2>2, <4>1, <4>2
    <3>2. CASE ~(DiagramCommits(i) \/ CodingCommits(i))
      BY <2>1, <2>4, <3>2 DEF Process, Remembers, Forgets, CodingForgets, Embeds, EmbedFails,
           AnalysesMcq, AnalysesVoice, Fails, stores
    <3> QED
      BY <3>1, <3>2
  <2>5. ASSUME NEW i \in Answers, Upgrade(i) PROVE Keeps
    <3>1. CASE UpgradeWrites(i)
      <4>1. PICK o \in Opinions : grade' = [grade EXCEPT ![i] = {Upgraded(g, o) : g \in grade[i]}]
        BY <3>1 DEF UpgradeWrites
      <4>2. o \in 0 .. Unit
        BY EvidenceAssumption
      <4>3. \A g \in grade[i] : Upgraded(g, o).judged = g.judged
        BY <2>0, <4>2, UpgradedTyped DEF TypeOK
      <4> QED
        BY <2>0, <4>1, <4>3 DEF TypeOK
    <3>2. CASE UpgradeLoads(i) \/ UpgradeFails(i)
      BY <2>1, <3>2 DEF UpgradeLoads, UpgradeFails, stores
    <3> QED
      BY <2>5, <3>1, <3>2 DEF Upgrade
  <2>8. ASSUME NEW i \in Answers, Reloads(i) PROVE Keeps
    BY <2>1, <2>8 DEF Reloads, stores
  <2>6. CASE Completes
    BY <2>1, <2>6 DEF Completes, stores
  <2>7. CASE Review
    <3>1. CASE JudgeConfirms \/ Approves
      BY <3>1, JudgedTyped DEF JudgeConfirms, Approves
    <3>2. CASE JudgeReads \/ JudgeHolds \/ Builds
      BY <2>1, <3>2 DEF JudgeReads, JudgeHolds, Builds, stores
    <3> QED
      BY <2>7, <3>1, <3>2 DEF Review
  <2> QED
    BY <2>3, <2>4, <2>5, <2>6, <2>7, <2>8 DEF Next
<1> HIDE DEF Keeps
<1>2. Spec => [][Keeps]_vars
  BY <1>1, SpecIInv, PTL DEF Spec
<1> QED
  BY <1>2 DEF JudgeKept, Keeps

(* A voice answer that goes from stored to done has been analysed.          *)
LEMMA OnlyAnalyses ==
  ASSUME IInv, Next, NEW i \in Answers,
         job[i].tool = "voice", job[i].phase = "stored", job'[i].phase = "done"
  PROVE  AnalysesVoice(i)
<1>0. job \in [Answers -> JobType]
  BY DEF IInv, TypeOK
<1>1. ~UNCHANGED job
  OBVIOUS
<1>2. ASSUME NEW k \in Answers, NEW j, job' = [job EXCEPT ![k] = j] PROVE k = i /\ j.phase = "done"
  BY <1>0, <1>2
<1>3. ASSUME NEW k \in Answers, Answer(k) PROVE FALSE
  <2>1. PICK ph, passed, score : Received(k, ph, passed, score)
    BY <1>3 DEF Answer, AnswerMcq, AnswerDiagram, AnswerVoice, AnswerCoding
  <2>2. k = i
    BY <1>2, <2>1 DEF Received
  <2> QED
    BY <1>3, <2>2 DEF Answer, AnswerMcq, AnswerDiagram, AnswerVoice, AnswerCoding, Answering, Is, InPhase
<1>4. ASSUME NEW k \in Answers, Process(k) PROVE AnalysesVoice(i)
  <2>1. PICK ph : Goes(k, ph)
    BY <1>4 DEF Process, Remembers, Forgets, CodingForgets, Embeds, EmbedFails, AnalysesMcq,
         AnalysesVoice, DiagramCommits, CodingCommits, Fails
  <2>2. job' = [job EXCEPT ![k] = [job[k] EXCEPT !.phase = ph]]
    BY <1>0, <2>1 DEF Goes
  <2>3. k = i
    BY <1>2, <2>2
  <2>4. \A q \in {"carded", "stored", "failed"} : ~Goes(i, q)
    BY <1>0 DEF Goes, JobType
  <2> QED
    BY <1>4, <2>3, <2>4 DEF Process, Remembers, Forgets, CodingForgets, Embeds, EmbedFails,
       AnalysesMcq, DiagramCommits, CodingCommits, Fails, Is
<1>5. ASSUME NEW k \in Answers, Reloads(k) PROVE FALSE
  <2>1. job' = [job EXCEPT ![k] = [job[k] EXCEPT !.left = TRUE]]
    BY <1>0, <1>5 DEF Reloads
  <2>2. job'[i].phase = job[i].phase
    BY <1>0, <2>1 DEF JobType
  <2> QED
    BY <2>2
<1> QED
  BY <1>1, <1>3, <1>4, <1>5 DEF Next, Upgrade, UpgradeLoads, UpgradeWrites, UpgradeFails,
     Completes, Review, JudgeReads, JudgeConfirms, JudgeHolds, Approves, Builds

(* A voice question gets harder by one step at a time, never beyond the     *)
(* maximum and only when seven of ten remembered answers have passed, those *)
(* before a reload included; one above the maximum is followed by one that  *)
(* is easier by a step or within it.  From a beginner's start a coding      *)
(* learner whose average falls is given nothing harder                      *)
(* (_select_next_difficulty, _difficulty_for).                              *)
THEOREM DifficultyAlwaysEarned == Spec => DifficultyEarned
<1>1. IInv /\ [Next]_vars => [CappedStep /\ EarnedStep]_vars
  <2> SUFFICES ASSUME IInv, Next PROVE CappedStep /\ EarnedStep
    OBVIOUS
  <2>1. CappedStep
    <3>0. tier \in 0 .. 2
      BY DEF IInv, TypeOK
    <3> SUFFICES ASSUME NEW i \in Answers, Replies(i)
                 PROVE  /\ tier' > tier => /\ tier' = tier + 1 /\ tier' <= Cap
                                           /\ 10 * Cardinality(Passed(CardsOf("voice")))
                                                >= 7 * Cardinality(CardsOf("voice"))
                        /\ tier' > Cap => tier' = tier - 1
      BY DEF CappedStep
    <3>1. job[i].tool = "voice" /\ job[i].phase = "stored" /\ job'[i].phase = "done" /\ ~job[i].left
      BY DEF Replies, Is, InPhase
    <3>2. AnalysesVoice(i)
      BY <3>1, OnlyAnalyses
    <3>3. tier' = SelectNextDifficulty(tier, Mastery(CardsOf("voice")), Cap)
      BY <3>1, <3>2 DEF AnalysesVoice
    <3>4. Mastery(CardsOf("voice")) = "high" =>
            10 * Cardinality(Passed(CardsOf("voice"))) >= 7 * Cardinality(CardsOf("voice"))
      BY DEF Mastery
    <3> QED
      BY <3>0, <3>3, <3>4, StepTyped
  <2>2. EarnedStep
    <3>1. /\ contract \in ContractType /\ Contracted
          /\ contract' \in ContractType /\ Contracted'
      BY NextIInv DEF IInv, TypeOK, ContractType
    <3>2. /\ contract.average \in Skill /\ contract'.average \in Skill
      BY <3>1 DEF ContractType
    <3> SUFFICES ASSUME Policy.initial = 0, contract'.average <= contract.average
                 PROVE  contract'.difficulty <= contract.difficulty
      BY DEF EarnedStep
    <3>3. DifficultyFor(contract'.average, Policy) <= DifficultyFor(contract.average, Policy)
      BY <3>2, DifficultyMonotone
    <3> QED
      BY <3>1, <3>3 DEF Contracted
  <2> QED
    BY <2>1, <2>2
<1> QED
  BY <1>1, SpecIInv, PTL DEF Spec, DifficultyEarned

=============================================================================
