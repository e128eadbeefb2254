------------------------------ MODULE Evidence ------------------------------
(***************************************************************************)
(* From an answer to the report: grades, memory cards, skill rows, judge.  *)
(*                                                                         *)
(* Every graded answer is to leave a memory card (agent/memory_agent.py),  *)
(* the cards of a tool are boiled down to a skill row, the rows steer the  *)
(* difficulty of the next question, and at the end the judge reads the     *)
(* grades and the report averages the rows.  These writers share tables    *)
(* and no transaction: the memory agent commits its card in one of its     *)
(* own, an MCQ or diagram pipeline runs behind the learner's back, the     *)
(* rubric of a coding grade is upgraded later still, and nothing keeps a   *)
(* learner from completing the session while all this runs.                *)
(*                                                                         *)
(* Modelled for the default settings: MCQ_ASYNC_PIPELINE,                  *)
(* DIAGRAM_ASYNC_PIPELINE and CODE_ASYNC_GRADING on.                       *)
(***************************************************************************)
EXTENDS Scoring, Sequences

CONSTANTS
  Length,        \* answers of a sitting, those given again after a reload included
  Plans,         \* the tool of each, in the order they are answered
  Dims,          \* skill dimensions
  Engaged,       \* those the coding tool reports on
  Signals,       \* sets of dimensions a card may signal
  Tests,         \* tests of a coding challenge, of equal weight
  Opinions,      \* what a language model may give as a score, in thousandths
  Key,           \* a key for the E2B service is configured
  Development,   \* ENVIRONMENT is "development"
  Start, Cap,    \* voice: difficulty of the first question, max_difficulty
  Config,        \* coding: initial difficulty and thresholds, as configured
  MaxTroubles    \* bound: failures, reloads, a completion while answers are open

VARIABLES
  job,           \* processing of each answer
  grade,         \* grade_results: the row of each answer, or none
  cards,         \* memory_cards
  vectors,       \* cards with a point in Qdrant
  rows,          \* skill_dimension_scores
  tier,          \* voice: difficulty of the next question
  contract,      \* coding: the contract of the last submit
  upgrade,       \* coding: upgrade of each grade's rubric
  chain,         \* judge and report of the session
  report, faults, delays

stores  == <<grade, cards, vectors, rows>>
steers  == <<tier, contract>>
closing == <<chain, report>>
vars    == <<job, stores, steers, upgrade, closing, faults, delays>>

Answers == 1 .. Length

Tools == {"mcq", "diagram", "voice", "coding"}

ASSUME EvidenceAssumption ==
  /\ Length \in Nat
  /\ Plans \subseteq [Answers -> Tools \cup {"none"}]
  /\ Engaged \subseteq Dims /\ IsFiniteSet(Dims)
  /\ \A s \in Signals : s \subseteq Dims
  /\ Tests \in Nat \ {0}
  /\ Opinions \subseteq 0 .. Unit
  /\ Start \in 0 .. 2 /\ Cap \in 0 .. 2
  /\ Config.initial \in 0 .. 2
  /\ Config.intermediate \subseteq Int /\ Config.advanced \subseteq Int
  /\ \A m, n \in Config.intermediate : m = n
  /\ \A m, n \in Config.advanced : m = n
  /\ MaxTroubles \in Nat

Is(i, tool) == job[i].tool = tool

Policy == PolicyOf(Config)

CardsOf(tool) == {c \in cards : c.tool = tool}

\* The last MCQ or diagram answer completes its tool, which has no question
\* left to generate: no pipeline is scheduled for it.
Concludes(i) == \A k \in Answers : k > i => job[k].tool # job[i].tool

-----------------------------------------------------------------------------
NewJob(tool) == [tool |-> tool, phase |-> "idle", passed |-> FALSE, score |-> 0, try |-> 0,
                 left |-> FALSE]

NoChain == [phase |-> "none", read |-> {}]

NoReport == [score |-> [d \in Dims |-> NA], overall |-> NA,
             strengths |-> {}, growth |-> {}]

\* The mean over the engaged dimensions of rows R.
EngagedMean(R) == OverallMean([d \in Engaged |-> DimensionMean(R, d)], Engaged)

\* The contract of a coding session with rows R.
ContractFrom(R) == [average    |-> EngagedMean(R),
                    difficulty |-> DifficultyFor(EngagedMean(R), Policy)]

Graded(tests, overall) ==
  [rubric |-> "first", tests |-> tests, overall |-> overall, judged |-> FALSE]

Init ==
  /\ \E plan \in Plans : job = [i \in Answers |-> NewJob(plan[i])]
  /\ grade = [i \in Answers |-> {}]
  /\ cards = {} /\ vectors = {} /\ rows = {}
  /\ tier = Start
  /\ contract = ContractFrom({})
  /\ upgrade = [i \in Answers |-> [phase |-> "none", copy |-> {}]]
  /\ chain = NoChain /\ report = NoReport
  /\ faults = 0 /\ delays = 0

\* Wrong variant: the page does not wait for the reply or the next question.
OverWhenSent(i) == job[i].tool = "none" \/ job[i].phase # "idle"

Over(i) == job[i].tool = "none" \/ job[i].phase = "done" \/ (job[i].phase = "failed" /\ ~Is(i, "coding"))

InPhase(i, phase) == job[i].phase = phase

Goes(i, phase) == job' = [job EXCEPT ![i].phase = phase]

Troubles == faults + delays + Cardinality({i \in Answers : job[i].left})

Fault == Troubles < MaxTroubles /\ faults' = faults + 1

Received(i, phase, passed, score) ==
  job' = [job EXCEPT ![i] = [tool |-> @.tool, phase |-> phase, passed |-> passed,
                             score |-> score, try |-> @.try + 1, left |-> FALSE]]

\* The learner gives answer i: the page waits for the ones before, those apart
\* that it was loaded again after.
Answering(i) ==
  /\ InPhase(i, "idle") \/ (Is(i, "coding") /\ InPhase(i, "failed"))
  /\ \A k \in 1 .. i - 1 : Over(k) \/ job[k].left
  /\ chain.phase = "none"

\* The page is loaded again after voice answer i and begins the tool anew, at
\* its first question; the server goes on with the answer if it is not done.
Reloads(i) ==
  /\ Is(i, "voice") /\ ~InPhase(i, "idle") /\ ~job[i].left
  /\ \A k \in Answers : k > i => InPhase(k, "idle")
  /\ \E k \in Answers : k = i + 1 /\ Is(k, "voice")
  /\ chain.phase = "none" /\ Troubles < MaxTroubles
  /\ job' = [job EXCEPT ![i].left = TRUE]
  /\ tier' = Start
  /\ UNCHANGED <<stores, contract, upgrade, closing, faults, delays>>

-----------------------------------------------------------------------------
(* Layer 1: the grade.                                                     *)

\* An MCQ answer is graded and committed at once.
AnswerMcq(i) ==
  /\ Is(i, "mcq") /\ Answering(i)
  /\ \E passed \in BOOLEAN :
       LET score == IF passed THEN Unit ELSE 0
       IN  /\ grade' = [grade EXCEPT ![i] = {Graded(score, score)}]
           /\ Received(i, IF Concludes(i) THEN "done" ELSE "graded", passed, score)
  /\ UNCHANGED <<cards, vectors, rows, steers, upgrade, closing, faults, delays>>

\* A diagram answer is stored; its pipeline asks the language model, whose
\* failure is a score of zero.  The last one is never graded.
AnswerDiagram(i) ==
  /\ Is(i, "diagram") /\ Answering(i)
  /\ \E passed \in BOOLEAN :
       Received(i, IF Concludes(i) THEN "done" ELSE "graded",
                passed, IF passed THEN Unit ELSE 0)
  /\ UNCHANGED <<stores, steers, upgrade, closing, faults, delays>>

\* A recording: flagged as empty or unclear it scores zero and leaves no
\* evidence; otherwise it is what the language model says, and zero when that
\* fails.  The grade is committed before the memory agent is asked.
AnswerVoice(i) ==
  /\ Is(i, "voice") /\ Answering(i)
  /\ \E flagged \in BOOLEAN, score \in Opinions \cup {0} :
       /\ flagged => score = 0
       /\ grade' = [grade EXCEPT ![i] = {Graded(score, score)}]
       /\ Received(i, IF flagged THEN "stored" ELSE "graded", score >= VoicePassMark, score)
  /\ UNCHANGED <<cards, vectors, rows, steers, upgrade, closing, faults, delays>>

\* A submit runs the tests and is graded on them; the grade is not committed
\* before the end of the request, so it is the job's.
AnswerCoding(i) ==
  /\ Is(i, "coding") /\ Answering(i)
  /\ \E cloud, local \in Runs, k \in 0 .. Tests :
       LET outcome == Executed(Key, Development, cloud, local)
       IN  /\ outcome # "success" => k = 0
           /\ Received(i, "graded", TestScore(outcome, k, Tests) >= PassMark,
                       TestScore(outcome, k, Tests))
  /\ UNCHANGED <<stores, steers, upgrade, closing, faults, delays>>

-----------------------------------------------------------------------------
(* Layer 2: the memory agent.                                              *)

\* The language model has described the answer and the card is committed.
Remembers(i) ==
  /\ InPhase(i, "graded")
  /\ \E s \in Signals :
       cards' = cards \cup {[answer |-> i, try |-> job[i].try, tool |-> job[i].tool,
                             signals |-> s, passed |-> job[i].passed, text |-> "first"]}
  /\ Goes(i, "carded")
  /\ UNCHANGED <<grade, vectors, rows, steers, upgrade, closing, faults, delays>>

\* It cannot load the cards, gets no usable description or cannot save: the
\* nodes that follow do nothing, and the caller goes on without a card.
Forgets(i) ==
  /\ ~Is(i, "coding") /\ InPhase(i, "graded") /\ Fault
  /\ Goes(i, "stored")
  /\ UNCHANGED <<stores, steers, upgrade, closing, delays>>

\* A coding submit does not: it answers 503 and rolls its grade back.
CodingForgets(i) ==
  /\ Is(i, "coding") /\ InPhase(i, "graded") /\ Fault
  /\ Goes(i, "failed")
  /\ UNCHANGED <<stores, steers, upgrade, closing, delays>>

\* The card's evidence is embedded and stored in Qdrant.
Embeds(i) ==
  /\ InPhase(i, "carded")
  /\ vectors' = vectors \cup {<<i, job[i].try>>}
  /\ Goes(i, "stored")
  /\ UNCHANGED <<grade, cards, rows, steers, upgrade, closing, faults, delays>>

\* Qdrant is not configured or fails: the agent goes on.
EmbedFails(i) ==
  /\ InPhase(i, "carded") /\ Fault
  /\ Goes(i, "stored")
  /\ UNCHANGED <<stores, steers, upgrade, closing, delays>>

-----------------------------------------------------------------------------
(* Layer 3: the skill row, and layer 4: the next question's difficulty.    *)

Id(c) == <<c.answer, c.try>>

\* A row, with the cards it is computed from, for the properties.
Scored(i, score) ==
  rows' = rows \cup {[answer |-> i, tool |-> job[i].tool, score |-> score,
                      from |-> {Id(c) : c \in CardsOf(job[i].tool)}]}

\* MCQ and voice: a row from all cards of the tool, none without a card.
Scores(i) ==
  IF CardsOf(job[i].tool) = {} THEN rows' = rows
  ELSE Scored(i, [d \in Dims |-> RateToScore(CardsOf(job[i].tool), d)])

AnalysesMcq(i) ==
  /\ Is(i, "mcq") /\ InPhase(i, "stored")
  /\ Scores(i)
  /\ Goes(i, "done")
  /\ UNCHANGED <<grade, cards, vectors, steers, upgrade, closing, faults, delays>>

\* The next difficulty is the page's, if the page still waits for the reply.
AnalysesVoice(i) ==
  /\ Is(i, "voice") /\ InPhase(i, "stored")
  /\ Scores(i)
  /\ tier' = IF job[i].left THEN tier
             ELSE SelectNextDifficulty(tier, Mastery(CardsOf("voice")), Cap)
  /\ Goes(i, "done")
  /\ UNCHANGED <<grade, cards, vectors, contract, upgrade, closing, faults, delays>>

\* A diagram pipeline writes no row; only now is its grade committed.
DiagramCommits(i) ==
  /\ Is(i, "diagram") /\ InPhase(i, "stored")
  /\ grade' = [grade EXCEPT ![i] = {Graded(job[i].score, job[i].score)}]
  /\ Goes(i, "done")
  /\ UNCHANGED <<cards, vectors, rows, steers, upgrade, closing, faults, delays>>

CodingRow == [d \in Dims |-> IF d \in Engaged THEN ScoreFromPassRate(CardsOf("coding"), d) ELSE NA]

FirstGrade(tests) == Graded(tests, Blend(tests, Heuristic(tests)))

\* A coding submit ends: grade and row are committed together, the contract
\* is computed from all rows, and the rubric's upgrade is scheduled.
CodingCommits(i) ==
  /\ Is(i, "coding") /\ InPhase(i, "stored")
  /\ Scored(i, CodingRow)
  /\ grade' = [grade EXCEPT ![i] = {FirstGrade(job[i].score)}]
  /\ contract' = ContractFrom(rows')
  /\ upgrade' = [upgrade EXCEPT ![i].phase = "queued"]
  /\ Goes(i, "done")
  /\ UNCHANGED <<cards, vectors, tier, closing, faults, delays>>

\* A pipeline or submit fails after the memory agent: what it has not
\* committed is rolled back, and the card stays.
Fails(i) ==
  /\ job[i].tool # "voice" /\ InPhase(i, "stored") /\ Fault
  /\ Goes(i, "failed")
  /\ UNCHANGED <<stores, steers, upgrade, closing, delays>>

-----------------------------------------------------------------------------
(* The upgrade of a coding grade: loads the grade, waits for the language  *)
(* model, writes the rubric.                                               *)

UpgradeLoads(i) ==
  /\ upgrade[i].phase = "queued"
  /\ upgrade' = [upgrade EXCEPT ![i] = [phase |-> "loaded", copy |-> grade[i]]]
  /\ UNCHANGED <<job, stores, steers, closing, faults, delays>>

Upgraded(g, opinion) ==
  [g EXCEPT !.rubric = "full", !.overall = Blend(g.tests, opinion)]

\* With the grade, the evidence that the card of the graded try tells.
Refreshed(i) ==
  {IF c.answer = i /\ c.try = job[i].try THEN [c EXCEPT !.text = "full"] ELSE c : c \in cards}

\* Wrong variant: the whole row is written back as it was loaded.
UpgradeWritesRow(i) ==
  /\ upgrade[i].phase = "loaded"
  /\ \E o \in Opinions : grade' = [grade EXCEPT ![i] = {Upgraded(g, o) : g \in upgrade[i].copy}]
  /\ cards' = Refreshed(i)
  /\ upgrade' = [upgrade EXCEPT ![i].phase = "done"]
  /\ UNCHANGED <<job, vectors, rows, steers, closing, faults, delays>>

\* Only the rubric is assigned, so only its column is written; the card's text
\* is in the same transaction.
UpgradeWrites(i) ==
  /\ upgrade[i].phase = "loaded"
  /\ \E o \in Opinions : grade' = [grade EXCEPT ![i] = {Upgraded(g, o) : g \in @}]
  /\ cards' = Refreshed(i)
  /\ upgrade' = [upgrade EXCEPT ![i].phase = "done"]
  /\ UNCHANGED <<job, vectors, rows, steers, closing, faults, delays>>

\* The provider is unreachable, or three answers in a row are no rubric with
\* scores in [0, 1]: the first one stays.
UpgradeFails(i) ==
  /\ upgrade[i].phase = "loaded" /\ Fault
  /\ upgrade' = [upgrade EXCEPT ![i].phase = "done"]
  /\ UNCHANGED <<job, stores, steers, closing, delays>>

-----------------------------------------------------------------------------
(* Judge and report.                                                       *)

\* The session is completed: after the last answer, or at any time.
Completes ==
  /\ chain.phase = "none"
  /\ delays' = delays + (IF \A i \in Answers : Over(i) THEN 0 ELSE 1)
  /\ Troubles + delays' - delays <= MaxTroubles
  /\ chain' = [chain EXCEPT !.phase = "queued"]
  /\ UNCHANGED <<job, stores, steers, upgrade, report, faults>>

GradedAnswers == {i \in Answers : grade[i] # {}}

JudgeReads ==
  /\ chain.phase = "queued"
  /\ chain' = [phase |-> "judging", read |-> GradedAnswers]
  /\ UNCHANGED <<job, stores, steers, upgrade, report, faults, delays>>

\* The judge's score goes to every grade there is by then, unless there was
\* none to read.
Judged == IF chain.read = {} THEN grade
          ELSE [i \in Answers |-> {[g EXCEPT !.judged = TRUE] : g \in grade[i]}]

\* Confirmed by the language model, or by the mean of the grades.
JudgeConfirms ==
  /\ chain.phase = "judging"
  /\ grade' = Judged
  /\ chain' = [chain EXCEPT !.phase = "confirmed"]
  /\ UNCHANGED <<job, cards, vectors, rows, steers, upgrade, report, faults, delays>>

JudgeHolds ==
  /\ chain.phase = "judging" /\ chain.read # {}
  /\ chain' = [chain EXCEPT !.phase = "held"]
  /\ UNCHANGED <<job, stores, steers, upgrade, report, faults, delays>>

Approves ==
  /\ chain.phase = "held"
  /\ grade' = Judged
  /\ chain' = [chain EXCEPT !.phase = "confirmed"]
  /\ UNCHANGED <<job, cards, vectors, rows, steers, upgrade, report, faults, delays>>

Radar(R) ==
  LET score == [d \in Dims |-> DimensionMean(R, d)]
  IN  [score |-> score, overall |-> OverallMean(score, Dims),
       strengths |-> {d \in Dims : score[d] >= 7},
       growth    |-> {d \in Dims : score[d] # NA /\ score[d] <= 4}]

Builds ==
  /\ chain.phase = "confirmed"
  /\ report' = Radar(rows)
  /\ chain' = [chain EXCEPT !.phase = "reported"]
  /\ UNCHANGED <<job, stores, steers, upgrade, faults, delays>>

-----------------------------------------------------------------------------
Answer(i) == AnswerMcq(i) \/ AnswerDiagram(i) \/ AnswerVoice(i) \/ AnswerCoding(i)

Process(i) ==
  \/ Remembers(i) \/ Forgets(i) \/ CodingForgets(i) \/ Embeds(i) \/ EmbedFails(i)
  \/ AnalysesMcq(i) \/ AnalysesVoice(i) \/ DiagramCommits(i) \/ CodingCommits(i)
  \/ Fails(i)

Upgrade(i) == UpgradeLoads(i) \/ UpgradeWrites(i) \/ UpgradeFails(i)

Review == JudgeReads \/ JudgeConfirms \/ JudgeHolds \/ Approves \/ Builds

Next ==
  \/ \E i \in Answers : Answer(i) \/ Process(i) \/ Upgrade(i) \/ Reloads(i)
  \/ Completes \/ Review

Spec == Init /\ [][Next]_vars

-----------------------------------------------------------------------------
(* Properties.                                                             *)

Skill == 0 .. 10

GradeType ==
  [rubric : {"first", "full"}, tests : 0 .. Unit, overall : 0 .. Unit, judged : BOOLEAN]

JobType ==
  [tool : Tools \cup {"none"},
   phase : {"idle", "graded", "carded", "stored", "done", "failed"},
   passed : BOOLEAN, score : 0 .. Unit, try : Nat, left : BOOLEAN]

CardType ==
  [answer : Answers, try : Nat, tool : Tools,
   signals : SUBSET Dims, passed : BOOLEAN, text : {"first", "full"}]

RowType ==
  [answer : Answers, tool : Tools, score : [Dims -> Skill], from : SUBSET (Answers \X Nat)]

ReportType ==
  [score : [Dims -> Skill], overall : Skill, strengths : SUBSET Dims, growth : SUBSET Dims]

\* Grades are thousandths up to 1.0 and skills whole numbers up to 10, as the
\* schemas that are validated before each write demand (RubricScores,
\* SkillDimensionScoreCreate).
TypeOK ==
  /\ job \in [Answers -> JobType]
  /\ grade \in [Answers -> SUBSET GradeType]
  /\ cards \subseteq CardType
  /\ vectors \subseteq Answers \X Nat
  /\ rows \subseteq RowType
  /\ tier \in 0 .. 2
  /\ contract \in [average : Skill, difficulty : 0 .. 2]
  /\ upgrade \in [Answers -> [phase : {"none", "queued", "loaded", "done"},
                             copy : SUBSET GradeType]]
  /\ chain \in [phase : {"none", "queued", "judging", "held", "confirmed", "reported"},
               read : SUBSET Answers]
  /\ report \in ReportType
  /\ faults \in Nat /\ delays \in Nat

\* A point in the vector store belongs to a committed card: what the
\* adaptation retrieves is evidence the platform has (save_card_node,
\* embed_and_store_node).
VectorsHaveCards ==
  \A v \in vectors : \E c \in cards : v = Id(c)

\* The memory agent commits a card apart from the grade it is made from; a
\* card without a grade is only found while the answer is being processed or
\* after its processing failed (evaluate_diagram_answer, run_adaptive_loop_fast).
CardsGraded ==
  \A c \in cards : grade[c.answer] # {} \/ job[c.answer].phase \in {"graded", "carded", "stored", "failed"}

\* The card of a grade tells what the grade's rubric says: both are upgraded or
\* neither (run_llm_grade_upgrade).
TextsAgree ==
  \A c \in cards : c.text = "full" => \E g \in grade[c.answer] : g.rubric = "full"

\* A row is computed from committed cards.  It credits no skill that none of
\* them shows, and full marks only where nineteen of twenty do (MCQ and voice):
\* the share is rounded, and a learner who answers again has any number of
\* cards (rate_to_score, analyse_session).
RowsSupported ==
  \A r \in rows :
    LET seen == {c \in CardsOf(r.tool) : Id(c) \in r.from}
    IN  /\ r.from \subseteq {Id(c) : c \in seen}
        /\ \A d \in Dims :
             /\ r.score[d] > (IF r.tool = "coding" THEN NA ELSE 1) => \E c \in seen : d \in c.signals
             /\ r.score[d] = 10 /\ r.tool # "coding" =>
                  20 * Cardinality(Signalling(seen, d)) >= 19 * Cardinality(seen)

\* Whatever a card, a vector or a row says rests on what was committed before.
EvidenceSupported == VectorsHaveCards /\ CardsGraded /\ TextsAgree /\ RowsSupported

\* A report lies within the rows: each skill between the worst and the best
\* row that scores it, skills nobody scored are left open, and no skill is
\* both a strength and an area to grow (build_session_radar_report).
ReportWithin ==
  /\ \A d \in Dims : report.score[d] # NA =>
       /\ \E r \in rows : r.score[d] # NA /\ r.score[d] <= report.score[d]
       /\ \E r \in rows : r.score[d] >= report.score[d]
  /\ report.overall # NA =>
       \E d, e \in Dims : report.score[d] <= report.overall /\ report.overall <= report.score[e]
  /\ report.strengths \cap report.growth = {}

Reported == chain.phase = "reported"

\* A learner who completes after the last answer gets a report on all rows:
\* no pipeline of his writes one behind it (submit_adaptive_mcq_answer,
\* run_voice_adaptive_loop, adaptive_submit).
ReportCurrent == Reported /\ delays = 0 => report = Radar(rows)

\* Then, too, the judge has read every grade, and his score is on each of
\* them, whether he confirmed it or an admin approved it
\* (persist_session_judge_result, approve_pending_judge_review).
JudgedAll ==
  Reported /\ delays = 0 =>
    \A i \in GradedAnswers : i \in chain.read /\ \A g \in grade[i] : g.judged

\* Half of a coding grade is what the tests say; no rubric, whichever model
\* wrote it and however often, takes that half away or gives it away
\* (_compose_rubric, upgrade_grade_with_llm).
TestsWeigh ==
  \A i \in Answers : Is(i, "coding") =>
    \A g \in grade[i] : g.tests - 1 <= 2 * g.overall /\ 2 * g.overall <= g.tests + Unit + 1

\* The upgrade of a rubric that overlaps the judge does not undo his score,
\* though it loaded the grade before he wrote it (upgrade_grade_with_llm,
\* persist_session_judge_result).
JudgeKept ==
  [][\A i \in Answers : (\E g \in grade[i] : g.judged) => \E g \in grade'[i] : g.judged]_vars

\* An analysis answers the page that waits for it.
Replies(i) == Is(i, "voice") /\ InPhase(i, "stored") /\ InPhase(i, "done")' /\ ~job[i].left

\* The docstring of _select_next_difficulty has every step clamped to
\* max_difficulty; the code does not clamp the step down.  What it does: a voice
\* question is harder than the last by one step at most, within max_difficulty,
\* and when of all answers remembered, those given before a reload included,
\* seven of ten have passed.  A question above max_difficulty is followed by one
\* that is easier by a step, or within it (analyze_voice_session).
CappedStep ==
  \A i \in Answers : Replies(i) =>
    /\ tier' > tier => /\ tier' = tier + 1 /\ tier' <= Cap
                       /\ 10 * Cardinality(Passed(CardsOf("voice"))) >= 7 * Cardinality(CardsOf("voice"))
    /\ tier' > Cap => tier' = tier - 1

\* From a beginner's start a coding learner whose average falls is not given a
\* harder challenge (compute_adaptive_contract, _difficulty_for).
EarnedStep ==
  Policy.initial = 0 /\ contract'.average <= contract.average
    => contract'.difficulty <= contract.difficulty

\* Difficulty follows the evidence, within its bounds.
DifficultyEarned == [][CappedStep /\ EarnedStep]_vars

\* "Called by the examiner agent after every graded answer"
\* (agent/memory_agent.py, run_memory_agent): in a sitting without failures
\* every grade above zero has its memory card by the time of the report.  The
\* last MCQ answer of a sitting is the exception: it is graded, and no
\* pipeline follows it (submit_adaptive_mcq_answer).
GradesRemembered ==
  Reported /\ faults = 0 /\ delays = 0 =>
    \A i \in Answers :
      /\ \E g \in grade[i] : g.tests > 0
      /\ Is(i, "mcq") => \E k \in Answers : k > i /\ Is(k, "mcq")
      => \E c \in cards : c.answer = i

\* What the learner and the company are told is drawn from the rows, and for a
\* sitting completed after its last answer from all that it produced.
ReportSound == ReportWithin /\ ReportCurrent /\ JudgedAll /\ GradesRemembered

=============================================================================
