# Verification of the Masaar adaptive assessment platform

Masaar gives a learner an assessment made of four tools (multiple choice, voice,
diagram, code), served one after the other, adapted to the answers, watched by a
proctoring service, and graded by language models. Results go through a judge
and, when the judge disagrees with the grading, through an admin, before they are
emailed. The backend is one FastAPI process (`src/backend/app`) over PostgreSQL,
with asyncio background tasks and Celery workers; the client is a Next.js page
(`src/frontend/src`).

Almost nothing in this system is locked. Handlers load a row, wait for a language
model or another query, and write the row back; pages retry, reload and lose
replies; background tasks write state that requests read. The modules here model
that: each step between two awaits or commits is an action, so that TLC explores
the interleavings the tests never schedule, and the proofs show which promises
hold whatever the schedule is.

All paths below are relative to `src/backend/app/` unless they start with
`frontend/` (`src/frontend/src/`).

## 1. Inventory

| Component | State it keeps | Operations | Talks to |
|---|---|---|---|
| Routing examiner (`agent/graph.py`, `agent/nodes/router.py`; page `chatStore.ts`, `chat/page.tsx`) | one JSON document per sitting: counts per tool, current tool, completion, frozen blueprint | `POST /respond` (start, next, complete_tool) | page, session row, assessment row |
| Session lifecycle and release (`sessions/`, `agent/nodes/judge.py`, `workers/*_tasks.py`, `admin/api.py`) | session row: status, proctoring status, held review, timestamps; grade rows' judge score | sign-in, start, complete, flag, approve; chains judge / build / email and finalize / email | page, Celery, proctoring, admin |
| Question cache (`features/mcq`, `features/diagram`, `shared/async_question_cache.py`, `core/background_tasks.py`) | two caches in the learner profile column; running task keys in memory | start, poll, answer; start and post-answer pipelines | page, language model |
| Proctoring (`proctoring/`) | event rows; session status; absence start in memory | report, batch, camera, audio, identity check, summary, gate | page, vision model, session row |
| Coding tool (`features/code/`; page `useCodeDriver.ts`, `CodeEditor.tsx`, `ChatCodeMessage.tsx`) | challenges, submissions, grades, skill rows | generate challenge, practice run, official submit, rubric upgrade | page, sandbox, memory agent |
| Voice tool (`features/voice/`; page `useVoiceRecorder.ts`, `useVoiceDriver.ts`) | voice sessions, transcript chunks, voice grades | stream, end, process an answer | page, transcription, memory agent |
| Adaptation agent (`features/adaptation/`) | none | analyse the collected answers | language model |
| Memory agent (`agent/memory_agent.py`, `shared/memory_retrieval.py`) | memory cards, vectors | load, extract, save, embed | every tool, language model, vector store |
| Scores and difficulty (`features/*/analysis.py`, `adaptation.py`, `grading.py`) | skill rows, the contract, the next difficulty | score, analyse, adapt, upgrade a rubric | memory agent, judge, report |
| Report aggregation (`reports/`) | radar report row | aggregate skill rows, build | judge chain |
| Admin API (`admin/`) | assessments, blueprints, status | CRUD, plan a blueprint, list and approve held reviews | planner, lifecycle |
| Celery dispatch (`workers/pipeline_*.py`) | none | run the pipelines as tasks when `CELERY_PIPELINES` is on | pipelines |
| Core (`core/`, `main.py`, `config.py`) | connections, limiter counters | wiring | everything |
| Chat page, sign-in page, drivers (`frontend/features`, `frontend/hooks`, `frontend/store`) | form, stored credentials, chat store, widgets, timers | checks, start, turns, completion, start again | every handler |
| Browser proctoring (`frontend/features/proctoring`) | policy, camera, the frame that is looked at | report, frames, levels | proctoring |
| Contract extractor, evaluation harness, migrations, deployment | none at run time | | |

What is hard in each, and what makes it right:

- **Examiner.** A turn reads the document, awaits the graph and writes the whole
  document. Two turns may overlap (a reload leaves one in flight); a committed
  turn's reply may be lost; the assessment's blueprint is edited meanwhile, to one
  whose `total_questions` need not be the sum of its counts. It is
  right when the counts and the routing of the stored document belong together, a
  page learns of completion only when every question was worked on (or as many as a
  total that is short asks), a turn that was not overtaken takes nothing back, and
  the sitting ends.
- **Session lifecycle.** Four kinds of handlers and three tasks write one row from
  copies of different age. It is right when an active session is proctored, only
  cleared grading is emailed, a held session can be approved, and a completion
  leads to exactly one report, which is sent where the mail settings allow it.
- **Question cache.** Generations outlive requests, crash with the process, are
  reckoned dead after 90 seconds while they may take 120, and write the profile of
  both tools from an old copy. It is right when no question is served twice, work
  is not doubled without cause, and the learner always gets a next question.
- **Proctoring.** Counting and flagging happen in transactions that cannot see
  each other, and a client may report any type that is enabled, those of the face
  match included. It is right when a flag is earned, a flagged session is locked, a
  match never revokes an earlier one, and the cooldown is kept.
- **Coding tool.** One submit commits three times over many seconds; the page
  carries the contract of its last answer. It is right when positions stay in the
  budget, each answer is graded once with its evidence card, no position is asked
  twice, and the tool ends.
- **Voice tool.** A web socket stream, its end and the processing of the answer
  are independent calls, and the page may hang up, reload or lose its connection
  between any two of them. It is right when an answer that waited for the end of
  its stream is graded whole, no question is left ungraded, a memory card rests on
  a clean answer, streams nobody listens to are completed, and the tool ends.
- **Camera in the browser.** Frames are analysed for seconds, one of them may be
  given up while the server works on it, and the server remembers the start of an
  absence in memory. It is right when an absence never spans a frame that showed the
  learner.
- **From the answer to the report.** Grade, card, vector, row and upgraded rubric
  are written by different transactions, some behind the learner's back, beside the
  judge and the report. A reload starts the voice tool over, with the answer before
  still in processing and its cards still counted. It is right when each rests on what was committed before,
  no writer undoes another, the report tells what the rows say and, for a sitting
  completed after its last answer, all of it; and when the arithmetic (rounding,
  clamps, no cards, thresholds) keeps grades in their range and difficulty earned.
- **Admission.** Every attempt at the checks makes a new session and may fail at any
  of three calls; credentials, address and chat store outlive each other. It is
  right when only a session whose own attempt passed every check is served, a
  failure never locks the learner out, and a completion has been earned. The
  planner is awaited between load and write of the assessment.

`PROJECT.json` lists every hazard at its line, with the property that watches it or
the reason why none does yet.

## 2. Modules

| Module | Models | Composes |
|---|---|---|
| `Examiner` | the examiner's turn and the tabs that call it | |
| `SessionLifecycle` | the session row, requests, Celery chains | implements `ReleasePolicy` |
| `ReleasePolicy` | what is promised about results, abstractly | |
| `QuestionCache` | pages, handlers, pipelines of both cached tools | the two tools share one profile |
| `Proctoring` | events, cooldown, threshold, identity, gate | |
| `CameraWatch` | the page that watches, its camera and frames; the grace for an absence | extends `Proctoring` and implements it |
| `CodeLoop` | the coding widget, its handlers and the rubric upgrade | |
| `VoiceSession` | the voice page, the audio streams and the processing of answers | |
| `Scoring` | the arithmetic of grades, skills and difficulty, as pure operators | |
| `Evidence` | grades, cards, vectors, rows, rubric upgrades, judge and report of a sitting | the four tools over shared tables; extends `Scoring` |
| `Admission` | planning and publishing an assessment, sign-in, checks, chat, completion | admin, learner's tab and session rows |
| `MC*` | definitions for TLC (symmetry, blueprints, plans of a sitting) | |
| `*Proofs` | theorems about the module of that name; `ProctoringProofs` also about `CameraWatch`, `SessionLifecycleProofs` also about `ReleasePolicy`, `EvidenceProofs` also about `Scoring` | |

Definitions whose comment says "Wrong variant" are not part of any specification.
Each is the definition after it with a plausible mistake; putting it in that
definition's place must break a property, which shows that the property looks at
the code.

### Examiner

`saved` is `assessment_sessions.examiner_state_json`, `blueprint` the assessment's
`blueprint_json`, `req` the turns the server works on, `tab` the browser tabs.
`Load` is the handler up to the await (`run_examiner_turn` reads the session and,
for the first turn, makes `InitialState`), `Commit` the rest: `Graph` is the
composition of the four nodes `run_tool_loop`, `update_session`,
`check_completion` and `route_question` in the order of the compiled graph, and
`Write` stores the document when it changed. `Reject` is the 422 without a valid
blueprint, `CommitLost` a committed turn whose reply is lost. `OpenPage`,
`Reload`, `FinishTool` and `AnswerOne` are the page. A sitting's transcript and
the texts of questions are left out; a blueprint is its enabled tools, counts and
total. The total is any number: `EditBlueprint` is the PATCH, which stores what it is
sent, valid or not, `GenerateBlueprint` the planner, the only one to compute the sum
(`Planned`). `CheckCompletion` compares with the total as the code does, so a total
that is `Short` completes a sitting before its tools are through.

### SessionLifecycle and ReleasePolicy

`row` is the session row. `Begin` is a handler up to its decision: it loads the row
and applies its early returns (`Admits`). `CommitStart`, `CommitComplete`,
`CommitFlag`, `CommitApprove` write back. `Flush` is the ORM: of what a handler
assigned, only the attributes that differ from its copy are written, so a stale
copy overwrites some columns and not others. `Schedule` / `ScheduleFails` is what
follows the commit of a completion or approval. The chain's tasks are `JudgeLoads`,
`JudgeConfirms`, `JudgeHolds`, `Builds`, `Emails`, and `ChainDies` for a task that
raises or a worker that is killed (Celery acknowledges early, nothing retries).
`mail` is how the deployment is configured (the key of Resend, the admin's address).
`Recipients` takes the learner's address from the profile that sign-in stores, whose
fields have none. `Emails` sends, or skips (no key, no recipient, results still held)
without raising, as the task does; `PdfFails` is its "failed" for a PDF that cannot be
rendered.
`Expire` is the token's end of life.

`ReleasePolicy` has one variable, the stage the results have reached, and four
steps. `SessionLifecycle!Outcome` is the refinement mapping, and `ReleasesByPolicy`
says that every step maps to a step of the policy or to none.

### QuestionCache

`profile` is the learner profile column with one cache per tool; `page` a browser
page with the copy its handler has loaded; `worker` a background task with its own
copy; `keys` is `_running_keys`. Every write stores a whole copy (`profile' =
[copy EXCEPT ...]`), as the code does, so updates of the other tool can be lost.
The exception is `Fails`, whose code reloads the row right before it writes and is
one step here. `Dispatch` is `schedule_background` with its deduplication. `Age`
makes a generation stale (90 seconds), `GiveUp` is the page's 180th poll, `Crash`
a restart of the process.

### Proctoring

A request is begun (`Report`, `AnalyzeCamera`, `VerifyIdentity`), may wait for a
model (`Sees`, `Compares`), inserts its findings outside the cooldown
(`Records`), decides on the flag (`Counts`), and commits; wherever it raises, the
model's absence included, its transaction is rolled back (`Fails`). Under READ
COMMITTED it sees committed events and its own. The types of the face match
(`Identity`) are in the catalogue with the others: a client may report them when
they are enabled, and then they pass the cooldown; the verdict of `Compares` does not
(`compared`). `Verification` is `compute_verification_status`, `ToolsOpen` is
`assert_session_ready_for_tools`, with `policy.require_camera` a constant.

### CameraWatch

The page of `useProctoring.ts` around the handlers of `Proctoring`. `page` is the
policy (asked for once), the camera and the frame whose answer is awaited
(`isAnalyzingCameraRef`); `shot` is the frame each request carries, numbered in the
order of capture; `absence` is `_absence_started`, with the frame it counts from.
`CapturesNext` is the interval's callback, `Hears` its `finally`, `Parts` the same
when the connection broke while the server goes on. `Looks` is `analyze_camera` from
the model's answer to the violations, `AbsenceAfter` what
`apply_candidate_absence_grace` leaves behind; the grace ends at any time
(`GraceEnds`). `Restarts` empties the memory. `Reports` are the listeners of the page
and whatever other client has the session's token. Every other step is one of
`Proctoring`, or leaves it alone: `ProctoringProofs!WatchImplements`.

### CodeLoop

The server keeps only rows: `grades` (each with its skill row), `carded`, `subs`,
`queued`. `ContractOf` is `compute_adaptive_contract`: the next index is one more
than the greatest in the session's skill rows, of whatever tool, and the stop is
when there are as many as the budget. `Chosen` is `generate_challenge`'s choice
between that and the contract the page sends. A submit is `Recognises` (an
identical graded answer), or `Executes`, `Extracts`, `Analyses`, `Commits` with one
commit each for the first, second and last. `Upgrades` is the background rubric.
The widget is `Mount`, `Submit`, `Reload` and its reactions to replies.

### VoiceSession

`page` is the widget: phase, question index and voice session; the index lives
nowhere else, so a reload starts the tool over. Each question gets a voice session
(`Create`), whose row is `row`, whose chunks are `stored`, whose web socket is
`stream` and whose `POST .../process` is `job`. A stream takes a frame (`Hears`),
transcribes and stores it (`Stores`), and ends by the time limit or by a disconnect
(`Ends`): the session is completed first, then the page is told. The page asks for
the processing when it is told (`told`), or at once when the learner stops (`Stop`),
and in that case the stream goes on by itself. `Evaluates`, `Grades`, `Remembers`,
`Replies` are the steps of `run_voice_adaptive_loop`, each ending in a commit or in
the reply. `JobFails` leaves the page `stuck`: the preview has marked the question as
answered, which hides the error and its button.

### Scoring and Evidence

`Scoring` counts grades in thousandths, the precision to which the code rounds, with
Python's rounding of halves to the even neighbour (`Round`); a skill is 1 to 10 or
`NA`. `Blend`, `Heuristic`, `TestScore` are the parts of a coding grade,
`RateToScore`, `ScoreFromPassRate`, `Mastery` lead from cards to a row,
`DimensionMean`, `OverallMean` to the report, and `SelectNextDifficulty`,
`DifficultyFor` to the next question.

`Evidence` follows a sitting of answers of all four tools (`Plans`). `job` is the
processing of each answer; `grade`, `cards`, `vectors`, `rows` are the tables, which
hold what is committed. The order differs per tool, as in the code: an MCQ answer
and a voice answer are graded before the memory agent is asked, a diagram answer is
graded by its pipeline and committed after it, a coding grade with its row at the
end of the request. `Remembers`, `Embeds` are the nodes of the memory graph that
commit, `Forgets` and `CodingForgets` what its error means to the callers.
`UpgradeLoads`, `UpgradeWrites` are the rubric upgrade with its await in between;
`JudgeReads` to `Builds` are the judge, the approval and the report. `Completes` may
come at any time: `delays` counts a completion while answers are open. `Reloads` is
a reload of the page that starts the voice tool at its first question: the answer
that was in processing is `left`, the server goes on with it, and the next answer of
the plan is one given again. Each row tells in `from` which cards it was computed
from (a history, for the properties).

### Admission

`a` is the assessment row, `req` the requests for a blueprint with the status they
loaded (`StatusAfter` is the ORM, which writes only what differs from that). `page`
is what the tab shows, `tab` what survives a reload (`sessionStorage` and the
history), `store` the flag `isComplete` of the global chat store. `attempt` is the
chain of calls behind one press of Continue: `SignsIn` inserts a session,
`Verifies`, `Starts` carry it on, and each has its failure or lost reply, after
which `Fails` frees the form. `Mounts` is the chat page's first effect, and `Opens` what a change of the address
does: a chat page that is mounted already goes on with its session (`started`), and
only a reload takes up the new address (`url`). `Turn` is a
turn of the examiner, reduced to the number of tools left; `Ends`, `Completes`,
`RunsOut`, `Leaves` are the ends of a sitting and "Start again", `Returns` the
browser's history. `Deadline` and `InTime` are the time limit.

## 3. Runs

| Run | Question | Bounds |
|---|---|---|
| `examiner` | overlapping turns, reload, lost reply, edit, single-question turns: counts, routing, completion, progress, termination | 1 tab, 2 requests, 4 blueprints (total right, short, too large, none), one of each disturbance |
| `session_race` | stale copies of start, complete, flag, approve and judge | 2 requests at a time, 3 chains, 2 starts, 2 completions, 1 flag, 1 approval, 1 fault |
| `session_once` | one completion, one report, by the policy, sent where the mail settings allow it | 1 request at a time, 4 chains, 3 approvals, 2 flags, 1 fault |
| `session_hold` | (violation) is a held session emailed only after approval? | 1 request at a time, 2 completions, nothing fails |
| `cache` | no question twice, no doubled work, never stranded; both tools with lost updates between them | 1 page, 2 workers, 2 questions per tool, 1 fault, 1 reload, 1 delay |
| `cache_diagram_deferred` | (violation) is every diagram answer graded? | undisturbed |
| `proctoring` | flag, lock, identity, cooldown with any client; the camera's absence with the page that sends frames and reports | 2 requests at a time, 3 in all, the types of the absence and of a failed identity enabled, those of the camera and of a match not, threshold 2; reloads and restarts unbounded |
| `code_loop` | budget, single grading, cards, fresh positions, termination, upgrade | 1 page, 2 requests, 2 solutions, 2 questions, up to 2 foreign rows, 1 fault, 1 reload |
| `code_questions` | (violation) does the tool contribute its questions? | 1 foreign row, nothing fails |
| `voice` | answers graded whole and in order, cards, streams completed, termination | 2 questions, 4 voice sessions, 1 audio frame, 1 failure, loss or reload |
| `evidence` | evidence committed in order, rows and report sound, test half of a grade, judge's score kept, difficulty earned | sittings of 2 and 3 answers over all tools, 2 dimensions, 1 test, opinions 0 and 500, 2 troubles (failure, reload of the voice tool, early completion) |
| `admission` | only admitted sessions served, completion earned, plans do not reopen, learner gets in | 1 tab, 2 sessions, 1 blueprint request, 1 PATCH, 1 failure, loss or reload; blueprints with one tool and a limit, and with none |

Why these bounds are enough to meet the interesting cases:

- Every race here is between two writers of one row or one document, so two slots
  for requests suffice to have a stale copy written back; `session_race` has chains
  as further writers.
- One fault, loss, reload or delay at any point of a run covers each single
  disturbance at each step; the disturbances of different kinds combine.
- A tool needs two questions to have a last one and one that is not, and the
  examiner's blueprints have a tool with two, tools with one, one with none, and
  one that is configured and not enabled. Their totals are the sum, one less, one
  more, and none: every way the comparison with the counts can go.
- `session_once` has a chain for the completion and one for each approval, so that
  `Schedule` never lacks a slot; its approvals outnumber the holds.
- Two workers suffice for a slow generation and its rival; that three add nothing to
  the safety of the caches was checked once, with symmetric workers.
- A voice sitting of two questions with one disturbance needs at most four voice
  sessions. Its single frame may belong to either question and be heard before,
  while or after the page hangs up; the other question has no speech. The safety
  properties are proved for any number of frames.
- The proctoring threshold of two is reached by one request with two events, by two
  requests in a row, and by two at a time. A third request lets a frame begin an
  absence, a second one end it, and the third arrive after the grace.
  Of the two types that are switched off, the camera's own has the page report what
  any client can (`Report`, as the theorem `WatchImplements` shows); the other is a
  match that a client reports, which the theorems take in, for they hold of any policy.
- The plans of `evidence` give each tool a question that is its last and one that is
  not, a pair of tools whose rows are averaged, and a sitting shorter than the others.
  Two failures cover a failed try of a coding submit and a failure after it; a
  reload and a failure cover an answer given again beside one that is forgotten. The
  opinions are the least and the one that just passes in the voice tool
  (`VoicePassMark`; the other tools pass on tests and answers); the theorems hold for
  any set of them.
- Two sittings in `admission` are one left behind by a failed attempt, or one
  finished in the tab before the next, or one whose late start meets the chat of the
  other. The planner may answer with a blueprint whose
  sitting ends at its first turn.

The theorems below remove the bounds for the properties they state. `CHECK_DEADLOCK
FALSE` stands in the configurations because every model does end: the sitting is
over and no bounded disturbance is left.

`overlapped` and `delays = 0` in a property limit it to schedules in which no two
requests were in flight together, or nothing was slower than the code's timeouts.
`parted` limits one of `CameraWatch` to the time before the page gives up a request.
The limit is part of the statement: outside of it the code does not keep the
promise, and TLC shows so when the condition is dropped.

### Fairness, and why the code justifies it

- A request the server has begun is carried on (weak): handlers run to their end or
  fail; every external call has a timeout.
- A queued task is run and carried on (weak): asyncio tasks and Celery workers; a
  crash is an action of its own, bounded.
- A page polls, shows and reacts (weak): `setTimeout` loops and effects; the
  countdown of a recording stops it.
- A background task starts at the next turn of the event loop, that is before any
  timeout and before the learner's next action (`AllStarted`, a guard in
  `QuestionCache`).
- A stream of a voice session goes on, and so does a request (weak, for streams
  together and requests together: each takes finitely many steps). The time limit
  is enforced by `asyncio.wait_for`.
- A learner answers what is shown, submits, finishes a widget, and reloads a page
  that shows an error (weak; strong in `Examiner`, where the slot he needs may be
  taken by other requests). Nothing is assumed about reloads of a healthy page.
- An admin approves a session that is held again and again (strong: a new
  completion may overwrite a hold in between).
- Time passes (weak): a generation that is at work on nothing becomes stale.
- In `Admission` a learner fills in the form and presses Continue again after each
  failure, and the calls of the checks return or fail (weak per session); nothing is
  assumed of the chat, the admin or the deadline.

No fairness is assumed for faults, losses, edits, flags or expiry. `CameraWatch`,
`Proctoring` and `Evidence` state safety only.

## 4. What the runs found

Three statements of the repository disagree with what the code does under a run that
shows the shortest schedule; the runs are marked as violations.

1. `agent/nodes/judge.py` says a held session waits for an admin. The second
   `POST /complete` of a held session is not refused, its judge may confirm, and
   the report is emailed without an approval (`HeldUntilApproved`).
2. A diagram answer is graded in the post-answer pipeline, which is not scheduled
   for the last answer: it is never graded (`AnswersAreProcessed`).
3. `shared/schemas/blueprint.py` gives each tool its number of questions. The coding
   tool counts the other tools' skill rows against its own number
   (`AllQuestionsAsked`).

Seven more, for which no run is kept; the properties named state what holds beside
them:

- `check_completion` in `agent/graph.py:111` completes a sitting "once all blueprint
  questions are done". It compares with `total_questions`, which only the planner
  computes (`agent/nodes/blueprint.py:166-177`); POST and PATCH store any number, and
  one below the sum completes the sitting with tools unserved. `StateConsistent` and
  `CompletionIsEarned` say by which number a sitting completes (`Short`, `Planned`).
- `workers/email_tasks.py:1` emails the report "to learner and admin". The learner's
  address is looked for in a profile that has no such field
  (`sessions/schemas.py:14-21`), so the admin is the only recipient there can be, and
  without his address nothing is sent. `CompletionIsReported` has the report sent
  where the settings let it be, and built where they do not (`Recipients`,
  `Deliverable`).
- `_select_next_difficulty` says that all steps are "clamped between beginner and the
  admin-configured max_difficulty" (`features/voice/adaptation.py:81-82`); the step
  down (line 101) is not. From advanced under a maximum of beginner the next question
  is intermediate. The page always sends advanced as the maximum
  (`ChatVoiceMessage.tsx:46`), the API takes any. `DifficultyEarned` states what the
  code does: above the maximum the next question is easier by a step, or within it.
- Two overlapping turns of the examiner undo each other: the older document is
  written back whole, and a tool that was finished is served again (`TurnsKeep` is
  stated for turns that were not overtaken).
- Two proctoring requests that count at the same time each see only their own
  events, and the session beyond the threshold stays unflagged until a further
  event (`FlagsSound`).
- `reset()` of the chat store is never called. After "Start again" in the same tab
  the chat page of the new sitting sees `isComplete` and redirects to the page that
  completes it, before a question was answered (`CompletionEarned`: only so).
- The last MCQ answer of a sitting has no memory card, for the pipeline that asks
  the memory agent is not scheduled for it (`GradesRemembered` excepts it).

## 5. Proofs

The modules `*Proofs` hold theorems checked by the TLA+ proof system, for every
value of the constants: any number of tabs, requests, chains, blueprints, event
types, questions and bounds, finite or not where the assumption does not say so.

**ExaminerProofs.** `ExaminerTypeCorrect`, `CountsAlwaysConsistent`,
`RoutingAlwaysConsistent`, together `DocumentConsistent`. Consistency of the stored document is not inductive by
itself: a turn writes what it computed from a copy it has loaded earlier.
`IInv` therefore says that the copies in flight have consistent counts as well. Routing
need not be assumed of them: `TurnCorrect` shows that a graph run on consistent
counts ends in right routing whatever the routing was before. Of a blueprint only the
bounds of the schema are assumed (`BlueprintAssumption`); its total is any integer, so
routing is right by the counts where the total does not lie below their sum, and by
the total where it does (`Short`).
`CompletionAlwaysEarned` needs more, for a page is told of a document that other
turns have written: `EInv` keeps books. For each tool the stored document, and every
copy a turn has loaded, is credited with no more questions than were answered, less
those whose report is still on its way (`Owed`), unless the tool was reported as
finished (`Credited`); sending and committing a report move between the two sides
(`SentIsOwed`, `TurnProgress`). The turn that tells the page is computed from such a
copy, so what its blueprint asks, all of it or as many as a short total, was answered
(`WorkedThrough`). `TurnsAlwaysKeep` is `TurnsKeep` for all constants.

**SessionLifecycleProofs.** `LifecycleTypeCorrect`, `AlwaysProctored`,
`ReportsAlwaysCleared`. The invariant carries the relation between the two status
columns (`Matched`) for the row and for every copy in flight, with the copy's early
return; the heart is `CommitsMatch`, that the ORM's attribute-wise write of a
matched copy into a matched row is matched, though the columns may come from
different writers. For the reports it carries the reason each chain and each
committed approval has.
`ReleasedOnce` and `SittingImplementsPolicy` (the refinement of `ReleasePolicy`,
step by step) are stated for `OneAtATime`: one completion and one request at a time,
while chains, their deaths, approvals and flags are still any number. That is the
situation of `session_once`; without it the run `session_hold` shows that the results
can go out past the hold. Under it a sitting passes through five phases
(`Opening`, `Closing`, `Judging`, `Holding`, `Cleared`), and in each the copy of a
handler is still what the row holds, so that its write is the whole write
(`FlushFresh`).

**QuestionCacheProofs.** `CacheTypeCorrect`, `QuestionsServedOnce`,
`OneGeneratorAtATime`; the last two for a learner with one page (`OnePage`), with any
number of background tasks, questions, crashes, failures and reloads. Every writer
writes both caches back from a copy. `SInv` says why an old copy cannot bring a
question back that was served: a question that can still be taken from a cache, or
from a copy that a task may still write, is not among those served (`Unserved`), and
while the learner is at the first tool nothing knows of the second
(`LaterToolIdle`). `GInv` ties the work to what is announced: whoever is at work is
for the tool the page is at, the cache says "generating", the copy of a start that
is about to decide says so too (`WorkAnnounced`), and there is only one
(`OneAtWork`).

**ProctoringProofs.** `ProctoringTypeCorrect`, `FlagsAreEarned`, `FlagsLock`
(together `FlagsAlwaysSound`), `InsertsOutsideCooldown`, `VerifiedStaysVerified`
(together `RecordsAlwaysOrderly`), for any policy, one that enables the types of the
face match included: then a client's report of a failed identity revokes a match, and
the theorem says that nothing else does. A flag is earned because a
request that decided on it holds enough events of its own and of those committed
when it looked, and the committed count never falls. For requests that do not
overlap, the invariant says that at most one is in flight and what its
decision was based on is still so. The cooldown may pass between the check and the
insert, never begin; that a type of a match inside its cooldown has been committed
(`MatchIsKnown`) keeps the verdict out of it.

Of the page in `CameraWatch`, the same module has `WatchImplements`,
`WatchedRecordsSound`, `WatchTypeCorrect`, `AbsenceAlwaysUnbroken`. Every step of the page is a step of `Proctoring` or a
stutter, so the theorems above hold of the handlers as the page drives them. For the
absence the invariant `Ordered` says that, until the page gives up a request, the
frame in analysis is the one the page waits for, the only one, and later than every
frame an absence or a sighting rests on; a capture (`CapturesOrdered`) and the end of
an analysis (`LooksOrdered`) keep that, and all other steps only take requests out
of analysis (`StillOrdered`).

**CodeLoopProofs.** `CodeLoopTypeCorrect`, `PositionsAlwaysInBudget`,
`GradesAlwaysHaveCards` (together `GradesAlwaysSound`). The difficulty is that pages and requests go by contracts
computed long ago. `Reach(o, A, i)` says that position `i` has everything before it
graded and room in the budget; every position a page, a request or a contract holds
has it, and keeps it, because grades are never taken back. The next index is the
least number above all rows (`NextIndexIsLeast`), so a contract that does not stop
has it (`ContractReaches`), and a grade at such a position keeps the grades an
interval (`ShapeIsInterval`). Cards follow the submission's number through the three
commits. The assumption is that the budget is positive (the blueprint's schema
demands 1 to 10).
`AlwaysGradedOnce` and `AlwaysAskedFresh` hold until two requests were in flight
together, as the properties say (`overlapped`). `Alone` describes the one request
there may be by its phase (`AloneOK`): until its commit no grade is for its answer,
and a contract it holds is the one the rows ask for now.

**VoiceSessionProofs.** `VoiceTypeCorrect`, `VoiceGradedWhole`,
`VoiceAnswersGraded`,
`VoiceCardsHaveEvidence` (together `VoiceOnRecord`). What the page was told must be
carried to the moment the transcript is read: `ToldOver` says that the stream is
over and stays so, `Fresh` that no new recording can begin on a voice session that
is processed. `GradeThere` puts the grade before every later step of the
processing, and `PageJob` ties the page that waits to the job it waits for. That
stored speech is never taken away (`GradeableGrows`) carries the evidence of a card
over later chunks.

**EvidenceProofs.** `EvidenceTypeCorrect`, `TestsAlwaysWeigh`, `EvidenceCommitted`,
`EvidenceAlwaysSupported`, `ReportsComplete`, `ReportAlwaysSound`, `JudgeAlwaysKept`,
`DifficultyAlwaysEarned`. The arithmetic comes first: `RoundHalf`, `RoundTwentieth`, `RoundShare` bound the rounding, from which
`BlendWeighs` and the ranges follow, and `DifficultyMonotone` orders the coding
difficulty by the average. The invariant describes each answer by its phase (`Kept`:
which of grade, card and vector exist then, per tool) and each upgrade by the grade
it has loaded; `Closed` says that once the session is completed without open answers
no processing is left, so nothing is written behind the report. It needs that
`Engaged` is among the dimensions, that the opinions lie in the schema's range and
that the configured difficulties exist (`EvidenceAssumption`).
That a row is supported by its cards (`EvidenceAlwaysSupported`) is a statement about
the cards it was computed from (`from`), for later answers add cards behind it, and
after a reload earlier ones do. `SInv` says that every such card is still there with
the signals it had: an upgrade rewrites only its text, and a card that is added has an
identity of its own (`CardsTell`: an answer that has not been remembered in this try
has no card of it). How many cards a tool has is left open, so the share may round up:
`RoundShareOfTen` shows that ten of ten is given from nineteen in twenty on, and
nothing without a card that signals.
The means of the report are folds over finite sets. What a fold computes is proved
from the least size of a set that would refute the claim (`LeastNat`, from the
library's well-foundedness of the naturals): that the recursion is defined at all
(`SumsDefined`), that a sum of n numbers lies between n times the least and n times
the greatest (`SumsWithin`), hence the rounded mean between the least and the
greatest (`MeanWithin`), for dimensions over rows and for the whole over dimensions.

**AdmissionProofs.** `AdmissionTypeCorrect`, `OnlyAdmittedServed`,
`CompletionAlwaysEarned`, `PlansKeepClosed`. `Attempted` says how far the chain of
calls of each session has come and that the tab does not hold it yet; only the last
call hands it over, and what the tab asks for it holds (`Addressed`). `Earned` traces
every completion, and the flag of the store, to a sitting of the tab that has no
tool left.

Each inductive invariant was checked by TLC before it was proved.

**Only model-checked**: the liveness properties `EventuallyComplete`,
`CompletionIsReported`, `NeverStranded`, `CodingSettles`, `StreamsFinalized`,
`VoiceEnds` and `EventuallyAdmitted`, for fairness and `ENABLED` are out of the
prover's reach. Every other property of a run that passes is a theorem, for
`ServedOnce` and `OneGenerator` with one page, for `ReleasableOnce` and
`ReleasesByPolicy` with one request at a time, which are also what their runs check.
The runs that find a violation stay with TLC as well.

## 6. Abstractions

- One server process, as deployed (one uvicorn worker); asyncio mode of the caches;
  `CELERY_PIPELINES` off and `CODE_ASYNC_GRADING` on, the defaults.
- PostgreSQL at READ COMMITTED, `expire_on_commit` off, an identity map per request:
  a handler that has loaded a row never sees it change.
- `Examiner`: the counts lie in the range of the schema, for a blueprint outside of it
  is not valid and every turn is refused.
- The gate of proctoring is open in `QuestionCache` and `CodeLoop`; its state is in
  `Proctoring`. The rows of other tools are fixed at the start of a coding sitting:
  the examiner serves one tool at a time.
- `Proctoring`: the cooldown is positive and passes at any time; its clocks and
  the resolution of the policy from JSON are left out; the threshold is fixed. A
  camera frame yields any subset of types. Single report, batch and audio are one action. Start and completion of the
  session are one step each, for their races are in `SessionLifecycle`.
- `CameraWatch`: the page has the learner's consent; the reference image, the size
  of frames and the measurement of sound are left out, a sound level is a report.
  The policy is asked for once and not again after a failure. Frames are captured
  after the track has ended, as the interval goes on. A frame is empty or not: an
  obstructed one counts as not empty, as in the code. The server restarts when it
  has no request; one that is cut off is `Fails` before. The poll of the integrity
  summary changes only the badge.
- `CodeLoop`: practice runs, scores, rubric contents and the language are left out.
  The budget is a constant, where the code reads the count of the assessment's live
  blueprint (`features/code/adaptation.py:99,121-127`): a PATCH that changes it during
  a coding sitting is left out. So is a session that was completed meanwhile, at which
  the contract stops as well (lines 194-197, 227): it tells only a submit that was in
  flight at the completion, for the gate refuses every later one.
- Questions, challenges and submissions are numbers; what they say is left out.
- `VoiceSession`: a chunk has text or not; whether an answer with text is flagged
  (length, average confidence) is left open. A chunk's index and finality, the
  skill row of the analysis, the difficulty and the text of the next question are
  left out. The creation of a voice session and its reply are one step, or the reply
  is lost. A disturbance of the page that the user causes is a reload.
- Sign-in, the CV and the time limit of a sitting are left out of
  `SessionLifecycle` and are in `Admission`; the token's expiry is in the former.
- `Evidence`: the next answer comes when the processing of the last one is over, for the
  page waits for the reply, or for the next question, which a pipeline generates
  last; the voice tool after a reload is the exception (`left`), as its index lives in
  the page only. A voice answer that is left in processing counts as a trouble, like a
  failure. Completion, rubric upgrades, judge and report overlap with it. What a
  language model gives is validated to [0, 1] before it is used, so a score outside
  is a failure. A sandbox that cannot be reached is committed as a score of zero. The
  upgrade of a rubric rewrites the text of the card and leaves its vector and the
  rows as they are. A coding session that does not start at beginner may fall to an
  easier question as the average rises over a threshold; `EarnedStep` is stated for a
  beginner's start. Dimensions, signals and opinions are small sets.
- `Admission`: an examiner's turn is the number of tools left, by the counts; a
  `total_questions` below their sum, which completes a sitting earlier
  (`agent/graph.py:119-121`), is `Examiner`'s. The answer of a
  planner is not compared with the enabled tools, as in the code; a sitting whose
  blueprint is not valid is refused at every turn; a PATCH comes from the API. The
  deadline passes at any time and closes the gate; it completes nothing. `POST
  /complete` asks for neither status nor turns, as in the code. Sessions left pending
  by failed attempts stay. Late replies of a turn of another sitting are left out.

## 7. Not modelled, and plan

In the order of what matters most next:

1. The Celery dispatch of pipelines (`CELERY_PIPELINES` on): tasks that are
   delivered again, beside the asyncio path of `QuestionCache`.
2. `Proctoring` with the clocks of the database and the process: an event dated
   before its insertion.
3. Retrieval of memory cards for a prompt; practice runs of the coding tool; the
   countdown of a single question, which restarts in full when it resumes.

Runs of one module with the same constants are merged, so that each run asks one
set of questions of one instance.

Left out for good: wiring of the framework, the database and external services
(`core/`, `main.py`), stateless language model calls (adaptation agent, contract
extractor), the offline evaluation harness, migrations, deployment files, generated
and vendored code, styling and layout of the page.
