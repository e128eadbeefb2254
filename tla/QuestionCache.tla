--------------------------- MODULE QuestionCache ---------------------------
(***************************************************************************)
(* How MCQ and diagram questions reach the learner.                        *)
(*                                                                         *)
(* Questions are written by a language model in background pipelines       *)
(* (features/{mcq,diagram}/background_pipeline.py), far too slowly for a    *)
(* request.  A pipeline leaves its question in a one-place cache per tool,  *)
(* and the page polls the cache until it can consume the question.  Both   *)
(* caches live in one JSON column of the session row, the learner profile:  *)
(* whoever changes a cache writes the whole profile back from the copy he   *)
(* loaded, and a pipeline's copy is as old as the pipeline.                *)
(*                                                                         *)
(* The pipelines are asyncio tasks of the one server process, deduplicated  *)
(* by a key; a crash loses them, and a start that finds a generation older  *)
(* than 90 seconds schedules another one.                                  *)
(***************************************************************************)
EXTENDS Integers, FiniteSets

CONSTANTS
  Pages,         \* browser tabs of the learner
  Workers,       \* slots for background tasks
  Tools,         \* the tools of the blueprint that use the cache
  Budget,        \* questions per tool
  MaxFaults,     \* bound: failed generations, crashes of the process
  MaxReloads,    \* bound: reloads of a page that has not failed
  MaxDelays      \* bound: how often work is slower than the code reckons with

VARIABLES
  profile,       \* the caches in the learner profile
  page,          \* what each page shows, and its request in flight
  worker,        \* background tasks
  keys,          \* _running_keys: the keys of the running tasks
  made,          \* questions generated so far; question n is the n-th
  served,        \* history: how often each question was served
  answered, processed,  \* history: answers given, answers whose deferred work ran
  faults, reloads, delays

history  == <<made, served, answered, processed>>
counters == <<faults, reloads, delays>>
vars     == <<profile, page, worker, keys, history, counters>>

ASSUME CacheAssumption ==
  /\ Tools \subseteq {"mcq", "diagram"}
  /\ "mcq" \in Tools \/ "diagram" \in Tools
  /\ Budget \in Nat \ {0}
  /\ MaxFaults \in Nat /\ MaxReloads \in Nat /\ MaxDelays \in Nat

-----------------------------------------------------------------------------
(* One tool's cache: for_index, the question, and whether started_at is    *)
(* more than 90 seconds ago.  Question 0 is no question.                   *)

Index == 0 .. Budget - 1

Cache == [ status : {"idle", "generating", "ready", "failed"},
           index : Index, question : Nat, stale : BOOLEAN ]

Idle          == [status |-> "idle", index |-> 0, question |-> 0, stale |-> FALSE]
Generating(i) == [Idle EXCEPT !.status = "generating", !.index = i]
Ready(i, n)   == [Idle EXCEPT !.status = "ready", !.index = i, !.question = n]
Failed(i)     == [Idle EXCEPT !.status = "failed", !.index = i]

\* Wrong variant: a generation in progress is never started again.
ShouldScheduleOnce(c) == c.status \in {"idle", "failed"}

\* Wrong variant: a generation in progress does not count as one.
ShouldScheduleAnew(c) == c.status \in {"idle", "failed", "generating"}

ShouldSchedule(c) ==
  \/ c.status \in {"idle", "failed"}
  \/ c.status = "generating" /\ c.stale

\* Wrong variant: one question too many.
IsLastLate(i) == i >= Budget

\* is_complete: the answer at index i is the tool's last.
IsLast(i) == i + 1 >= Budget

IsStale(c) == c.status = "generating" /\ c.stale

\* Wrong variant: consuming leaves the question in the cache.
ConsumedNot(c) == c

\* consume_mcq_ready: the cache after its question was taken.
Consumed(c) == Idle

FirstTool == IF "mcq" \in Tools THEN "mcq" ELSE "diagram"

NoTask == [stage |-> "free", kind |-> "start", tool |-> FirstTool, index |-> 0,
           copy |-> [t \in Tools |-> Idle]]

NewPage == [phase |-> "blank", tool |-> FirstTool, index |-> 0, shown |-> Idle,
            copy |-> [t \in Tools |-> Idle]]

Init ==
  /\ profile = [t \in Tools |-> Idle]
  /\ page = [p \in Pages |-> NewPage]
  /\ worker = [w \in Workers |-> NoTask]
  /\ keys = {}
  /\ made = 0 /\ served = [n \in {} |-> 0]
  /\ answered = {} /\ processed = {}
  /\ faults = 0 /\ reloads = 0 /\ delays = 0

\* The tasks at work for a tool, from scheduling to their last write.
Busy(t) == {w \in Workers : /\ worker[w].tool = t
                            /\ worker[w].stage \in {"queued", "running", "generating"}}

\* A task starts at the next turn of the event loop: before any timeout, and
\* before the learner does anything.
AllStarted == \A w \in Workers : worker[w].stage # "queued"

\* schedule_background: a task is dropped when one with its key is running,
\* unless it is forced.
Dispatch(kind, t, i, force) ==
  IF <<kind, t>> \in keys /\ ~force
    THEN /\ delays < MaxDelays
         /\ delays' = delays + 1
         /\ UNCHANGED worker
    ELSE /\ \E w \in Workers :
              /\ worker[w].stage = "free"
              /\ worker' = [worker EXCEPT
                   ![w] = [NoTask EXCEPT !.stage = "queued", !.kind = kind,
                                         !.tool = t, !.index = i]]
         /\ UNCHANGED delays

-----------------------------------------------------------------------------
(* The page and the handlers it calls.  A handler loads the profile, awaits *)
(* other queries, and decides on its copy.                                 *)

Sends(p, from, to) ==
  /\ page[p].phase = from
  /\ page' = [page EXCEPT ![p].phase = to, ![p].copy = profile]

\* The handler takes the question out of its copy; the page shows it.
Serves(p) ==
  LET t == page[p].tool
      c == page[p].copy[t]
  IN  /\ c.status = "ready"
      /\ profile' = [page[p].copy EXCEPT ![t] = Consumed(c)]
      /\ page' = [page EXCEPT ![p].phase = "showing", ![p].shown = c]
      /\ served' = [served EXCEPT ![c.question] = @ + 1]
      /\ UNCHANGED <<worker, keys, made, answered, processed, counters>>

Start(p) ==
  /\ Sends(p, "blank", "starting")
  /\ UNCHANGED <<profile, worker, keys, history, counters>>

StartServes(p) == page[p].phase = "starting" /\ Serves(p)

\* Nothing to serve: a generation is scheduled unless one is in progress, and
\* the page polls.
StartGenerates(p) ==
  LET t == page[p].tool
      c == page[p].copy[t]
  IN  /\ page[p].phase = "starting"
      /\ c.status # "ready"
      /\ IF ShouldSchedule(c)
           THEN /\ profile' = [page[p].copy EXCEPT ![t] = Generating(0)]
                /\ Dispatch("start", t, 0, IsStale(c))
           ELSE UNCHANGED <<profile, worker, delays>>
      /\ page' = [page EXCEPT ![p].phase = "polling"]
      /\ UNCHANGED <<keys, history, faults, reloads>>

\* A poll that will find something; one that finds nothing changes nothing.
Poll(p) ==
  /\ profile[page[p].tool].status \in {"ready", "failed"}
  /\ Sends(p, "polling", "reading")
  /\ UNCHANGED <<profile, worker, keys, history, counters>>

PollServes(p) == page[p].phase = "reading" /\ Serves(p)

PollFails(p) ==
  /\ page[p].phase = "reading"
  /\ page[p].copy[page[p].tool].status = "failed"
  /\ page' = [page EXCEPT ![p].phase = "failed"]
  /\ UNCHANGED <<profile, worker, keys, history, counters>>

\* After 180 polls the page shows an error.
GiveUp(p) ==
  /\ page[p].phase = "polling"
  /\ profile[page[p].tool].status \in {"idle", "generating"}
  /\ AllStarted
  /\ delays' = IF Busy(page[p].tool) = {} THEN delays ELSE delays + 1
  /\ delays' <= MaxDelays
  /\ page' = [page EXCEPT ![p].phase = "failed"]
  /\ UNCHANGED <<profile, worker, keys, history, faults, reloads>>

\* The learner answers: the response is stored (an MCQ response is graded
\* as well), and the handler goes on with the profile it has loaded.
Answer(p) ==
  /\ AllStarted
  /\ Sends(p, "showing", "answering")
  /\ answered' = answered \cup {<<page[p].tool, page[p].index>>}
  /\ UNCHANGED <<profile, worker, keys, made, served, processed, counters>>

\* The last answer: nothing is scheduled.
AnswerEnds(p) ==
  /\ page[p].phase = "answering"
  /\ IsLast(page[p].index)
  /\ page' = [page EXCEPT ![p].phase = "done"]
  /\ UNCHANGED <<profile, worker, keys, history, counters>>

\* Any other answer: the next question is announced and scheduled.
AnswerGenerates(p) ==
  LET t == page[p].tool
      i == page[p].index + 1
  IN  /\ page[p].phase = "answering"
      /\ ~IsLast(page[p].index)
      /\ profile' = [page[p].copy EXCEPT ![t] = Generating(i)]
      /\ Dispatch("post", t, i, FALSE)
      /\ page' = [page EXCEPT ![p].phase = "polling", ![p].index = i]
      /\ UNCHANGED <<keys, history, faults, reloads>>

\* The examiner moves on to the next tool.
MoveOn(p) ==
  /\ page[p].phase = "done" /\ page[p].tool = "mcq" /\ "diagram" \in Tools
  /\ page' = [page EXCEPT ![p] = [NewPage EXCEPT !.tool = "diagram"]]
  /\ UNCHANGED <<profile, worker, keys, history, counters>>

\* The tool starts over with its first index; a page that shows an error can
\* do nothing else.
Reload(p) ==
  /\ page[p].phase \in {"polling", "showing", "failed"}
  /\ AllStarted
  /\ reloads' = IF page[p].phase = "failed" THEN reloads ELSE reloads + 1
  /\ reloads' <= MaxReloads
  /\ page' = [page EXCEPT ![p] = [NewPage EXCEPT !.tool = page[p].tool]]
  /\ UNCHANGED <<profile, worker, keys, history, faults, delays>>

-----------------------------------------------------------------------------
(* The pipelines.                                                          *)

Runs(w) ==
  /\ worker[w].stage = "queued"
  /\ worker' = [worker EXCEPT ![w].stage = "running", ![w].copy = profile]
  /\ keys' = keys \cup {<<worker[w].kind, worker[w].tool>>}
  /\ UNCHANGED <<profile, page, history, counters>>

\* After an answer its deferred work comes first: memory and analysis, and for
\* a diagram the grading.
Processes(w) ==
  LET t == worker[w].tool
      i == worker[w].index
      marked == [worker[w].copy EXCEPT ![t] = Generating(i)]
  IN  /\ worker[w].stage = "running" /\ worker[w].kind = "post"
      /\ profile' = marked
      /\ worker' = [worker EXCEPT ![w].stage = "generating", ![w].copy = marked]
      /\ processed' = processed \cup {<<t, i - 1>>}
      /\ UNCHANGED <<page, keys, made, served, answered, counters>>

\* generate_and_store_next_mcq: each answer of the model that can be used is
\* stored as a question of its own.
Creates ==
  /\ made' = made + 1
  /\ served' = [n \in 1 .. made + 1 |-> IF n > made THEN 0 ELSE served[n]]

Generates(w) ==
  LET t == worker[w].tool IN
  /\ worker[w].stage = IF worker[w].kind = "post" THEN "generating" ELSE "running"
  /\ Creates
  /\ profile' = [worker[w].copy EXCEPT ![t] = Ready(worker[w].index, made + 1)]
  /\ worker' = [worker EXCEPT ![w].stage = "written"]
  /\ UNCHANGED <<page, keys, answered, processed, counters>>

\* The model fails, is too slow, or its answer is no question.
Unusable ==
  /\ faults < MaxFaults
  /\ faults' = faults + 1

\* The failure is noted on a fresh copy.
Fails(w) ==
  LET t == worker[w].tool IN
  /\ worker[w].stage \in {"running", "generating"}
  /\ Unusable
  /\ profile' = [profile EXCEPT ![t] = Failed(worker[w].index)]
  /\ worker' = [worker EXCEPT ![w].stage = "written"]
  /\ UNCHANGED <<page, keys, history, reloads, delays>>

Finishes(w) ==
  /\ worker[w].stage = "written"
  /\ worker' = [worker EXCEPT ![w] = NoTask]
  /\ keys' = keys \ {<<worker[w].kind, worker[w].tool>>}
  /\ UNCHANGED <<profile, page, history, counters>>

-----------------------------------------------------------------------------
(* Time and failure.                                                       *)

\* 90 seconds have passed since started_at.
Age(t) ==
  /\ profile[t].status = "generating" /\ ~profile[t].stale
  /\ AllStarted
  /\ delays' = IF Busy(t) = {} THEN delays ELSE delays + 1
  /\ delays' <= MaxDelays
  /\ profile' = [profile EXCEPT ![t].stale = TRUE]
  /\ UNCHANGED <<page, worker, keys, history, faults, reloads>>

\* The process restarts: its tasks are gone, its requests fail.
Crash ==
  /\ faults < MaxFaults
  /\ faults' = faults + 1
  /\ worker' = [w \in Workers |-> NoTask]
  /\ keys' = {}
  /\ page' = [p \in Pages |->
       IF page[p].phase \in {"starting", "reading", "answering"}
         THEN [page[p] EXCEPT !.phase = "failed"] ELSE page[p]]
  /\ UNCHANGED <<profile, history, reloads, delays>>

PageStep(p) ==
  \/ Start(p) \/ StartServes(p) \/ StartGenerates(p)
  \/ Poll(p) \/ PollServes(p) \/ PollFails(p) \/ GiveUp(p)
  \/ Answer(p) \/ AnswerEnds(p) \/ AnswerGenerates(p) \/ MoveOn(p)

WorkerStep(w) ==
  Runs(w) \/ Processes(w) \/ Generates(w) \/ Fails(w) \/ Finishes(w)

Next ==
  \/ \E p \in Pages : PageStep(p) \/ Reload(p)
  \/ \E w \in Workers : WorkerStep(w)
  \/ \E t \in Tools : Age(t)
  \/ Crash

Spec == Init /\ [][Next]_vars

(* The page runs and its learner answers, and reloads a page that failed;   *)
(* tasks run; time passes.                                                 *)
Fairness ==
  /\ \A p \in Pages : WF_vars(PageStep(p))
  /\ \A p \in Pages : WF_vars(page[p].phase = "failed" /\ Reload(p))
  /\ \A w \in Workers : WF_vars(WorkerStep(w))
  /\ \A t \in Tools : WF_vars(Age(t))

FairSpec == Spec /\ Fairness

-----------------------------------------------------------------------------
(* Properties.                                                             *)

Profile == [Tools -> Cache]

Task == [ stage : {"free", "queued", "running", "generating", "written"},
          kind : {"start", "post"}, tool : Tools, index : Index, copy : Profile ]

Page == [ phase : {"blank", "starting", "polling", "reading", "showing",
                   "answering", "failed", "done"},
          tool : Tools, index : Index, shown : Cache, copy : Profile ]

TypeOK ==
  /\ profile \in Profile
  /\ page \in [Pages -> Page]
  /\ worker \in [Workers -> Task]
  /\ keys \subseteq {"start", "post"} \X Tools
  /\ made \in Nat /\ served \in [1 .. made -> Nat]
  /\ answered \subseteq Tools \X Index /\ processed \subseteq Tools \X Index
  /\ faults \in Nat /\ reloads \in Nat /\ delays \in Nat

\* A learner with one page never sees a question twice, whatever crashes, is
\* slow or is reloaded (consume_mcq_ready, consume_diagram_ready).
ServedOnce == \A n \in 1 .. made : served[n] <= 1

\* As long as nothing is slower than the code reckons with, one question is not
\* generated by two pipelines at a time, also after a crash or a failure: a
\* start while a generation is in progress schedules none ("should not
\* reschedule fresh generating", generation_should_schedule).
OneGenerator == delays = 0 => \A t \in Tools : Cardinality(Busy(t)) <= 1

\* Failures, crashes, delays and lost updates do not strand the learner: a
\* page gets to the end of its last tool.
NeverStranded ==
  \A p \in Pages : <>(page[p].phase = "done" /\ (page[p].tool = "mcq" => "diagram" \notin Tools))

\* Every answer gets its deferred work: an MCQ answer "memory/analysis run in
\* background" (run_mcq_loop_fast), a diagram answer is graded.
AnswersAreProcessed ==
  \A a \in Tools \X Index : a \in answered ~> a \in processed

=============================================================================
