------------------------ MODULE QuestionCacheProofs ------------------------
(* What the question cache guarantees for every set of background workers,  *)
(* every budget and any number of crashes, failures, delays and reloads.    *)
EXTENDS QuestionCache, FiniteSetTheorems, TLAPS

(* A learner who has the sitting open in one page.                         *)
OnePage == \E p \in Pages : \A q \in Pages : q = p

-----------------------------------------------------------------------------
(* The parts of the inductive invariants.                                  *)

\* A task that follows an answer knows which: its index is the next one.
Follows == \A w \in Workers :
  worker[w].kind = "post" /\ worker[w].stage \in {"queued", "running"}
    => worker[w].index > 0

TInv == TypeOK /\ Follows

\* A question that can still be taken out of a cache was not served yet.
Unserved(c) ==
  c.status = "ready" => c.question \in 1 .. made /\ served[c.question] = 0

FreshForPage == \A p \in Pages :
  /\ Unserved(profile[page[p].tool])
  /\ page[p].phase \in {"starting", "reading"} => Unserved(page[p].copy[page[p].tool])

\* Nothing has touched the cache of the later tool while the learner is at the
\* first one, nor do the copies of the first one's tasks know of it.
LaterToolIdle ==
  "diagram" \in Tools =>
    /\ \A p \in Pages : page[p].tool = "mcq" =>
         /\ profile["diagram"] = Idle
         /\ page[p].copy["diagram"] = Idle
         /\ \A w \in Workers : worker[w].tool = "mcq"
    /\ \A w \in Workers : worker[w].tool = "mcq" => worker[w].copy["diagram"] = Idle

\* A task has loaded its copy before the learner is through with the tool.
QueuedInTime == \A p \in Pages, w \in Workers :
  worker[w].stage = "queued" =>
    /\ worker[w].tool = page[p].tool
    /\ page[p].phase \notin {"answering", "done"}

SInv == /\ OnePage /\ TInv /\ ServedOnce
        /\ FreshForPage /\ LaterToolIdle /\ QueuedInTime

\* While nothing is slower than the code reckons with, a task at work is for
\* the tool the page is at, its cache says so, and so does the copy of a start
\* that is about to decide.
AtWork(w) == worker[w].stage \in {"queued", "running", "generating"}

Announced(c) == c.status = "generating" /\ ~c.stale

WorkAnnounced == \A w \in Workers, p \in Pages : AtWork(w) =>
  /\ worker[w].tool = page[p].tool
  /\ Announced(profile[page[p].tool])
  /\ page[p].phase \in {"blank", "starting", "polling"}
  /\ page[p].phase = "starting" => Announced(page[p].copy[page[p].tool])

OneAtWork == \A v, w \in Workers : AtWork(v) /\ AtWork(w) => v = w

GInv == /\ OnePage /\ TInv
        /\ delays = 0 => WorkAnnounced /\ OneAtWork

-----------------------------------------------------------------------------
(* Types.                                                                  *)

(* The caches and messages the operations build have their types.          *)
LEMMA CacheTypes ==
  /\ FirstTool \in Tools /\ Budget \in Nat \ {0} /\ 0 \in Index
  /\ Idle \in Cache /\ NoTask \in Task /\ NewPage \in Page
  /\ \A i \in Index : Generating(i) \in Cache /\ Failed(i) \in Cache
  /\ \A i \in Index, n \in Nat : Ready(i, n) \in Cache
<1>1. FirstTool \in Tools /\ Budget \in Nat \ {0} /\ 0 \in Index
  BY CacheAssumption DEF FirstTool, Index
<1>2. Idle \in Cache
  BY <1>1 DEF Idle, Cache
<1>3. \A i \in Index : Generating(i) \in Cache /\ Failed(i) \in Cache
  BY <1>2 DEF Generating, Failed, Idle, Cache
<1>4. \A i \in Index, n \in Nat : Ready(i, n) \in Cache
  BY <1>2 DEF Ready, Idle, Cache
<1>5. [t \in Tools |-> Idle] \in Profile
  BY <1>2 DEF Profile
<1>6. NoTask \in Task
  BY <1>1, <1>5 DEF NoTask, Task
<1>7. NewPage \in Page
  BY <1>1, <1>2, <1>5 DEF NewPage, Page
<1> QED
  BY <1>1, <1>2, <1>3, <1>4, <1>6, <1>7

(* Scheduling fills a free slot with a task of the right type, or counts a  *)
(* delay; an answer's task has a positive index.                           *)
LEMMA DispatchTypes ==
  ASSUME TInv, NEW kind \in {"start", "post"}, NEW t \in Tools, NEW i \in Index,
         NEW force \in BOOLEAN, Dispatch(kind, t, i, force),
         kind = "post" => i > 0
  PROVE  worker' \in [Workers -> Task] /\ delays' \in Nat /\ Follows'
<1>1. worker \in [Workers -> Task] /\ delays \in Nat /\ NoTask \in Task
  BY CacheTypes DEF TInv, TypeOK
<1>2. CASE UNCHANGED worker /\ delays' \in Nat
  BY <1>1, <1>2 DEF TInv, Follows
<1>3. ASSUME NEW w \in Workers, UNCHANGED delays,
             worker' = [worker EXCEPT
               ![w] = [NoTask EXCEPT !.stage = "queued", !.kind = kind,
                                     !.tool = t, !.index = i]]
      PROVE  worker' \in [Workers -> Task] /\ delays' \in Nat /\ Follows'
  <2> DEFINE new == [NoTask EXCEPT !.stage = "queued", !.kind = kind,
                                   !.tool = t, !.index = i]
  <2>1. new \in Task
    BY <1>1 DEF Task
  <2>2. new.kind = kind /\ new.index = i
    BY <1>1 DEF Task
  <2> HIDE DEF new
  <2>3. worker' = [worker EXCEPT ![w] = new]
    BY <1>3 DEF new
  <2> QED
    BY <1>1, <1>3, <2>1, <2>2, <2>3 DEF TInv, Follows
<1> QED
  <2>1. delays + 1 \in Nat
    BY <1>1
  <2> QED
    BY <1>2, <1>3, <1>1, <2>1 DEF Dispatch

LEMMA InitTInv == Init => TInv
<1> SUFFICES ASSUME Init PROVE TInv
  OBVIOUS
<1>1. TypeOK
  BY CacheTypes DEF Init, TypeOK, Profile
<1>2. Follows
  BY DEF Init, Follows, NoTask
<1> QED
  BY <1>1, <1>2 DEF TInv

(* What the page does keeps the types.                                     *)
LEMMA PageTypes ==
  ASSUME TInv, NEW p \in Pages, PageStep(p) \/ Reload(p)
  PROVE  TInv'
<1> USE DEF TInv
<1> DEFINE t == page[p].tool
<1>1. /\ profile \in Profile /\ page \in [Pages -> Page] /\ worker \in [Workers -> Task]
      /\ page[p] \in Page /\ t \in Tools /\ page[p].copy \in Profile
      /\ page[p].copy[t] \in Cache /\ page[p].index \in Index
      /\ made \in Nat /\ served \in [1 .. made -> Nat]
      /\ answered \subseteq Tools \X Index
      /\ faults \in Nat /\ reloads \in Nat /\ delays \in Nat
  BY DEF TypeOK, Page, Profile
<1>2. ASSUME NEW from, NEW to \in {"starting", "reading", "answering"}, Sends(p, from, to)
      PROVE  page' \in [Pages -> Page]
  BY <1>1, <1>2 DEF Sends, Page
<1>3. CASE Start(p) \/ Poll(p)
  <2>1. page' \in [Pages -> Page]
    BY <1>2, <1>3 DEF Start, Poll
  <2> QED
    BY <1>3, <2>1 DEF Start, Poll, TypeOK, Follows, history, counters
<1>4. CASE Serves(p)
  <2>1. profile' \in Profile
    BY <1>1, <1>4, CacheTypes DEF Serves, Consumed, Profile
  <2>2. page' \in [Pages -> Page]
    BY <1>1, <1>4 DEF Serves, Page
  <2> DEFINE n == page[p].copy[t].question
  <2>3. served' = [served EXCEPT ![n] = @ + 1]
    BY <1>4 DEF Serves
  <2> HIDE DEF n
  <2>4. served' \in [1 .. made -> Nat]
    <3>1. served' = [k \in 1 .. made |-> IF k = n THEN served[k] + 1 ELSE served[k]]
      BY <1>1, <2>3, Zenon
    <3> QED
      BY <1>1, <3>1
  <2> QED
    BY <1>1, <1>4, <2>1, <2>2, <2>4 DEF Serves, TypeOK, Follows, counters
<1>5. CASE StartGenerates(p)
  <2>1. page' \in [Pages -> Page]
    BY <1>1, <1>5 DEF StartGenerates, Page
  <2>2. IsStale(page[p].copy[t]) \in BOOLEAN
    BY <1>1 DEF IsStale, Cache
  <2>3. CASE ShouldSchedule(page[p].copy[t])
    <3>1. /\ profile' = [page[p].copy EXCEPT ![t] = Generating(0)]
          /\ Dispatch("start", t, 0, IsStale(page[p].copy[t]))
      BY <1>5, <2>3 DEF StartGenerates
    <3>2. profile' \in Profile
      BY <1>1, <3>1, CacheTypes DEF Profile
    <3>3. worker' \in [Workers -> Task] /\ delays' \in Nat /\ Follows'
      BY <1>1, <2>2, <3>1, CacheTypes, DispatchTypes
    <3> QED
      BY <1>5, <2>1, <3>2, <3>3 DEF StartGenerates, TypeOK, history
  <2>4. CASE ~ShouldSchedule(page[p].copy[t])
    BY <1>5, <2>1, <2>4 DEF StartGenerates, TypeOK, Follows, history
  <2> QED
    BY <2>3, <2>4
<1>6. CASE PollFails(p) \/ AnswerEnds(p)
  <2>1. \E to \in {"failed", "done"} : page' = [page EXCEPT ![p].phase = to]
    BY <1>6 DEF PollFails, AnswerEnds
  <2>2. page' \in [Pages -> Page]
    BY <1>1, <2>1 DEF Page
  <2> QED
    BY <1>6, <2>2 DEF PollFails, AnswerEnds, TypeOK, Follows, history, counters
<1>7. CASE GiveUp(p)
  <2>1. page' \in [Pages -> Page]
    BY <1>1, <1>7 DEF GiveUp, Page
  <2>2. delays' \in Nat
    BY <1>1, <1>7 DEF GiveUp
  <2> QED
    BY <1>7, <2>1, <2>2 DEF GiveUp, TypeOK, Follows, history
<1>8. CASE Answer(p)
  <2>1. page' \in [Pages -> Page]
    BY <1>2, <1>8 DEF Answer
  <2>2. answered' \subseteq Tools \X Index
    BY <1>1, <1>8 DEF Answer
  <2> QED
    BY <1>8, <2>1, <2>2 DEF Answer, TypeOK, Follows, counters
<1>9. CASE AnswerGenerates(p)
  <2> DEFINE i == page[p].index + 1
  <2>1. i \in Index /\ i > 0
    BY <1>1, <1>9, CacheTypes DEF AnswerGenerates, IsLast, Index
  <2>2. /\ profile' = [page[p].copy EXCEPT ![t] = Generating(i)]
        /\ Dispatch("post", t, i, FALSE)
        /\ page' = [page EXCEPT ![p].phase = "polling", ![p].index = i]
    BY <1>9 DEF AnswerGenerates
  <2> HIDE DEF i
  <2>3. profile' \in Profile
    BY <1>1, <2>1, <2>2, CacheTypes DEF Profile
  <2>4. worker' \in [Workers -> Task] /\ delays' \in Nat /\ Follows'
    BY <1>1, <2>1, <2>2, DispatchTypes
  <2>5. page' \in [Pages -> Page]
    BY <1>1, <2>1, <2>2 DEF Page
  <2> QED
    BY <1>9, <2>3, <2>4, <2>5 DEF AnswerGenerates, TypeOK, history
<1>10. CASE MoveOn(p) \/ Reload(p)
  <2>1. \E u \in Tools : page' = [page EXCEPT ![p] = [NewPage EXCEPT !.tool = u]]
    BY <1>1, <1>10 DEF MoveOn, Reload
  <2>2. \A u \in Tools : [NewPage EXCEPT !.tool = u] \in Page
    BY CacheTypes DEF Page
  <2>3. page' \in [Pages -> Page]
    BY <1>1, <2>1, <2>2
  <2>4. reloads' \in Nat /\ delays' \in Nat
    BY <1>1, <1>10 DEF MoveOn, Reload, counters
  <2> QED
    BY <1>10, <2>3, <2>4 DEF MoveOn, Reload, TypeOK, Follows, history, counters
<1> QED
  BY <1>3, <1>4, <1>5, <1>6, <1>7, <1>8, <1>9, <1>10
     DEF PageStep, StartServes, PollServes

(* What the tasks, time and failures do keeps the types.                   *)
LEMMA WorkTypes ==
  ASSUME TInv,
         \/ \E w \in Workers : WorkerStep(w)
         \/ \E t \in Tools : Age(t)
         \/ Crash
  PROVE  TInv'
<1> USE DEF TInv
<1>1. /\ profile \in Profile /\ page \in [Pages -> Page] /\ worker \in [Workers -> Task]
      /\ made \in Nat /\ served \in [1 .. made -> Nat]
      /\ keys \subseteq {"start", "post"} \X Tools
      /\ answered \subseteq Tools \X Index /\ processed \subseteq Tools \X Index
      /\ faults \in Nat /\ reloads \in Nat /\ delays \in Nat
  BY DEF TypeOK
<1>2. \A w \in Workers :
        /\ worker[w] \in Task /\ worker[w].tool \in Tools /\ worker[w].index \in Index
        /\ worker[w].kind \in {"start", "post"} /\ worker[w].copy \in Profile
  BY <1>1 DEF Task
<1>3. ASSUME NEW w \in Workers, Runs(w) PROVE TInv'
  <2>1. worker' \in [Workers -> Task]
    BY <1>1, <1>2, <1>3 DEF Runs, Task
  <2>2. keys' \subseteq {"start", "post"} \X Tools
    BY <1>1, <1>2, <1>3 DEF Runs
  <2>3. Follows'
    BY <1>1, <1>2, <1>3 DEF Runs, Follows
  <2> QED
    BY <1>3, <2>1, <2>2, <2>3 DEF Runs, TypeOK, history, counters
<1>4. ASSUME NEW w \in Workers, Processes(w) PROVE TInv'
  <2> DEFINE t == worker[w].tool
             i == worker[w].index
             marked == [worker[w].copy EXCEPT ![t] = Generating(i)]
  <2>1. marked \in Profile
    BY <1>2, CacheTypes DEF Profile
  <2>2. /\ profile' = marked
        /\ worker' = [worker EXCEPT ![w].stage = "generating", ![w].copy = marked]
        /\ processed' = processed \cup {<<t, i - 1>>}
    BY <1>4 DEF Processes
  <2>3. i > 0
    BY <1>4 DEF Processes, Follows
  <2>4. i - 1 \in Index
    BY <1>2, <2>3, CacheTypes DEF Index
  <2>5. processed' \subseteq Tools \X Index
    BY <1>1, <1>2, <2>2, <2>4
  <2> HIDE DEF marked
  <2>6. worker' \in [Workers -> Task]
    BY <1>1, <1>2, <2>1, <2>2 DEF Task
  <2>7. Follows'
    BY <1>1, <1>2, <2>2 DEF Follows
  <2> QED
    BY <1>4, <2>1, <2>2, <2>5, <2>6, <2>7 DEF Processes, TypeOK, counters
<1>5. ASSUME NEW w \in Workers, Generates(w) PROVE TInv'
  <2>1. profile' \in Profile
    <3>1. made + 1 \in Nat
      BY <1>1
    <3> QED
      BY <1>2, <1>5, <3>1, CacheTypes DEF Generates, Profile
  <2>2. worker' \in [Workers -> Task]
    BY <1>1, <1>2, <1>5 DEF Generates, Task
  <2>3. made' \in Nat /\ served' \in [1 .. made' -> Nat]
    BY <1>1, <1>5 DEF Generates, Creates
  <2>4. Follows'
    BY <1>1, <1>2, <1>5 DEF Generates, Follows
  <2> QED
    BY <1>5, <2>1, <2>2, <2>3, <2>4 DEF Generates, TypeOK, counters
<1>6. ASSUME NEW w \in Workers, Fails(w) PROVE TInv'
  <2>1. profile' \in Profile
    BY <1>1, <1>2, <1>6, CacheTypes DEF Fails, Profile
  <2>2. worker' \in [Workers -> Task]
    BY <1>1, <1>2, <1>6 DEF Fails, Task
  <2>3. Follows'
    BY <1>1, <1>2, <1>6 DEF Fails, Follows
  <2>4. faults' \in Nat
    BY <1>1, <1>6 DEF Fails, Unusable
  <2> QED
    BY <1>6, <2>1, <2>2, <2>3, <2>4 DEF Fails, TypeOK, history
<1>7. ASSUME NEW w \in Workers, Finishes(w) PROVE TInv'
  <2>1. worker' \in [Workers -> Task]
    BY <1>1, <1>7, CacheTypes DEF Finishes
  <2>2. Follows'
    BY <1>1, <1>2, <1>7 DEF Finishes, Follows, NoTask
  <2> QED
    BY <1>1, <1>7, <2>1, <2>2 DEF Finishes, TypeOK, history, counters
<1>8. ASSUME NEW t \in Tools, Age(t) PROVE TInv'
  <2>1. profile' \in Profile
    BY <1>1, <1>8 DEF Age, Profile, Cache
  <2>2. delays' \in Nat
    BY <1>1, <1>8 DEF Age
  <2> QED
    BY <1>8, <2>1, <2>2 DEF Age, TypeOK, Follows, history
<1>9. CASE Crash
  <2>1. worker' \in [Workers -> Task] /\ Follows'
    BY <1>9, CacheTypes DEF Crash, Follows, NoTask
  <2>2. page' \in [Pages -> Page]
    BY <1>1, <1>9 DEF Crash, Page
  <2>3. faults' \in Nat
    BY <1>1, <1>9 DEF Crash
  <2> QED
    BY <1>9, <2>1, <2>2, <2>3 DEF Crash, TypeOK, history
<1> QED
  BY <1>3, <1>4, <1>5, <1>6, <1>7, <1>8, <1>9 DEF WorkerStep

LEMMA NextTInv == TInv /\ [Next]_vars => TInv'
<1> SUFFICES ASSUME TInv, [Next]_vars PROVE TInv'
  OBVIOUS
<1>1. CASE UNCHANGED vars
  BY <1>1 DEF vars, history, counters, TInv, TypeOK, Follows
<1> QED
  BY <1>1, PageTypes, WorkTypes DEF Next

(* The caches, copies and messages keep their shape, and an answer's task   *)
(* its index, whatever crashes or is late.                                 *)
THEOREM CacheTypeCorrect == Spec => []TypeOK
<1>1. TInv => TypeOK
  BY DEF TInv
<1> QED
  BY InitTInv, NextTInv, <1>1, PTL DEF Spec

-----------------------------------------------------------------------------
(* No question is served twice.                                            *)

(* What is written into a cache, apart from a question.                    *)
LEMMA NoQuestion ==
  /\ Idle.status = "idle"
  /\ \A i : Generating(i).status = "generating" /\ Announced(Generating(i))
  /\ \A i : Failed(i).status = "failed"
  /\ \A i, n : Ready(i, n).status = "ready" /\ Ready(i, n).question = n
BY DEF Idle, Generating, Failed, Ready, Announced

(* Scheduling counts a delay, or puts one task for the tool into a free     *)
(* slot.                                                                   *)
LEMMA DispatchFills ==
  ASSUME TInv, NEW kind \in {"start", "post"}, NEW t \in Tools, NEW i \in Index,
         NEW force \in BOOLEAN, Dispatch(kind, t, i, force)
  PROVE  \/ UNCHANGED worker /\ delays' = delays + 1
         \/ /\ UNCHANGED delays
            /\ \E w \in Workers :
                 /\ worker'[w].stage = "queued" /\ worker'[w].tool = t
                 /\ worker'[w].copy = [u \in Tools |-> Idle]
                 /\ \A v \in Workers \ {w} : worker'[v] = worker[v]
<1> DEFINE new == [NoTask EXCEPT !.stage = "queued", !.kind = kind,
                                 !.tool = t, !.index = i]
<1>1. new.stage = "queued" /\ new.tool = t /\ new.copy = [u \in Tools |-> Idle]
  BY DEF NoTask
<1>2. worker \in [Workers -> Task]
  BY DEF TInv, TypeOK
<1>3. \/ UNCHANGED worker /\ delays' = delays + 1
      \/ UNCHANGED delays /\ \E w \in Workers : worker' = [worker EXCEPT ![w] = new]
  BY DEF Dispatch
<1> HIDE DEF new
<1> QED
  BY <1>1, <1>2, <1>3

(* A task that has been scheduled, or has gone on, is one for the tool.     *)
LEMMA DispatchKeeps ==
  ASSUME SInv, NEW p \in Pages, NEW kind \in {"start", "post"}, NEW i \in Index,
         NEW force \in BOOLEAN, Dispatch(kind, page[p].tool, i, force),
         page'[p].tool = page[p].tool, page'[p].phase = "polling",
         page'[p].copy = page[p].copy,
         profile' = [page[p].copy EXCEPT ![page[p].tool] = Generating(i)]
  PROVE  LaterToolIdle' /\ QueuedInTime'
<1> DEFINE t == page[p].tool
<1>1. /\ t \in Tools /\ Tools \subseteq {"mcq", "diagram"}
      /\ page[p].copy \in Profile /\ worker \in [Workers -> Task]
      /\ \A q \in Pages : q = p
  BY CacheAssumption DEF SInv, OnePage, TInv, TypeOK, Page
<1>2. \A w \in Workers :
        \/ worker'[w] = worker[w]
        \/ worker'[w].tool = t /\ worker'[w].copy = [u \in Tools |-> Idle]
  <2>1. TInv
    BY DEF SInv
  <2>2. Dispatch(kind, t, i, force)
    OBVIOUS
  <2> HIDE DEF t
  <2>3. \/ UNCHANGED worker /\ delays' = delays + 1
        \/ /\ UNCHANGED delays
           /\ \E w \in Workers :
                /\ worker'[w].stage = "queued" /\ worker'[w].tool = t
                /\ worker'[w].copy = [u \in Tools |-> Idle]
                /\ \A v \in Workers \ {w} : worker'[v] = worker[v]
    <3>1. t \in Tools
      BY <1>1 DEF t
    <3> QED
      BY <2>1, <2>2, <3>1, DispatchFills
  <2> QED
    BY <2>3
<1>3. t = "mcq" /\ "diagram" \in Tools =>
        /\ profile'["diagram"] = Idle /\ page'[p].copy["diagram"] = Idle
        /\ \A w \in Workers : worker[w].tool = "mcq"
  <2>1. t = "mcq" => profile'["diagram"] = page[p].copy["diagram"]
    BY <1>1 DEF Profile
  <2> QED
    BY <2>1 DEF SInv, LaterToolIdle
<1>4. LaterToolIdle'
  <2>1. "diagram" \in Tools => \A w \in Workers :
          worker'[w].tool = "mcq" => worker'[w].copy["diagram"] = Idle
    BY <1>2 DEF SInv, LaterToolIdle
  <2> QED
    BY <1>1, <1>2, <1>3, <2>1 DEF LaterToolIdle
<1>5. QueuedInTime'
  <2>1. \A w \in Workers : worker'[w].stage = "queued" => worker'[w].tool = t
    BY <1>2 DEF SInv, QueuedInTime
  <2> QED
    BY <1>1, <2>1 DEF QueuedInTime
<1> QED
  BY <1>4, <1>5

(* The steps of the page.                                                  *)
LEMMA PageServesOnce ==
  ASSUME SInv, NEW p \in Pages, PageStep(p) \/ Reload(p)
  PROVE  SInv'
<1> DEFINE t == page[p].tool
<1>1. /\ \A q \in Pages : q = p
      /\ profile \in Profile /\ page \in [Pages -> Page] /\ worker \in [Workers -> Task]
      /\ page[p] \in Page /\ t \in Tools /\ page[p].copy \in Profile
      /\ page[p].copy[t] \in Cache /\ page[p].index \in Index
      /\ Tools \subseteq {"mcq", "diagram"}
      /\ made \in Nat /\ served \in [1 .. made -> Nat]
  <2>1. \A q \in Pages : q = p
    BY DEF SInv, OnePage
  <2>2. /\ profile \in Profile /\ page \in [Pages -> Page] /\ worker \in [Workers -> Task]
        /\ made \in Nat /\ served \in [1 .. made -> Nat]
    BY DEF SInv, TInv, TypeOK
  <2>3. page[p] \in Page
    BY <2>2
  <2>4. t \in Tools /\ page[p].copy \in Profile /\ page[p].index \in Index
    BY <2>3 DEF Page
  <2>5. page[p].copy[t] \in Cache
    BY <2>4 DEF Profile
  <2> QED
    BY <2>1, <2>2, <2>3, <2>4, <2>5, CacheAssumption
<1>2. OnePage' /\ TInv'
  BY PageTypes DEF SInv, OnePage
<1> SUFFICES ServedOnce' /\ FreshForPage' /\ LaterToolIdle' /\ QueuedInTime'
  BY <1>2 DEF SInv
<1>3. CASE Start(p) \/ Poll(p) \/ Answer(p)
  <2>1. /\ \E from, to \in {"blank", "polling", "showing",
                            "starting", "reading", "answering"} : Sends(p, from, to)
        /\ UNCHANGED <<profile, worker, made, served>>
    BY <1>3 DEF Start, Poll, Answer, history
  <2>2. page'[p].tool = t /\ page'[p].copy = profile
    BY <1>1, <2>1 DEF Sends, Page
  <2>3. page'[p].phase = "answering" => AllStarted
    BY <1>1, <1>3 DEF Start, Poll, Answer, Sends, Page
  <2>4. page'[p].phase # "done"
    BY <1>1, <1>3 DEF Start, Poll, Answer, Sends, Page
  <2>5. FreshForPage'
    BY <1>1, <2>1, <2>2 DEF SInv, FreshForPage, Unserved
  <2>6. LaterToolIdle'
    BY <1>1, <2>1, <2>2 DEF SInv, LaterToolIdle
  <2>7. QueuedInTime'
    BY <1>1, <2>1, <2>2, <2>3, <2>4 DEF SInv, QueuedInTime, AllStarted
  <2> QED
    BY <2>1, <2>5, <2>6, <2>7 DEF SInv, ServedOnce
<1>4. CASE StartServes(p) \/ PollServes(p)
  <2> DEFINE c == page[p].copy[t]
             n == c.question
  <2>1. /\ Serves(p) /\ page[p].phase \in {"starting", "reading"} /\ c.status = "ready"
    BY <1>4 DEF StartServes, PollServes, Serves
  <2>2. n \in 1 .. made /\ served[n] = 0
    BY <2>1 DEF SInv, FreshForPage, Unserved
  <2>3. /\ profile' = [page[p].copy EXCEPT ![t] = Idle]
        /\ page' = [page EXCEPT ![p].phase = "showing", ![p].shown = c]
        /\ served' = [served EXCEPT ![n] = @ + 1]
        /\ UNCHANGED <<worker, made>>
    BY <2>1 DEF Serves, Consumed
  <2>4. /\ profile'[t] = Idle
        /\ \A u \in Tools : u # t => profile'[u] = page[p].copy[u]
        /\ page'[p].tool = t /\ page'[p].copy = page[p].copy
        /\ page'[p].phase = "showing"
    BY <1>1, <2>3 DEF Profile, Page
  <2>5. ServedOnce'
    <3> HIDE DEF n
    <3>1. \A m \in 1 .. made : served'[m] = IF m = n THEN 1 ELSE served[m]
      BY <1>1, <2>2, <2>3
    <3> QED
      BY <2>3, <3>1 DEF SInv, ServedOnce
  <2>6. FreshForPage'
    BY <1>1, <2>4, NoQuestion DEF FreshForPage, Unserved
  <2>7. LaterToolIdle'
    BY <1>1, <2>3, <2>4 DEF SInv, LaterToolIdle
  <2>8. QueuedInTime'
    BY <1>1, <2>3, <2>4 DEF SInv, QueuedInTime
  <2> QED
    BY <2>5, <2>6, <2>7, <2>8
<1>5. CASE StartGenerates(p)
  <2>1. /\ page'[p].tool = t /\ page'[p].copy = page[p].copy /\ page'[p].phase = "polling"
        /\ UNCHANGED <<made, served>>
    BY <1>1, <1>5 DEF StartGenerates, Page, history
  <2>2. ServedOnce'
    BY <2>1 DEF SInv, ServedOnce
  <2>3. CASE ShouldSchedule(page[p].copy[t])
    <3>1. /\ profile' = [page[p].copy EXCEPT ![t] = Generating(0)]
          /\ Dispatch("start", t, 0, IsStale(page[p].copy[t]))
      BY <1>5, <2>3 DEF StartGenerates
    <3>2. IsStale(page[p].copy[t]) \in BOOLEAN
      BY <1>1 DEF IsStale, Cache
    <3>3. LaterToolIdle' /\ QueuedInTime'
      BY <1>1, <2>1, <3>1, <3>2, CacheTypes, DispatchKeeps
    <3>4. FreshForPage'
      BY <1>1, <2>1, <3>1, NoQuestion DEF FreshForPage, Unserved, Profile
    <3> QED
      BY <2>2, <3>3, <3>4
  <2>4. CASE ~ShouldSchedule(page[p].copy[t])
    <3>1. UNCHANGED <<profile, worker>>
      BY <1>5, <2>4 DEF StartGenerates
    <3>2. FreshForPage'
      BY <1>1, <2>1, <3>1 DEF SInv, FreshForPage, Unserved
    <3>3. LaterToolIdle'
      BY <1>1, <2>1, <3>1 DEF SInv, LaterToolIdle
    <3>4. QueuedInTime'
      BY <1>1, <2>1, <3>1 DEF SInv, QueuedInTime
    <3> QED
      BY <2>2, <3>2, <3>3, <3>4
  <2> QED
    BY <2>3, <2>4
<1>6. CASE AnswerGenerates(p)
  <2> DEFINE i == page[p].index + 1
  <2>1. /\ page'[p].tool = t /\ page'[p].copy = page[p].copy /\ page'[p].phase = "polling"
        /\ UNCHANGED <<made, served>>
    BY <1>1, <1>6 DEF AnswerGenerates, Page, history
  <2>2. i \in Index
    BY <1>1, <1>6, CacheTypes DEF AnswerGenerates, IsLast, Index
  <2>3. /\ profile' = [page[p].copy EXCEPT ![t] = Generating(i)]
        /\ Dispatch("post", t, i, FALSE)
    BY <1>6 DEF AnswerGenerates
  <2> HIDE DEF i
  <2>4. LaterToolIdle' /\ QueuedInTime'
    BY <1>1, <2>1, <2>2, <2>3, DispatchKeeps
  <2>5. FreshForPage'
    BY <1>1, <2>1, <2>3, NoQuestion DEF FreshForPage, Unserved, Profile
  <2> QED
    BY <2>1, <2>4, <2>5 DEF SInv, ServedOnce
<1>7. CASE PollFails(p) \/ GiveUp(p) \/ AnswerEnds(p)
  <2>1. /\ \E to \in {"failed", "done"} : page' = [page EXCEPT ![p].phase = to]
        /\ page[p].phase # "answering" => page'[p].phase = "failed"
        /\ UNCHANGED <<profile, worker, made, served>>
    BY <1>1, <1>7 DEF PollFails, GiveUp, AnswerEnds, history, Page
  <2>2. page'[p].tool = t /\ page'[p].copy = page[p].copy /\ page'[p].phase \in {"failed", "done"}
    BY <1>1, <2>1 DEF Page
  <2>3. FreshForPage'
    BY <1>1, <2>1, <2>2 DEF SInv, FreshForPage, Unserved
  <2>4. LaterToolIdle'
    BY <1>1, <2>1, <2>2 DEF SInv, LaterToolIdle
  <2>5. QueuedInTime'
    BY <1>1, <2>1, <2>2 DEF SInv, QueuedInTime
  <2> QED
    BY <2>1, <2>3, <2>4, <2>5 DEF SInv, ServedOnce
<1>8. CASE Reload(p)
  <2>1. /\ page' = [page EXCEPT ![p] = [NewPage EXCEPT !.tool = t]]
        /\ AllStarted
        /\ UNCHANGED <<profile, worker, made, served>>
    BY <1>8 DEF Reload, history
  <2>2. page'[p].tool = t /\ page'[p].phase = "blank" /\ page'[p].copy = [u \in Tools |-> Idle]
    BY <1>1, <2>1 DEF NewPage
  <2>3. FreshForPage'
    BY <1>1, <2>1, <2>2 DEF SInv, FreshForPage, Unserved
  <2>4. LaterToolIdle'
    BY <1>1, <2>1, <2>2 DEF SInv, LaterToolIdle
  <2>5. QueuedInTime'
    BY <1>1, <2>1, <2>2 DEF QueuedInTime, AllStarted
  <2> QED
    BY <2>1, <2>3, <2>4, <2>5 DEF SInv, ServedOnce
<1>9. CASE MoveOn(p)
  <2>1. /\ page[p].phase = "done" /\ t = "mcq" /\ "diagram" \in Tools
        /\ page' = [page EXCEPT ![p] = [NewPage EXCEPT !.tool = "diagram"]]
        /\ UNCHANGED <<profile, worker, made, served>>
    BY <1>9 DEF MoveOn, history
  <2>2. page'[p].tool = "diagram" /\ page'[p].phase = "blank"
    BY <1>1, <2>1 DEF NewPage
  <2>3. profile["diagram"] = Idle
    BY <2>1 DEF SInv, LaterToolIdle
  <2>4. FreshForPage'
    BY <1>1, <2>1, <2>2, <2>3, NoQuestion DEF FreshForPage, Unserved
  <2>5. LaterToolIdle'
    BY <1>1, <2>1, <2>2 DEF SInv, LaterToolIdle
  <2>6. QueuedInTime'
    BY <1>1, <2>1, <2>2 DEF SInv, QueuedInTime
  <2> QED
    BY <2>1, <2>4, <2>5, <2>6 DEF SInv, ServedOnce
<1> QED
  BY <1>3, <1>4, <1>5, <1>6, <1>7, <1>8, <1>9 DEF PageStep

(* The steps of the tasks, of time and of failures.                        *)
LEMMA WorkServesOnce ==
  ASSUME SInv,
         \/ \E w \in Workers : WorkerStep(w)
         \/ \E t \in Tools : Age(t)
         \/ Crash
  PROVE  SInv'
<1>1. /\ profile \in Profile /\ page \in [Pages -> Page] /\ worker \in [Workers -> Task]
      /\ made \in Nat /\ served \in [1 .. made -> Nat]
      /\ Tools \subseteq {"mcq", "diagram"}
  BY CacheAssumption DEF SInv, TInv, TypeOK
<1>2. \A w \in Workers : worker[w].tool \in Tools /\ worker[w].copy \in Profile
  BY <1>1 DEF Task
<1>3. \A p \in Pages : page[p].tool \in Tools /\ page[p].copy \in Profile
  BY <1>1 DEF Page
<1>4. OnePage' /\ TInv'
  BY WorkTypes DEF SInv, OnePage
<1> SUFFICES ServedOnce' /\ FreshForPage' /\ LaterToolIdle' /\ QueuedInTime'
  BY <1>4 DEF SInv
<1>5. ASSUME NEW w \in Workers, Runs(w)
      PROVE  ServedOnce' /\ FreshForPage' /\ LaterToolIdle' /\ QueuedInTime'
  <2>1. /\ UNCHANGED <<profile, page, made, served>>
        /\ worker[w].stage = "queued"
        /\ worker'[w].stage = "running" /\ worker'[w].tool = worker[w].tool
        /\ worker'[w].copy = profile
        /\ \A v \in Workers \ {w} : worker'[v] = worker[v]
    BY <1>1, <1>5 DEF Runs, history, Task
  <2>2. \A p \in Pages : worker[w].tool = page[p].tool
    BY <2>1 DEF SInv, QueuedInTime
  <2>3. LaterToolIdle'
    <3>1. PICK p \in Pages : TRUE
      BY DEF SInv, OnePage
    <3>2. worker[w].tool = "mcq" /\ "diagram" \in Tools => profile["diagram"] = Idle
      BY <2>2, <3>1 DEF SInv, LaterToolIdle
    <3> QED
      BY <2>1, <3>2 DEF SInv, LaterToolIdle
  <2>4. QueuedInTime'
    BY <2>1 DEF SInv, QueuedInTime
  <2>5. FreshForPage' /\ ServedOnce'
    BY <2>1 DEF SInv, FreshForPage, Unserved, ServedOnce
  <2> QED
    BY <2>3, <2>4, <2>5
<1>6. ASSUME NEW w \in Workers, Processes(w)
      PROVE  ServedOnce' /\ FreshForPage' /\ LaterToolIdle' /\ QueuedInTime'
  <2> DEFINE t == worker[w].tool
             marked == [worker[w].copy EXCEPT ![t] = Generating(worker[w].index)]
  <2>1. /\ UNCHANGED <<page, made, served>>
        /\ profile' = marked
        /\ worker' = [worker EXCEPT ![w].stage = "generating", ![w].copy = marked]
    BY <1>6 DEF Processes
  <2>2. /\ marked[t] = Generating(worker[w].index)
        /\ \A u \in Tools : u # t => marked[u] = worker[w].copy[u]
    BY <1>2 DEF Profile
  <2> HIDE DEF marked
  <2>3. /\ worker'[w].stage = "generating" /\ worker'[w].tool = t
        /\ worker'[w].copy = marked
        /\ \A v \in Workers \ {w} : worker'[v] = worker[v]
    BY <1>1, <2>1 DEF Task
  <2>4. t = "mcq" /\ "diagram" \in Tools => marked["diagram"] = Idle
    BY <2>2 DEF SInv, LaterToolIdle
  <2>5. \A p \in Pages : page[p].tool = "mcq" /\ "diagram" \in Tools => t = "mcq"
    BY DEF SInv, LaterToolIdle
  <2>6. LaterToolIdle'
    BY <2>1, <2>3, <2>4, <2>5 DEF SInv, LaterToolIdle
  <2>7. ASSUME NEW p \in Pages PROVE marked[page[p].tool].status # "ready"
    <3>1. CASE page[p].tool = t
      BY <2>2, <3>1, NoQuestion
    <3>2. CASE page[p].tool # t
      <4>1. page[p].tool = "diagram" /\ t = "mcq"
        BY <1>1, <1>2, <1>3, <2>5, <3>2
      <4> QED
        BY <1>3, <2>4, <4>1, NoQuestion
    <3> QED
      BY <3>1, <3>2
  <2>8. FreshForPage'
    BY <2>1, <2>7 DEF SInv, FreshForPage, Unserved
  <2>9. QueuedInTime'
    BY <2>1, <2>3 DEF SInv, QueuedInTime
  <2> QED
    BY <2>1, <2>6, <2>8, <2>9 DEF SInv, ServedOnce
<1>7. ASSUME NEW w \in Workers, Generates(w)
      PROVE  ServedOnce' /\ FreshForPage' /\ LaterToolIdle' /\ QueuedInTime'
  <2> DEFINE t == worker[w].tool
             new == Ready(worker[w].index, made + 1)
             stored == [worker[w].copy EXCEPT ![t] = new]
  <2>1. /\ UNCHANGED page /\ Creates
        /\ profile' = stored
        /\ worker' = [worker EXCEPT ![w].stage = "written"]
    BY <1>7 DEF Generates
  <2>2. stored[t] = new /\ \A u \in Tools : u # t => stored[u] = worker[w].copy[u]
    BY <1>2 DEF Profile
  <2>3. new.status = "ready" /\ new.question = made + 1
    BY NoQuestion
  <2> HIDE DEF stored, new
  <2>4. /\ worker'[w].stage = "written" /\ worker'[w].tool = t
        /\ worker'[w].copy = worker[w].copy
        /\ \A v \in Workers \ {w} : worker'[v] = worker[v]
    BY <1>1, <2>1 DEF Task
  <2>5. /\ made' = made + 1
        /\ served'[made + 1] = 0
        /\ \A n \in 1 .. made : served'[n] = served[n]
    BY <1>1, <2>1 DEF Creates
  <2>6. \A n \in 1 .. made' : n \in 1 .. made \/ n = made + 1
    BY <1>1, <2>5
  <2>7. ServedOnce'
    BY <2>5, <2>6 DEF SInv, ServedOnce
  <2>8. t = "mcq" /\ "diagram" \in Tools => stored["diagram"] = Idle
    BY <2>2 DEF SInv, LaterToolIdle
  <2>9. \A p \in Pages : page[p].tool = "mcq" /\ "diagram" \in Tools => t = "mcq"
    BY DEF SInv, LaterToolIdle
  <2>10. LaterToolIdle'
    BY <2>1, <2>4, <2>8, <2>9 DEF SInv, LaterToolIdle
  <2>11. made + 1 \in 1 .. made' /\ \A n \in 1 .. made : n \in 1 .. made'
    BY <1>1, <2>5
  <2>12. ASSUME NEW p \in Pages
         PROVE  stored[page[p].tool] = new \/ stored[page[p].tool].status = "idle"
    <3>1. CASE page[p].tool # t
      <4>1. page[p].tool = "diagram" /\ t = "mcq"
        BY <1>1, <1>2, <1>3, <2>9, <3>1
      <4> QED
        BY <1>3, <2>8, <4>1, NoQuestion
    <3> QED
      BY <2>2, <3>1
  <2>13. FreshForPage'
    <3> SUFFICES ASSUME NEW p \in Pages
                 PROVE  /\ Unserved(profile[page[p].tool])'
                        /\ page[p].phase \in {"starting", "reading"}
                             => Unserved(page[p].copy[page[p].tool])'
      BY <2>1 DEF FreshForPage
    <3>1. Unserved(profile[page[p].tool])'
      BY <2>1, <2>3, <2>5, <2>11, <2>12 DEF Unserved
    <3>2. page[p].phase \in {"starting", "reading"} => Unserved(page[p].copy[page[p].tool])
      BY DEF SInv, FreshForPage
    <3>3. page[p].phase \in {"starting", "reading"} => Unserved(page[p].copy[page[p].tool])'
      BY <2>1, <2>5, <2>11, <3>2 DEF Unserved
    <3> QED
      BY <3>1, <3>3
  <2>14. QueuedInTime'
    BY <2>1, <2>4 DEF SInv, QueuedInTime
  <2> QED
    BY <2>7, <2>10, <2>13, <2>14
<1>8. ASSUME NEW w \in Workers, Fails(w)
      PROVE  ServedOnce' /\ FreshForPage' /\ LaterToolIdle' /\ QueuedInTime'
  <2> DEFINE t == worker[w].tool
  <2>1. /\ UNCHANGED <<page, made, served>>
        /\ profile' = [profile EXCEPT ![t] = Failed(worker[w].index)]
        /\ worker' = [worker EXCEPT ![w].stage = "written"]
    BY <1>8 DEF Fails, history
  <2>2. /\ worker'[w].stage = "written" /\ worker'[w].tool = t
        /\ worker'[w].copy = worker[w].copy
        /\ \A v \in Workers \ {w} : worker'[v] = worker[v]
    BY <1>1, <2>1 DEF Task
  <2>3. /\ profile'[t].status = "failed"
        /\ \A u \in Tools : u # t => profile'[u] = profile[u]
    BY <1>1, <1>2, <2>1, NoQuestion DEF Profile
  <2>4. \A p \in Pages : page[p].tool = "mcq" /\ "diagram" \in Tools => t = "mcq"
    BY DEF SInv, LaterToolIdle
  <2>5. LaterToolIdle'
    BY <2>1, <2>2, <2>3, <2>4 DEF SInv, LaterToolIdle
  <2>6. FreshForPage'
    BY <1>3, <2>1, <2>3 DEF SInv, FreshForPage, Unserved
  <2>7. QueuedInTime'
    BY <2>1, <2>2 DEF SInv, QueuedInTime
  <2> QED
    BY <2>1, <2>5, <2>6, <2>7 DEF SInv, ServedOnce
<1>9. ASSUME NEW w \in Workers, Finishes(w)
      PROVE  ServedOnce' /\ FreshForPage' /\ LaterToolIdle' /\ QueuedInTime'
  <2>1. /\ UNCHANGED <<profile, page, made, served>>
        /\ worker' = [worker EXCEPT ![w] = NoTask]
    BY <1>9 DEF Finishes, history
  <2>2. worker'[w] = NoTask /\ \A v \in Workers \ {w} : worker'[v] = worker[v]
    BY <1>1, <2>1
  <2>3. LaterToolIdle'
    <3>1. NoTask.tool = FirstTool /\ NoTask.copy = [u \in Tools |-> Idle]
      BY DEF NoTask
    <3>2. \A p \in Pages : page[p].tool = "mcq" => FirstTool = "mcq"
      BY <1>3 DEF FirstTool
    <3> QED
      BY <2>1, <2>2, <3>1, <3>2 DEF SInv, LaterToolIdle
  <2>4. QueuedInTime'
    BY <2>1, <2>2 DEF SInv, QueuedInTime, NoTask
  <2> QED
    BY <2>1, <2>3, <2>4 DEF SInv, FreshForPage, Unserved, ServedOnce
<1>10. ASSUME NEW t \in Tools, Age(t)
       PROVE  ServedOnce' /\ FreshForPage' /\ LaterToolIdle' /\ QueuedInTime'
  <2>1. /\ UNCHANGED <<page, worker, made, served>>
        /\ profile[t].status = "generating"
        /\ profile' = [profile EXCEPT ![t].stale = TRUE]
    BY <1>10 DEF Age, history
  <2>2. /\ profile'[t].status = "generating"
        /\ \A u \in Tools : u # t => profile'[u] = profile[u]
    BY <1>1, <2>1 DEF Profile, Cache
  <2>3. t = "diagram" => profile["diagram"] # Idle
    BY <2>1, NoQuestion
  <2>4. LaterToolIdle'
    BY <2>1, <2>2, <2>3 DEF SInv, LaterToolIdle
  <2>5. FreshForPage'
    BY <1>3, <2>1, <2>2 DEF SInv, FreshForPage, Unserved
  <2> QED
    BY <2>1, <2>4, <2>5 DEF SInv, QueuedInTime, ServedOnce
<1>11. CASE Crash
  <2>1. /\ UNCHANGED <<profile, made, served>>
        /\ \A w \in Workers : worker'[w] = NoTask
    BY <1>11 DEF Crash, history
  <2>2. \A p \in Pages :
          /\ page'[p].tool = page[p].tool /\ page'[p].copy = page[p].copy
          /\ page'[p].phase \notin {"starting", "reading"}
    BY <1>1, <1>11 DEF Crash, Page
  <2>3. NoTask.tool = FirstTool /\ NoTask.copy = [u \in Tools |-> Idle] /\ NoTask.stage = "free"
    BY DEF NoTask
  <2>4. \A p \in Pages : page[p].tool = "mcq" => FirstTool = "mcq"
    BY <1>3 DEF FirstTool
  <2>5. LaterToolIdle'
    BY <2>1, <2>2, <2>3, <2>4 DEF SInv, LaterToolIdle
  <2>6. FreshForPage'
    BY <2>1, <2>2 DEF SInv, FreshForPage, Unserved
  <2>7. QueuedInTime'
    BY <2>1, <2>3 DEF QueuedInTime
  <2> QED
    BY <2>1, <2>5, <2>6, <2>7 DEF SInv, ServedOnce
<1> QED
  BY <1>5, <1>6, <1>7, <1>8, <1>9, <1>10, <1>11 DEF WorkerStep

LEMMA InitSInv == OnePage /\ Init => SInv
<1> SUFFICES ASSUME OnePage, Init PROVE SInv
  OBVIOUS
<1>1. TInv
  BY InitTInv
<1>2. \A p \in Pages : page[p] = NewPage /\ NewPage.tool = FirstTool /\ NewPage.phase = "blank"
                         /\ NewPage.copy = [t \in Tools |-> Idle]
  BY DEF Init, NewPage
<1>3. \A w \in Workers : worker[w] = NoTask /\ NoTask.tool = FirstTool /\ NoTask.stage = "free"
                           /\ NoTask.copy = [t \in Tools |-> Idle]
  BY DEF Init, NoTask
<1>4. profile = [t \in Tools |-> Idle] /\ made = 0 /\ FirstTool \in Tools
  BY CacheTypes DEF Init
<1>5. ServedOnce
  BY <1>4 DEF ServedOnce
<1>6. FreshForPage
  BY <1>2, <1>4, NoQuestion DEF FreshForPage, Unserved
<1>7. LaterToolIdle /\ QueuedInTime
  BY <1>2, <1>3, <1>4 DEF LaterToolIdle, QueuedInTime
<1> QED
  BY <1>1, <1>5, <1>6, <1>7 DEF SInv

LEMMA NextSInv == SInv /\ [Next]_vars => SInv'
<1> SUFFICES ASSUME SInv, [Next]_vars PROVE SInv'
  OBVIOUS
<1>1. CASE UNCHANGED vars
  <2>1. UNCHANGED <<profile, page, worker, made, served>> /\ TInv'
    BY <1>1, NextTInv DEF vars, history, SInv
  <2> QED
    BY <2>1 DEF SInv, OnePage, ServedOnce, FreshForPage, Unserved, LaterToolIdle, QueuedInTime
<1> QED
  BY <1>1, PageServesOnce, WorkServesOnce DEF Next

(* A learner with one page gets no question twice, though every writer of   *)
(* the profile writes all caches back from a copy of his own, and whatever  *)
(* crashes, fails, is late or is reloaded (consume_mcq_ready,               *)
(* consume_diagram_ready).                                                 *)
THEOREM QuestionsServedOnce == OnePage /\ Spec => []ServedOnce
<1>1. SInv => ServedOnce
  BY DEF SInv
<1> QED
  BY InitSInv, NextSInv, <1>1, PTL DEF Spec

-----------------------------------------------------------------------------
(* One generator at a time.                                                *)

LEMMA BusyAtWork == \A w \in Workers, t \in Tools :
                      w \in Busy(t) <=> AtWork(w) /\ worker[w].tool = t
BY DEF Busy, AtWork

(* At most one element, at most one counted.                               *)
LEMMA AtMostOne ==
  ASSUME NEW S, \A v, w \in S : v = w
  PROVE  Cardinality(S) <= 1
<1>1. CASE S = {}
  BY <1>1, FS_EmptySet
<1>2. CASE S # {}
  <2>1. PICK v \in S : S = {v}
    BY <1>2
  <2>2. Cardinality({v}) = 1
    BY FS_Singleton
  <2> QED
    BY <2>1, <2>2
<1> QED
  BY <1>1, <1>2

(* A dispatch when nobody is at work makes one task that is.               *)
LEMMA DispatchIsOnly ==
  ASSUME GInv, NEW p \in Pages, NEW kind \in {"start", "post"}, NEW i \in Index,
         NEW force \in BOOLEAN, Dispatch(kind, page[p].tool, i, force),
         delays = 0 => \A w \in Workers : ~AtWork(w),
         page'[p].tool = page[p].tool, page'[p].phase = "polling",
         profile' = [page[p].copy EXCEPT ![page[p].tool] = Generating(i)]
  PROVE  delays' = 0 => WorkAnnounced' /\ OneAtWork'
<1> DEFINE t == page[p].tool
<1>1. /\ TInv /\ delays \in Nat /\ page[p] \in Page
      /\ \A q \in Pages : q = p
  BY DEF GInv, OnePage, TInv, TypeOK
<1>2. t \in Tools /\ page[p].copy \in Profile
  BY <1>1 DEF Page
<1>3. Dispatch(kind, t, i, force)
  OBVIOUS
<1>4. profile'[t] = Generating(i)
  BY <1>2 DEF Profile
<1>5. page'[p].tool = t
  OBVIOUS
<1> HIDE DEF t
<1>6. \/ UNCHANGED worker /\ delays' = delays + 1
      \/ /\ UNCHANGED delays
         /\ \E w \in Workers :
              /\ worker'[w].stage = "queued" /\ worker'[w].tool = t
              /\ worker'[w].copy = [u \in Tools |-> Idle]
              /\ \A v \in Workers \ {w} : worker'[v] = worker[v]
  BY <1>1, <1>2, <1>3, DispatchFills
<1> SUFFICES ASSUME delays' = 0 PROVE WorkAnnounced' /\ OneAtWork'
  OBVIOUS
<1>7. delays + 1 # 0 /\ delays' # delays + 1
  BY <1>1
<1>8. PICK w \in Workers :
        /\ UNCHANGED delays
        /\ worker'[w].tool = t
        /\ \A v \in Workers \ {w} : worker'[v] = worker[v]
  BY <1>6, <1>7
<1>9. \A v \in Workers : AtWork(v)' => v = w
  BY <1>8 DEF AtWork
<1>10. OneAtWork'
  BY <1>9 DEF OneAtWork
<1>11. WorkAnnounced'
  BY <1>1, <1>4, <1>5, <1>8, <1>9, NoQuestion DEF WorkAnnounced, Announced
<1> QED
  BY <1>10, <1>11

(* The steps of the page.                                                  *)
LEMMA PageGeneratesOne ==
  ASSUME GInv, NEW p \in Pages, PageStep(p) \/ Reload(p)
  PROVE  GInv'
<1> DEFINE t == page[p].tool
           c == page[p].copy[t]
           Alone == delays = 0 => \A w \in Workers : ~AtWork(w)
<1>1. \A q \in Pages : q = p
  BY DEF GInv, OnePage
<1>2. /\ profile \in Profile /\ page \in [Pages -> Page] /\ worker \in [Workers -> Task]
      /\ delays \in Nat /\ page[p] \in Page
  BY DEF GInv, TInv, TypeOK
<1>3. t \in Tools /\ page[p].copy \in Profile /\ c \in Cache /\ page[p].index \in Index
  BY <1>2 DEF Page, Profile
<1>4. OnePage' /\ TInv'
  BY PageTypes DEF GInv, OnePage
<1>5. \A w \in Workers : delays = 0 /\ AtWork(w) =>
        /\ worker[w].tool = t /\ Announced(profile[t])
        /\ page[p].phase \in {"blank", "starting", "polling"}
        /\ page[p].phase = "starting" => Announced(c)
  BY DEF GInv, WorkAnnounced
<1> SUFFICES delays' = 0 => WorkAnnounced' /\ OneAtWork'
  BY <1>4 DEF GInv
<1>6. ASSUME UNCHANGED worker, delays' = 0 => delays = 0,
             delays' = 0 => \A w \in Workers : AtWork(w) =>
               /\ worker[w].tool = page'[p].tool
               /\ Announced(profile'[page'[p].tool])
               /\ page'[p].phase \in {"blank", "starting", "polling"}
               /\ page'[p].phase = "starting" => Announced(page'[p].copy[page'[p].tool])
      PROVE  delays' = 0 => WorkAnnounced' /\ OneAtWork'
  <2>1. \A w \in Workers : AtWork(w)' <=> AtWork(w)
    BY <1>6 DEF AtWork
  <2>2. delays' = 0 => OneAtWork'
    BY <1>6, <2>1 DEF GInv, OneAtWork
  <2>3. delays' = 0 => WorkAnnounced'
    BY <1>1, <1>6, <2>1 DEF WorkAnnounced, Announced
  <2> QED
    BY <2>2, <2>3
<1>7. CASE Start(p)
  <2>1. /\ UNCHANGED <<profile, worker, delays>>
        /\ page[p].phase = "blank"
        /\ page' = [page EXCEPT ![p].phase = "starting", ![p].copy = profile]
    BY <1>7 DEF Start, Sends, counters
  <2>2. page'[p].tool = t /\ page'[p].phase = "starting" /\ page'[p].copy = profile
    BY <1>2, <2>1 DEF Page
  <2> QED
    BY <1>5, <1>6, <2>1, <2>2
<1>8. CASE StartServes(p) \/ PollServes(p)
  <2>1. /\ UNCHANGED <<worker, delays>>
        /\ page[p].phase \in {"starting", "reading"} /\ c.status = "ready"
    BY <1>8 DEF StartServes, PollServes, Serves, counters
  <2>2. Alone
    BY <1>5, <2>1 DEF Announced
  <2> QED
    BY <1>6, <2>1, <2>2
<1>9. CASE StartGenerates(p)
  <2>1. /\ page[p].phase = "starting"
        /\ page'[p].tool = t /\ page'[p].phase = "polling"
    BY <1>2, <1>9 DEF StartGenerates, Page
  <2>2. CASE ShouldSchedule(c)
    <3>1. /\ profile' = [page[p].copy EXCEPT ![t] = Generating(0)]
          /\ Dispatch("start", t, 0, IsStale(c))
      BY <1>9, <2>2 DEF StartGenerates
    <3>2. IsStale(c) \in BOOLEAN
      BY <1>3 DEF IsStale, Cache
    <3>3. Alone
      BY <1>5, <2>1, <2>2 DEF ShouldSchedule, Announced
    <3> QED
      BY <2>1, <3>1, <3>2, <3>3, CacheTypes, DispatchIsOnly
  <2>3. CASE ~ShouldSchedule(c)
    <3>1. UNCHANGED <<profile, worker, delays>>
      BY <1>9, <2>3 DEF StartGenerates
    <3> QED
      BY <1>5, <1>6, <2>1, <3>1
  <2> QED
    BY <2>2, <2>3
<1>10. CASE Poll(p)
  <2>1. /\ UNCHANGED <<worker, delays>>
        /\ profile[t].status \in {"ready", "failed"}
    BY <1>10 DEF Poll, counters
  <2>2. Alone
    BY <1>5, <2>1 DEF Announced
  <2> QED
    BY <1>6, <2>1, <2>2
<1>11. CASE PollFails(p) \/ AnswerEnds(p) \/ MoveOn(p)
  <2>1. /\ UNCHANGED <<worker, delays>>
        /\ page[p].phase \in {"reading", "answering", "done"}
    BY <1>11 DEF PollFails, AnswerEnds, MoveOn, counters
  <2>2. Alone
    BY <1>5, <2>1
  <2> QED
    BY <1>6, <2>1, <2>2
<1>12. CASE Answer(p)
  <2>1. UNCHANGED <<worker, delays>> /\ page[p].phase = "showing"
    BY <1>12 DEF Answer, Sends, counters
  <2>2. Alone
    BY <1>5, <2>1
  <2> QED
    BY <1>6, <2>1, <2>2
<1>13. CASE GiveUp(p)
  <2>1. /\ UNCHANGED worker
        /\ delays' = IF Busy(t) = {} THEN delays ELSE delays + 1
    BY <1>13 DEF GiveUp
  <2>2. delays' = 0 => delays = 0 /\ Busy(t) = {}
    BY <1>2, <2>1
  <2>3. delays' = 0 => \A w \in Workers : ~AtWork(w)
    BY <1>3, <1>5, <2>2, BusyAtWork
  <2> QED
    BY <1>6, <2>1, <2>2, <2>3
<1>14. CASE AnswerGenerates(p)
  <2> DEFINE i == page[p].index + 1
  <2>1. /\ page[p].phase = "answering"
        /\ page'[p].tool = t /\ page'[p].phase = "polling"
    BY <1>2, <1>14 DEF AnswerGenerates, Page
  <2>2. i \in Index
    BY <1>3, <1>14, CacheTypes DEF AnswerGenerates, IsLast, Index
  <2>3. /\ profile' = [page[p].copy EXCEPT ![t] = Generating(i)]
        /\ Dispatch("post", t, i, FALSE)
    BY <1>14 DEF AnswerGenerates
  <2>4. Alone
    BY <1>5, <2>1
  <2> HIDE DEF i
  <2> QED
    BY <2>1, <2>2, <2>3, <2>4, DispatchIsOnly
<1>15. CASE Reload(p)
  <2>1. /\ UNCHANGED <<profile, worker, delays>>
        /\ page' = [page EXCEPT ![p] = [NewPage EXCEPT !.tool = t]]
    BY <1>15 DEF Reload
  <2>2. page'[p].tool = t /\ page'[p].phase = "blank"
    BY <1>2, <2>1 DEF NewPage
  <2> QED
    BY <1>5, <1>6, <2>1, <2>2
<1> QED
  BY <1>7, <1>8, <1>9, <1>10, <1>11, <1>12, <1>13, <1>14, <1>15 DEF PageStep

(* The steps of the tasks, of time and of failures.                        *)
LEMMA WorkGeneratesOne ==
  ASSUME GInv,
         \/ \E w \in Workers : WorkerStep(w)
         \/ \E t \in Tools : Age(t)
         \/ Crash
  PROVE  GInv'
<1>1. /\ profile \in Profile /\ page \in [Pages -> Page] /\ worker \in [Workers -> Task]
      /\ delays \in Nat
  BY DEF GInv, TInv, TypeOK
<1>2. \A p \in Pages : page[p].tool \in Tools
  BY <1>1 DEF Page
<1>3. \A w \in Workers : worker[w].tool \in Tools /\ worker[w].copy \in Profile
  BY <1>1 DEF Task
<1>4. OnePage' /\ TInv'
  BY WorkTypes DEF GInv, OnePage
<1> SUFFICES delays' = 0 => WorkAnnounced' /\ OneAtWork'
  BY <1>4 DEF GInv
<1>5. delays = 0 => WorkAnnounced /\ OneAtWork
  BY DEF GInv
<1>6. ASSUME NEW w \in Workers, Runs(w)
      PROVE  delays' = 0 => WorkAnnounced' /\ OneAtWork'
  <2>1. /\ UNCHANGED <<profile, page, delays>>
        /\ worker[w].stage = "queued"
        /\ worker'[w].tool = worker[w].tool
        /\ \A v \in Workers \ {w} : worker'[v] = worker[v]
    BY <1>1, <1>6 DEF Runs, counters, Task
  <2>2. \A v \in Workers : AtWork(v)' => AtWork(v)
    BY <2>1 DEF AtWork
  <2>3. \A v \in Workers : worker'[v].tool = worker[v].tool
    BY <2>1
  <2> QED
    BY <1>5, <2>1, <2>2, <2>3 DEF WorkAnnounced, OneAtWork, Announced
<1>7. ASSUME NEW w \in Workers, Processes(w)
      PROVE  delays' = 0 => WorkAnnounced' /\ OneAtWork'
  <2> DEFINE t == worker[w].tool
             marked == [worker[w].copy EXCEPT ![t] = Generating(worker[w].index)]
  <2>1. /\ UNCHANGED <<page, delays>>
        /\ worker[w].stage = "running"
        /\ profile' = marked
        /\ worker' = [worker EXCEPT ![w].stage = "generating", ![w].copy = marked]
    BY <1>7 DEF Processes, counters
  <2>2. marked[t] = Generating(worker[w].index)
    BY <1>3 DEF Profile
  <2> HIDE DEF marked
  <2>3. /\ worker'[w].tool = t
        /\ \A v \in Workers \ {w} : worker'[v] = worker[v]
    BY <1>1, <2>1 DEF Task
  <2>4. AtWork(w) /\ \A v \in Workers : AtWork(v)' => AtWork(v)
    BY <2>1, <2>3 DEF AtWork
  <2>5. delays = 0 => \A v \in Workers : AtWork(v) => v = w
    BY <1>5, <2>4 DEF OneAtWork
  <2>6. delays = 0 => \A p \in Pages :
          /\ page[p].tool = t
          /\ page[p].phase \in {"blank", "starting", "polling"}
          /\ page[p].phase = "starting" => Announced(page[p].copy[page[p].tool])
    BY <1>5, <2>4 DEF WorkAnnounced
  <2>7. Announced(profile'[t])
    BY <2>1, <2>2, NoQuestion
  <2>8. delays' = 0 => OneAtWork'
    BY <2>1, <2>4, <2>5 DEF OneAtWork
  <2>9. delays' = 0 => WorkAnnounced'
    BY <2>1, <2>3, <2>4, <2>5, <2>6, <2>7 DEF WorkAnnounced, Announced
  <2> QED
    BY <2>8, <2>9
<1>8. ASSUME NEW w \in Workers, Generates(w) \/ Fails(w)
      PROVE  delays' = 0 => WorkAnnounced' /\ OneAtWork'
  <2>1. /\ UNCHANGED delays /\ AtWork(w)
        /\ worker' = [worker EXCEPT ![w].stage = "written"]
    BY <1>8 DEF Generates, Fails, counters, AtWork
  <2>2. worker'[w].stage = "written" /\ \A v \in Workers \ {w} : worker'[v] = worker[v]
    BY <1>1, <2>1 DEF Task
  <2>3. \A v \in Workers : AtWork(v)' => v # w /\ AtWork(v)
    BY <2>2 DEF AtWork
  <2>4. delays' = 0 => \A v \in Workers : ~AtWork(v)'
    BY <1>5, <2>1, <2>3 DEF OneAtWork
  <2> QED
    BY <2>4 DEF WorkAnnounced, OneAtWork
<1>9. ASSUME NEW w \in Workers, Finishes(w)
      PROVE  delays' = 0 => WorkAnnounced' /\ OneAtWork'
  <2>1. /\ UNCHANGED <<profile, page, delays>>
        /\ worker' = [worker EXCEPT ![w] = NoTask]
    BY <1>9 DEF Finishes, counters
  <2>2. worker'[w] = NoTask /\ \A v \in Workers \ {w} : worker'[v] = worker[v]
    BY <1>1, <2>1
  <2>3. \A v \in Workers : AtWork(v)' => AtWork(v) /\ worker'[v] = worker[v]
    BY <2>2 DEF AtWork, NoTask
  <2> QED
    BY <1>5, <2>1, <2>3 DEF WorkAnnounced, OneAtWork, Announced
<1>10. ASSUME NEW t \in Tools, Age(t)
       PROVE  delays' = 0 => WorkAnnounced' /\ OneAtWork'
  <2>1. /\ UNCHANGED <<page, worker>>
        /\ delays' = IF Busy(t) = {} THEN delays ELSE delays + 1
        /\ profile' = [profile EXCEPT ![t].stale = TRUE]
    BY <1>10 DEF Age
  <2>2. \A u \in Tools : u # t => profile'[u] = profile[u]
    BY <1>1, <2>1 DEF Profile
  <2>3. \A v \in Workers : AtWork(v)' <=> AtWork(v)
    BY <2>1 DEF AtWork
  <2> SUFFICES ASSUME delays' = 0 PROVE WorkAnnounced' /\ OneAtWork'
    OBVIOUS
  <2>4. delays = 0 /\ Busy(t) = {}
    BY <1>1, <2>1
  <2>5. \A v \in Workers : AtWork(v) => worker[v].tool # t
    BY <2>4, BusyAtWork
  <2>6. OneAtWork'
    BY <1>5, <2>3, <2>4 DEF OneAtWork
  <2>7. WorkAnnounced'
    BY <1>2, <1>5, <2>1, <2>2, <2>3, <2>4, <2>5 DEF WorkAnnounced, Announced
  <2> QED
    BY <2>6, <2>7
<1>11. CASE Crash
  <2>1. \A w \in Workers : worker'[w].stage = "free"
    BY <1>11 DEF Crash, NoTask
  <2>2. \A w \in Workers : ~AtWork(w)'
    BY <2>1 DEF AtWork
  <2> QED
    BY <2>2 DEF WorkAnnounced, OneAtWork
<1> QED
  BY <1>6, <1>7, <1>8, <1>9, <1>10, <1>11 DEF WorkerStep

LEMMA InitGInv == OnePage /\ Init => GInv
<1> SUFFICES ASSUME OnePage, Init PROVE GInv
  OBVIOUS
<1>1. \A w \in Workers : ~AtWork(w)
  BY DEF Init, NoTask, AtWork
<1> QED
  BY <1>1, InitTInv DEF GInv, WorkAnnounced, OneAtWork

LEMMA NextGInv == GInv /\ [Next]_vars => GInv'
<1> SUFFICES ASSUME GInv, [Next]_vars PROVE GInv'
  OBVIOUS
<1>1. CASE UNCHANGED vars
  <2>1. UNCHANGED <<profile, page, worker, delays>> /\ TInv'
    BY <1>1, NextTInv DEF vars, counters, GInv
  <2> QED
    BY <2>1 DEF GInv, OnePage, WorkAnnounced, OneAtWork, AtWork, Announced
<1> QED
  BY <1>1, PageGeneratesOne, WorkGeneratesOne DEF Next

(* Until something is slower than the code reckons with, a learner's        *)
(* question is not written by two pipelines at a time, also after crashes,  *)
(* failures and reloads, and though a crash leaves "generating" behind      *)
(* (generation_should_schedule, schedule_background).                      *)
THEOREM OneGeneratorAtATime == OnePage /\ Spec => []OneGenerator
<1>1. GInv => OneGenerator
  <2> SUFFICES ASSUME GInv, delays = 0, NEW t \in Tools
               PROVE  Cardinality(Busy(t)) <= 1
    BY DEF OneGenerator
  <2>1. \A v, w \in Busy(t) : v = w
    <3>1. Busy(t) \subseteq Workers
      BY DEF Busy
    <3> QED
      BY <3>1, BusyAtWork DEF GInv, OneAtWork
  <2> QED
    BY <2>1, AtMostOne
<1> QED
  BY InitGInv, NextGInv, <1>1, PTL DEF Spec

=============================================================================
