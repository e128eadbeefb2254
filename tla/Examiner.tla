------------------------------ MODULE Examiner ------------------------------
(***************************************************************************)
(* The routing examiner: POST /sessions/{id}/respond and the browser tabs  *)
(* that call it.                                                           *)
(*                                                                         *)
(* The examiner keeps one JSON document per sitting                        *)
(* (assessment_sessions.examiner_state_json).  A turn loads it, runs the   *)
(* graph run_tool_loop -> update_session -> check_completion ->            *)
(* route_question over it, and writes it back (agent/graph.py).  The graph *)
(* runs under an await, so between the load and the commit of one turn the *)
(* load and the commit of another may happen: nothing locks the row, and   *)
(* the later commit overwrites the earlier one.                            *)
(*                                                                         *)
(* A browser tab (chat/page.tsx, chatStore.ts) sends "start" when it is    *)
(* mounted and "complete_tool" when the widget of its current tool is      *)
(* done, one request at a time; a reload abandons the request in flight,   *)
(* which the server still carries out.                                     *)
(***************************************************************************)
EXTENDS Integers

CONSTANTS
  Tabs,         \* browser tabs in which the sitting is open
  Requests,     \* slots for requests in flight: bounds their number
  Blueprints,   \* the blueprints that pass validation and the assessment may carry
  MaxReloads,   \* bound: reloads of a page that has not failed
  MaxLosses,    \* bound: replies lost on the way to the tab
  MaxEdits,     \* bound: edits of the assessment's blueprint
  MaxAnswers    \* bound: single-question turns ("next") of a sitting

VARIABLES
  blueprint,    \* assessments.blueprint_json: {b}, or {} when it is not valid
  saved,        \* examiner_state_json: {s}, or {} before the first turn
  req,          \* the requests the server works on
  tab,          \* what each browser tab shows and which reply it waits for
  finished,     \* history: tools a tab reported as finished
  answers,      \* history: single-question turns sent, per tool
  reloads, losses, edits   \* how much of each bound is used

server  == <<blueprint, saved, req>>
bounds  == <<reloads, losses, edits>>
history == <<finished, answers>>
vars    == <<server, tab, history, bounds>>

Tools  == {"mcq", "voice", "diagram", "code"}
NoTool == ""

\* The serving order of the tools.
Rank == [mcq |-> 1, voice |-> 2, diagram |-> 3, code |-> 4]

Sum(f) == f["mcq"] + f["voice"] + f["diagram"] + f["code"]

\* What the tools of S that a blueprint enables contribute to its total.
EnabledCount(b) == [t \in Tools |-> IF t \in b.enabled THEN b.count[t] ELSE 0]

\* Validation bounds the counts; total_questions is any number an admin sent.
Blueprint == [enabled : SUBSET Tools, count : [Tools -> 0..10], total : Int]

\* run_planner overwrites total_questions with the sum it computes.
Planned(b) == b.total = Sum(EnabledCount(b))

ASSUME BlueprintAssumption == Blueprints \subseteq Blueprint

ASSUME BoundAssumption ==
  /\ MaxReloads \in Nat
  /\ MaxLosses \in Nat
  /\ MaxEdits \in Nat
  /\ MaxAnswers \in Nat

Actions == {"start", "next", "complete_tool"}

ExaminerState ==
  [ bp       : Blueprints,               \* frozen when the state is created
    done     : [Tools -> Nat],           \* questions_done; 0 when not active
    index    : Nat,                      \* current_question_index
    current  : Tools \cup {NoTool},      \* current_tool
    complete : BOOLEAN,                  \* is_complete
    last     : [tool : Tools \cup {NoTool}, action : Actions \cup {"none"}] ]

-----------------------------------------------------------------------------
(* The graph.                                                              *)

\* The tool of S that is served before the others.
First(S) == CHOOSE t \in S : \A u \in S : Rank[t] <= Rank[u]

InitialState(b) ==
  [ bp |-> b,
    done |-> [t \in Tools |-> 0],
    index |-> 0,
    current |-> IF b.enabled = {} THEN NoTool ELSE First(b.enabled),
    complete |-> FALSE,
    last |-> [tool |-> NoTool, action |-> "none"] ]

Min2(a, b) == IF a <= b THEN a ELSE b

\* The new count of the tool the turn is about.
Settled(s, t) ==
  CASE s.last.action = "next" -> Min2(s.done[t] + 1, s.bp.count[t])
    [] s.last.action = "complete_tool" -> s.bp.count[t]
    [] OTHER -> s.done[t]

\* Wrong variant: the turn credits every active tool.
RunToolLoopAll(s) ==
  [s EXCEPT !.done = [t \in Tools |->
                        IF t \in s.bp.enabled THEN Settled(s, t) ELSE s.done[t]]]

RunToolLoop(s) ==
  [s EXCEPT !.done = [t \in Tools |->
     IF t = s.last.tool /\ t \in s.bp.enabled THEN Settled(s, t) ELSE s.done[t]]]

UpdateSession(s) == [s EXCEPT !.index = Sum(s.done)]

\* Wrong variant: off by one at the last question.
CheckCompletionEarly(s) ==
  [s EXCEPT !.complete = s.bp.total # 0 /\ Sum(s.done) + 1 >= s.bp.total]

CheckCompletion(s) ==
  [s EXCEPT !.complete = s.bp.total # 0 /\ Sum(s.done) >= s.bp.total]

Remaining(s) == {t \in s.bp.enabled : s.done[t] < s.bp.count[t]}

RouteQuestion(s) ==
  IF s.complete \/ Remaining(s) = {}
    THEN [s EXCEPT !.current = NoTool, !.complete = TRUE]
    ELSE [s EXCEPT !.current = First(Remaining(s))]

\* Wrong variant: the graph leaves the settling node out.
GraphNoSettle(s) == RouteQuestion(CheckCompletion(UpdateSession(s)))

Graph(s) == RouteQuestion(CheckCompletion(UpdateSession(RunToolLoop(s))))

Turn(s, tool, action) ==
  Graph([s EXCEPT !.last = [tool |-> tool, action |-> action]])

-----------------------------------------------------------------------------
(* Requests and tabs.  A free slot has phase "free"; "sent" has not loaded *)
(* the row yet; "loaded" holds the state it will compute from.             *)

Free == [phase |-> "free", tool |-> NoTool, action |-> "start", snap |-> {}]

TabPhases == {"closed", "waiting", "working", "failed", "complete"}

Init ==
  /\ blueprint \in {{b} : b \in Blueprints}
  /\ saved = {}
  /\ req = [r \in Requests |-> Free]
  /\ tab = [t \in Tabs |-> [phase |-> "closed", tool |-> NoTool, awaits |-> {}]]
  /\ finished = {}
  /\ answers = [t \in Tools |-> 0]
  /\ reloads = 0 /\ losses = 0 /\ edits = 0

\* Tab t sends a request in slot r and shows a spinner until the reply.
Send(t, r, tool, action) ==
  /\ req[r].phase = "free"
  /\ req' = [req EXCEPT ![r] = [phase |-> "sent", tool |-> tool,
                                action |-> action, snap |-> {}]]
  /\ tab' = [tab EXCEPT ![t].phase = "waiting", ![t].awaits = {r}]
  /\ UNCHANGED <<blueprint, saved>>

\* The page is mounted for the first time, or again after an error: it has
\* forgotten everything and asks for the first tool.
OpenPage(t, r) ==
  /\ tab[t].phase \in {"closed", "failed"}
  /\ Send(t, r, NoTool, "start")
  /\ UNCHANGED <<history, bounds>>

\* A reload in mid-sitting; a request in flight goes on without a listener.
Reload(t, r) ==
  /\ tab[t].phase \in {"waiting", "working"}
  /\ reloads < MaxReloads
  /\ reloads' = reloads + 1
  /\ Send(t, r, NoTool, "start")
  /\ UNCHANGED <<history, losses, edits>>

\* advanceExaminer: the widget of the current tool is through.
FinishTool(t, r) ==
  /\ tab[t].phase = "working"
  /\ Send(t, r, tab[t].tool, "complete_tool")
  /\ finished' = finished \cup {tab[t].tool}
  /\ UNCHANGED <<answers, bounds>>

\* A client that advances one question at a time, the default action.
AnswerOne(t, r) ==
  /\ tab[t].phase = "working"
  /\ Sum(answers) < MaxAnswers
  /\ Send(t, r, tab[t].tool, "next")
  /\ answers' = [answers EXCEPT ![tab[t].tool] = @ + 1]
  /\ UNCHANGED <<finished, bounds>>

\* The handler reads the session and its assessment's blueprint.
Load(r) ==
  /\ req[r].phase = "sent"
  /\ \E b \in blueprint :
       \E s \in (IF saved = {} THEN {InitialState(b)} ELSE saved) :
         req' = [req EXCEPT ![r].phase = "loaded", ![r].snap = {s}]
  /\ UNCHANGED <<blueprint, saved, tab, history, bounds>>

\* Wrong variant: the page opens a widget also when the sitting is complete.
ReplyAlwaysWidget(r, s) ==
  tab' = [t \in Tabs |->
            IF r \in tab[t].awaits
              THEN [phase |-> "working", tool |-> s.current, awaits |-> {}]
              ELSE tab[t]]

\* What the tabs that wait for slot r do with its reply.
Reply(r, s) ==
  tab' = [t \in Tabs |->
            IF r \in tab[t].awaits
              THEN [phase |-> IF s.complete THEN "complete" ELSE "working",
                    tool |-> s.current, awaits |-> {}]
              ELSE tab[t]]

\* The tabs that wait for slot r get an error and stop.
Fail(r) ==
  tab' = [t \in Tabs |-> IF r \in tab[t].awaits
                           THEN [tab[t] EXCEPT !.phase = "failed", !.awaits = {}]
                           ELSE tab[t]]

\* 422: the assessment has no valid blueprint, whatever state is saved.
Reject(r) ==
  /\ req[r].phase = "sent"
  /\ blueprint = {}
  /\ req' = [req EXCEPT ![r] = Free]
  /\ Fail(r)
  /\ UNCHANGED <<blueprint, saved, history, bounds>>

\* The row is written when the new document differs from the one loaded.
Write(r, final) ==
  /\ req[r].phase = "loaded"
  /\ saved' = IF final \in req[r].snap THEN saved ELSE {final}
  /\ req' = [req EXCEPT ![r] = Free]

\* Wrong variant: every turn takes over the assessment's current blueprint.
CommitLiveBlueprint(r) ==
  /\ \E s \in req[r].snap, b \in blueprint :
       LET final == Turn([s EXCEPT !.bp = b], req[r].tool, req[r].action)
       IN  Write(r, final) /\ Reply(r, final)
  /\ UNCHANGED <<blueprint, history, bounds>>

Commit(r) ==
  /\ \E s \in req[r].snap :
       \E final \in {Turn(s, req[r].tool, req[r].action)} : Write(r, final) /\ Reply(r, final)
  /\ UNCHANGED <<blueprint, history, bounds>>

\* The turn is committed and the connection breaks before the reply arrives.
CommitLost(r) ==
  /\ losses < MaxLosses
  /\ losses' = losses + 1
  /\ \E s \in req[r].snap : Write(r, Turn(s, req[r].tool, req[r].action))
  /\ Fail(r)
  /\ UNCHANGED <<blueprint, history, reloads, edits>>

\* The blueprint is replaced at any time.
Store(new) ==
  /\ edits < MaxEdits
  /\ edits' = edits + 1
  /\ blueprint' = new
  /\ blueprint' # blueprint
  /\ UNCHANGED <<saved, req, tab, history, reloads, losses>>

\* PATCH /assessments/{id} stores the dictionary it is sent, valid or not,
\* whatever its total.
EditBlueprint == Store({}) \/ \E b \in Blueprints : Store({b})

\* POST /assessments/{id}/generate-blueprint.
GenerateBlueprint == \E b \in Blueprints : Planned(b) /\ Store({b})

Next ==
  \/ \E t \in Tabs, r \in Requests :
       OpenPage(t, r) \/ Reload(t, r) \/ FinishTool(t, r) \/ AnswerOne(t, r)
  \/ \E r \in Requests : Load(r) \/ Reject(r) \/ Commit(r) \/ CommitLost(r)
  \/ EditBlueprint \/ GenerateBlueprint

Spec == Init /\ [][Next]_vars

(* The server carries every request through; a learner whose page failed   *)
(* opens it again and one who has a widget finishes it some day.           *)
Fairness ==
  /\ \A r \in Requests : WF_vars(Load(r)) /\ WF_vars(Reject(r)) /\ WF_vars(Commit(r))
  /\ \A t \in Tabs : /\ SF_vars(\E r \in Requests : OpenPage(t, r))
                     /\ SF_vars(\E r \in Requests : FinishTool(t, r))

FairSpec == Spec /\ Fairness

-----------------------------------------------------------------------------
(* Properties.                                                             *)

ReqType ==
  [ phase : {"free", "sent", "loaded"}, tool : Tools \cup {NoTool},
    action : Actions, snap : SUBSET ExaminerState ]

TabType ==
  [phase : TabPhases, tool : Tools \cup {NoTool}, awaits : SUBSET Requests]

\* Every variable has the shape the rows and messages of the code have; a
\* tab that is working has a tool, so its widget can report on one.
TypeOK ==
  /\ blueprint \subseteq Blueprints
  /\ saved \in SUBSET ExaminerState
  /\ req \in [Requests -> ReqType]
  /\ tab \in [Tabs -> TabType]
  /\ \A t \in Tabs : tab[t].phase = "working" => tab[t].tool \in Tools
  /\ finished \subseteq Tools
  /\ answers \in [Tools -> Nat]
  /\ reloads \in Nat /\ losses \in Nat /\ edits \in Nat

\* No tool is ever counted beyond its blueprint count, a tool that is not
\* active is never counted, and the question index is the total.
CountsAgree(s) ==
  /\ \A t \in Tools : s.done[t] <= EnabledCount(s.bp)[t]
  /\ s.index = Sum(s.done)

\* The blueprint's total_questions lies below the sum of its counts: the
\* counted questions can reach it while tools have questions left.
Short(b) == b.total # 0 /\ b.total < Sum(EnabledCount(b))

\* A sitting is complete exactly when no tool has a question left, or, where
\* the blueprint's total is short, when the questions done reach it; until
\* then the tool served is the first in serving order that has one.
RoutedToWork(s) ==
  /\ s.complete <=> IF Short(s.bp) THEN Sum(s.done) >= s.bp.total ELSE Remaining(s) = {}
  /\ s.complete => s.current = NoTool
  /\ ~s.complete => /\ s.current \in Remaining(s)
                    /\ \A u \in Remaining(s) : Rank[s.current] <= Rank[u]

\* Whatever turns overlap, the persisted counts agree with the blueprint
\* frozen in the state (run_tool_loop's cap, update_session's sum).
CountsConsistent == \A s \in saved : CountsAgree(s)

\* Whatever turns overlap, the persisted routing decision is right for the
\* persisted counts: neither a tool with nothing left nor one out of order is
\* served, and completion is neither early nor late by the blueprint's counts,
\* or by its total where that is short (check_completion, route_question).
RoutingConsistent == \A s \in saved : RoutedToWork(s)

\* The questions of tool t that blueprint b asks for and that were reported
\* answered, one by one or with the tool as a whole.
Answered(b, t) ==
  IF t \notin b.enabled THEN 0
  ELSE IF t \in finished THEN b.count[t] ELSE Min2(answers[t], b.count[t])

\* What blueprint b asks before a sitting is complete was reported answered.
WorkedThrough(b) ==
  IF Short(b) THEN Sum([t \in Tools |-> Answered(b, t)]) >= b.total
              ELSE \A t \in b.enabled : Answered(b, t) = b.count[t]

\* A page is told that the sitting is complete (which makes it call /complete
\* and so starts grading) only when the blueprint of the turn that says so was
\* worked through: every question of it, or as many as a total that is short
\* asks.  Lost replies, reloads, edits and overlapping turns never credit a
\* tool nobody worked on.
CompletionIsEarned ==
  [][\A t \in Tabs :
       tab[t].phase # "complete" /\ tab'[t].phase = "complete" =>
         \E r \in tab[t].awaits : \E s \in req[r].snap : WorkedThrough(s.bp)]_vars

\* However turns overlap, the document that is persisted hangs together.
StateConsistent == CountsConsistent /\ RoutingConsistent

\* Request r writes back a document computed from the one that is persisted.
WritesFresh(r) == req[r].phase = "loaded" /\ req'[r] = Free /\ req[r].snap = saved

\* Progress made on document s is still there in n, and n is routed by the
\* blueprint the sitting was started on.
KeptIn(s, n) == s.bp = n.bp /\ \A t \in Tools : s.done[t] <= n.done[t]

\* A turn that was not overtaken takes no progress back and does not change the
\* blueprint under the learner, whatever the admin edits meanwhile
\* (run_tool_loop, _initial_state); an overtaken one may, for a turn is computed
\* between its read and its write.
TurnsKeep ==
  [][(\E r \in Requests : WritesFresh(r)) =>
       \A s \in saved, n \in saved' : KeptIn(s, n)]_vars

\* Lost replies, errors, reloads and edits delay a sitting but do not strand
\* it, unless the assessment is left without a valid blueprint.
EventuallyComplete ==
  \A t \in Tabs : <>[](blueprint = {}) \/ <>(tab[t].phase = "complete")

=============================================================================
