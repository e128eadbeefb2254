------------------------------ MODULE Admission ------------------------------
(***************************************************************************)
(* The way into a sitting: an assessment is planned and published by the   *)
(* administrator, and a learner's tab takes the learner from the checks to *)
(* the chat and on to the page that completes the session.                 *)
(*                                                                         *)
(* Three things outlive a view of the tab and need not speak of the same   *)
(* sitting: the address shown, the credentials in sessionStorage, and the  *)
(* chat store, a global of the script that only a reload empties (its      *)
(* reset is never called).  The checks are one chain of calls, signIn,     *)
(* verifyIdentity, startSession, that goes on when its view is left; each  *)
(* attempt signs in anew.  Inside the chat only the number of tools that   *)
(* are still to be served is kept (module Examiner has the turns).         *)
(***************************************************************************)
EXTENDS Integers, FiniteSets

CONSTANTS
  Tools,        \* the tools an assessment may use
  Blueprints,   \* the blueprints the planner may answer with
  CvRequired,   \* cv_required, which no operation changes
  Requests,     \* bound: requests that generate a blueprint
  MaxSessions,  \* bound: sessions signed in
  MaxEdits,     \* bound: PATCHes of the assessment
  MaxFaults     \* bound: failures, lost replies, mismatches, reloads

VARIABLES
  a,         \* the assessment: status, enabled tools, blueprint
  req,       \* generate-blueprint requests: phase, status as loaded
  row,       \* assessment_sessions
  left,      \* examiner_state_json: tools still to serve, Unrouted before
  page,      \* the view of the tab
  tab,       \* sessionStorage (auth) and the chat addresses in the history
  store,     \* the chat store: its isComplete
  attempt,   \* per session: where its chain of checks stands
  calls,     \* turns in flight, with the number of tools left as the page saw it
  edits, faults

server == <<a, req, edits>>
client == <<page, tab, store, attempt, calls>>
vars   == <<server, row, left, client, faults>>

ASSUME AdmissionAssumption ==
  /\ IsFiniteSet(Tools)
  /\ Blueprints \subseteq [tools : SUBSET Tools, limited : BOOLEAN]
  /\ CvRequired \in BOOLEAN
  /\ MaxSessions \in Nat /\ MaxEdits \in Nat /\ MaxFaults \in Nat

Ids      == 1 .. MaxSessions
None     == 0                    \* no session
Unrouted == -1
Counts   == Unrouted .. Cardinality(Tools)   \* tools left to serve

\* A blueprint, as far as it matters here: its tools, and whether it limits
\* the time of a sitting.  One that is not valid is NoPlan.
NoPlan == [tools |-> {}, limited |-> FALSE, valid |-> FALSE]
Plan   == Blueprints \cup {NoPlan}
Status == {"draft", "active", "archived"}

NewRow(st) == [status |-> st, verified |-> FALSE, failed |-> FALSE,
               limited |-> FALSE, late |-> FALSE]
Form     == [shows |-> "loading", id |-> None, url |-> None, seen |-> Unrouted,
             cvNeeded |-> FALSE, cv |-> FALSE, busy |-> None]
Idle     == [phase |-> "idle", status |-> "draft"]
Done     == [Idle EXCEPT !.phase = "done"]

\* POST /admin/assessments stores what the payload says.
Init ==
  /\ a \in [status : Status, enabled : SUBSET Tools, plan : Plan]
  /\ req = [r \in Requests |-> Idle]
  /\ row = [s \in Ids |-> NewRow("none")]
  /\ left = [s \in Ids |-> Unrouted]
  /\ page = Form
  /\ tab = [auth |-> None, urls |-> {}]
  /\ store = FALSE
  /\ attempt = [s \in Ids |-> "none"]
  /\ calls = {}
  /\ edits = 0 /\ faults = 0

Fault == faults < MaxFaults /\ faults' = faults + 1

-----------------------------------------------------------------------------
(* The administrator.                                                      *)

\* PATCH: any of the fields, whatever they were, and whoever sits.
Edit ==
  /\ edits < MaxEdits
  /\ edits' = edits + 1
  /\ \E st \in Status, T \in SUBSET Tools, p \in Plan :
       /\ a' = [status |-> st, enabled |-> T, plan |-> p]
       /\ Cardinality({f \in DOMAIN a : a'[f] # a[f]}) = 1
  /\ UNCHANGED <<req, row, left, client, faults>>

\* The request loads the assessment; without an enabled tool it is refused.
Asks(r) ==
  /\ req[r].phase = "idle"
  /\ a.enabled # {}
  /\ req' = [req EXCEPT ![r] = [phase |-> "planning", status |-> a.status]]
  /\ UNCHANGED <<a, edits, row, left, client, faults>>

\* Wrong variant: the status is written in any case.
StatusPublished(loaded) == "active"

\* The status a request leaves behind.  The row is written as a difference
\* from what was loaded: "active" is written only where it is a change.
StatusAfter(loaded) == IF loaded = "active" THEN a.status ELSE "active"

\* The planner has answered with a blueprint.  That it uses the enabled tools
\* only is asked for, not enforced.
Plans(r) ==
  /\ req[r].phase = "planning"
  /\ req' = [req EXCEPT ![r] = Done]
  /\ \E p \in Blueprints :
       a' = [a EXCEPT !.plan = p, !.status = StatusAfter(req[r].status)]
  /\ UNCHANGED <<edits, row, left, client, faults>>

\* The model fails, or answers with what is no blueprint: 422.
PlanFails(r) ==
  /\ req[r].phase = "planning"
  /\ Fault
  /\ req' = [req EXCEPT ![r] = Done]
  /\ UNCHANGED <<a, edits, row, left, client>>

-----------------------------------------------------------------------------
(* The checks.                                                             *)

\* The form asks for the intake configuration.  An assessment that is not
\* active, and a request that fails, leave a form that needs no CV.
Intake ==
  /\ page.shows = "loading"
  /\ page' = [page EXCEPT !.shows = "form", !.cvNeeded = CvRequired /\ a.status = "active"]
  /\ UNCHANGED <<server, row, left, tab, store, attempt, calls, faults>>

IntakeFails ==
  /\ page.shows = "loading"
  /\ Fault
  /\ page' = [page EXCEPT !.shows = "form"]
  /\ UNCHANGED <<server, row, left, tab, store, attempt, calls>>

\* The form offers the upload of a CV whether or not it says that one is needed.
AttachCv ==
  /\ page.shows = "form" /\ ~page.cv
  /\ page' = [page EXCEPT !.cv = TRUE]
  /\ UNCHANGED <<server, row, left, tab, store, attempt, calls, faults>>

\* handleContinue, up to its first call: the form is complete and not busy.
Ready ==
  /\ page.shows = "form" /\ page.busy = None
  /\ page.cvNeeded => page.cv

\* POST /sign-in: a pending row with the consent of the learner.
Inserts(s) ==
  /\ a.status = "active"
  /\ CvRequired => page.cv
  /\ row[s].status = "none" /\ \A t \in 1 .. s - 1 : row[t].status # "none"
  /\ row' = [row EXCEPT ![s] = NewRow("pending")]

SignsIn(s) ==
  /\ Ready
  /\ Inserts(s)
  /\ attempt' = [attempt EXCEPT ![s] = "signedIn"]
  /\ page' = [page EXCEPT !.busy = s]
  /\ UNCHANGED <<server, left, tab, store, calls, faults>>

\* The reply is lost: an error and a form that is free again; the row stays.
SignInLost(s) ==
  /\ Ready
  /\ Inserts(s)
  /\ Fault
  /\ UNCHANGED <<server, left, client>>

\* Wrong variant: the form is not freed.
FailsBusy(s) == attempt' = [attempt EXCEPT ![s] = "none"] /\ UNCHANGED page

\* The catch of handleContinue: the attempt is over, the form that made it is
\* free again.
Fails(s) ==
  /\ attempt' = [attempt EXCEPT ![s] = "none"]
  /\ page' = IF page.busy = s THEN [page EXCEPT !.busy = None] ELSE page

\* verify-identity with a match.
Verifies(s) ==
  /\ attempt[s] = "signedIn"
  /\ row[s].status # "completed"
  /\ row' = [row EXCEPT ![s].verified = TRUE]
  /\ attempt' = [attempt EXCEPT ![s] = "verified"]
  /\ UNCHANGED <<server, left, page, tab, store, calls, faults>>

\* Wrong variant: the answer to the verification is not looked at.
VerifyFailsOpen(s) ==
  /\ attempt[s] = "signedIn"
  /\ Fault
  /\ attempt' = [attempt EXCEPT ![s] = "verified"]
  /\ row' = [row EXCEPT ![s].failed = TRUE]
  /\ UNCHANGED <<server, left, page, tab, store, calls>>

\* A mismatch is recorded; or the provider fails; or the reply is lost.
VerifyFails(s) ==
  /\ attempt[s] = "signedIn"
  /\ Fault
  /\ Fails(s)
  /\ \/ row' = [row EXCEPT ![s].failed = TRUE]
     \/ row' = [row EXCEPT ![s].verified = TRUE]
     \/ UNCHANGED row
  /\ UNCHANGED <<server, left, tab, store, calls>>

\* apply_session_deadline: a blueprint without a limit leaves what was there.
Deadline(rw) == [rw EXCEPT !.limited = @ \/ a.plan.limited]

\* POST /start.  The blueprint is the one published now; whether the
\* assessment is still active, and the identity verified, is not asked.
StartsRow(s) ==
  /\ row[s].status \in {"pending", "active"}
  /\ row' = [row EXCEPT ![s] = Deadline([@ EXCEPT !.status = "active"])]

StartLost(s) ==
  /\ attempt[s] = "verified"
  /\ Fault
  /\ StartsRow(s) \/ UNCHANGED row
  /\ Fails(s)
  /\ UNCHANGED <<server, left, tab, store, calls>>

-----------------------------------------------------------------------------
(* The chat.                                                               *)

\* What mounting the chat page of session s does, with the credentials auth
\* and the chat store st.  A store that says complete, of whatever sitting,
\* sends the page on to the completion of s; otherwise the first turn is
\* asked for, which other credentials than those of s are refused.
Mounts(s, auth, st) ==
  /\ store' = st
  /\ page' = [Form EXCEPT !.id = s, !.url = s,
                          !.shows = IF st THEN "completing"
                                    ELSE IF s = auth THEN "chat" ELSE "refused"]

FirstTurn(s, auth) == IF s = auth THEN {<<s, Unrouted>>} ELSE {}

\* The tab goes to the chat of s.  A chat page that is there already stays
\* (started.current): it goes on with its session, and only the address is new.
Opens(s, auth) ==
  IF page.shows \in {"chat", "refused"}
    THEN page' = [page EXCEPT !.url = s] /\ UNCHANGED <<store, calls>>
    ELSE Mounts(s, auth, store) /\ calls' = calls \cup FirstTurn(s, auth)

\* The end of handleContinue: the session is started, the credentials are
\* kept, and the tab goes to the chat from whatever it shows.
Starts(s) ==
  /\ attempt[s] = "verified"
  /\ StartsRow(s)
  /\ attempt' = [attempt EXCEPT ![s] = "none"]
  /\ tab' = [auth |-> s, urls |-> tab.urls \cup {s}]
  /\ Opens(s, s)
  /\ UNCHANGED <<server, left, faults>>

\* assert_within_session_time.
InTime(s) == ~row[s].late

\* assert_session_ready_for_tools (a flag is module Proctoring's).
Gate(s) ==
  /\ row[s].status = "active" /\ InTime(s)
  /\ row[s].verified /\ ~row[s].failed

\* Wrong variant: the tools are counted one too many.
LeftAfterOne(s, k) ==
  IF left[s] = Unrouted THEN Cardinality(a.plan.tools) + 1
  ELSE IF k = left[s] /\ k > 0 THEN k - 1 ELSE left[s]

\* run_examiner_turn: what is left after a turn of a page that saw k tools
\* left.  The blueprint must be valid at every turn and is used at the first;
\* a repeated turn finishes no second tool.  A total below the sum over the
\* tools, which completes earlier, is module Examiner's.
LeftAfter(s, k) ==
  IF left[s] = Unrouted THEN Cardinality(a.plan.tools)
  ELSE IF k = left[s] /\ k > 0 THEN k - 1 ELSE left[s]

\* Wrong variant: complete when the last tool is served, not when it is finished.
ShownAtLast(s, n) ==
  /\ store' = (n <= 1)
  /\ page' = IF page.shows # "chat" THEN page
             ELSE IF n <= 1 THEN [page EXCEPT !.shows = "completing", !.seen = Unrouted]
             ELSE IF page.id = s THEN [page EXCEPT !.seen = n] ELSE page

\* Every reply overwrites the flag of the store, whose sitting it is or not; a
\* chat that is shown goes to the completion when the flag says so.
Shown(s, n) ==
  /\ store' = (n = 0)
  /\ page' = IF page.shows # "chat" THEN page
             ELSE IF n = 0 THEN [page EXCEPT !.shows = "completing", !.seen = Unrouted]
             ELSE IF page.id = s THEN [page EXCEPT !.seen = n] ELSE page

\* The turn is settled and its reply arrives; after the last tool
\* advanceExaminer has the session completed (the call <<s, 0>>).
Turn(s, k) ==
  /\ <<s, k>> \in calls /\ k # 0
  /\ Gate(s) /\ a.plan # NoPlan
  /\ LET n == LeftAfter(s, k) IN
       /\ left' = [left EXCEPT ![s] = n]
       /\ calls' = (calls \ {<<s, k>>})
                     \cup (IF n = 0 /\ k # Unrouted THEN {<<s, 0>>} ELSE {})
       /\ Shown(s, n)
  /\ UNCHANGED <<server, row, tab, attempt, faults>>

\* The gate refuses, or the blueprint is not valid, or the reply is lost (the
\* turn may be settled): a first turn shows an error, another is only logged.
TurnFails(s, k) ==
  /\ <<s, k>> \in calls /\ k # 0
  /\ calls' = calls \ {<<s, k>>}
  /\ \/ (~Gate(s) \/ a.plan = NoPlan) /\ UNCHANGED <<left, faults>>
     \/ Fault /\ UNCHANGED left
     \/ /\ Fault
        /\ Gate(s) /\ a.plan # NoPlan
        /\ left' = [left EXCEPT ![s] = LeftAfter(s, k)]
  /\ page' = IF k = Unrouted /\ page.shows = "chat" /\ page.id = s
               THEN [page EXCEPT !.shows = "refused"] ELSE page
  /\ UNCHANGED <<server, row, tab, store, attempt>>

\* The learner has answered the last question of a tool (complete_tool).
Advances ==
  /\ page.shows = "chat" /\ page.seen > 0
  /\ <<page.id, page.seen>> \notin calls
  /\ calls' = calls \cup {<<page.id, page.seen>>}
  /\ UNCHANGED <<server, row, left, page, tab, store, attempt, faults>>

\* POST /complete asks neither for the status nor for the turns.
Complete(s) == row' = [row EXCEPT ![s].status = "completed"]

\* advanceExaminer's completion; when it fails that is only logged.
Ends(s) ==
  /\ <<s, 0>> \in calls
  /\ calls' = calls \ {<<s, 0>>}
  /\ \/ Complete(s) /\ UNCHANGED faults
     \/ Fault /\ UNCHANGED row
  /\ UNCHANGED <<server, left, page, tab, store, attempt>>

\* The complete page completes the session of its address, with the
\* credentials of sessionStorage; a mismatch, or a failure, goes unnoticed.
Completes ==
  /\ page.shows = "completing"
  /\ page' = [page EXCEPT !.shows = "complete"]
  /\ \/ tab.auth = page.id /\ Complete(page.id) /\ UNCHANGED faults
     \/ tab.auth # page.id /\ UNCHANGED <<row, faults>>
     \/ Fault /\ UNCHANGED row
  /\ UNCHANGED <<server, left, tab, store, attempt, calls>>

\* The time of a sitting runs out: the page shows it, and nothing but the gate
\* takes notice.
RunsOut(s) ==
  /\ row[s].status = "active" /\ row[s].limited /\ ~row[s].late
  /\ row' = [row EXCEPT ![s].late = TRUE]
  /\ UNCHANGED <<server, left, client, faults>>

\* "Start again", or the way back to the checks: the view is new, the store is
\* not.
Leaves ==
  /\ page.shows \in {"chat", "refused", "complete"}
  /\ page' = Form
  /\ UNCHANGED <<server, row, left, tab, store, attempt, calls, faults>>

\* The learner goes through the history of the tab to a chat opened before.
Returns(s) ==
  /\ s \in tab.urls
  /\ page.shows # "completing"
  /\ Opens(s, tab.auth)
  /\ UNCHANGED <<server, row, left, tab, attempt, faults>>

\* The tab is loaded again: the script starts anew, sessionStorage stays.
Reloads ==
  /\ Fault
  /\ attempt' = [s \in Ids |-> "none"]
  /\ \/ /\ page.shows \in {"chat", "refused"}
        /\ Mounts(page.url, tab.auth, FALSE)
        /\ calls' = FirstTurn(page.url, tab.auth)
     \/ /\ page.shows \in {"loading", "form"}
        /\ page' = Form /\ store' = FALSE /\ calls' = {}
     \/ /\ page.shows \in {"completing", "complete"}
        /\ page' = [page EXCEPT !.shows = "completing"]
        /\ store' = FALSE /\ calls' = {}
  /\ UNCHANGED <<server, row, left, tab>>

-----------------------------------------------------------------------------
AdminStep == Edit \/ \E r \in Requests : Asks(r) \/ Plans(r) \/ PlanFails(r)

CheckStep(s) ==
  \/ SignsIn(s) \/ SignInLost(s) \/ Verifies(s) \/ VerifyFails(s)
  \/ Starts(s) \/ StartLost(s)

ChatStep(s) ==
  \/ RunsOut(s) \/ Returns(s) \/ Ends(s)
  \/ \E k \in Counts : Turn(s, k) \/ TurnFails(s, k)

PageStep == Intake \/ IntakeFails \/ AttachCv \/ Advances \/ Completes \/ Leaves \/ Reloads

Next == AdminStep \/ PageStep \/ \E s \in Ids : CheckStep(s) \/ ChatStep(s)

Spec == Init /\ [][Next]_vars

\* The learner keeps trying and the calls return.
FairSpec ==
  /\ Spec
  /\ WF_vars(Intake) /\ WF_vars(AttachCv)
  /\ \A s \in Ids : /\ WF_vars(SignsIn(s))
                    /\ WF_vars(Verifies(s))
                    /\ WF_vars(Starts(s))

-----------------------------------------------------------------------------
(* Correctness.                                                            *)

RowType ==
  [status : {"none", "pending", "active", "completed"},
   verified : BOOLEAN, failed : BOOLEAN, limited : BOOLEAN, late : BOOLEAN]

PageType ==
  [shows : {"loading", "form", "chat", "refused", "completing", "complete"},
   id : Ids \cup {None}, url : Ids \cup {None}, seen : Counts,
   cvNeeded : BOOLEAN, cv : BOOLEAN, busy : Ids \cup {None}]

\* The types of the variables.
TypeOK ==
  /\ a \in [status : Status, enabled : SUBSET Tools, plan : Plan]
  /\ req \in [Requests -> [phase : {"idle", "planning", "done"}, status : Status]]
  /\ row \in [Ids -> RowType]
  /\ left \in [Ids -> Counts]
  /\ page \in PageType
  /\ tab \in [auth : Ids \cup {None}, urls : SUBSET Ids]
  /\ store \in BOOLEAN
  /\ attempt \in [Ids -> {"none", "signedIn", "verified"}]
  /\ calls \subseteq Ids \X Counts
  /\ edits \in 0 .. MaxEdits /\ faults \in 0 .. MaxFaults

\* Of the sessions that attempts at the checks leave behind none is served or
\* completed: a session that was routed, or completed, or is shown in the chat
\* was taken through every check by its own attempt and has no mismatch on
\* record (handleContinue).
AdmittedOnly ==
  \A s \in Ids :
    \/ left[s] # Unrouted \/ row[s].status = "completed"
    \/ s \in tab.urls \/ (page.shows = "chat" /\ page.id = s)
    => s \in tab.urls /\ row[s].verified /\ ~row[s].failed

\* A session is completed with tools left to serve only in a tab that has
\* finished another sitting, whose flag the chat store still held.
CompletionEarned ==
  \A s \in Ids :
    row[s].status = "completed" /\ left[s] # 0
      => \E r \in tab.urls \ {s} : left[r] = 0

\* A plan in generation does not reopen the assessment that was archived after
\* it was asked for while active: that takes a PATCH, or a request made
\* before the assessment was active or after it was archived.
PlannerKeepsClosed ==
  [][a.status = "archived" /\ a'.status # "archived"
       => \/ edits' # edits
          \/ \E r \in Requests :
               /\ req[r].phase = "planning" /\ req'[r].phase = "done"
               /\ req[r].status # "active"]_vars

\* A learner who keeps trying gets into the chat of an assessment that stays
\* active, whatever failed on the way: every failed attempt frees the form.
EventuallyAdmitted == <>[](a.status = "active") => <>(tab.urls # {})
=============================================================================
