-------------------------- MODULE SessionLifecycle --------------------------
(***************************************************************************)
(* The life of one assessment session and the release of its results.      *)
(*                                                                         *)
(* The session row (sessions/models.py) is written by four kinds of HTTP   *)
(* request -- start, complete, a proctoring analysis that reaches the flag *)
(* threshold, an admin's approval -- and by the Celery chain               *)
(* judge | build | email that a completion schedules.  Nothing locks the   *)
(* row: a handler loads it once, at its beginning, decides on that copy,   *)
(* and at its commit the ORM writes the attributes that differ from the    *)
(* copy (expire_on_commit is off and the identity map never reloads).  The *)
(* proctoring analysis and the judge wait for a language model in between. *)
(*                                                                         *)
(* The judge may find the grading inconsistent: then the session is held   *)
(* for an admin ("pending_review"), build and email let the held state     *)
(* pass, and the approval schedules finalize | email.  Whether a report    *)
(* that was built is sent, and to whom, the settings decide.               *)
(***************************************************************************)
EXTENDS Integers, FiniteSets

CONSTANTS
  Requests,      \* slots for requests in flight
  Chains,        \* Celery chains
  Reviews,       \* judge results an inconsistent grading may produce
  MailSettings,  \* how the mail may be configured
  MaxStarts, MaxCompletes, MaxFlags, MaxApprovals,  \* bounds per request kind
  MaxFaults      \* bound: lost messages, crashed workers, failed tasks

VARIABLES
  row,           \* the assessment_sessions row
  live,          \* the learner's token has not expired
  score,         \* who wrote llm_judge_score on the grade rows last
  req,           \* requests in flight, each with its copy of the row
  chain,         \* Celery chains
  begun,         \* how many requests of each kind were begun
  approvals,     \* history: how many approvals were committed
  faults,
  mail           \* the mail settings of this deployment

counters == <<begun, approvals, faults, mail>>
vars     == <<row, live, score, req, chain, counters>>

Kinds == {"start", "complete", "flag", "approve"}

\* "expired" appears in the code's checks but nothing ever writes it.
Statuses == {"pending", "active", "completed", "flagged", "pending_review"}

Row == [ status : Statuses,
         proctoring : {"not_started", "active", "stopped"},
         review : SUBSET Reviews,     \* judge_review_json: {v}, or {} when null
         started : BOOLEAN,           \* started_at is set
         ended : BOOLEAN ]            \* completed_at is set

Limit == [start |-> MaxStarts, complete |-> MaxCompletes,
          flag |-> MaxFlags, approve |-> MaxApprovals]

ASSUME LifecycleAssumption ==
  /\ \A k \in Kinds : Limit[k] \in Nat
  /\ MaxFaults \in Nat
  \* RESEND_API_KEY, ADMIN_REPORT_EMAIL: set or left empty, the default
  /\ MailSettings \subseteq [key : BOOLEAN, admin : BOOLEAN]

\* sign_in creates the row.
NewRow == [status |-> "pending", proctoring |-> "not_started", review |-> {},
           started |-> FALSE, ended |-> FALSE]

-----------------------------------------------------------------------------
(* The ORM's UPDATE: of what a handler assigned, only the attributes that  *)
(* differ from the copy it loaded reach the row.                           *)
Pick(old, new, now) == IF new = old THEN now ELSE new

Flush(loaded, new) ==
  [ status     |-> Pick(loaded.status, new.status, row.status),
    proctoring |-> Pick(loaded.proctoring, new.proctoring, row.proctoring),
    review     |-> Pick(loaded.review, new.review, row.review),
    started    |-> Pick(loaded.started, new.started, row.started),
    ended      |-> Pick(loaded.ended, new.ended, row.ended) ]

\* What the handlers assign to their copy r of the row.
\* Wrong variant: start forgets to switch proctoring on.
StartedUnproctored(r) == [r EXCEPT !.status = "active", !.started = TRUE]

Started(r) ==
  [r EXCEPT !.status = "active", !.started = TRUE, !.proctoring = "active"]

\* Wrong variant: a status outside the vocabulary of the column.
CompletedMisspelt(r) ==
  [r EXCEPT !.status = "complete", !.ended = TRUE, !.proctoring = "stopped"]

Completed(r) ==
  [r EXCEPT !.status = "completed", !.ended = TRUE, !.proctoring = "stopped"]

Flagged(r) == [r EXCEPT !.status = "flagged"]

\* Wrong variant: the judge's snapshot is not stored with the hold.
HeldUnrecorded(r, v) == [r EXCEPT !.status = "pending_review"]

Held(r, v) == [r EXCEPT !.status = "pending_review", !.review = {v}]

\* Wrong variant: the approval leaves the review where it was.
ApprovedKeeping(r) == r

Approved(r) == [r EXCEPT !.status = "completed", !.review = {}]

\* Early returns: a handler of kind k goes on only from such a row.
Admits(k, r) ==
  CASE k = "start"    -> r.status \in {"pending", "active"}
    [] k = "complete" -> r.status # "completed"
    [] k = "flag"     -> r.status \notin {"completed", "flagged"}
    [] k = "approve"  -> r.status = "pending_review" /\ r.review # {}

-----------------------------------------------------------------------------
NoRequest == [phase |-> "free", kind |-> "start", loaded |-> NewRow]

NoChain == [kind |-> "judge", stage |-> "unused", verdict |-> "none",
            loaded |-> NewRow]

Init ==
  /\ row = NewRow
  /\ live = TRUE
  /\ score = "none"
  /\ req = [q \in Requests |-> NoRequest]
  /\ chain = [c \in Chains |-> NoChain]
  /\ begun = [k \in Kinds |-> 0]
  /\ approvals = 0
  /\ faults = 0
  /\ mail \in MailSettings

\* A request arrives and its handler loads the row.  Learner routes need a
\* token that has not expired; proctoring and admin routes do not.
Begin(q, k) ==
  /\ req[q].phase = "free"
  /\ begun[k] < Limit[k]
  /\ k \in {"start", "complete"} => live
  /\ Admits(k, row)
  /\ req' = [req EXCEPT ![q] = [phase |-> "loaded", kind |-> k, loaded |-> row]]
  /\ begun' = [begun EXCEPT ![k] = @ + 1]
  /\ UNCHANGED <<row, live, score, chain, approvals, faults, mail>>

Loaded(q, k) == req[q].phase = "loaded" /\ req[q].kind = k

CommitStart(q) ==
  /\ Loaded(q, "start")
  /\ row' = Flush(req[q].loaded, Started(req[q].loaded))
  /\ req' = [req EXCEPT ![q] = NoRequest]
  /\ UNCHANGED <<live, score, chain, counters>>

\* The commit; the chain is scheduled afterwards.
CommitComplete(q) ==
  /\ Loaded(q, "complete")
  /\ row' = Flush(req[q].loaded, Completed(req[q].loaded))
  /\ req' = [req EXCEPT ![q].phase = "committed"]
  /\ UNCHANGED <<live, score, chain, counters>>

\* An analysis that saw the threshold reached, on its copy of the row.
CommitFlag(q) ==
  /\ Loaded(q, "flag")
  /\ row' = Flush(req[q].loaded, Flagged(req[q].loaded))
  /\ req' = [req EXCEPT ![q] = NoRequest]
  /\ UNCHANGED <<live, score, chain, counters>>

\* The held score goes to the grade rows and the session is completed.
CommitApprove(q) ==
  /\ Loaded(q, "approve")
  /\ row' = Flush(req[q].loaded, Approved(req[q].loaded))
  /\ score' = "admin"
  /\ approvals' = approvals + 1
  /\ req' = [req EXCEPT ![q].phase = "committed"]
  /\ UNCHANGED <<live, chain, begun, faults, mail>>

\* After its commit a completion schedules judge | build | email, an approval
\* finalize | email.
Schedule(q, c) ==
  /\ req[q].phase = "committed"
  /\ chain[c].stage = "unused"
  /\ chain' = [chain EXCEPT
       ![c].stage = "queued",
       ![c].kind = IF req[q].kind = "complete" THEN "judge" ELSE "finalize"]
  /\ req' = [req EXCEPT ![q] = NoRequest]
  /\ UNCHANGED <<row, live, score, counters>>

\* The broker is unreachable or the process dies before it has scheduled: a
\* completion swallows the error, an approval answers 500; neither retries.
ScheduleFails(q) ==
  /\ req[q].phase = "committed"
  /\ faults < MaxFaults
  /\ faults' = faults + 1
  /\ req' = [req EXCEPT ![q] = NoRequest]
  /\ UNCHANGED <<row, live, score, chain, begun, approvals, mail>>

\* 24 hours after sign-in.
Expire ==
  /\ live
  /\ live' = FALSE
  /\ UNCHANGED <<row, score, req, chain, counters>>

-----------------------------------------------------------------------------
(* The tasks of a chain; each passes its result to the next.               *)

At(c, kind, stage) == chain[c].kind = kind /\ chain[c].stage = stage

\* The session is loaded before the language model is asked.
JudgeLoads(c) ==
  /\ At(c, "judge", "queued")
  /\ chain' = [chain EXCEPT ![c].stage = "judging", ![c].loaded = row]
  /\ UNCHANGED <<row, live, score, req, counters>>

\* Consistent grading, or no usable answer: the score goes to the grade rows.
JudgeConfirms(c) ==
  /\ At(c, "judge", "judging")
  /\ score' = "judge"
  /\ chain' = [chain EXCEPT ![c].stage = "judged", ![c].verdict = "confirmed"]
  /\ UNCHANGED <<row, live, req, counters>>

JudgeHolds(c) ==
  /\ At(c, "judge", "judging")
  /\ \E v \in Reviews : row' = Flush(chain[c].loaded, Held(chain[c].loaded, v))
  /\ chain' = [chain EXCEPT ![c].stage = "judged", ![c].verdict = "held"]
  /\ UNCHANGED <<live, score, req, counters>>

\* Wrong variant: the report is built whatever the judge said.
BuildsAlways(c) ==
  /\ \/ At(c, "judge", "judged")
     \/ At(c, "finalize", "queued")
  /\ chain' = [chain EXCEPT ![c].stage = "built"]
  /\ UNCHANGED <<row, live, score, req, counters>>

\* The radar report; a held state passes through unbuilt.
Builds(c) ==
  /\ \/ At(c, "judge", "judged")
     \/ At(c, "finalize", "queued")
  /\ chain' = [chain EXCEPT
       ![c].stage = IF chain[c].verdict = "held" THEN "passed" ELSE "built"]
  /\ UNCHANGED <<row, live, score, req, counters>>

\* What sign-in stores of the learner's profile; the answer pipelines add
\* caches to it, and nothing adds an address.
ProfileFields ==
  {"name", "role", "level", "target_skills", "consent_given", "cv_context"}

\* The email task is scheduled with the profile's email and the admin's address.
Recipients ==
  {a \in {"learner", "admin"} : IF a = "learner" THEN "email" \in ProfileFields
                                               ELSE mail.admin}

Deliverable == mail.key /\ Recipients # {}

\* The email task skips a held report, and a built one that cannot be sent.
Emails(c) ==
  /\ chain[c].stage \in {"built", "passed"}
  /\ chain' = [chain EXCEPT
       ![c].stage = IF chain[c].stage = "passed" THEN "skipped"
                    ELSE IF Deliverable THEN "sent" ELSE "unsent"]
  /\ UNCHANGED <<row, live, score, req, counters>>

\* The PDF cannot be rendered: the task logs it and returns "failed".
PdfFails(c) ==
  /\ chain[c].stage = "built" /\ Deliverable
  /\ faults < MaxFaults
  /\ faults' = faults + 1
  /\ chain' = [chain EXCEPT ![c].stage = "unsent"]
  /\ UNCHANGED <<row, live, score, req, begun, approvals, mail>>

\* A task raises (Resend's refusal of the mail is one case), or its worker
\* dies: Celery has acknowledged the message and no task retries, so the chain
\* ends there.
ChainDies(c) ==
  /\ chain[c].stage \in {"queued", "judging", "judged", "built", "passed"}
  /\ faults < MaxFaults
  /\ faults' = faults + 1
  /\ chain' = [chain EXCEPT ![c].stage = "dead"]
  /\ UNCHANGED <<row, live, score, req, begun, approvals, mail>>

Breaks(c) == PdfFails(c) \/ ChainDies(c)

Task(c) ==
  \/ JudgeLoads(c) \/ JudgeConfirms(c) \/ JudgeHolds(c) \/ Builds(c) \/ Emails(c)

Next ==
  \/ \E q \in Requests, k \in Kinds : Begin(q, k)
  \/ \E q \in Requests :
       CommitStart(q) \/ CommitComplete(q) \/ CommitFlag(q) \/ CommitApprove(q)
  \/ \E q \in Requests, c \in Chains : Schedule(q, c)
  \/ \E q \in Requests : ScheduleFails(q)
  \/ Expire
  \/ \E c \in Chains : Task(c) \/ Breaks(c)

Spec == Init /\ [][Next]_vars

(* The server finishes the requests it has begun, the workers the tasks    *)
(* they have; an admin looks after the list of held sessions.              *)
Fairness ==
  /\ \A q \in Requests :
       WF_vars(\/ CommitStart(q) \/ CommitComplete(q) \/ CommitFlag(q)
               \/ CommitApprove(q) \/ \E c \in Chains : Schedule(q, c))
  /\ \A c \in Chains : WF_vars(Task(c))
  /\ \A q \in Requests : SF_vars(Begin(q, "approve"))

FairSpec == Spec /\ Fairness

-----------------------------------------------------------------------------
(* Properties.                                                             *)

Stages == {"unused", "queued", "judging", "judged", "built", "passed",
           "sent", "unsent", "skipped", "dead"}

ReqType == [phase : {"free", "loaded", "committed"}, kind : Kinds, loaded : Row]

ChainType == [kind : {"judge", "finalize"}, stage : Stages,
              verdict : {"none", "confirmed", "held"}, loaded : Row]

TypeOK ==
  /\ row \in Row
  /\ live \in BOOLEAN
  /\ score \in {"none", "judge", "admin"}
  /\ req \in [Requests -> ReqType]
  /\ chain \in [Chains -> ChainType]
  /\ begun \in [Kinds -> Nat]
  /\ approvals \in Nat /\ faults \in Nat
  /\ mail \in MailSettings

\* However stale the copies that are written back, a session the tools accept
\* answers for (status active) is one whose proctoring is switched on
\* (start_session, stop_proctoring_session, complete_session).
ActiveIsProctored == row.status = "active" => row.proctoring = "active"

\* A session on the admin's list of held sessions carries the judge's review,
\* so that it can be approved at all (approve_pending_judge_review).
HeldIsReviewable == row.status = "pending_review" => row.review # {}

HeldByJudge   == \E c \in Chains : chain[c].verdict = "held"
Sent          == {c \in Chains : chain[c].stage = "sent"}

\* "The session is held for admin review before scores are persisted or
\* emailed to the learner" (agent/nodes/judge.py): once the judge has held the
\* session nobody gets a report before an admin has approved.
HeldUntilApproved ==
  [][HeldByJudge /\ approvals = 0 => Sent' = Sent]_vars

\* A report goes out only on a chain whose own judge confirmed the grading or
\* that an approval scheduled: build and email let a held state pass through
\* (build_session_radar_report, send_session_report_email).
ReportsAreCleared ==
  \A c \in Sent : \/ chain[c].verdict = "confirmed"
                  \/ chain[c].kind = "finalize" /\ approvals > 0

\* The stage a sitting has reached in the release policy: a report counts as
\* released wherever it came from, and a hold lasts until an approval.
Outcome ==
  CASE Sent # {}                                    -> "released"
    [] Sent = {} /\ HeldByJudge /\ approvals = 0    -> "held"
    [] Sent = {} /\ ~(HeldByJudge /\ approvals = 0) ->
         IF approvals > 0 \/ \E c \in Chains : chain[c].verdict = "confirmed"
           THEN "cleared"
           ELSE IF row.ended THEN "grading" ELSE "open"

Policy == INSTANCE ReleasePolicy WITH outcome <- Outcome

\* A client that completes once gets its results by the release policy: held
\* results are cleared by an approval and by nothing else before they go out
\* (complete_session, run_session_judge_task, approve_judge_review).
ReleasesByPolicy == Policy!Spec

\* One completion yields one report, however often the approval is pressed.
ReportedAtMostOnce == Cardinality(Sent) <= 1

\* A session that is held can be released, and it is released once.
ReleasableOnce == HeldIsReviewable /\ ReportedAtMostOnce

\* Reports that were built, and sent where the settings let them be.
Reported == IF Deliverable THEN Sent ELSE {c \in Chains : chain[c].stage = "unsent"}

\* Every completion ends in a report, at once when the judge confirms it, after
\* the approval when it is held; where a key and a recipient are configured it
\* is sent.  Excepted are a lost task and a PDF that fails, which nothing
\* retries, and a flag raised on the session, which can overwrite the hold
\* (complete_session, approve_judge_review, schedule_post_completion_pipeline,
\* send_session_report_email).
CompletionIsReported ==
  row.ended ~> Reported # {} \/ faults > 0 \/ begun["flag"] > 0

=============================================================================
