------------------------------ MODULE CodeLoop ------------------------------
(***************************************************************************)
(* The adaptive loop of the coding tool (features/code) and the widget     *)
(* that drives it (ChatCodeMessage.tsx, CodeEditor.tsx).                   *)
(*                                                                         *)
(* The widget asks for a challenge, sends the learner's solution, and goes *)
(* by the contract in the reply: stop, or the position of the next         *)
(* question.  The server has no state of its own for this: it computes the *)
(* contract from the skill rows of the session each time.                  *)
(*                                                                         *)
(* An official submit runs for seconds and commits in three parts: the     *)
(* sandbox's submission, the memory agent's card, and at the end the grade *)
(* with its skill row.  It may fail between them; the learner then submits *)
(* again, and a submit that was graded already is recognised.              *)
(***************************************************************************)
EXTENDS Integers, FiniteSets

CONSTANTS
  Pages,         \* pages that show the coding tool
  Requests,      \* slots for requests in flight
  Codes,         \* solutions a learner may submit
  Budget,        \* tools.code.question_count of the blueprint
  MaxOthers,     \* bound: questions of other tools that may leave a skill row
  MaxFaults,     \* bound: failures and lost replies
  MaxReloads     \* bound: reloads of a page that has not failed

VARIABLES
  others,        \* question indexes of the other tools' skill rows
  grades,        \* grade_results rows of the coding tool, each with its skill row
  carded,        \* submissions with a committed memory card
  subs, made,    \* how many submissions and challenges there are
  queued,        \* grades whose rubric upgrade is scheduled
  page, req,
  overlapped,    \* history: two requests have been in flight together
  faults, reloads

rows     == <<others, grades, carded, subs, made, queued>>
counters == <<faults, reloads>>
vars     == <<rows, page, req, overlapped, counters>>

ASSUME LoopAssumption ==
  /\ Budget \in Nat \ {0}
  /\ MaxOthers \in Nat /\ MaxFaults \in Nat /\ MaxReloads \in Nat

-----------------------------------------------------------------------------
(* The contract: computed from the indexes of all skill rows.              *)

Contract == [index : Nat, stop : BOOLEAN]

NextIndex(S) == CHOOSE n \in {0} \cup {m + 1 : m \in S} : \A m \in S : m < n

\* Wrong variant: the position of the question just answered.
LastContract(S) == [index |-> IF S = {} THEN 0 ELSE NextIndex(S) - 1,
                    stop |-> Cardinality(S) >= Budget]

\* compute_adaptive_contract.
ContractOf(S) == [index |-> NextIndex(S), stop |-> Cardinality(S) >= Budget]

Asked  == {g.index : g \in grades}
Scored == others \cup Asked

\* A contract sent along is used where it disagrees about the position.
Chosen(payload) ==
  LET own == ContractOf(Scored)
  IN  IF \E c \in payload : c.index # own.index THEN CHOOSE c \in payload : TRUE ELSE own

-----------------------------------------------------------------------------
NoAnswer == [challenge |-> 0, index |-> 0, code |-> {}]

Free == [phase |-> "free", answer |-> NoAnswer, contract |-> {}, sub |-> 0]

Asking(payload) == [Free EXCEPT !.phase = "asked", !.contract = payload]

Blank == [phase |-> "blank", challenge |-> 0, index |-> 0, awaits |-> {}]

Init ==
  /\ others \in SUBSET (0 .. MaxOthers - 1)
  /\ grades = {} /\ carded = {} /\ subs = 0 /\ made = 0 /\ queued = {}
  /\ page = [p \in Pages |-> Blank]
  /\ req = [r \in Requests |-> Free]
  /\ overlapped = FALSE
  /\ faults = 0 /\ reloads = 0

InFlight == {r \in Requests : req[r].phase # "free"}

Sends(p, r, message, phase) ==
  /\ req[r].phase = "free"
  /\ req' = [req EXCEPT ![r] = message]
  /\ page' = [page EXCEPT ![p].phase = phase, ![p].awaits = {r}]
  /\ overlapped' = (overlapped \/ InFlight # {})

-----------------------------------------------------------------------------
(* The page.                                                               *)

\* The widget is mounted and asks for a challenge.
Mount(p, r) ==
  /\ page[p].phase = "blank"
  /\ Sends(p, r, Asking({}), "generating")
  /\ UNCHANGED <<rows, counters>>

\* The learner submits, for the first time or after an error.
Submit(p, r) ==
  /\ page[p].phase = "editing"
  /\ \E s \in Codes :
       Sends(p, r, [Free EXCEPT !.phase = "submitted",
                                !.answer = [challenge |-> page[p].challenge,
                                            index |-> page[p].index, code |-> {s}]],
             "submitting")
  /\ UNCHANGED <<rows, counters>>

\* The page is loaded again; a widget that failed offers nothing else.  A
\* request in flight goes on without a listener.
Reload(p) ==
  /\ page[p].phase \in {"generating", "editing", "submitting", "dead"}
  /\ reloads' = IF page[p].phase = "dead" THEN reloads ELSE reloads + 1
  /\ reloads' <= MaxReloads
  /\ page' = [page EXCEPT ![p] = Blank]
  /\ UNCHANGED <<rows, req, overlapped, faults>>

\* The pages that wait for slot r; everybody else stays as he is.
Waiting(r) == {p \in Pages : r \in page[p].awaits}

Told(r, new(_)) ==
  page' = [p \in Pages |-> IF p \in Waiting(r) THEN new(page[p]) ELSE page[p]]

\* Wrong variant: a failed submit ends the widget.
FailedForGood(q) == [q EXCEPT !.phase = "dead", !.awaits = {}]

\* An error: the editor lets the learner submit again, a widget without a
\* challenge, or with an answered one, is stuck.
FailedPage(q) ==
  [q EXCEPT !.phase = IF q.phase = "submitting" THEN "editing" ELSE "dead",
            !.awaits = {}]

Ends(c) == c.stop \/ c.index >= Budget

\* The reply to a submit: the widget is through, or asks for the next
\* challenge at once, in the slot that has become free.
Contracted(r, c) ==
  IF Ends(c)
    THEN /\ Told(r, LAMBDA q : [q EXCEPT !.phase = "done", !.awaits = {}])
         /\ req' = [req EXCEPT ![r] = Free]
    ELSE /\ Told(r, LAMBDA q : [q EXCEPT !.phase = "generating"])
         /\ req' = [req EXCEPT ![r] = IF Waiting(r) = {} THEN Free ELSE Asking({c})]

-----------------------------------------------------------------------------
(* POST /generate-challenge.                                               *)

\* The contract says stop: 422.
Refuses(r) ==
  /\ req[r].phase = "asked"
  /\ Chosen(req[r].contract).stop
  /\ req' = [req EXCEPT ![r] = Free]
  /\ Told(r, FailedPage)
  /\ UNCHANGED <<rows, overlapped, counters>>

Decides(r) ==
  /\ req[r].phase = "asked"
  /\ ~Chosen(req[r].contract).stop
  /\ req' = [req EXCEPT ![r].phase = "authoring", ![r].contract = {Chosen(req[r].contract)}]
  /\ UNCHANGED <<rows, page, overlapped, counters>>

\* generate_challenge_spec: the attempts at a challenge end in a new one, or
\* the request fails.
NewChallenge == made + 1

\* The language model has written the challenge.
Authors(r) ==
  /\ req[r].phase = "authoring"
  /\ made' = NewChallenge
  /\ \E c \in req[r].contract :
       Told(r, LAMBDA q : [q EXCEPT !.phase = "editing", !.challenge = NewChallenge,
                                    !.index = c.index, !.awaits = {}])
  /\ req' = [req EXCEPT ![r] = Free]
  /\ UNCHANGED <<others, grades, carded, subs, queued, overlapped, counters>>

-----------------------------------------------------------------------------
(* POST /adaptive-submit.                                                  *)

\* Wrong variant: every submit is a new one.
NeverGraded(a) == FALSE

\* _find_idempotent_adaptive_submission.
Graded(a) == \E g \in grades : g.answer = a

Recognises(r) ==
  /\ req[r].phase = "submitted"
  /\ Graded(req[r].answer)
  /\ Contracted(r, ContractOf(Scored))
  /\ UNCHANGED <<rows, overlapped, counters>>

\* Wrong variant: the id is read before the row is flushed.
ExecutesUnflushed(r) ==
  /\ req[r].phase = "submitted"
  /\ ~Graded(req[r].answer)
  /\ subs' = subs + 1
  /\ req' = [req EXCEPT ![r].phase = "executed", ![r].sub = subs]
  /\ UNCHANGED <<others, grades, carded, made, queued, page, overlapped, counters>>

\* The sandbox has run and the submission is committed.
Executes(r) ==
  /\ req[r].phase = "submitted"
  /\ ~Graded(req[r].answer)
  /\ subs' = subs + 1
  /\ req' = [req EXCEPT ![r].phase = "executed", ![r].sub = subs + 1]
  /\ UNCHANGED <<others, grades, carded, made, queued, page, overlapped, counters>>

\* Wrong variant: a memory agent that fails is passed over.
ExtractsOrNot(r) ==
  /\ req[r].phase = "executed"
  /\ carded' \in {carded, carded \cup {req[r].sub}}
  /\ req' = [req EXCEPT ![r].phase = "carded"]
  /\ UNCHANGED <<others, grades, subs, made, queued, page, overlapped, counters>>

\* The memory agent commits the card in a transaction of its own.
Extracts(r) ==
  /\ req[r].phase = "executed"
  /\ carded' = carded \cup {req[r].sub}
  /\ req' = [req EXCEPT ![r].phase = "carded"]
  /\ UNCHANGED <<others, grades, subs, made, queued, page, overlapped, counters>>

\* The skill row is added and the contract computed, before the commit.
Analyses(r) ==
  /\ req[r].phase = "carded"
  /\ req' = [req EXCEPT ![r].phase = "analysed",
                        ![r].contract = {ContractOf(Scored \cup {req[r].answer.index})}]
  /\ UNCHANGED <<rows, page, overlapped, counters>>

Grade(r) == [sub |-> req[r].sub, index |-> req[r].answer.index,
             answer |-> req[r].answer, rubric |-> "heuristic"]

Writes(r) ==
  /\ req[r].phase = "analysed"
  /\ grades' = grades \cup {Grade(r)}

\* Grade and skill row are committed, the rubric upgrade is scheduled.
Commits(r) ==
  /\ Writes(r)
  /\ queued' = queued \cup {req[r].sub}
  /\ \E c \in req[r].contract : Contracted(r, c)
  /\ UNCHANGED <<others, carded, subs, made, overlapped, counters>>

-----------------------------------------------------------------------------
(* The rubric upgrade, a background task, and what goes wrong.             *)

Upgrades(n) ==
  /\ n \in queued
  /\ queued' = queued \ {n}
  /\ grades' = {IF g.sub = n THEN [g EXCEPT !.rubric = "llm"] ELSE g : g \in grades}
  /\ UNCHANGED <<others, carded, subs, made, page, req, overlapped, counters>>

Fault == faults < MaxFaults /\ faults' = faults + 1

\* The language model fails: the task swallows it.
UpgradeFails(n) ==
  /\ n \in queued
  /\ queued' = queued \ {n}
  /\ Fault
  /\ UNCHANGED <<others, grades, carded, subs, made, page, req, overlapped, reloads>>

\* A handler fails (the memory agent, the author, the connection): what is not
\* committed is rolled back.
Fails(r) ==
  /\ req[r].phase # "free"
  /\ Fault
  /\ req' = [req EXCEPT ![r] = Free]
  /\ Told(r, FailedPage)
  /\ UNCHANGED <<rows, overlapped, reloads>>

\* A submit is committed and its reply lost.
CommitsUnheard(r) ==
  /\ Writes(r)
  /\ Fault
  /\ queued' = queued \cup {req[r].sub}
  /\ req' = [req EXCEPT ![r] = Free]
  /\ Told(r, FailedPage)
  /\ UNCHANGED <<others, carded, subs, made, overlapped, reloads>>

Handles(r) ==
  \/ Refuses(r) \/ Decides(r) \/ Authors(r)
  \/ Recognises(r) \/ Executes(r) \/ Extracts(r) \/ Analyses(r) \/ Commits(r)

Next ==
  \/ \E p \in Pages, r \in Requests : Mount(p, r) \/ Submit(p, r)
  \/ \E p \in Pages : Reload(p)
  \/ \E r \in Requests : Handles(r) \/ Fails(r) \/ CommitsUnheard(r)
  \/ \E n \in 1 .. subs : Upgrades(n) \/ UpgradeFails(n)

Spec == Init /\ [][Next]_vars

(* The server finishes its requests and runs its tasks; the widget mounts, *)
(* the learner submits, and reloads a page that is stuck.                  *)
Fairness ==
  /\ \A r \in Requests : WF_vars(Handles(r))
  /\ WF_vars(\E n \in 1 .. subs : Upgrades(n))
  /\ \A p \in Pages :
       /\ WF_vars(\E r \in Requests : Mount(p, r) \/ Submit(p, r))
       /\ WF_vars(page[p].phase = "dead" /\ Reload(p))

FairSpec == Spec /\ Fairness

-----------------------------------------------------------------------------
(* Properties.                                                             *)

Answer == [challenge : Nat, index : Nat, code : SUBSET Codes]

GradeType == [sub : 1 .. subs, index : Nat, answer : Answer,
              rubric : {"heuristic", "llm"}]

PageType == [phase : {"blank", "generating", "editing", "submitting", "dead", "done"},
             challenge : Nat, index : Nat, awaits : SUBSET Requests]

ReqType == [phase : {"free", "asked", "authoring", "submitted", "executed",
                     "carded", "analysed"},
            answer : Answer, contract : SUBSET Contract, sub : 0 .. subs]

\* Every variable has the shape of the rows and messages of the code; a graded
\* submission and a queued upgrade refer to a submission there is.
TypeOK ==
  /\ others \subseteq Nat
  /\ grades \subseteq GradeType
  /\ carded \subseteq 1 .. subs /\ queued \subseteq 1 .. subs
  /\ subs \in Nat /\ made \in Nat
  /\ page \in [Pages -> PageType]
  /\ req \in [Requests -> ReqType]
  /\ overlapped \in BOOLEAN /\ faults \in Nat /\ reloads \in Nat

\* However submits, reloads and retries overlap, the coding questions follow the
\* other tools' without a gap, and none is graded beyond the budget: a contract
\* computed before another submit's commit, or held by a page for long, leads
\* nowhere else (compute_adaptive_contract, generate_challenge).
PositionsInBudget ==
  /\ \A i \in Asked : NextIndex(others) .. i \subseteq Asked
  /\ grades # {} => Cardinality(Scored) <= Budget

\* "Return an already graded identical official answer, if one exists": as long
\* as requests do not overlap, the same solution of a challenge is graded once,
\* whatever reply was lost (_find_idempotent_adaptive_submission).
GradedOnce ==
  ~overlapped => \A g, h \in grades : g.answer = h.answer => g.sub = h.sub

\* Every graded response has its evidence card, also after failed attempts,
\* which may leave cards of their own (extract_memory_card, save_card_node).
GradesHaveCards == \A g \in grades : g.sub \in carded

\* What is stored of a graded answer hangs together, in the session and apart.
GradesSound == PositionsInBudget /\ GradesHaveCards

\* As long as requests do not overlap, a challenge that appears on a page is for
\* a position nobody has answered (generate_challenge).
AskedFresh ==
  [][~overlapped' => \A p \in Pages :
       page[p].phase = "generating" /\ page'[p].phase = "editing" =>
         page'[p].index \notin Scored]_vars

\* Failures and lost replies do not strand the learner: the coding tool gets to
\* its end, unless he leaves a healthy page, or the other tools have used up the
\* budget so that the first challenge is refused (see AllQuestionsAsked).
CodingEnds ==
  \A p \in Pages :
    <>(page[p].phase = "done" \/ reloads > 0 \/ Cardinality(others) >= Budget)

\* Unless something fails, every grade gets the rubric of the language model
\* ("Replace sandbox-heuristic rubric feedback with a full LLM rubric",
\* run_llm_grade_upgrade).
GradesUpgraded ==
  []<>(faults > 0 \/ \A g \in grades : g.rubric = "llm")

\* The coding tool comes to rest: asked, answered, graded in full.
CodingSettles == CodingEnds /\ GradesUpgraded

\* question_count is the "number of questions this tool contributes": a widget
\* that is through has had as many graded (compute_adaptive_contract).
AllQuestionsAsked ==
  \A p \in Pages :
    page[p].phase = "done" => Cardinality(Asked) >= Budget

=============================================================================
