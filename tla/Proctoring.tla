----------------------------- MODULE Proctoring -----------------------------
(***************************************************************************)
(* The integrity events of a session (proctoring/service.py).              *)
(*                                                                         *)
(* The page reports what it sees, sends camera frames to a vision model    *)
(* and sound levels to a check; each finding becomes an event row, at most *)
(* one per type and cooldown.  A request that has recorded something       *)
(* counts the high-severity events and flags the session at the threshold, *)
(* which locks the tools.  Requests are transactions under READ COMMITTED: *)
(* one sees the committed events and its own, never those of a request     *)
(* that is still open.                                                     *)
(***************************************************************************)
EXTENDS Integers, FiniteSets

CONSTANTS
  Requests,       \* slots for requests in flight
  HighTypes,      \* event types of severity "high", those of identity apart
  OtherTypes,     \* event types of severity "medium" or "low", likewise
  Enabled,        \* policy.enabled_checks
  RequireCamera,  \* policy.require_camera
  Threshold,      \* policy.high_severity_threshold
  MaxReports      \* bound: requests begun

VARIABLES
  status,         \* the session's status
  high,           \* committed events of severity "high"
  verified,       \* an identity_verified event is committed
  failed,         \* an identity_fail event is committed
  recent,         \* types with a committed event inside the cooldown
  req,            \* the requests
  begun,          \* how many were begun
  overlapped      \* history: two requests have been in flight together

events == <<high, verified, failed, recent>>
vars   == <<status, events, req, begun, overlapped>>

Monitored == HighTypes \cup OtherTypes

\* What the face match finds, "low" and "high".  The catalogue lists them with
\* the others: they can be enabled, and reported by a client, like any type.
Identity == {"identity_verified", "identity_fail"}

Types == Monitored \cup Identity

ASSUME ProctoringAssumption ==
  /\ IsFiniteSet(HighTypes) /\ IsFiniteSet(OtherTypes)
  /\ HighTypes \cap OtherTypes = {}
  /\ Identity \cap Monitored = {}
  /\ Enabled \subseteq Types
  /\ RequireCamera \in BOOLEAN
  /\ Threshold \in Nat \ {0}
  /\ MaxReports \in Nat

Statuses == {"pending", "active", "completed", "flagged", "pending_review"}

\* "expired" is terminal as well; nothing ever writes it.
Terminal == {"completed"}

-----------------------------------------------------------------------------
(* Severities, the verification status, and the gate of the tools.         *)

HighIn(S) == Cardinality(S \cap (HighTypes \cup {"identity_fail"}))

\* Wrong variant: exceeding, not reaching, the threshold.
ExceedsOnly(n) == n > Threshold

Reaches(n) == n >= Threshold

\* compute_verification_status, as the integrity summary reports it.
Verification ==
  CASE failed                                             -> "identity_failed"
    [] ~failed /\ (status = "flagged" \/ high >= Threshold) -> "flagged"
    [] ~failed /\ ~(status = "flagged" \/ high >= Threshold) ->
         IF verified THEN "verified" ELSE "pending"

\* assert_session_ready_for_tools: what a tool's handler asks for.
ToolsOpen == status = "active" /\ (RequireCamera => verified) /\ ~failed

\* A request: the status it loaded, what is left to record, what it has
\* inserted, whether that is the verdict of a face match, whether it flags.
Free == [phase |-> "free", status |-> "pending", todo |-> {}, mine |-> {},
         compared |-> FALSE, flag |-> FALSE]

Init ==
  /\ status = "pending"
  /\ high = 0 /\ verified = FALSE /\ failed = FALSE /\ recent = {}
  /\ req = [r \in Requests |-> Free]
  /\ begun = 0 /\ overlapped = FALSE

InFlight == {r \in Requests : req[r].phase # "free"}

-----------------------------------------------------------------------------
(* The handlers: load the session, wait for a model, record, count, commit. *)

\* Every handler refuses a session that is over.
Begin(r, phase, S) ==
  /\ req[r].phase = "free" /\ begun < MaxReports
  /\ status \notin Terminal
  /\ req' = [req EXCEPT ![r] = [Free EXCEPT !.phase = phase, !.status = status, !.todo = S]]
  /\ begun' = begun + 1
  /\ overlapped' = (overlapped \/ InFlight # {})
  /\ UNCHANGED <<status, events>>

\* record_event, record_events_batch and analyze_audio know at once what there
\* is to record; they ignore types that the policy does not enable.
Report(r) == \E S \in (SUBSET Types) \ {{}} : Begin(r, "recording", S \cap Enabled)

\* analyze_camera waits for the vision model, which finds violations or fails.
AnalyzeCamera(r) == Begin(r, "looking", {})

\* Wrong variant: a verified identity is compared again.
VerifyIdentityAgain(r) == Begin(r, "comparing", {})

\* verify_identity waits for the face match, once.
VerifyIdentity(r) == ~verified /\ Begin(r, "comparing", {})

\* Wrong variant: what the model saw is recorded, enabled or not.
SeesUnchecked(r) ==
  /\ req[r].phase = "looking"
  /\ \E S \in SUBSET Monitored :
       req' = [req EXCEPT ![r].phase = "recording", ![r].todo = S]
  /\ UNCHANGED <<status, events, begun, overlapped>>

Sees(r) ==
  /\ req[r].phase = "looking"
  /\ \E S \in SUBSET Monitored :
       req' = [req EXCEPT ![r].phase = "recording", ![r].todo = S \cap Enabled]
  /\ UNCHANGED <<status, events, begun, overlapped>>

\* A model that is not available or anything else that raises: the request's
\* transaction is rolled back.
Fails(r) ==
  /\ req[r].phase # "free"
  /\ req' = [req EXCEPT ![r] = Free]
  /\ UNCHANGED <<status, events, begun, overlapped>>

\* The verdict is inserted at once: whatever is enabled, and without a look at
\* the cooldown.  A match is then counted like any other event, a mismatch is not.
Compares(r) ==
  /\ req[r].phase = "comparing"
  /\ \/ req' = [req EXCEPT ![r].phase = "recording", ![r].compared = TRUE,
                            ![r].mine = {"identity_verified"}]
     \/ req' = [req EXCEPT ![r].phase = "closing", ![r].compared = TRUE,
                            ![r].mine = {"identity_fail"}]
  /\ UNCHANGED <<status, events, begun, overlapped>>

\* _persist_proctoring_event: a type inside its cooldown is skipped.
Records(r) ==
  /\ req[r].phase = "recording"
  /\ \E t \in req[r].todo :
       req' = [req EXCEPT ![r].todo = @ \ {t},
                          ![r].mine = IF t \in recent THEN @ ELSE @ \cup {t}]
  /\ UNCHANGED <<status, events, begun, overlapped>>

\* _maybe_flag_session, when something was recorded: whether the request flags,
\* by the status it has loaded and the events it can see.
Counts(r) ==
  /\ req[r].phase = "recording" /\ req[r].todo = {}
  /\ req' = [req EXCEPT
       ![r].phase = "closing",
       ![r].flag = /\ req[r].mine # {}
                   /\ req[r].status \notin Terminal \cup {"flagged"}
                   /\ Reaches(high + HighIn(req[r].mine))]
  /\ UNCHANGED <<status, events, begun, overlapped>>

Commits(r) ==
  /\ req[r].phase = "closing"
  /\ status' = IF req[r].flag THEN "flagged" ELSE status
  /\ high' = high + HighIn(req[r].mine)
  /\ verified' = (verified \/ "identity_verified" \in req[r].mine)
  /\ failed' = (failed \/ "identity_fail" \in req[r].mine)
  /\ recent' = recent \cup req[r].mine
  /\ req' = [req EXCEPT ![r] = Free]
  /\ UNCHANGED <<begun, overlapped>>

-----------------------------------------------------------------------------
(* Around it.                                                              *)

CooldownPasses(t) ==
  /\ t \in recent
  /\ recent' = recent \ {t}
  /\ UNCHANGED <<status, high, verified, failed, req, begun, overlapped>>

\* start_session and complete_session, here without their own races.
SessionStarts ==
  /\ status = "pending"
  /\ status' = "active"
  /\ UNCHANGED <<events, req, begun, overlapped>>

SessionCompletes ==
  /\ status # "completed"
  /\ status' = "completed"
  /\ UNCHANGED <<events, req, begun, overlapped>>

Next ==
  \/ \E r \in Requests :
       \/ Report(r) \/ AnalyzeCamera(r) \/ VerifyIdentity(r)
       \/ Sees(r) \/ Compares(r) \/ Records(r) \/ Counts(r) \/ Commits(r)
       \/ Fails(r)
  \/ \E t \in Types : CooldownPasses(t)
  \/ SessionStarts \/ SessionCompletes

Spec == Init /\ [][Next]_vars

-----------------------------------------------------------------------------
(* Properties.                                                             *)

ReqType == [ phase : {"free", "looking", "comparing", "recording", "closing"},
             status : Statuses, todo : SUBSET Enabled, mine : SUBSET Types,
             compared : BOOLEAN, flag : BOOLEAN ]

TypeOK ==
  /\ status \in Statuses
  /\ high \in Nat /\ verified \in BOOLEAN /\ failed \in BOOLEAN
  /\ recent \subseteq Types
  /\ req \in [Requests -> ReqType]
  /\ begun \in Nat /\ overlapped \in BOOLEAN

\* However requests overlap, and however stale the status they loaded, a
\* session is flagged only when its committed high-severity events reach the
\* threshold (_maybe_flag_session).
FlaggedIsEarned == status = "flagged" => high >= Threshold

\* Requests that do not overlap: what the integrity summary calls flagged is
\* locked for the tools (compute_verification_status derives the verdict from
\* the events, assert_session_ready_for_tools from the session's status).
FlaggedIsLocked == ~overlapped /\ Verification = "flagged" => ~ToolsOpen

\* A flag is neither set without cause nor, while requests take turns, missing.
FlagsSound == FlaggedIsEarned /\ FlaggedIsLocked

CommitsNow(r) == req[r].phase = "closing" /\ req'[r].phase = "free"

\* Requests that do not overlap: a face match never revokes an earlier one.  A
\* verified identity fails only on a report, which a client may make of the
\* type identity_fail like of any other (verify_identity, _prepare_client_event).
StaysVerified ==
  ~overlapped' /\ verified /\ ~failed /\ failed' =>
    \E r \in Requests :
      CommitsNow(r) /\ "identity_fail" \in req[r].mine \cap Enabled /\ ~req[r].compared

VerifiedIsKept == [][StaysVerified]_vars

\* Requests that do not overlap: an event is inserted "when enabled and outside
\* the cooldown window" (_persist_proctoring_event); only a face that does not
\* match is recorded each time (verify_identity).
InsertsLater ==
  ~overlapped => \A r \in Requests :
    CommitsNow(r) => IF req[r].compared THEN req[r].mine \cap recent \subseteq {"identity_fail"}
                     ELSE req[r].mine \subseteq Enabled \ recent

CooldownIsKept == [][InsertsLater]_vars

\* As long as requests do not overlap, each record is written on the strength
\* of those before it.
RecordsOrderly == [][StaysVerified /\ InsertsLater]_vars

=============================================================================
