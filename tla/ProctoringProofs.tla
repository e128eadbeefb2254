-------------------------- MODULE ProctoringProofs --------------------------
(* What holds of the integrity events for every policy, any set of event    *)
(* types and any number of requests; and of the page that watches with any  *)
(* number of frames.                                                       *)
EXTENDS CameraWatch, FiniteSetTheorems, TLAPS

(* Without overlap one request is in flight at most.                       *)
Alone ==
  ~overlapped => \A r, q \in Requests :
    req[r].phase # "free" /\ req[q].phase # "free" => r = q

(* A request that is going to flag has counted enough, and what is          *)
(* committed meanwhile only adds to it; a flag it has seen is not lifted.   *)
Counted(r) ==
  /\ req[r].flag => /\ req[r].phase = "closing"
                    /\ high + HighIn(req[r].mine) >= Threshold
  /\ req[r].phase = "free" => req[r].mine = {} /\ ~req[r].compared
  /\ req[r].phase # "free" => req[r].status # "completed"
  /\ req[r].phase # "free" /\ req[r].status = "flagged"
       => status \in {"flagged", "completed"}

(* The request that is alone in flight: it flags when the threshold will be *)
(* reached, it compares no identity that is verified, and what it records   *)
(* is enabled and outside the cooldown, the verdict of a face match apart.  *)
UpToDate(r) ==
  /\ ( /\ req[r].phase = "closing" /\ req[r].mine # {}
       /\ "identity_fail" \notin req[r].mine /\ req[r].status # "flagged"
       /\ high + HighIn(req[r].mine) >= Threshold )
     => req[r].flag
  /\ req[r].phase = "comparing" \/ req[r].compared => ~verified
  /\ req[r].phase \in {"looking", "comparing"} => req[r].mine = {} /\ ~req[r].compared
  /\ IF req[r].compared THEN req[r].mine \cap recent \subseteq {"identity_fail"}
     ELSE req[r].mine \subseteq Enabled \ recent

(* A match inside its cooldown is committed.                               *)
MatchIsKnown == "identity_verified" \in recent => verified

Locked ==
  ~overlapped /\ high >= Threshold /\ ~failed => status \in {"flagged", "completed"}

IInv ==
  /\ TypeOK
  /\ FlaggedIsEarned
  /\ \A r \in Requests : Counted(r)
  /\ Alone
  /\ ~overlapped => \A r \in Requests : UpToDate(r)
  /\ Locked /\ MatchIsKnown

LEMMA HighInType ==
  ASSUME NEW S \in SUBSET Types
  PROVE  HighIn(S) \in Nat /\ (S = {} => HighIn(S) = 0)
<1> DEFINE H == S \cap (HighTypes \cup {"identity_fail"})
<1>1. IsFiniteSet(HighTypes \cup {"identity_fail"})
  BY ProctoringAssumption, FS_AddElement
<1>2. IsFiniteSet(H)
  BY <1>1, FS_Subset
<1>3. Cardinality(H) \in Nat /\ (H = {} <=> Cardinality(H) = 0)
  BY <1>2, FS_CardinalityType, FS_EmptySet
<1> QED
  BY <1>3 DEF HighIn

LEMMA FreeType ==
  /\ Free \in ReqType /\ Free.phase = "free" /\ Free.mine = {} /\ Free.flag = FALSE
  /\ Free.todo = {} /\ Free.compared = FALSE
BY DEF Free, ReqType, Statuses

LEMMA InitIInv == Init => IInv
<1> SUFFICES ASSUME Init PROVE IInv
  OBVIOUS
<1>1. TypeOK
  BY FreeType DEF Init, TypeOK, Statuses
<1>2. \A r \in Requests : Counted(r) /\ UpToDate(r)
  BY FreeType DEF Init, Counted, UpToDate
<1>3. Alone /\ FlaggedIsEarned /\ Locked /\ MatchIsKnown
  BY FreeType, ProctoringAssumption DEF Init, Alone, FlaggedIsEarned, Locked, MatchIsKnown
<1> QED
  BY <1>1, <1>2, <1>3 DEF IInv

(* A handler begins: it loads the status, and is alone or overlaps.        *)
LEMMA BeginKeeps ==
  ASSUME IInv, NEW r \in Requests, NEW S \in SUBSET Enabled,
         NEW ph \in {"looking", "comparing", "recording"}, Begin(r, ph, S),
         ph = "comparing" => ~verified
  PROVE  IInv'
<1> DEFINE n == [Free EXCEPT !.phase = ph, !.status = status, !.todo = S]
<1>1. /\ n \in ReqType /\ n.phase = ph /\ n.status = status /\ n.mine = {} /\ n.flag = FALSE
      /\ n.compared = FALSE
  BY DEF Free, ReqType, Statuses, IInv, TypeOK
<1>2. req' = [req EXCEPT ![r] = n]
  BY DEF Begin
<1> HIDE DEF n
<1>3. /\ req[r].phase = "free" /\ status \notin Terminal
      /\ UNCHANGED <<status, high, verified, failed, recent>>
      /\ begun' = begun + 1 /\ overlapped' = (overlapped \/ InFlight # {})
  BY DEF Begin, events
<1>4. TypeOK'
  BY <1>1, <1>2, <1>3 DEF IInv, TypeOK
<1>5. req'[r] = n /\ \A q \in Requests : q # r => req'[q] = req[q]
  BY <1>2 DEF IInv, TypeOK
<1>6. \A q \in Requests : Counted(q)'
  BY <1>1, <1>3, <1>5 DEF IInv, Counted, Terminal, HighIn
<1>7. Alone'
  BY <1>1, <1>3, <1>5 DEF IInv, Alone, InFlight
<1>8. ~overlapped' => \A q \in Requests : UpToDate(q)'
  BY <1>1, <1>3, <1>5 DEF IInv, UpToDate, HighIn
<1>9. FlaggedIsEarned' /\ Locked' /\ MatchIsKnown'
  BY <1>3 DEF IInv, FlaggedIsEarned, Locked, MatchIsKnown
<1> QED
  BY <1>4, <1>6, <1>7, <1>8, <1>9 DEF IInv

(* A request moves on by itself: only its own record changes.              *)
LEMMA OwnStepKeeps ==
  ASSUME IInv, NEW r \in Requests, req[r].phase # "free",
         NEW n \in ReqType, req' = [req EXCEPT ![r] = n],
         UNCHANGED <<status, events, begun, overlapped>>,
         Counted(r)', ~overlapped => UpToDate(r)'
  PROVE  IInv'
<1>1. UNCHANGED <<status, high, verified, failed, recent>>
  BY DEF events
<1>2. TypeOK'
  BY <1>1 DEF IInv, TypeOK
<1>3. req'[r] = n /\ \A q \in Requests : q # r => req'[q] = req[q]
  BY DEF IInv, TypeOK
<1>4. \A q \in Requests : Counted(q)'
  BY <1>1, <1>3 DEF IInv, Counted, HighIn
<1>5. Alone'
  BY <1>3 DEF IInv, Alone
<1>6. ~overlapped' => \A q \in Requests : UpToDate(q)'
  BY <1>1, <1>3 DEF IInv, UpToDate, HighIn
<1>7. FlaggedIsEarned' /\ Locked' /\ MatchIsKnown'
  BY <1>1 DEF IInv, FlaggedIsEarned, Locked, MatchIsKnown
<1> QED
  BY <1>2, <1>4, <1>5, <1>6, <1>7 DEF IInv

LEMMA OwnSteps ==
  ASSUME IInv, NEW r \in Requests,
         Sees(r) \/ Fails(r) \/ Compares(r) \/ Records(r) \/ Counts(r)
  PROVE  IInv'
<1>0. /\ req[r] \in ReqType /\ Counted(r) /\ (~overlapped => UpToDate(r))
      /\ recent \subseteq Types /\ high \in Nat /\ MatchIsKnown
      /\ req \in [Requests -> ReqType]
  BY DEF IInv, TypeOK
<1>1. CASE Sees(r)
  <2>1. PICK S \in SUBSET Monitored :
          req' = [req EXCEPT ![r].phase = "recording", ![r].todo = S \cap Enabled]
    BY <1>1 DEF Sees
  <2> DEFINE n == [req[r] EXCEPT !.phase = "recording", !.todo = S \cap Enabled]
  <2>2. /\ n \in ReqType /\ n.phase = "recording" /\ n.status = req[r].status
        /\ n.mine = req[r].mine /\ n.flag = req[r].flag /\ n.compared = req[r].compared
    BY <1>0 DEF ReqType
  <2>3. req' = [req EXCEPT ![r] = n] /\ req'[r] = n
    BY <1>0, <2>1
  <2> HIDE DEF n
  <2>4. /\ UNCHANGED <<status, events, begun, overlapped>>
        /\ UNCHANGED <<high, verified, failed, recent>> /\ req[r].phase = "looking"
    BY <1>1 DEF Sees, events
  <2>5. Counted(r)' /\ (~overlapped => UpToDate(r)')
    BY <1>0, <2>2, <2>3, <2>4 DEF Counted, UpToDate
  <2> QED
    BY <2>2, <2>3, <2>4, <2>5, OwnStepKeeps
<1>2. CASE Fails(r)
  <2>1. /\ req' = [req EXCEPT ![r] = Free] /\ req'[r] = Free /\ req[r].phase # "free"
        /\ UNCHANGED <<status, events, begun, overlapped>>
    BY <1>0, <1>2 DEF Fails
  <2>2. Counted(r)' /\ (~overlapped => UpToDate(r)')
    BY <2>1, FreeType DEF Counted, UpToDate
  <2> QED
    BY <2>1, <2>2, FreeType, OwnStepKeeps
<1>3. CASE Compares(r)
  <2>1. PICK n \in { [req[r] EXCEPT !.phase = "recording", !.compared = TRUE,
                                    !.mine = {"identity_verified"}],
                     [req[r] EXCEPT !.phase = "closing", !.compared = TRUE,
                                    !.mine = {"identity_fail"}] } :
          req' = [req EXCEPT ![r] = n]
    BY <1>0, <1>3 DEF Compares
  <2>2. /\ n \in ReqType /\ n.status = req[r].status /\ n.flag = req[r].flag
        /\ n.compared = TRUE
        /\ \/ n.phase = "recording" /\ n.mine = {"identity_verified"}
           \/ n.phase = "closing" /\ n.mine = {"identity_fail"}
    <3>1. {"identity_verified"} \in SUBSET Types /\ {"identity_fail"} \in SUBSET Types
      BY DEF Types, Identity
    <3> QED
      BY <1>0, <2>1, <3>1 DEF ReqType
  <2>3. /\ req'[r] = n /\ req[r].phase = "comparing"
        /\ UNCHANGED <<status, events, begun, overlapped>>
        /\ UNCHANGED <<high, verified, failed, recent>>
    BY <1>0, <1>3, <2>1 DEF Compares, events
  <2>4. ~overlapped => ~verified /\ n.mine \cap recent \subseteq {"identity_fail"}
    BY <1>0, <2>2, <2>3 DEF UpToDate, MatchIsKnown
  <2>5. Counted(r)' /\ (~overlapped => UpToDate(r)')
    BY <1>0, <2>2, <2>3, <2>4 DEF Counted, UpToDate
  <2> QED
    BY <2>1, <2>2, <2>3, <2>5, OwnStepKeeps
<1>4. CASE Records(r)
  <2>1. PICK t \in req[r].todo :
          req' = [req EXCEPT ![r].todo = @ \ {t},
                             ![r].mine = IF t \in recent THEN @ ELSE @ \cup {t}]
    BY <1>4 DEF Records
  <2> DEFINE m == IF t \in recent THEN req[r].mine ELSE req[r].mine \cup {t}
             n == [req[r] EXCEPT !.todo = @ \ {t}, !.mine = m]
  <2>2. t \in Enabled /\ t \in Types /\ m \in SUBSET Types
    BY <1>0, <2>1, ProctoringAssumption DEF ReqType
  <2>3. req[r].phase = "recording"
    BY <1>4 DEF Records
  <2>4. ~overlapped => IF req[r].compared THEN m \cap recent \subseteq {"identity_fail"}
                       ELSE m \subseteq Enabled \ recent
    BY <1>0, <2>2 DEF UpToDate
  <2> HIDE DEF m
  <2>5. /\ n \in ReqType /\ n.phase = req[r].phase /\ n.status = req[r].status
        /\ n.mine = m /\ n.flag = req[r].flag /\ n.compared = req[r].compared
    BY <1>0, <2>2 DEF ReqType
  <2>6. req' = [req EXCEPT ![r] = n] /\ req'[r] = n
    BY <1>0, <2>1 DEF m
  <2> HIDE DEF n
  <2>7. /\ UNCHANGED <<status, events, begun, overlapped>>
        /\ UNCHANGED <<high, verified, failed, recent>>
    BY <1>4 DEF Records, events
  <2>8. Counted(r)' /\ (~overlapped => UpToDate(r)')
    BY <1>0, <2>3, <2>4, <2>5, <2>6, <2>7 DEF Counted, UpToDate
  <2> QED
    BY <2>3, <2>5, <2>6, <2>7, <2>8, OwnStepKeeps
<1>5. CASE Counts(r)
  <2> DEFINE f == /\ req[r].mine # {}
                  /\ req[r].status \notin Terminal \cup {"flagged"}
                  /\ Reaches(high + HighIn(req[r].mine))
             n == [req[r] EXCEPT !.phase = "closing", !.flag = f]
  <2>1. f \in BOOLEAN
    OBVIOUS
  <2>2. f <=> /\ req[r].mine # {} /\ req[r].status \notin {"completed", "flagged"}
              /\ high + HighIn(req[r].mine) >= Threshold
    BY DEF Reaches, Terminal
  <2>3. req' = [req EXCEPT ![r] = n]
    BY <1>0, <1>5 DEF Counts
  <2> HIDE DEF f
  <2>4. /\ n \in ReqType /\ n.phase = "closing" /\ n.status = req[r].status
        /\ n.mine = req[r].mine /\ n.flag = f /\ n.compared = req[r].compared
    BY <1>0, <2>1 DEF ReqType
  <2>5. req'[r] = n
    BY <1>0, <2>3
  <2> HIDE DEF n
  <2>6. /\ UNCHANGED <<status, events, begun, overlapped>> /\ req[r].phase = "recording"
        /\ UNCHANGED <<high, verified, failed, recent>>
    BY <1>5 DEF Counts, events
  <2>7. HighIn(req'[r].mine) = HighIn(req[r].mine)
    BY <2>4, <2>5
  <2>8. Counted(r)'
    BY <1>0, <2>2, <2>4, <2>5, <2>6 DEF Counted, HighIn
  <2>9. ~overlapped => UpToDate(r)'
    BY <1>0, <2>2, <2>4, <2>5, <2>6 DEF Counted, UpToDate, HighIn
  <2> QED
    BY <2>3, <2>4, <2>6, <2>8, <2>9, OwnStepKeeps
<1> QED
  BY <1>1, <1>2, <1>3, <1>4, <1>5

(* The commit: events are added, and a flag is written over whatever status  *)
(* the session has by now.                                                 *)
LEMMA CommitKeeps ==
  ASSUME IInv, NEW r \in Requests, Commits(r)
  PROVE  IInv'
<1> DEFINE m == req[r].mine
<1>0. /\ req[r] \in ReqType /\ Counted(r) /\ (~overlapped => UpToDate(r))
      /\ req \in [Requests -> ReqType] /\ recent \subseteq Types
      /\ high \in Nat /\ verified \in BOOLEAN /\ failed \in BOOLEAN
      /\ status \in Statuses /\ Threshold \in Nat
  BY ProctoringAssumption DEF IInv, TypeOK
<1>1. m \in SUBSET Types /\ HighIn(m) \in Nat /\ (m = {} => HighIn(m) = 0)
  BY <1>0, HighInType DEF ReqType
<1>2. /\ req[r].phase = "closing"
      /\ status' = IF req[r].flag THEN "flagged" ELSE status
      /\ high' = high + HighIn(m)
      /\ verified' = (verified \/ "identity_verified" \in m)
      /\ failed' = (failed \/ "identity_fail" \in m)
      /\ recent' = recent \cup m
      /\ begun' = begun /\ overlapped' = overlapped
  BY DEF Commits
<1>3. req'[r] = Free /\ \A q \in Requests : q # r => req'[q] = req[q]
  BY <1>0 DEF Commits
<1>4. high' \in Nat /\ high' >= high
  BY <1>0, <1>1, <1>2
<1>5. TypeOK'
  <2>1. req' \in [Requests -> ReqType]
    BY <1>0, FreeType DEF Commits
  <2>2. status' \in Statuses /\ verified' \in BOOLEAN /\ failed' \in BOOLEAN
    BY <1>0, <1>2 DEF Statuses
  <2>3. recent' \subseteq Types
    BY <1>0, <1>1, <1>2
  <2> QED
    BY <1>2, <1>4, <2>1, <2>2, <2>3 DEF IInv, TypeOK
<1>6. FlaggedIsEarned'
  <2>1. req[r].flag => high + HighIn(m) >= Threshold
    BY <1>0 DEF Counted
  <2> QED
    BY <1>0, <1>2, <1>4, <2>1 DEF IInv, FlaggedIsEarned
<1>7. ASSUME NEW q \in Requests PROVE Counted(q)'
  <2>1. CASE q = r
    BY <1>3, <2>1, FreeType DEF Counted
  <2>2. CASE q # r
    <3>1. req'[q] = req[q] /\ Counted(q) /\ HighIn(req[q].mine) \in Nat
      BY <1>0, <1>3, <2>2, HighInType DEF IInv, ReqType
    <3>2. high + HighIn(req[q].mine) >= Threshold => high' + HighIn(req[q].mine) >= Threshold
      BY <1>0, <1>4, <3>1
    <3>3. status \in {"flagged", "completed"} => status' \in {"flagged", "completed"}
      BY <1>2
    <3> QED
      BY <3>1, <3>2, <3>3 DEF Counted, HighIn
  <2> QED
    BY <2>1, <2>2
<1>8. Alone'
  BY <1>2, <1>3, FreeType DEF IInv, Alone
<1>9. ASSUME ~overlapped', NEW q \in Requests PROVE UpToDate(q)'
  <2>1. CASE q = r
    BY <1>3, <2>1, FreeType DEF UpToDate
  <2>2. CASE q # r
    <3>1. /\ req'[q] = req[q] /\ req[q].phase = "free"
          /\ req[q].mine = {} /\ ~req[q].compared
      BY <1>2, <1>3, <1>9, <2>2 DEF IInv, Alone, Counted
    <3> QED
      BY <3>1 DEF UpToDate
  <2> QED
    BY <2>1, <2>2
<1>10. Locked'
  <2> SUFFICES ASSUME ~overlapped', high' >= Threshold, ~failed'
               PROVE  status' \in {"flagged", "completed"}
    BY DEF Locked
  <2>1. ~overlapped /\ ~failed /\ "identity_fail" \notin m /\ UpToDate(r)
    BY <1>0, <1>2
  <2>2. CASE req[r].flag
    BY <1>2, <2>2
  <2>3. CASE ~req[r].flag
    <3>1. m = {} \/ req[r].status = "flagged"
      BY <1>2, <2>1, <2>3 DEF UpToDate
    <3>2. CASE m = {}
      BY <1>0, <1>1, <1>2, <2>1, <2>3, <3>2 DEF IInv, Locked
    <3>3. CASE req[r].status = "flagged"
      BY <1>0, <1>2, <2>3, <3>3 DEF Counted
    <3> QED
      BY <3>1, <3>2, <3>3
  <2> QED
    BY <2>2, <2>3
<1>11. MatchIsKnown'
  BY <1>2 DEF IInv, MatchIsKnown
<1> QED
  BY <1>5, <1>6, <1>7, <1>8, <1>9, <1>10, <1>11 DEF IInv

(* What happens around the requests.                                       *)
LEMMA EnvironmentKeeps ==
  ASSUME IInv, SessionStarts \/ SessionCompletes \/ \E t \in Types : CooldownPasses(t)
  PROVE  IInv'
<1>1. /\ UNCHANGED <<high, verified, failed, req, begun, overlapped>>
      /\ recent' \subseteq recent /\ status' \in Statuses
      /\ status' = status \/ status' = "completed" \/ (status = "pending" /\ status' = "active")
  BY DEF SessionStarts, SessionCompletes, CooldownPasses, events, IInv, TypeOK, Statuses
<1>2. TypeOK'
  BY <1>1 DEF IInv, TypeOK
<1>3. \A q \in Requests : Counted(q)'
  BY <1>1 DEF IInv, Counted, HighIn
<1>4. ~overlapped' => \A q \in Requests : UpToDate(q)'
  BY <1>1 DEF IInv, UpToDate, HighIn
<1>5. Alone' /\ FlaggedIsEarned' /\ Locked' /\ MatchIsKnown'
  BY <1>1 DEF IInv, Alone, FlaggedIsEarned, Locked, MatchIsKnown
<1> QED
  BY <1>2, <1>3, <1>4, <1>5 DEF IInv

LEMMA NextIInv == IInv /\ [Next]_vars => IInv'
<1> SUFFICES ASSUME IInv, [Next]_vars PROVE IInv'
  OBVIOUS
<1>1. ASSUME NEW r \in Requests, Report(r) PROVE IInv'
  <2>1. PICK S \in SUBSET Types : Begin(r, "recording", S \cap Enabled)
    BY <1>1 DEF Report
  <2> QED
    BY <2>1, BeginKeeps
<1>2. ASSUME NEW r \in Requests, AnalyzeCamera(r) PROVE IInv'
  BY <1>2, BeginKeeps DEF AnalyzeCamera
<1>3. ASSUME NEW r \in Requests, VerifyIdentity(r) PROVE IInv'
  BY <1>3, BeginKeeps DEF VerifyIdentity
<1>4. CASE UNCHANGED vars
  BY <1>4 DEF vars, events, IInv, TypeOK, FlaggedIsEarned, Counted, UpToDate,
     Alone, Locked, MatchIsKnown, HighIn
<1> QED
  BY <1>1, <1>2, <1>3, <1>4, OwnSteps, CommitKeeps, EnvironmentKeeps DEF Next

LEMMA Invariant == Spec => []IInv
BY InitIInv, NextIInv, PTL DEF Spec

(* Every variable of Proctoring keeps its type.                            *)
THEOREM ProctoringTypeCorrect == Spec => []TypeOK
BY Invariant, PTL DEF IInv

(* A session is flagged only for committed events that reach the threshold, *)
(* however many requests overlap (_maybe_flag_session).                    *)
THEOREM FlagsAreEarned == Spec => []FlaggedIsEarned
BY Invariant, PTL DEF IInv

(* As long as requests do not overlap, the tools are locked whenever the    *)
(* integrity summary says flagged.                                         *)
THEOREM FlagsLock == Spec => []FlaggedIsLocked
<1>1. IInv => FlaggedIsLocked
  BY DEF IInv, Locked, FlaggedIsLocked, Verification, ToolsOpen
<1> QED
  BY <1>1, Invariant, PTL

(* A flag is earned, and missing only where requests overlapped             *)
(* (_maybe_flag_session, compute_verification_status).                      *)
THEOREM FlagsAlwaysSound == Spec => []FlagsSound
BY FlagsAreEarned, FlagsLock, PTL DEF FlagsSound

(* As long as requests do not overlap, no event is inserted inside the      *)
(* cooldown of its type, nor one that is not enabled, but the verdict of a   *)
(* face match (_persist_proctoring_event, verify_identity).                *)
THEOREM InsertsOutsideCooldown == Spec => CooldownIsKept
<1>1. IInv /\ [Next]_vars => [InsertsLater]_vars
  BY DEF IInv, UpToDate, InsertsLater, CommitsNow
<1> QED
  BY <1>1, Invariant, PTL DEF Spec, CooldownIsKept

(* As long as requests do not overlap, no face match revokes an earlier one: *)
(* a verified identity fails only on a report of identity_fail, and only if  *)
(* the policy enables that type (verify_identity, _prepare_client_event).   *)
THEOREM VerifiedStaysVerified == Spec => VerifiedIsKept
<1>1. ASSUME IInv, [Next]_vars
      PROVE  [StaysVerified]_vars
  <2>1. CASE \E r \in Requests : Commits(r)
    <3>1. PICK r \in Requests : Commits(r)
      BY <2>1
    <3>2. /\ overlapped' = overlapped
          /\ failed' <=> failed \/ "identity_fail" \in req[r].mine
          /\ CommitsNow(r)
      BY <1>1, <3>1, FreeType DEF Commits, CommitsNow, IInv, TypeOK
    <3>3. ~overlapped /\ verified => ~req[r].compared /\ req[r].mine \subseteq Enabled
      BY <1>1, <3>1 DEF IInv, UpToDate
    <3> QED
      BY <3>2, <3>3 DEF StaysVerified
  <2>2. CASE UNCHANGED failed
    BY <2>2 DEF StaysVerified
  <2> QED
    BY <1>1, <2>1, <2>2 DEF Next, vars, events, Report, AnalyzeCamera, VerifyIdentity, Begin,
       Sees, Fails, Compares, Records, Counts, CooldownPasses, SessionStarts,
       SessionCompletes
<1> QED
  BY <1>1, Invariant, PTL DEF Spec, VerifiedIsKept

(* Both: until requests overlap, each record is written on the strength of  *)
(* those before it (verify_identity, _persist_proctoring_event).           *)
THEOREM RecordsAlwaysOrderly == Spec => RecordsOrderly
<1>1. [StaysVerified]_vars /\ [InsertsLater]_vars => [StaysVerified /\ InsertsLater]_vars
  OBVIOUS
<1> QED
  BY <1>1, InsertsOutsideCooldown, VerifiedStaysVerified, PTL
     DEF RecordsOrderly, VerifiedIsKept, CooldownIsKept

-----------------------------------------------------------------------------
(* The page and the camera change nothing of what Proctoring promises, and  *)
(* the absence of the learner is counted over frames in a row.             *)

(* Whatever the page does is a step of some client of Proctoring, or none.  *)
LEMMA WatchStep == WatchNext => [Next]_vars
<1> SUFFICES ASSUME WatchNext PROVE [Next]_vars
  OBVIOUS
<1>1. CASE Pages \/ GraceEnds \/ Restarts
  BY <1>1 DEF Pages, LoadsPolicy, OpensCamera, Hears, Parts, Reloads, GraceEnds, Restarts
<1>2. CASE Stops \/ Around
  BY <1>2 DEF Stops, Around, Next
<1>3. ASSUME NEW r \in Requests, LosesCamera(r) PROVE [Next]_vars
  <2>1. CASE CameraOff \in Enabled
    <3>1. Begin(r, "recording", {CameraOff} \cap Enabled)
      <4>1. {CameraOff} \cap Enabled = {CameraOff}
        BY <2>1
      <4> QED
        BY <1>3, <2>1, <4>1 DEF LosesCamera
    <3>2. {CameraOff} \in (SUBSET Types) \ {{}}
      <4>1. {CameraOff} \in SUBSET Types
        BY CameraAssumption DEF Types, Monitored
      <4>2. CameraOff \in {CameraOff}
        OBVIOUS
      <4>3. {CameraOff} \notin {{}}
        BY <4>2
      <4> QED
        BY <4>1, <4>3
    <3>3. Report(r)
      BY <3>1, <3>2 DEF Report
    <3> QED
      BY <3>3 DEF Next
  <2>2. CASE CameraOff \notin Enabled
    BY <1>3, <2>2 DEF LosesCamera
  <2> QED
    BY <2>1, <2>2
<1>4. ASSUME NEW r \in Requests,
             Reports(r) \/ CapturesNext(r) \/ Looks(r) \/ Handles(r) \/ Ends(r)
      PROVE  [Next]_vars
  BY <1>4 DEF Reports, CapturesNext, Captures, Looks, Handles, Ends, Next
<1> QED
  BY <1>1, <1>2, <1>3, <1>4 DEF WatchNext

-----------------------------------------------------------------------------
(* Which frames are looked at: while no reply was given up, the one the     *)
(* page waits for, and nothing was learnt from a later one.                 *)
Ordered ==
  /\ shown <= frames /\ absence.since <= frames
  /\ \A r \in Requests : shot[r].number <= frames
  /\ \A r, q \in Requests : shot[r].number = shot[q].number => shot[r].number = 0 \/ r = q
  /\ ~parted => \A r \in Requests : req[r].phase = "looking" =>
       /\ shot[r].number = page.looking /\ page.looking # 0
       /\ shown < page.looking /\ absence.since < page.looking

WInv == IInv /\ WatchTypeOK /\ Ordered /\ AbsenceUnbroken

Looking(r) == req[r].phase = "looking"

(* No handler but analyze_camera makes a request look at a frame.           *)
LEMMA OthersDoNotLook ==
  ASSUME TypeOK, NEW r \in Requests,
         \/ \E S : Begin(r, "recording", S) \/ Begin(r, "comparing", S)
         \/ Sees(r) \/ Compares(r) \/ Records(r) \/ Counts(r) \/ Commits(r) \/ Fails(r)
  PROVE  \A q \in Requests : Looking(q)' => Looking(q)
<1>1. \A q \in Requests : q # r => req'[q] = req[q]
  BY DEF TypeOK, Begin, Sees, Compares, Records, Counts, Commits, Fails
<1>2. req'[r].phase # "looking" \/ req[r].phase = "looking"
  <2>1. CASE \E S : Begin(r, "recording", S) \/ Begin(r, "comparing", S)
    BY <2>1 DEF TypeOK, ReqType, Begin, Free
  <2>2. CASE Sees(r)
    BY <2>2 DEF Sees
  <2>3. CASE Compares(r)
    <3>1. req'[r].phase \in {"recording", "closing"}
      BY <2>3 DEF TypeOK, ReqType, Compares
    <3> QED
      BY <3>1
  <2>4. CASE Records(r) \/ Counts(r)
    <3>1. req'[r].phase \in {req[r].phase, "closing"}
      <4>1. CASE Records(r)
        BY <4>1 DEF TypeOK, ReqType, Records
      <4>2. CASE Counts(r)
        BY <4>2 DEF TypeOK, ReqType, Counts
      <4> QED
        BY <2>4, <4>1, <4>2
    <3> QED
      BY <3>1
  <2>5. CASE Commits(r) \/ Fails(r)
    BY <2>5, FreeType DEF TypeOK, Commits, Fails
  <2> QED
    BY <2>1, <2>2, <2>3, <2>4, <2>5
<1> QED
  BY <1>1, <1>2 DEF Looking

LEMMA InitWInv == WatchInit => WInv
<1> SUFFICES ASSUME WatchInit PROVE WInv
  OBVIOUS
<1>1. IInv
  BY InitIInv DEF WatchInit
<1>2. WatchTypeOK
  BY <1>1 DEF WatchInit, WatchTypeOK, IInv, NewPage, NoShot, NoAbsence
<1>3. \A r \in Requests : req[r].phase # "looking"
  BY FreeType DEF WatchInit, Init
<1>4. Ordered /\ AbsenceUnbroken
  BY <1>3 DEF WatchInit, Ordered, AbsenceUnbroken, NoShot, NoAbsence
<1> QED
  BY <1>1, <1>2, <1>4 DEF WInv

(* Steps that capture no frame and learn nothing from one: requests only    *)
(* stop looking.                                                           *)
LEMMA StillOrdered ==
  ASSUME WInv, IInv', WatchTypeOK',
         \A q \in Requests : Looking(q)' => (Looking(q) /\ page'.looking = page.looking) \/ parted',
         parted => parted',
         frames' = frames, shown' = shown,
         absence'.since \in {0, absence.since},
         absence'.phase # "none" => absence.phase # "none" /\ absence'.since = absence.since,
         \A q \in Requests : shot'[q] = shot[q] \/ (shot'[q] = NoShot /\ ~Looking(q)')
  PROVE  WInv'
<1>1. Ordered'
  <2>0. /\ frames \in Nat /\ shown \in Nat /\ absence.since \in Nat
        /\ \A q \in Requests : shot[q].number \in Nat /\ shot'[q].number \in {0, shot[q].number}
    BY DEF WInv, WatchTypeOK, NoShot
  <2>1. /\ shown' <= frames' /\ absence'.since <= frames'
        /\ \A q \in Requests : shot'[q].number <= frames'
    BY <2>0 DEF WInv, Ordered
  <2>2. \A r, q \in Requests : shot'[r].number = shot'[q].number => shot'[r].number = 0 \/ r = q
    BY <2>0 DEF WInv, Ordered
  <2>3. ASSUME ~parted', NEW q \in Requests, Looking(q)'
        PROVE  /\ shot'[q].number = page'.looking /\ page'.looking # 0
               /\ shown' < page'.looking /\ absence'.since < page'.looking
    <3>1. Looking(q) /\ page'.looking = page.looking /\ ~parted /\ shot'[q] = shot[q]
      BY <2>3
    <3>2. page.looking \in Nat
      BY DEF WInv, WatchTypeOK
    <3> QED
      BY <2>0, <3>1, <3>2 DEF WInv, Ordered, Looking
  <2> QED
    BY <2>1, <2>2, <2>3 DEF Ordered, Looking
<1>2. AbsenceUnbroken'
  BY DEF WInv, AbsenceUnbroken
<1> QED
  BY <1>1, <1>2 DEF WInv

LEMMA CapturesOrdered ==
  ASSUME WInv, IInv', NEW r \in Requests, CapturesNext(r)
  PROVE  WInv'
<1>0. /\ frames \in Nat /\ shown \in Nat /\ absence.since \in Nat /\ page.looking = 0
      /\ shown <= frames /\ absence.since <= frames
      /\ shot \in [Requests -> [number : Nat, empty : BOOLEAN]]
      /\ \A q \in Requests : shot[q].number <= frames /\ shot[q].number \in Nat
      /\ UNCHANGED <<absence, shown, parted>>
  BY DEF CapturesNext, Captures, WInv, WatchTypeOK, Ordered, memory
<1>1. PICK empty \in BOOLEAN :
        /\ frames' = frames + 1
        /\ page' = [page EXCEPT !.looking = frames']
        /\ shot' = [shot EXCEPT ![r] = [number |-> frames', empty |-> empty]]
        /\ Begin(r, "looking", {})
  BY DEF CapturesNext, Captures, AnalyzeCamera
<1>2. /\ shot'[r].number = frames + 1 /\ frames' = frames + 1
      /\ \A q \in Requests : q # r => shot'[q] = shot[q]
      /\ shot' \in [Requests -> [number : Nat, empty : BOOLEAN]]
  BY <1>0, <1>1
<1>3. page'.looking = frames + 1 /\ WatchTypeOK'
  BY <1>0, <1>1, <1>2 DEF WInv, WatchTypeOK, IInv
<1>4. \A q \in Requests : q # r => req'[q] = req[q]
  BY <1>1 DEF Begin, WInv, IInv, TypeOK
<1>5. Ordered'
  <2>1. /\ shown' <= frames' /\ absence'.since <= frames'
        /\ \A q \in Requests : shot'[q].number <= frames'
    BY <1>0, <1>2
  <2>2. \A p, q \in Requests : shot'[p].number = shot'[q].number => shot'[p].number = 0 \/ p = q
    BY <1>0, <1>2 DEF WInv, Ordered
  <2>3. ASSUME ~parted', NEW q \in Requests, req'[q].phase = "looking"
        PROVE  /\ shot'[q].number = page'.looking /\ page'.looking # 0
               /\ shown' < page'.looking /\ absence'.since < page'.looking
    <3>1. CASE q = r
      BY <1>0, <1>2, <1>3, <3>1
    <3>2. CASE q # r
      BY <1>0, <1>4, <2>3, <3>2 DEF WInv, Ordered
    <3> QED
      BY <3>1, <3>2
  <2> QED
    BY <2>1, <2>2, <2>3 DEF Ordered
<1>6. AbsenceUnbroken'
  BY <1>0 DEF WInv, AbsenceUnbroken
<1> QED
  BY <1>3, <1>5, <1>6 DEF WInv

LEMMA LooksOrdered ==
  ASSUME WInv, IInv', NEW r \in Requests, Looks(r)
  PROVE  WInv'
<1>0. /\ frames \in Nat /\ shown \in Nat /\ absence.since \in Nat
      /\ shown <= frames /\ absence.since <= frames
      /\ shot[r] \in [number : Nat, empty : BOOLEAN] /\ shot[r].number <= frames
      /\ UNCHANGED <<page, frames, parted, shot>>
      /\ Looking(r) /\ Sees(r)
  BY DEF Looks, Sees, Looking, WInv, WatchTypeOK, Ordered, browser
<1>1. /\ shown' \in {shown, shot[r].number}
      /\ shot[r].empty => shown' = shown
      /\ absence' \in {NoAbsence, absence, [phase |-> "begun", since |-> shot[r].number]}
      /\ ~shot[r].empty => absence' = NoAbsence
  BY DEF Looks, AbsenceAfter
<1>2. /\ shown' \in Nat /\ shown' <= frames
      /\ absence'.since \in {0, absence.since, shot[r].number} /\ absence'.since <= frames
  BY <1>0, <1>1 DEF NoAbsence
<1>3. WatchTypeOK'
  <2>1. absence' \in [phase : {"none", "begun", "over"}, since : Nat]
    BY <1>0, <1>1 DEF WInv, WatchTypeOK, NoAbsence
  <2> QED
    BY <1>0, <1>2, <2>1 DEF WInv, WatchTypeOK, IInv
<1>4. \A q \in Requests : Looking(q)' => Looking(q) /\ q # r
  <2>1. ~Looking(r)'
    BY <1>0 DEF Sees, Looking, WInv, IInv, TypeOK
  <2> QED
    BY <1>0, <2>1, OthersDoNotLook DEF WInv, IInv
<1>5. Ordered'
  <2>1. ASSUME ~parted', NEW q \in Requests, Looking(q)' PROVE FALSE
    <3>1. Looking(q) /\ q # r /\ ~parted
      BY <1>0, <1>4, <2>1
    <3>2. shot[q].number = shot[r].number /\ shot[r].number # 0
      BY <1>0, <3>1 DEF WInv, Ordered, Looking
    <3> QED
      BY <3>1, <3>2 DEF WInv, Ordered
  <2>2. \A q \in Requests : shot'[q].number <= frames'
    BY <1>0 DEF WInv, Ordered
  <2>3. \A p, q \in Requests : shot'[p].number = shot'[q].number => shot'[p].number = 0 \/ p = q
    BY <1>0 DEF WInv, Ordered
  <2> QED
    BY <1>0, <1>2, <2>1, <2>2, <2>3 DEF Ordered, Looking
<1>6. AbsenceUnbroken'
  <2> SUFFICES ASSUME ~parted, absence'.phase # "none" PROVE shown' < absence'.since
    BY <1>0 DEF AbsenceUnbroken
  <2>1. shot[r].empty /\ shown' = shown
    BY <1>1 DEF NoAbsence
  <2>2. shown < shot[r].number
    BY <1>0 DEF WInv, Ordered, Looking
  <2>3. CASE absence.phase = "none"
    BY <2>1, <2>2, <2>3 DEF Looks, AbsenceAfter
  <2>4. CASE absence.phase # "none"
    BY <2>1, <2>4 DEF Looks, AbsenceAfter, WInv, AbsenceUnbroken
  <2> QED
    BY <2>3, <2>4
<1> QED
  BY <1>3, <1>5, <1>6 DEF WInv

LEMMA NextWInv == WInv /\ [WatchNext]_<<vars, watch>> => WInv'
<1> SUFFICES ASSUME WInv, [WatchNext]_<<vars, watch>> PROVE WInv'
  OBVIOUS
<1>0. IInv'
  <2>1. CASE WatchNext
    BY <2>1, WatchStep, NextIInv DEF WInv
  <2>2. CASE UNCHANGED vars
    BY <2>2, NextIInv DEF WInv
  <2> QED
    BY <2>1, <2>2
<1>1. /\ TypeOK /\ TypeOK' /\ page.looking \in Nat
      /\ page \in [policy : {"loading", "loaded", "failed"},
                   camera : {"off", "on", "ended", "refused"}, looking : Nat]
      /\ frames \in Nat /\ shown \in Nat /\ parted \in BOOLEAN
      /\ shot \in [Requests -> [number : Nat, empty : BOOLEAN]]
      /\ absence \in [phase : {"none", "begun", "over"}, since : Nat]
      /\ NoShot \in [number : Nat, empty : BOOLEAN]
      /\ NoAbsence \in [phase : {"none", "begun", "over"}, since : Nat]
      /\ NoAbsence.phase = "none" /\ NoAbsence.since = 0
  BY <1>0 DEF WInv, IInv, WatchTypeOK, NoShot, NoAbsence
<1>2. CASE Pages
  <2>1. UNCHANGED <<req, frames, shot, absence, shown>>
    BY <1>2 DEF Pages, LoadsPolicy, OpensCamera, Hears, Parts, Reloads, vars, memory
  <2>2. /\ page' \in [policy : {"loading", "loaded", "failed"},
                      camera : {"off", "on", "ended", "refused"}, looking : Nat]
        /\ parted' \in BOOLEAN /\ (parted => parted')
    <3>1. CASE LoadsPolicy
      BY <1>1, <3>1 DEF LoadsPolicy
    <3>2. CASE OpensCamera \/ Hears \/ Parts
      BY <1>1, <3>2 DEF OpensCamera, Hears, Parts
    <3>3. CASE Reloads
      BY <1>1, <3>3 DEF Reloads, NewPage
    <3> QED
      BY <1>2, <3>1, <3>2, <3>3 DEF Pages
  <2>3. WatchTypeOK'
    BY <1>1, <2>1, <2>2 DEF WatchTypeOK
  <2>4. ASSUME NEW q \in Requests, Looking(q)', ~parted' PROVE Looking(q) /\ page'.looking = page.looking
    <3>1. Looking(q) /\ ~parted /\ shot[q].number = page.looking /\ page.looking # 0
      BY <2>1, <2>2, <2>4 DEF Looking, WInv, Ordered
    <3>2. InAnalysis(page.looking)
      BY <3>1 DEF InAnalysis, Looking
    <3>3. LoadsPolicy \/ OpensCamera
      BY <1>2, <2>4, <3>1, <3>2 DEF Pages, Hears, Parts, Reloads
    <3> QED
      BY <1>1, <3>1, <3>3 DEF LoadsPolicy, OpensCamera
  <2> QED
    BY <1>0, <1>1, <2>1, <2>2, <2>3, <2>4, StillOrdered
<1>3. CASE GraceEnds \/ Restarts \/ Stops
  <2>1. UNCHANGED <<req, page, frames, parted, shot, shown>>
    BY <1>3 DEF GraceEnds, Restarts, Stops, SessionCompletes, vars, browser
  <2>2. /\ absence' \in [phase : {"none", "begun", "over"}, since : Nat]
        /\ absence'.since \in {0, absence.since}
        /\ absence'.phase # "none" => absence.phase # "none" /\ absence'.since = absence.since
    BY <1>1, <1>3 DEF GraceEnds, Restarts, Stops
  <2>3. WatchTypeOK'
    BY <1>1, <2>1, <2>2 DEF WatchTypeOK
  <2> QED
    BY <1>0, <1>1, <2>1, <2>2, <2>3, StillOrdered DEF Looking
<1>4. CASE Around \/ UNCHANGED <<vars, watch>>
  <2>1. UNCHANGED <<req, page, frames, parted, shot, absence, shown>>
    BY <1>4 DEF Around, SessionStarts, CooldownPasses, vars, watch, browser, memory
  <2>2. WatchTypeOK'
    BY <1>1, <2>1 DEF WatchTypeOK
  <2> QED
    BY <1>0, <1>1, <2>1, <2>2, StillOrdered DEF Looking
<1>5. ASSUME NEW r \in Requests, LosesCamera(r) PROVE WInv'
  <2>1. /\ UNCHANGED <<frames, parted, shot, absence, shown>> /\ page'.looking = page.looking
        /\ page' \in [policy : {"loading", "loaded", "failed"},
                      camera : {"off", "on", "ended", "refused"}, looking : Nat]
    BY <1>1, <1>5 DEF LosesCamera, memory
  <2>2. \A q \in Requests : Looking(q)' => Looking(q)
    <3>1. CASE CameraOff \in Enabled
      <4>1. Begin(r, "recording", {CameraOff})
        BY <1>5, <3>1 DEF LosesCamera
      <4> QED
        BY <1>1, <4>1, OthersDoNotLook
    <3>2. CASE CameraOff \notin Enabled
      BY <1>5, <3>2 DEF LosesCamera, vars, Looking
    <3> QED
      BY <3>1, <3>2
  <2>3. WatchTypeOK'
    BY <1>1, <2>1 DEF WatchTypeOK
  <2> QED
    BY <1>0, <1>1, <2>1, <2>2, <2>3, StillOrdered
<1>6. ASSUME NEW r \in Requests, Reports(r) \/ Handles(r) PROVE WInv'
  <2>1. UNCHANGED <<page, frames, parted, shot, absence, shown>>
    BY <1>6 DEF Reports, Handles, watch, browser, memory
  <2>2. \A q \in Requests : Looking(q)' => Looking(q)
    <3>1. \/ \E S : Begin(r, "recording", S) \/ Begin(r, "comparing", S)
          \/ Compares(r) \/ Records(r) \/ Counts(r)
      BY <1>6 DEF Reports, Handles, Report, VerifyIdentity
    <3> QED
      BY <1>1, <3>1, OthersDoNotLook
  <2>3. WatchTypeOK'
    BY <1>1, <2>1 DEF WatchTypeOK
  <2> QED
    BY <1>0, <1>1, <2>1, <2>2, <2>3, StillOrdered
<1>7. ASSUME NEW r \in Requests, Ends(r) PROVE WInv'
  <2>1. /\ UNCHANGED <<page, frames, parted, absence, shown>>
        /\ shot' = [shot EXCEPT ![r] = NoShot]
    BY <1>7 DEF Ends, browser, memory
  <2>2. \A q \in Requests : Looking(q)' => Looking(q)
    BY <1>1, <1>7, OthersDoNotLook DEF Ends
  <2>3. WatchTypeOK'
    BY <1>1, <2>1 DEF WatchTypeOK
  <2>4. ~Looking(r)'
    BY <1>1, <1>7, FreeType DEF Ends, Commits, Fails, Looking, TypeOK
  <2>5. \A q \in Requests : shot'[q] = shot[q] \/ (shot'[q] = NoShot /\ ~Looking(q)')
    BY <1>1, <2>1, <2>4
  <2> QED
    BY <1>0, <1>1, <2>1, <2>2, <2>3, <2>5, StillOrdered
<1> QED
  BY <1>0, <1>2, <1>3, <1>4, <1>5, <1>6, <1>7, CapturesOrdered, LooksOrdered DEF WatchNext

LEMMA WatchInvariant == WatchSpec => []WInv
  BY InitWInv, NextWInv, PTL DEF WatchSpec

-----------------------------------------------------------------------------
(* Theorems.                                                               *)

(* The page's monitor, frames and camera included, is a client of the       *)
(* handlers like any other: what holds of Proctoring holds with it          *)
(* (useProctoring.ts, proctoring/service.py).                               *)
THEOREM WatchImplements == WatchSpec => Spec
<1>1. WatchInit => Init
  BY DEF WatchInit
<1>2. [WatchNext]_<<vars, watch>> => [Next]_vars
  BY WatchStep
<1> QED
  BY <1>1, <1>2, PTL DEF WatchSpec, Spec

(* So flags and records are as sound when the page's monitor drives the     *)
(* handlers, with frames that overtake reports, lost replies and restarts   *)
(* (useProctoring.ts, _maybe_flag_session, verify_identity).                *)
THEOREM WatchedRecordsSound == WatchSpec => []FlagsSound /\ RecordsOrderly
BY WatchImplements, FlagsAlwaysSound, RecordsAlwaysOrderly

(* Events, requests, page and frames keep their types for every policy and  *)
(* any number of requests and frames.                                       *)
THEOREM WatchTypeCorrect == WatchSpec => []WatchTypeOK
<1>1. WInv => WatchTypeOK
  BY DEF WInv
<1> QED
  BY <1>1, WatchInvariant, PTL

(* Until the page gives up a request, no frame taken after the beginning of *)
(* an absence has shown the learner, whatever fails and however often the   *)
(* process restarts (apply_candidate_absence_grace, isAnalyzingCameraRef).  *)
THEOREM AbsenceAlwaysUnbroken == WatchSpec => []AbsenceUnbroken
<1>1. WInv => AbsenceUnbroken
  BY DEF WInv
<1> QED
  BY <1>1, WatchInvariant, PTL

=============================================================================
