----------------------- MODULE SessionLifecycleProofs -----------------------
(* What holds of a session however stale the copies are that its handlers  *)
(* write back, for any number of requests, chains and faults.              *)
EXTENDS SessionLifecycle, FiniteSetTheorems, TLAPS

(* A copy of the row whose proctoring matches its status.                  *)
Matched(r) ==
  /\ r.status = "active" => r.proctoring = "active"
  /\ r.status = "pending" => r.proctoring = "not_started"

(* The inductive invariant: the row and every copy a handler decides on    *)
(* are matched, a handler holds a copy its early returns let pass, and a   *)
(* chain that may send has been cleared.                                   *)
IInv ==
  /\ TypeOK
  /\ Matched(row)
  /\ \A q \in Requests : req[q].phase = "loaded" =>
       Matched(req[q].loaded) /\ Admits(req[q].kind, req[q].loaded)
  /\ \A q \in Requests :
       req[q].phase = "committed" /\ req[q].kind # "complete" => approvals > 0
  /\ \A c \in Chains :
       /\ chain[c].kind = "finalize" => approvals > 0
       /\ chain[c].stage \in {"unused", "queued", "judging"} => chain[c].verdict = "none"
       /\ chain[c].kind = "judge" /\ chain[c].stage \in {"judged", "built", "sent"}
            => chain[c].verdict # "none"
       /\ chain[c].stage \in {"built", "sent"} => chain[c].verdict # "held"

LEMMA NewRowType == NewRow \in Row /\ Matched(NewRow)
BY DEF NewRow, Row, Statuses, Matched

LEMMA IdleTypes == NoRequest \in ReqType /\ NoChain \in ChainType
BY NewRowType DEF NoRequest, NoChain, ReqType, ChainType, Kinds, Stages

(* The ORM's update of a row by a row is a row, attribute by attribute.    *)
LEMMA FlushType ==
  ASSUME row \in Row, NEW l \in Row, NEW n \in Row
  PROVE  /\ Flush(l, n) \in Row
         /\ Flush(l, n).status = Pick(l.status, n.status, row.status)
         /\ Flush(l, n).proctoring = Pick(l.proctoring, n.proctoring, row.proctoring)
BY DEF Flush, Row, Pick

LEMMA AssignedTypes ==
  ASSUME NEW r \in Row
  PROVE  /\ Started(r) \in Row /\ Completed(r) \in Row
         /\ Flagged(r) \in Row /\ Approved(r) \in Row
         /\ \A v \in Reviews : Held(r, v) \in Row
BY DEF Started, Completed, Flagged, Approved, Held, Row, Statuses

LEMMA InitIInv == Init => IInv
<1> SUFFICES ASSUME Init PROVE IInv
  OBVIOUS
<1>1. TypeOK
  BY NewRowType, IdleTypes DEF Init, TypeOK, Kinds
<1> QED
  BY <1>1, NewRowType DEF Init, IInv, NoRequest, NoChain

(* Each commit keeps the row well typed and matched.                       *)
LEMMA CommitsMatch ==
  ASSUME IInv, NEW q \in Requests, req[q].phase = "loaded"
  PROVE  LET l == req[q].loaded
             Good(n) == n \in Row /\ Matched(n)
         IN  /\ req[q].kind = "start" => Good(Flush(l, Started(l)))
             /\ req[q].kind = "complete" => Good(Flush(l, Completed(l)))
             /\ req[q].kind = "flag" => Good(Flush(l, Flagged(l)))
             /\ req[q].kind = "approve" => Good(Flush(l, Approved(l)))
<1> DEFINE l == req[q].loaded
<1>1. /\ l \in Row /\ row \in Row /\ Matched(l) /\ Matched(row)
      /\ Admits(req[q].kind, l) /\ req[q].kind \in Kinds
  BY DEF IInv, TypeOK, ReqType
<1> HIDE DEF l
<1>2. CASE req[q].kind = "start"
  <2>1. Flush(l, Started(l)) \in Row
    BY <1>1, FlushType, AssignedTypes
  <2>2. l.status \in {"pending", "active"}
    BY <1>1, <1>2 DEF Admits
  <2>3. /\ Started(l).status = "active" /\ Started(l).proctoring = "active"
    BY <1>1 DEF Started, Row
  <2>4. Matched(Flush(l, Started(l)))
    BY <1>1, <2>2, <2>3, FlushType, AssignedTypes DEF Pick, Matched
  <2> QED
    BY <1>2, <2>1, <2>4 DEF l
<1>3. CASE req[q].kind = "complete"
  <2>1. Completed(l) \in Row /\ Completed(l).status = "completed"
    BY <1>1, AssignedTypes DEF Completed, Row
  <2>2. l.status # "completed"
    BY <1>1, <1>3 DEF Admits
  <2>3. Flush(l, Completed(l)) \in Row /\ Flush(l, Completed(l)).status = "completed"
    BY <1>1, <2>1, <2>2, FlushType DEF Pick
  <2> QED
    BY <1>3, <2>3 DEF l, Matched
<1>4. CASE req[q].kind = "flag"
  <2>1. Flagged(l) \in Row /\ Flagged(l).status = "flagged"
    BY <1>1, AssignedTypes DEF Flagged, Row
  <2>2. l.status # "flagged"
    BY <1>1, <1>4 DEF Admits
  <2>3. Flush(l, Flagged(l)) \in Row /\ Flush(l, Flagged(l)).status = "flagged"
    BY <1>1, <2>1, <2>2, FlushType DEF Pick
  <2> QED
    BY <1>4, <2>3 DEF l, Matched
<1>5. CASE req[q].kind = "approve"
  <2>1. Approved(l) \in Row /\ Approved(l).status = "completed"
    BY <1>1, AssignedTypes DEF Approved, Row
  <2>2. l.status # "completed"
    BY <1>1, <1>5 DEF Admits
  <2>3. Flush(l, Approved(l)) \in Row /\ Flush(l, Approved(l)).status = "completed"
    BY <1>1, <2>1, <2>2, FlushType DEF Pick
  <2> QED
    BY <1>5, <2>3 DEF l, Matched
<1> QED
  BY <1>1, <1>2, <1>3, <1>4, <1>5 DEF Kinds, l

(* A hold never makes a session active or pending.                         *)
LEMMA HoldMatches ==
  ASSUME IInv, NEW c \in Chains, NEW v \in Reviews
  PROVE  LET n == Flush(chain[c].loaded, Held(chain[c].loaded, v))
         IN  n \in Row /\ Matched(n)
<1> DEFINE l == chain[c].loaded
<1>1. l \in Row /\ row \in Row /\ Matched(row)
  BY DEF IInv, TypeOK, ChainType
<1> HIDE DEF l
<1>2. /\ Held(l, v) \in Row /\ Held(l, v).status = "pending_review"
      /\ Held(l, v).proctoring = l.proctoring
  BY <1>1, AssignedTypes DEF Held, Row
<1>3. Flush(l, Held(l, v)) \in Row /\ Matched(Flush(l, Held(l, v)))
  BY <1>1, <1>2, FlushType DEF Pick, Matched
<1> QED
  BY <1>3 DEF l

(* The row is the only thing outside chain a commit can disturb.           *)
ReqInv ==
  /\ req \in [Requests -> ReqType]
  /\ \A q \in Requests : req[q].phase = "loaded" =>
       Matched(req[q].loaded) /\ Admits(req[q].kind, req[q].loaded)
  /\ \A q \in Requests :
       req[q].phase = "committed" /\ req[q].kind # "complete" => approvals > 0

ChainInv ==
  /\ chain \in [Chains -> ChainType]
  /\ \A c \in Chains :
       /\ chain[c].kind = "finalize" => approvals > 0
       /\ chain[c].stage \in {"unused", "queued", "judging"} => chain[c].verdict = "none"
       /\ chain[c].kind = "judge" /\ chain[c].stage \in {"judged", "built", "sent"}
            => chain[c].verdict # "none"
       /\ chain[c].stage \in {"built", "sent"} => chain[c].verdict # "held"

RestInv ==
  /\ row \in Row /\ Matched(row)
  /\ live \in BOOLEAN
  /\ score \in {"none", "judge", "admin"}
  /\ begun \in [Kinds -> Nat]
  /\ approvals \in Nat /\ faults \in Nat
  /\ mail \in MailSettings

LEMMA IInvParts == IInv <=> ReqInv /\ ChainInv /\ RestInv
BY DEF IInv, TypeOK, ReqInv, ChainInv, RestInv

(* A request that is over, and one that has committed.                     *)
LEMMA RequestEnds ==
  ASSUME ReqInv, approvals \in Nat, approvals' \in Nat, approvals' >= approvals,
         NEW q \in Requests,
         \/ req' = [req EXCEPT ![q] = NoRequest]
         \/ /\ req' = [req EXCEPT ![q].phase = "committed"]
            /\ req[q].kind # "complete" => approvals' > 0
  PROVE  ReqInv'
<1>1. req' \in [Requests -> ReqType]
  BY IdleTypes DEF ReqInv, ReqType
<1>2. ASSUME NEW p \in Requests
      PROVE  /\ req'[p].phase = "loaded" =>
                  Matched(req'[p].loaded) /\ Admits(req'[p].kind, req'[p].loaded)
             /\ req'[p].phase = "committed" /\ req'[p].kind # "complete" => approvals' > 0
  <2>1. CASE p # q
    BY <2>1 DEF ReqInv
  <2>2. CASE p = q
    BY <2>2 DEF ReqInv, ReqType, NoRequest
  <2> QED
    BY <2>1, <2>2
<1> QED
  BY <1>1, <1>2 DEF ReqInv

(* More approvals disturb no chain.                                        *)
LEMMA ChainsKept ==
  ASSUME ChainInv, approvals \in Nat, approvals' \in Nat, approvals' >= approvals,
         UNCHANGED chain
  PROVE  ChainInv'
BY DEF ChainInv

LEMMA NextIInv == IInv /\ [Next]_vars => IInv'
<1> SUFFICES ASSUME IInv, [Next]_vars PROVE IInv'
  OBVIOUS
<1>1. ReqInv /\ ChainInv /\ RestInv
  BY IInvParts
<1> SUFFICES ReqInv' /\ ChainInv' /\ RestInv'
  BY DEF IInv, TypeOK, ReqInv, ChainInv, RestInv
<1>2. ASSUME NEW q \in Requests, NEW k \in Kinds, Begin(q, k)
      PROVE  ReqInv' /\ ChainInv' /\ RestInv'
  <2>1. ChainInv'
    BY <1>1, <1>2 DEF Begin, ChainInv
  <2>2. RestInv'
    BY <1>1, <1>2 DEF Begin, RestInv, Matched
  <2>3. /\ req' = [req EXCEPT ![q] = [phase |-> "loaded", kind |-> k, loaded |-> row]]
        /\ Admits(k, row) /\ Matched(row) /\ row \in Row /\ approvals' = approvals
    BY <1>1, <1>2 DEF Begin, RestInv
  <2>4. [phase |-> "loaded", kind |-> k, loaded |-> row] \in ReqType
    BY <2>3 DEF ReqType
  <2>5. ReqInv'
    <3>1. req' \in [Requests -> ReqType]
      BY <1>1, <2>3, <2>4 DEF ReqInv
    <3>2. ASSUME NEW p \in Requests
          PROVE  /\ req'[p].phase = "loaded" =>
                      Matched(req'[p].loaded) /\ Admits(req'[p].kind, req'[p].loaded)
                 /\ req'[p].phase = "committed" /\ req'[p].kind # "complete"
                      => approvals' > 0
      <4>1. CASE p # q
        BY <1>1, <2>3, <4>1 DEF ReqInv
      <4>2. CASE p = q
        <5>1. req'[p].phase = "loaded" /\ req'[p].kind = k /\ req'[p].loaded = row
          BY <1>1, <2>3, <4>2 DEF ReqInv
        <5> QED
          BY <5>1, <2>3
      <4> QED
        BY <4>1, <4>2
    <3> QED
      BY <3>1, <3>2 DEF ReqInv
  <2> QED
    BY <2>1, <2>2, <2>5
<1>3. ASSUME NEW q \in Requests, CommitStart(q)
      PROVE  ReqInv' /\ ChainInv' /\ RestInv'
  <2>1. row' \in Row /\ Matched(row')
    BY <1>3, CommitsMatch DEF CommitStart, Loaded
  <2>2. RestInv'
    BY <1>1, <1>3, <2>1 DEF CommitStart, RestInv, Matched, counters
  <2>3. approvals \in Nat /\ approvals' = approvals /\ approvals' >= approvals
    BY <1>1, <1>3 DEF CommitStart, RestInv, counters
  <2>4. ReqInv'
    BY <1>1, <1>3, <2>3, RequestEnds DEF CommitStart
  <2>5. ChainInv'
    BY <1>1, <1>3, <2>3, ChainsKept DEF CommitStart
  <2> QED
    BY <2>2, <2>4, <2>5
<1>4. ASSUME NEW q \in Requests, CommitComplete(q)
      PROVE  ReqInv' /\ ChainInv' /\ RestInv'
  <2>1. row' \in Row /\ Matched(row')
    BY <1>4, CommitsMatch DEF CommitComplete, Loaded
  <2>2. RestInv'
    BY <1>1, <1>4, <2>1 DEF CommitComplete, RestInv, Matched, counters
  <2>3. approvals \in Nat /\ approvals' = approvals /\ approvals' >= approvals
    BY <1>1, <1>4 DEF CommitComplete, RestInv, counters
  <2>4. ReqInv'
    BY <1>1, <1>4, <2>3, RequestEnds DEF CommitComplete, Loaded
  <2>5. ChainInv'
    BY <1>1, <1>4, <2>3, ChainsKept DEF CommitComplete
  <2> QED
    BY <2>2, <2>4, <2>5
<1>5. ASSUME NEW q \in Requests, CommitFlag(q)
      PROVE  ReqInv' /\ ChainInv' /\ RestInv'
  <2>1. row' \in Row /\ Matched(row')
    BY <1>5, CommitsMatch DEF CommitFlag, Loaded
  <2>2. RestInv'
    BY <1>1, <1>5, <2>1 DEF CommitFlag, RestInv, Matched, counters
  <2>3. approvals \in Nat /\ approvals' = approvals /\ approvals' >= approvals
    BY <1>1, <1>5 DEF CommitFlag, RestInv, counters
  <2>4. ReqInv'
    BY <1>1, <1>5, <2>3, RequestEnds DEF CommitFlag
  <2>5. ChainInv'
    BY <1>1, <1>5, <2>3, ChainsKept DEF CommitFlag
  <2> QED
    BY <2>2, <2>4, <2>5
<1>6. ASSUME NEW q \in Requests, CommitApprove(q)
      PROVE  ReqInv' /\ ChainInv' /\ RestInv'
  <2>1. row' \in Row /\ Matched(row')
    BY <1>6, CommitsMatch DEF CommitApprove, Loaded
  <2>2. RestInv'
    BY <1>1, <1>6, <2>1 DEF CommitApprove, RestInv, Matched
  <2>3. /\ approvals \in Nat /\ approvals' \in Nat
        /\ approvals' >= approvals /\ approvals' > 0
    BY <1>1, <1>6 DEF CommitApprove, RestInv
  <2>4. ReqInv'
    BY <1>1, <1>6, <2>3, RequestEnds DEF CommitApprove
  <2>5. ChainInv'
    BY <1>1, <1>6, <2>3, ChainsKept DEF CommitApprove
  <2> QED
    BY <2>2, <2>4, <2>5
<1>7. ASSUME NEW q \in Requests, NEW c \in Chains, Schedule(q, c)
      PROVE  ReqInv' /\ ChainInv' /\ RestInv'
  <2>1. RestInv'
    BY <1>1, <1>7 DEF Schedule, RestInv, Matched, counters
  <2>2. approvals \in Nat /\ approvals' = approvals /\ approvals' >= approvals
    BY <1>1, <1>7 DEF Schedule, RestInv, counters
  <2>3. ReqInv'
    BY <1>1, <1>7, <2>2, RequestEnds DEF Schedule
  <2>4. req[q].kind # "complete" => approvals > 0
    BY <1>1, <1>7 DEF Schedule, ReqInv
  <2>5. ChainInv'
    <3>1. /\ chain[c] \in ChainType /\ chain[c].stage = "unused"
          /\ chain[c].verdict = "none"
      BY <1>1, <1>7 DEF Schedule, ChainInv
    <3>2. /\ chain' \in [Chains -> ChainType]
          /\ \A d \in Chains \ {c} : chain'[d] = chain[d]
          /\ chain'[c].stage = "queued" /\ chain'[c].verdict = "none"
          /\ chain'[c].kind = "finalize" => req[q].kind # "complete"
      BY <1>1, <1>7, <3>1 DEF Schedule, ChainInv, ChainType, Stages
    <3> QED
      BY <1>1, <2>2, <2>4, <3>2 DEF ChainInv
  <2> QED
    BY <2>1, <2>3, <2>5
<1>8. ASSUME NEW q \in Requests, ScheduleFails(q)
      PROVE  ReqInv' /\ ChainInv' /\ RestInv'
  <2>1. RestInv'
    BY <1>1, <1>8 DEF ScheduleFails, RestInv, Matched
  <2>2. approvals \in Nat /\ approvals' = approvals /\ approvals' >= approvals
    BY <1>1, <1>8 DEF ScheduleFails, RestInv
  <2>3. ReqInv'
    BY <1>1, <1>8, <2>2, RequestEnds DEF ScheduleFails
  <2>4. ChainInv'
    BY <1>1, <1>8, <2>2, ChainsKept DEF ScheduleFails
  <2> QED
    BY <2>1, <2>3, <2>4
<1>9. CASE Expire
  BY <1>1, <1>9 DEF Expire, ReqInv, ChainInv, RestInv, Matched, counters
<1>10. ASSUME NEW c \in Chains, JudgeLoads(c)
       PROVE  ReqInv' /\ ChainInv' /\ RestInv'
  <2>1. ReqInv' /\ RestInv'
    BY <1>1, <1>10 DEF JudgeLoads, ReqInv, RestInv, Matched, counters
  <2>2. ChainInv'
    <3>1. /\ chain[c] \in ChainType /\ chain[c].stage = "queued"
          /\ chain[c].verdict = "none" /\ chain[c].kind = "judge"
          /\ row \in Row /\ approvals' = approvals
      BY <1>1, <1>10 DEF JudgeLoads, At, ChainInv, RestInv, counters
    <3>2. /\ chain' \in [Chains -> ChainType]
          /\ \A d \in Chains \ {c} : chain'[d] = chain[d]
          /\ chain'[c].stage = "judging" /\ chain'[c].verdict = "none"
          /\ chain'[c].kind = "judge"
      BY <1>1, <1>10, <3>1 DEF JudgeLoads, ChainInv, ChainType, Stages
    <3> QED
      BY <1>1, <3>1, <3>2 DEF ChainInv
  <2> QED
    BY <2>1, <2>2
<1>11. ASSUME NEW c \in Chains, JudgeConfirms(c)
       PROVE  ReqInv' /\ ChainInv' /\ RestInv'
  <2>1. ReqInv' /\ RestInv'
    BY <1>1, <1>11 DEF JudgeConfirms, ReqInv, RestInv, Matched, counters
  <2>2. ChainInv'
    BY <1>1, <1>11 DEF JudgeConfirms, At, ChainInv, ChainType, Stages, counters
  <2> QED
    BY <2>1, <2>2
<1>12. ASSUME NEW c \in Chains, JudgeHolds(c)
       PROVE  ReqInv' /\ ChainInv' /\ RestInv'
  <2>1. row' \in Row /\ Matched(row')
    BY <1>12, HoldMatches DEF JudgeHolds
  <2>2. ReqInv' /\ RestInv'
    BY <1>1, <1>12, <2>1 DEF JudgeHolds, ReqInv, RestInv, Matched, counters
  <2>3. ChainInv'
    BY <1>1, <1>12 DEF JudgeHolds, At, ChainInv, ChainType, Stages, counters
  <2> QED
    BY <2>2, <2>3
<1>13. ASSUME NEW c \in Chains, Builds(c)
       PROVE  ReqInv' /\ ChainInv' /\ RestInv'
  <2>1. ReqInv' /\ RestInv'
    BY <1>1, <1>13 DEF Builds, ReqInv, RestInv, Matched, counters
  <2>2. ChainInv'
    BY <1>1, <1>13 DEF Builds, At, ChainInv, ChainType, Stages, counters
  <2> QED
    BY <2>1, <2>2
<1>14. ASSUME NEW c \in Chains, Emails(c)
       PROVE  ReqInv' /\ ChainInv' /\ RestInv'
  <2>1. ReqInv' /\ RestInv'
    BY <1>1, <1>14 DEF Emails, ReqInv, RestInv, Matched, counters
  <2>2. ChainInv'
    BY <1>1, <1>14 DEF Emails, ChainInv, ChainType, Stages, counters
  <2> QED
    BY <2>1, <2>2
<1>15. ASSUME NEW c \in Chains, Breaks(c)
       PROVE  ReqInv' /\ ChainInv' /\ RestInv'
  <2>1. ReqInv' /\ RestInv'
    BY <1>1, <1>15 DEF Breaks, ChainDies, PdfFails, ReqInv, RestInv, Matched
  <2>2. ChainInv'
    BY <1>1, <1>15 DEF Breaks, ChainDies, PdfFails, ChainInv, ChainType, Stages
  <2> QED
    BY <2>1, <2>2
<1>16. CASE UNCHANGED vars
  BY <1>1, <1>16 DEF vars, counters, ReqInv, ChainInv, RestInv, Matched
<1> QED
  BY <1>2, <1>3, <1>4, <1>5, <1>6, <1>7, <1>8, <1>9, <1>10, <1>11, <1>12,
     <1>13, <1>14, <1>15, <1>16 DEF Next, Task

-----------------------------------------------------------------------------
(* The state machine keeps to its types (start_session, complete_session,  *)
(* _maybe_flag_session, approve_judge_review and the Celery tasks).        *)
THEOREM LifecycleTypeCorrect == Spec => []TypeOK
<1>1. IInv => TypeOK
  BY DEF IInv
<1> QED
  BY InitIInv, NextIInv, <1>1, PTL DEF Spec

(* Whatever stale copies are written back, an active session has its       *)
(* proctoring switched on (start_session, complete_session).               *)
THEOREM AlwaysProctored == Spec => []ActiveIsProctored
<1>1. IInv => ActiveIsProctored
  BY DEF IInv, ActiveIsProctored, Matched
<1> QED
  BY InitIInv, NextIInv, <1>1, PTL DEF Spec

(* A report is sent only by a chain that its own judge confirmed or that   *)
(* an approval scheduled (build_session_radar_report,                      *)
(* send_session_report_email).                                             *)
THEOREM ReportsAlwaysCleared == Spec => []ReportsAreCleared
<1>1. IInv => ReportsAreCleared
  <2> SUFFICES ASSUME IInv, NEW c \in Sent
               PROVE  \/ chain[c].verdict = "confirmed"
                      \/ chain[c].kind = "finalize" /\ approvals > 0
    BY DEF ReportsAreCleared
  <2>1. c \in Chains /\ chain[c].stage = "sent" /\ chain[c] \in ChainType
    BY DEF Sent, IInv, TypeOK
  <2> QED
    BY <2>1 DEF IInv, ChainType
<1> QED
  BY InitIInv, NextIInv, <1>1, PTL DEF Spec

-----------------------------------------------------------------------------
(* A client that completes once and whose requests do not overlap each     *)
(* other.  The Celery tasks still overlap with them.                       *)
OneAtATime == MaxCompletes <= 1 /\ \A p, q \in Requests : p = q

Used == {c \in Chains : chain[c].stage # "unused"}

(* With one request at a time a sitting passes through five phases, and in *)
(* each of them what a handler has loaded is still what the row holds.     *)
Opening ==
  /\ Used = {} /\ approvals = 0
  /\ row.status \in {"pending", "active", "flagged"}
  /\ row.review = {} /\ ~row.ended
  /\ \A q \in Requests :
       /\ req[q].phase # "committed"
       /\ req[q].phase = "loaded" =>
            /\ req[q].loaded = row
            /\ req[q].kind = "complete" => begun["complete"] > 0

\* The completion is committed; no handler but its own is at work.
Closed == row.ended /\ begun["complete"] > 0

Closing ==
  /\ Closed /\ Used = {} /\ approvals = 0
  /\ row.status = "completed" /\ row.review = {}
  /\ \A q \in Requests :
       /\ req[q].phase # "loaded"
       /\ req[q].phase = "committed" => req[q].kind = "complete"

\* The one chain is on its way or dead, and nobody can begin a request.
JudgedBy(c) ==
  /\ Used = {c} /\ chain[c].kind = "judge" /\ chain[c].verdict # "held"
  /\ chain[c].stage = "judging" =>
       chain[c].loaded.status = "completed" /\ chain[c].loaded.review = {}

Judging ==
  /\ Closed /\ approvals = 0
  /\ row.status = "completed" /\ row.review = {}
  /\ \A q \in Requests : req[q].phase = "free"
  /\ \E c \in Chains : JudgedBy(c)

\* The hold can be approved, unless a flag has overwritten it.
HeldBy(c) == chain[c].kind = "judge" /\ chain[c].verdict = "held"

Holding ==
  /\ Closed /\ approvals = 0
  /\ row.status \in {"pending_review", "flagged"} /\ row.review # {}
  /\ \A q \in Requests :
       /\ req[q].phase # "committed"
       /\ req[q].phase = "loaded" => req[q].loaded = row /\ req[q].kind # "complete"
  /\ \E c \in Chains : Used = {c} /\ HeldBy(c)

\* One approval, which schedules at most one chain more.
Cleared ==
  /\ Closed /\ approvals > 0
  /\ row.status = "completed"
  /\ \A q \in Requests :
       /\ req[q].phase # "loaded"
       /\ req[q].phase = "committed" => req[q].kind = "approve"
  /\ \E c \in Chains :
       /\ HeldBy(c)
       /\ \/ Used = {c}
          \/ /\ \A q \in Requests : req[q].phase = "free"
             /\ \E d \in Chains : Used = {c, d} /\ chain[d].kind = "finalize"

OInv == OneAtATime /\ IInv /\ (Opening \/ Closing \/ Judging \/ Holding \/ Cleared)

(* A handler whose copy is still what the row holds writes what it assigned. *)
LEMMA FlushFresh ==
  ASSUME row \in Row, NEW n \in Row
  PROVE  Flush(row, n) = n
BY DEF Flush, Pick, Row

(* What a task does to its own chain; the others stay as they are.          *)
TaskEffect(c) ==
  /\ chain[c].stage \notin {"unused", "sent"} /\ chain'[c].stage # "unused"
  /\ chain'[c].kind = chain[c].kind
  /\ \A d \in Chains \ {c} : chain'[d] = chain[d]
  /\ UNCHANGED <<req, begun, approvals>>
  /\ \/ chain'[c].verdict = chain[c].verdict
     \/ chain[c].stage = "judging" /\ chain'[c].stage = "judged"
  /\ chain'[c].stage = "sent" => chain[c].stage = "built"
  /\ \/ /\ UNCHANGED row
        /\ chain'[c].verdict = "held" => chain[c].verdict = "held"
        /\ chain'[c].stage = "judging" => chain'[c].loaded = row
     \/ JudgeHolds(c) /\ chain'[c].verdict = "held"

LEMMA TaskSteps ==
  ASSUME IInv, NEW c \in Chains, Task(c) \/ Breaks(c)
  PROVE  TaskEffect(c)
<1>1. chain \in [Chains -> ChainType] /\ chain[c] \in ChainType
  BY DEF IInv, TypeOK
<1>2. CASE JudgeLoads(c)
  BY <1>1, <1>2 DEF JudgeLoads, At, TaskEffect, ChainType, counters
<1>3. CASE JudgeConfirms(c)
  BY <1>1, <1>3 DEF JudgeConfirms, At, TaskEffect, ChainType, counters
<1>4. CASE JudgeHolds(c)
  <2>1. UNCHANGED <<req, begun, approvals>>
    BY <1>4 DEF JudgeHolds, counters
  <2>2. /\ chain' = [chain EXCEPT ![c].stage = "judged", ![c].verdict = "held"]
        /\ chain[c].stage = "judging"
    BY <1>4 DEF JudgeHolds, At
  <2> QED
    BY <1>1, <1>4, <2>1, <2>2 DEF TaskEffect, ChainType
<1>5. CASE Builds(c)
  BY <1>1, <1>5 DEF Builds, At, TaskEffect, ChainType, counters
<1>6. CASE Emails(c)
  BY <1>1, <1>6 DEF Emails, TaskEffect, ChainType, counters
<1>7. CASE Breaks(c)
  BY <1>1, <1>7 DEF Breaks, ChainDies, PdfFails, TaskEffect, ChainType
<1> QED
  BY <1>2, <1>3, <1>4, <1>5, <1>6, <1>7 DEF Task

LEMMA TaskUses ==
  ASSUME NEW c \in Chains, TaskEffect(c)
  PROVE  c \in Used /\ Used' = Used
BY DEF TaskEffect, Used

(* With one slot, a request that begins or ends is the only one there is.   *)
LEMMA OneRequest ==
  ASSUME OneAtATime, NEW q \in Requests
  PROVE  \A p \in Requests : p = q
BY DEF OneAtATime

(* A completed session admits no request, and no second completion begins.  *)
LEMMA NobodyBegins ==
  ASSUME IInv, OneAtATime, Closed, NEW q \in Requests, NEW k \in Kinds, Begin(q, k)
  PROVE  k # "complete" /\ row.status # "completed"
<1>1. MaxCompletes \in Nat /\ MaxCompletes <= 1 /\ Limit["complete"] = MaxCompletes
  BY LifecycleAssumption DEF OneAtATime, Limit, Kinds
<1>2. begun["complete"] \in Nat /\ begun["complete"] > 0
  BY DEF Closed, IInv, TypeOK, Kinds
<1>3. k # "complete"
  BY <1>1, <1>2 DEF Begin
<1>4. Admits(k, row)
  BY DEF Begin
<1> QED
  BY <1>3, <1>4 DEF Admits, Kinds

LEMMA OpeningSteps ==
  ASSUME IInv, OneAtATime, Opening, Next
  PROVE  Opening' \/ Closing'
<1>1. /\ row \in Row /\ req \in [Requests -> ReqType] /\ chain \in [Chains -> ChainType]
      /\ begun \in [Kinds -> Nat]
  BY DEF IInv, TypeOK
<1>2. ASSUME NEW q \in Requests, NEW k \in Kinds, Begin(q, k)
      PROVE  Opening'
  <2>1. \A p \in Requests : p = q
    BY OneRequest
  <2>2. UNCHANGED <<row, chain, approvals>>
    BY <1>2 DEF Begin
  <2>3. req'[q] = [phase |-> "loaded", kind |-> k, loaded |-> row]
    BY <1>1, <1>2 DEF Begin
  <2>4. k = "complete" => begun'["complete"] > 0
    BY <1>1, <1>2 DEF Begin
  <2>5. \A p \in Requests :
          /\ req'[p].phase # "committed"
          /\ req'[p].phase = "loaded" =>
               /\ req'[p].loaded = row'
               /\ req'[p].kind = "complete" => begun'["complete"] > 0
    BY <2>1, <2>2, <2>3, <2>4
  <2> QED
    BY <2>2, <2>5 DEF Opening, Used
<1>3. ASSUME NEW q \in Requests, CommitStart(q) \/ CommitFlag(q)
      PROVE  Opening'
  <2>1. req[q].loaded = row
    BY <1>3 DEF CommitStart, CommitFlag, Loaded, Opening
  <2>2. row' = Started(row) \/ row' = Flagged(row)
    BY <1>1, <1>3, <2>1, FlushFresh, AssignedTypes DEF CommitStart, CommitFlag
  <2>3. /\ row'.status \in {"active", "flagged"}
        /\ row'.review = row.review /\ row'.ended = row.ended
    BY <1>1, <2>2 DEF Started, Flagged, Row
  <2>4. UNCHANGED <<chain, approvals, begun>> /\ req' = [req EXCEPT ![q] = NoRequest]
    BY <1>3 DEF CommitStart, CommitFlag, counters
  <2>5. \A p \in Requests : req'[p].phase = "free"
    BY <1>1, <2>4, OneRequest DEF NoRequest
  <2> QED
    BY <2>3, <2>4, <2>5 DEF Opening, Used
<1>4. ASSUME NEW q \in Requests, CommitComplete(q)
      PROVE  Closing'
  <2>1. req[q].loaded = row /\ begun["complete"] > 0
    BY <1>4 DEF CommitComplete, Loaded, Opening
  <2>2. row' = Completed(row)
    BY <1>1, <1>4, <2>1, FlushFresh, AssignedTypes DEF CommitComplete
  <2>3. /\ row'.status = "completed" /\ row'.review = {} /\ row'.ended
    BY <1>1, <2>2 DEF Completed, Row, Opening
  <2>4. /\ UNCHANGED <<chain, approvals, begun>>
        /\ req' = [req EXCEPT ![q].phase = "committed"] /\ req[q].kind = "complete"
    BY <1>4 DEF CommitComplete, Loaded, counters
  <2>5. \A p \in Requests : req'[p].phase = "committed" /\ req'[p].kind = "complete"
    BY <1>1, <2>4, OneRequest DEF ReqType
  <2> QED
    BY <2>1, <2>3, <2>4, <2>5 DEF Opening, Closing, Closed, Used
<1>5. ASSUME NEW q \in Requests, CommitApprove(q) PROVE FALSE
  BY <1>5 DEF CommitApprove, Loaded, Opening, IInv, Admits
<1>6. ASSUME NEW q \in Requests, \/ ScheduleFails(q)
                                 \/ \E c \in Chains : Schedule(q, c)
      PROVE  FALSE
  BY <1>6 DEF Schedule, ScheduleFails, Opening
<1>7. CASE Expire
  BY <1>7 DEF Expire, Opening, Used, counters
<1>8. ASSUME NEW c \in Chains, Task(c) \/ Breaks(c) PROVE FALSE
  BY <1>8, TaskSteps, TaskUses DEF Opening
<1> QED
  BY <1>2, <1>3, <1>4, <1>5, <1>6, <1>7, <1>8 DEF Next

LEMMA ClosingSteps ==
  ASSUME IInv, OneAtATime, Closing, Next
  PROVE  Closing' \/ Judging'
<1>1. req \in [Requests -> ReqType] /\ chain \in [Chains -> ChainType]
  BY DEF IInv, TypeOK
<1>2. ASSUME NEW q \in Requests, NEW k \in Kinds, Begin(q, k) PROVE FALSE
  BY <1>2, NobodyBegins DEF Closing
<1>3. ASSUME NEW q \in Requests,
             CommitStart(q) \/ CommitComplete(q) \/ CommitFlag(q) \/ CommitApprove(q)
      PROVE  FALSE
  BY <1>3 DEF CommitStart, CommitComplete, CommitFlag, CommitApprove, Loaded, Closing
<1>4. ASSUME NEW q \in Requests, NEW c \in Chains, Schedule(q, c)
      PROVE  Judging'
  <2>1. /\ UNCHANGED <<row, begun, approvals>> /\ req' = [req EXCEPT ![q] = NoRequest]
        /\ req[q].kind = "complete" /\ chain[c].stage = "unused"
        /\ chain' = [chain EXCEPT ![c].stage = "queued", ![c].kind = "judge"]
    BY <1>4 DEF Schedule, Closing, counters
  <2>2. \A p \in Requests : req'[p].phase = "free"
    BY <1>1, <2>1, OneRequest DEF NoRequest
  <2>3. /\ chain'[c].stage = "queued" /\ chain'[c].kind = "judge"
        /\ chain'[c].verdict = "none" /\ \A d \in Chains \ {c} : chain'[d] = chain[d]
    BY <1>1, <2>1 DEF ChainType, IInv
  <2>4. Used' = {c}
    BY <2>3 DEF Closing, Used
  <2>5. JudgedBy(c)'
    BY <2>3, <2>4 DEF JudgedBy
  <2> QED
    BY <2>1, <2>2, <2>5 DEF Closing, Judging, Closed
<1>5. ASSUME NEW q \in Requests, ScheduleFails(q)
      PROVE  Closing'
  <2>1. UNCHANGED <<row, chain, begun, approvals>> /\ req' = [req EXCEPT ![q] = NoRequest]
    BY <1>5 DEF ScheduleFails
  <2>2. \A p \in Requests : req'[p].phase = "free"
    BY <1>1, <2>1, OneRequest DEF NoRequest
  <2> QED
    BY <2>1, <2>2 DEF Closing, Closed, Used
<1>6. CASE Expire
  BY <1>6 DEF Expire, Closing, Closed, Used, counters
<1>7. ASSUME NEW c \in Chains, Task(c) \/ Breaks(c) PROVE FALSE
  BY <1>7, TaskSteps, TaskUses DEF Closing
<1> QED
  BY <1>2, <1>3, <1>4, <1>5, <1>6, <1>7 DEF Next

LEMMA JudgingSteps ==
  ASSUME IInv, OneAtATime, Judging, Next
  PROVE  Judging' \/ Holding'
<1>1. chain \in [Chains -> ChainType] /\ row \in Row
  BY DEF IInv, TypeOK
<1>2. ASSUME NEW q \in Requests, NEW k \in Kinds, Begin(q, k) PROVE FALSE
  BY <1>2, NobodyBegins DEF Judging
<1>3. ASSUME NEW q \in Requests,
             CommitStart(q) \/ CommitComplete(q) \/ CommitFlag(q) \/ CommitApprove(q)
      PROVE  FALSE
  BY <1>3 DEF CommitStart, CommitComplete, CommitFlag, CommitApprove, Loaded, Judging
<1>4. ASSUME NEW q \in Requests, \/ ScheduleFails(q)
                                 \/ \E c \in Chains : Schedule(q, c)
      PROVE  FALSE
  BY <1>4 DEF Schedule, ScheduleFails, Judging
<1>5. CASE Expire
  BY <1>5 DEF Expire, Judging, JudgedBy, Closed, Used, counters
<1>6. ASSUME NEW c \in Chains, Task(c) \/ Breaks(c)
      PROVE  Judging' \/ Holding'
  <2>1. TaskEffect(c)
    BY <1>6, TaskSteps
  <2>2. Used' = Used /\ Used = {c} /\ JudgedBy(c)
    BY <2>1, TaskUses DEF Judging, JudgedBy
  <2>3. UNCHANGED <<req, begun, approvals>> /\ chain'[c].kind = "judge"
    BY <2>1, <2>2 DEF TaskEffect, JudgedBy
  <2>4. CASE JudgeHolds(c) /\ chain'[c].verdict = "held"
    <3>1. PICK v \in Reviews : row' = Flush(chain[c].loaded, Held(chain[c].loaded, v))
      BY <2>4 DEF JudgeHolds
    <3>2. chain[c].stage = "judging" /\ chain[c].loaded \in Row
      BY <1>1, <2>4 DEF JudgeHolds, At, ChainType
    <3>3. chain[c].loaded.status = "completed" /\ chain[c].loaded.review = {}
      BY <2>2, <3>2 DEF JudgedBy
    <3>4. /\ Held(chain[c].loaded, v).status = "pending_review"
          /\ Held(chain[c].loaded, v).review = {v}
          /\ Held(chain[c].loaded, v).ended = chain[c].loaded.ended
      BY <3>2 DEF Held, Row
    <3>5. row'.status = "pending_review" /\ row'.review = {v} /\ row'.ended = row.ended
      BY <3>1, <3>3, <3>4 DEF Flush, Pick
    <3>6. Closed'
      BY <2>3, <3>5 DEF Judging, Closed
    <3>7. HeldBy(c)' /\ Used' = {c}
      BY <2>2, <2>3, <2>4 DEF HeldBy
    <3>8. \A q \in Requests : req'[q].phase = "free"
      BY <2>3 DEF Judging
    <3>9. approvals' = 0
      BY <2>3 DEF Judging
    <3> QED
      BY <3>5, <3>6, <3>7, <3>8, <3>9 DEF Holding
  <2>5. CASE /\ UNCHANGED row
             /\ chain'[c].verdict = "held" => chain[c].verdict = "held"
             /\ chain'[c].stage = "judging" => chain'[c].loaded = row
    <3>1. JudgedBy(c)'
      BY <2>2, <2>3, <2>5 DEF JudgedBy, Judging
    <3> QED
      BY <2>3, <2>5, <3>1 DEF Judging, Closed
  <2> QED
    BY <2>1, <2>4, <2>5 DEF TaskEffect
<1> QED
  BY <1>2, <1>3, <1>4, <1>5, <1>6 DEF Next

(* A chain whose judge has held the session is never judged again.          *)
LEMMA HeldStays ==
  ASSUME IInv, NEW c \in Chains, NEW d \in Chains, HeldBy(c), TaskEffect(d),
         d # c => chain[d].kind = "finalize"
  PROVE  HeldBy(c)' /\ UNCHANGED row
<1>1. ~JudgeHolds(d)
  BY DEF JudgeHolds, At, HeldBy, IInv
<1>2. d = c => chain[c].stage # "judging"
  BY DEF HeldBy, IInv
<1> QED
  BY <1>1, <1>2 DEF TaskEffect, HeldBy

LEMMA HoldingSteps ==
  ASSUME IInv, OneAtATime, Holding, Next
  PROVE  Holding' \/ Cleared'
<1>1. /\ row \in Row /\ req \in [Requests -> ReqType] /\ chain \in [Chains -> ChainType]
      /\ begun \in [Kinds -> Nat] /\ approvals \in Nat
  BY DEF IInv, TypeOK
<1>2. ASSUME NEW q \in Requests, NEW k \in Kinds, Begin(q, k)
      PROVE  Holding'
  <2>1. \A p \in Requests : p = q
    BY OneRequest
  <2>2. UNCHANGED <<row, chain, approvals>> /\ k # "complete"
    BY <1>2, NobodyBegins DEF Begin, Holding
  <2>3. req'[q] = [phase |-> "loaded", kind |-> k, loaded |-> row]
    BY <1>1, <1>2 DEF Begin
  <2>4. begun'["complete"] = begun["complete"]
    BY <1>1, <1>2, <2>2 DEF Begin
  <2>5. \A p \in Requests :
          /\ req'[p].phase # "committed"
          /\ req'[p].phase = "loaded" => req'[p].loaded = row' /\ req'[p].kind # "complete"
    BY <2>1, <2>2, <2>3
  <2> QED
    BY <2>2, <2>4, <2>5 DEF Holding, HeldBy, Closed, Used
<1>3. ASSUME NEW q \in Requests, CommitStart(q) \/ CommitComplete(q)
      PROVE  FALSE
  BY <1>3 DEF CommitStart, CommitComplete, Loaded, Holding, IInv, Admits
<1>4. ASSUME NEW q \in Requests, CommitFlag(q)
      PROVE  Holding'
  <2>1. req[q].loaded = row
    BY <1>4 DEF CommitFlag, Loaded, Holding
  <2>2. row' = Flagged(row)
    BY <1>1, <1>4, <2>1, FlushFresh, AssignedTypes DEF CommitFlag
  <2>3. row'.status = "flagged" /\ row'.review = row.review /\ row'.ended = row.ended
    BY <1>1, <2>2 DEF Flagged, Row
  <2>4. UNCHANGED <<chain, approvals, begun>> /\ req' = [req EXCEPT ![q] = NoRequest]
    BY <1>4 DEF CommitFlag, counters
  <2>5. \A p \in Requests : req'[p].phase = "free"
    BY <1>1, <2>4, OneRequest DEF NoRequest
  <2> QED
    BY <2>3, <2>4, <2>5 DEF Holding, HeldBy, Closed, Used
<1>5. ASSUME NEW q \in Requests, CommitApprove(q)
      PROVE  Cleared'
  <2>1. req[q].loaded = row /\ req[q].kind = "approve"
    BY <1>5 DEF CommitApprove, Loaded, Holding
  <2>2. row' = Approved(row)
    BY <1>1, <1>5, <2>1, FlushFresh, AssignedTypes DEF CommitApprove
  <2>3. row'.status = "completed" /\ row'.ended = row.ended
    BY <1>1, <2>2 DEF Approved, Row
  <2>4. /\ UNCHANGED <<chain, begun>> /\ approvals' = approvals + 1
        /\ req' = [req EXCEPT ![q].phase = "committed"]
    BY <1>5 DEF CommitApprove
  <2>5. \A p \in Requests : req'[p].phase = "committed" /\ req'[p].kind = "approve"
    BY <1>1, <2>1, <2>4, OneRequest DEF ReqType
  <2>6. approvals' > 0
    BY <1>1, <2>4
  <2>7. \E c \in Chains : Used' = {c} /\ HeldBy(c)'
    BY <2>4 DEF Holding, Used, HeldBy
  <2> QED
    BY <2>3, <2>4, <2>5, <2>6, <2>7 DEF Holding, Cleared, Closed
<1>6. ASSUME NEW q \in Requests, \/ ScheduleFails(q)
                                 \/ \E c \in Chains : Schedule(q, c)
      PROVE  FALSE
  BY <1>6 DEF Schedule, ScheduleFails, Holding
<1>7. CASE Expire
  BY <1>7 DEF Expire, Holding, HeldBy, Closed, Used, counters
<1>8. ASSUME NEW c \in Chains, Task(c) \/ Breaks(c)
      PROVE  Holding'
  <2>1. TaskEffect(c)
    BY <1>8, TaskSteps
  <2>2. Used' = Used /\ Used = {c} /\ HeldBy(c)
    BY <2>1, TaskUses DEF Holding
  <2>3. HeldBy(c)' /\ UNCHANGED row
    BY <2>1, <2>2, HeldStays
  <2>4. UNCHANGED <<req, begun, approvals>>
    BY <2>1 DEF TaskEffect
  <2> QED
    BY <2>2, <2>3, <2>4 DEF Holding, Closed
<1> QED
  BY <1>2, <1>3, <1>4, <1>5, <1>6, <1>7, <1>8 DEF Next

LEMMA ClearedSteps ==
  ASSUME IInv, OneAtATime, Cleared, Next
  PROVE  Cleared'
<1>1. req \in [Requests -> ReqType] /\ chain \in [Chains -> ChainType]
  BY DEF IInv, TypeOK
<1>2. ASSUME NEW q \in Requests, NEW k \in Kinds, Begin(q, k) PROVE FALSE
  BY <1>2, NobodyBegins DEF Cleared
<1>3. ASSUME NEW q \in Requests,
             CommitStart(q) \/ CommitComplete(q) \/ CommitFlag(q) \/ CommitApprove(q)
      PROVE  FALSE
  BY <1>3 DEF CommitStart, CommitComplete, CommitFlag, CommitApprove, Loaded, Cleared
<1>4. ASSUME NEW q \in Requests, NEW d \in Chains, Schedule(q, d)
      PROVE  Cleared'
  <2>1. /\ UNCHANGED <<row, begun, approvals>> /\ req' = [req EXCEPT ![q] = NoRequest]
        /\ req[q].phase = "committed" /\ chain[d].stage = "unused"
        /\ chain' = [chain EXCEPT ![d].stage = "queued", ![d].kind = "finalize"]
    BY <1>4 DEF Schedule, Cleared, counters
  <2>2. \A p \in Requests : req'[p].phase = "free"
    BY <1>1, <2>1, OneRequest DEF NoRequest
  <2>3. /\ chain'[d].stage = "queued" /\ chain'[d].kind = "finalize"
        /\ \A e \in Chains \ {d} : chain'[e] = chain[e]
    BY <1>1, <2>1 DEF ChainType
  <2>4. PICK c \in Chains : HeldBy(c) /\ Used = {c}
    BY <2>1 DEF Cleared
  <2>5. c # d
    BY <2>1, <2>4 DEF Used
  <2>6. HeldBy(c)' /\ Used' = {c, d}
    BY <2>3, <2>4, <2>5 DEF HeldBy, Used
  <2> QED
    BY <2>1, <2>2, <2>3, <2>6 DEF Cleared, Closed
<1>5. ASSUME NEW q \in Requests, ScheduleFails(q)
      PROVE  Cleared'
  <2>1. UNCHANGED <<row, chain, begun, approvals>> /\ req' = [req EXCEPT ![q] = NoRequest]
    BY <1>5 DEF ScheduleFails
  <2>2. \A p \in Requests : req'[p].phase = "free"
    BY <1>1, <2>1, OneRequest DEF NoRequest
  <2> QED
    BY <2>1, <2>2 DEF Cleared, Closed, Used, HeldBy
<1>6. CASE Expire
  BY <1>6 DEF Expire, Cleared, Closed, Used, HeldBy, counters
<1>7. ASSUME NEW e \in Chains, Task(e) \/ Breaks(e)
      PROVE  Cleared'
  <2>1. TaskEffect(e) /\ e \in Used /\ Used' = Used
    BY <1>7, TaskSteps, TaskUses
  <2>2. PICK c \in Chains :
          /\ HeldBy(c)
          /\ \/ Used = {c}
             \/ /\ \A q \in Requests : req[q].phase = "free"
                /\ \E d \in Chains : Used = {c, d} /\ chain[d].kind = "finalize"
    BY DEF Cleared
  <2>3. HeldBy(c)' /\ UNCHANGED row
    <3>1. e # c => chain[e].kind = "finalize"
      BY <2>1, <2>2
    <3> QED
      BY <2>1, <2>2, <3>1, HeldStays
  <2>4. UNCHANGED <<req, begun, approvals>> /\ \A d \in Chains : chain'[d].kind = chain[d].kind
    BY <2>1 DEF TaskEffect
  <2> QED
    BY <2>1, <2>2, <2>3, <2>4 DEF Cleared, Closed
<1> QED
  BY <1>2, <1>3, <1>4, <1>5, <1>6, <1>7 DEF Next

LEMMA InitOInv == OneAtATime /\ Init => OInv
<1> SUFFICES ASSUME OneAtATime, Init PROVE OInv
  OBVIOUS
<1>1. IInv
  BY InitIInv
<1>2. Used = {} /\ \A q \in Requests : req[q].phase = "free"
  BY DEF Init, Used, NoChain, NoRequest
<1>3. Opening
  BY <1>2 DEF Init, Opening, NewRow
<1> QED
  BY <1>1, <1>3 DEF OInv

LEMMA NextOInv == OInv /\ [Next]_vars => OInv'
<1> SUFFICES ASSUME OInv, [Next]_vars PROVE OInv'
  OBVIOUS
<1>1. IInv /\ IInv' /\ OneAtATime /\ OneAtATime'
  BY NextIInv DEF OInv, OneAtATime
<1>2. CASE Next
  BY <1>1, <1>2, OpeningSteps, ClosingSteps, JudgingSteps, HoldingSteps, ClearedSteps
     DEF OInv
<1>3. CASE UNCHANGED vars
  BY <1>1, <1>3 DEF OInv, vars, counters, Opening, Closing, Judging, Holding, Cleared,
                    Closed, JudgedBy, HeldBy, Used
<1> QED
  BY <1>2, <1>3

-----------------------------------------------------------------------------
(* A client that completes once and sends one request at a time can have    *)
(* its held session approved, and is sent one report, whatever tasks die    *)
(* and however often approval and flag are tried (approve_judge_review,     *)
(* run_session_judge_task, send_session_report_email).                     *)
THEOREM ReleasedOnce == OneAtATime /\ Spec => []ReleasableOnce
<1>1. ASSUME OInv PROVE HeldIsReviewable
  BY <1>1 DEF OInv, Opening, Closing, Judging, Holding, Cleared, HeldIsReviewable
<1>2. ASSUME OInv PROVE ReportedAtMostOnce
  <2>1. Sent \subseteq Used
    BY DEF Sent, Used
  <2>2. ASSUME NEW c \in Chains, HeldBy(c) PROVE c \notin Sent
    BY <1>2, <2>2 DEF OInv, IInv, HeldBy, Sent
  <2>3. Sent = {} \/ \E c \in Chains : Sent = {c}
    <3>1. CASE Opening \/ Closing
      BY <2>1, <3>1 DEF Opening, Closing
    <3>2. CASE Judging
      BY <2>1, <3>2 DEF Judging, JudgedBy
    <3>3. CASE Holding
      BY <2>1, <2>2, <3>3 DEF Holding
    <3>4. CASE Cleared
      <4>1. PICK c \in Chains : HeldBy(c) /\ \/ Used = {c}
                                             \/ \E d \in Chains : Used = {c, d}
        BY <3>4 DEF Cleared
      <4> QED
        BY <2>1, <2>2, <4>1
    <3> QED
      BY <1>2, <3>1, <3>2, <3>3, <3>4 DEF OInv
  <2>4. Cardinality(Sent) = 0 \/ Cardinality(Sent) = 1
    BY <2>3, FS_EmptySet, FS_Singleton
  <2> QED
    BY <2>4 DEF ReportedAtMostOnce
<1>3. OInv => ReleasableOnce
  BY <1>1, <1>2 DEF ReleasableOnce
<1> QED
  BY InitOInv, NextOInv, <1>3, PTL DEF Spec

-----------------------------------------------------------------------------
(* The refinement: each phase has an outcome, and each step of the sitting  *)
(* is a step of the release policy or leaves the outcome alone.            *)
Confirmed == {c \in Chains : chain[c].verdict = "confirmed"}

OutcomeFits ==
  /\ Opening => Outcome = "open"
  /\ Closing => Outcome = "grading"
  /\ Judging => Outcome = IF Sent # {} THEN "released"
                          ELSE IF Confirmed # {} THEN "cleared" ELSE "grading"
  /\ Holding => Outcome = "held"
  /\ Cleared => Outcome = IF Sent # {} THEN "released" ELSE "cleared"

LEMMA PhaseOutcomes == OInv => OutcomeFits
<1> SUFFICES ASSUME OInv PROVE OutcomeFits
  OBVIOUS
<1> USE DEF OutcomeFits
<1>1. Sent \subseteq Used
  BY DEF Sent, Used
<1>2. \A c \in Chains : chain[c].verdict # "none" => c \in Used
  BY DEF OInv, IInv, Used
<1>3. \A c \in Chains : HeldBy(c) => c \notin Sent
  BY DEF OInv, IInv, HeldBy, Sent
<1>4. approvals \in Nat
  BY DEF OInv, IInv, TypeOK
<1>5. CASE Opening
  <2>1. Sent = {} /\ ~HeldByJudge /\ Confirmed = {}
    BY <1>1, <1>2, <1>5 DEF Opening, HeldByJudge, Confirmed
  <2> QED
    BY <1>5, <2>1 DEF Opening, Closing, Judging, Holding, Cleared, Closed, Outcome, Confirmed
<1>6. CASE Closing
  <2>1. Sent = {} /\ ~HeldByJudge /\ Confirmed = {}
    BY <1>1, <1>2, <1>6 DEF Closing, HeldByJudge, Confirmed
  <2> QED
    BY <1>6, <2>1
       DEF Opening, Closing, Judging, Holding, Cleared, Closed, JudgedBy, Outcome, Confirmed
<1>7. CASE Judging
  <2>1. ~HeldByJudge
    BY <1>2, <1>7 DEF Judging, JudgedBy, HeldByJudge
  <2> QED
    BY <1>7, <2>1
       DEF Opening, Closing, Judging, Holding, Cleared, Closed, JudgedBy, Outcome, Confirmed
<1>8. CASE Holding
  <2>1. HeldByJudge /\ Sent = {}
    BY <1>1, <1>3, <1>8 DEF Holding, HeldBy, HeldByJudge
  <2> QED
    BY <1>8, <2>1 DEF Opening, Closing, Judging, Holding, Cleared, Closed, Outcome
<1>9. CASE Cleared
  BY <1>4, <1>9 DEF Opening, Closing, Judging, Holding, Cleared, Closed, Outcome
<1> QED
  BY <1>5, <1>6, <1>7, <1>8, <1>9

(* What is confirmed and what is sent stays so, and a report is sent that   *)
(* was built.                                                              *)
LEMMA ResultsGrow ==
  ASSUME IInv, Next
  PROVE  /\ Sent \subseteq Sent' /\ Confirmed \subseteq Confirmed'
         /\ \A c \in Chains :
              /\ c \in Sent' => chain[c].stage \in {"built", "sent"}
              /\ c \in Confirmed' => c \in Confirmed \/ chain[c].stage = "judging"
<1>1. chain \in [Chains -> ChainType]
  BY DEF IInv, TypeOK
<1>2. ASSUME NEW c \in Chains, Task(c) \/ Breaks(c), NEW d \in Chains
      PROVE  /\ chain'[d].stage = "sent" => chain[d].stage \in {"built", "sent"}
             /\ chain[d].stage = "sent" => chain'[d].stage = "sent"
             /\ \/ chain'[d].verdict = chain[d].verdict
                \/ chain[d].stage = "judging" /\ chain[d].verdict = "none"
  <2>1. TaskEffect(c)
    BY <1>2, TaskSteps
  <2>2. chain[c].stage = "judging" => chain[c].verdict = "none"
    BY DEF IInv
  <2>3. CASE d = c
    BY <2>1, <2>2, <2>3 DEF TaskEffect
  <2>4. CASE d # c
    BY <2>1, <2>4 DEF TaskEffect
  <2> QED
    BY <2>3, <2>4
<1>3. ASSUME NEW q \in Requests, NEW c \in Chains, Schedule(q, c), NEW d \in Chains
      PROVE  /\ chain'[d].stage = "sent" => chain[d].stage = "sent"
             /\ chain[d].stage = "sent" => chain'[d].stage = "sent"
             /\ chain'[d].verdict = chain[d].verdict
  BY <1>1, <1>3 DEF Schedule, ChainType
<1>4. CASE UNCHANGED chain
  BY <1>4 DEF Sent, Confirmed
<1>5. \/ UNCHANGED chain
      \/ \E q \in Requests, c \in Chains : Schedule(q, c)
      \/ \E c \in Chains : Task(c) \/ Breaks(c)
  BY DEF Next, Begin, CommitStart, CommitComplete, CommitFlag, CommitApprove,
         ScheduleFails, Expire
<1> QED
  BY <1>2, <1>3, <1>4, <1>5 DEF Sent, Confirmed

(* A report that is sent while nothing was approved is a confirmed one.     *)
LEMMA SentWasConfirmed ==
  ASSUME IInv, Judging, NEW c \in Chains, chain[c].stage \in {"built", "sent"}
  PROVE  c \in Confirmed
<1>1. chain \in [Chains -> ChainType]
  BY DEF IInv, TypeOK
<1>2. chain[c].kind = "judge"
  BY DEF Judging, JudgedBy, Used
<1> QED
  BY <1>1, <1>2 DEF IInv, Confirmed, ChainType

LEMMA NextOutcomes == OInv' => OutcomeFits'
BY PhaseOutcomes, PTL

LEMMA StepReleases ==
  ASSUME OInv, OInv', Next
  PROVE  Policy!Next \/ UNCHANGED Outcome
<1>1. IInv /\ IInv' /\ OneAtATime
  BY DEF OInv
<1>2. /\ Sent \subseteq Sent' /\ Confirmed \subseteq Confirmed'
      /\ \A c \in Chains :
           /\ c \in Sent' => chain[c].stage \in {"built", "sent"}
           /\ c \in Confirmed' => c \in Confirmed \/ chain[c].stage = "judging"
  BY <1>1, ResultsGrow
<1>3. OutcomeFits /\ OutcomeFits'
  BY PhaseOutcomes, NextOutcomes
<1> USE <1>3 DEF OutcomeFits
<1>4. CASE Opening
  <2>1. Opening' \/ Closing'
    BY <1>1, <1>4, OpeningSteps
  <2> QED
    BY <1>4, <2>1 DEF Policy!Next, Policy!Close
<1>5. CASE Closing
  <2>1. Closing' \/ Judging'
    BY <1>1, <1>5, ClosingSteps
  <2>2. Sent' = {} /\ Confirmed' = {}
    <3>1. \A c \in Chains : chain[c].stage = "unused"
      BY <1>5 DEF Closing, Used
    <3>2. Confirmed = {}
      BY <1>1, <3>1 DEF IInv, Confirmed
    <3> QED
      BY <1>2, <3>1, <3>2 DEF Sent, Confirmed
  <2> QED
    BY <1>5, <2>1, <2>2
<1>6. CASE Judging
  <2>1. Sent # {} => Confirmed # {}
    BY <1>1, <1>6, SentWasConfirmed DEF Sent
  <2>2. Sent' # {} => Confirmed # {}
    BY <1>1, <1>2, <1>6, SentWasConfirmed DEF Sent
  <2>3. CASE Judging'
    BY <1>2, <1>6, <2>1, <2>2, <2>3
       DEF Policy!Next, Policy!Clear, Policy!Release
  <2>4. CASE Holding'
    <3>1. PICK c \in Chains : Used' = {c} /\ HeldBy(c)'
      BY <2>4 DEF Holding
    <3>2. Confirmed' = {}
      <4>1. \A d \in Chains : d # c => chain'[d].verdict = "none"
        BY <1>1, <3>1 DEF IInv, Used
      <4> QED
        BY <3>1, <4>1 DEF HeldBy, Confirmed
    <3>3. Confirmed = {} /\ Sent = {}
      BY <1>2, <2>1, <3>2
    <3> QED
      BY <1>6, <2>4, <3>3 DEF Policy!Next, Policy!Hold
  <2> QED
    BY <1>1, <1>6, <2>3, <2>4, JudgingSteps
<1>7. CASE Holding
  <2>1. Holding' \/ Cleared'
    BY <1>1, <1>7, HoldingSteps
  <2>2. Sent' = {}
    <3>1. PICK c \in Chains : Used = {c} /\ HeldBy(c)
      BY <1>7 DEF Holding
    <3>2. \A d \in Chains : chain[d].stage \notin {"built", "sent"}
      BY <1>1, <3>1 DEF IInv, Used, HeldBy
    <3> QED
      BY <1>2, <3>2 DEF Sent
  <2> QED
    BY <1>7, <2>1, <2>2 DEF Policy!Next, Policy!Clear
<1>8. CASE Cleared
  <2>1. Cleared'
    BY <1>1, <1>8, ClearedSteps
  <2> QED
    BY <1>2, <1>8, <2>1 DEF Policy!Next, Policy!Release
<1> QED
  BY <1>4, <1>5, <1>6, <1>7, <1>8 DEF OInv

LEMMA InitReleases == OneAtATime /\ Init => Policy!Init
<1> SUFFICES ASSUME OneAtATime, Init PROVE Policy!Init
  OBVIOUS
<1>1. OInv
  BY InitOInv
<1>2. Used = {} /\ approvals = 0 /\ ~row.ended
  BY DEF Init, Used, NoChain, NewRow
<1>3. Opening
  BY <1>1, <1>2 DEF OInv, Opening, Closing, Judging, Holding, Cleared, Closed, JudgedBy
<1> QED
  BY <1>1, <1>3, PhaseOutcomes DEF Policy!Init, OutcomeFits

(* The life of a sitting implements the release policy: results go out only *)
(* after grading, held ones only after an approval, and no outcome is ever  *)
(* taken back (complete_session, run_session_judge_task,                    *)
(* approve_judge_review).                                                   *)
THEOREM SittingImplementsPolicy == OneAtATime /\ Spec => ReleasesByPolicy
<1>1. OInv /\ OInv' /\ [Next]_vars => [Policy!Next]_Outcome
  <2>1. UNCHANGED vars => UNCHANGED Outcome
    BY DEF vars, counters, Outcome, Sent, HeldByJudge
  <2> QED
    BY <2>1, StepReleases
<1> QED
  BY InitOInv, NextOInv, InitReleases, <1>1, PTL DEF Spec, ReleasesByPolicy, Policy!Spec

=============================================================================
