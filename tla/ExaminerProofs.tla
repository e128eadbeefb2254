--------------------------- MODULE ExaminerProofs ---------------------------
(* What the examiner guarantees for every blueprint, every number of tabs  *)
(* and every interleaving of turns.                                        *)
EXTENDS Examiner, FiniteSetTheorems, TLAPS

(* A non-empty set of tools has a member that is served before the others. *)
LEMMA FirstIsLeast ==
  ASSUME NEW S \in SUBSET Tools, S # {}
  PROVE  First(S) \in S /\ \A u \in S : Rank[First(S)] <= Rank[u]
<1>1. \E t \in S : \A u \in S : Rank[t] <= Rank[u]
  <2>1. CASE "mcq" \in S
    BY <2>1 DEF Tools, Rank
  <2>2. CASE "mcq" \notin S /\ "voice" \in S
    BY <2>2 DEF Tools, Rank
  <2>3. CASE "mcq" \notin S /\ "voice" \notin S /\ "diagram" \in S
    BY <2>3 DEF Tools, Rank
  <2>4. CASE "mcq" \notin S /\ "voice" \notin S /\ "diagram" \notin S
    <3>1. PICK t \in S : TRUE
      OBVIOUS
    <3>2. \A u \in S : u = t
      BY <2>4 DEF Tools
    <3>3. Rank[t] <= Rank[t]
      BY DEF Rank, Tools
    <3> QED
      BY <3>1, <3>2, <3>3
  <2> QED
    BY <2>1, <2>2, <2>3, <2>4
<1> QED
  BY <1>1 DEF First

(* Four counts that are each within their limits and together reach the    *)
(* sum of the limits have all reached them.                                *)
LEMMA SumReached ==
  ASSUME NEW f \in [Tools -> Nat], NEW g \in [Tools -> Nat],
         \A u \in Tools : f[u] <= g[u], Sum(f) >= Sum(g)
  PROVE  \A u \in Tools : f[u] = g[u]
<1>1. /\ f["mcq"] \in Nat /\ f["voice"] \in Nat /\ f["diagram"] \in Nat /\ f["code"] \in Nat
      /\ g["mcq"] \in Nat /\ g["voice"] \in Nat /\ g["diagram"] \in Nat /\ g["code"] \in Nat
  BY DEF Tools
<1>2. /\ f["mcq"] <= g["mcq"] /\ f["voice"] <= g["voice"]
      /\ f["diagram"] <= g["diagram"] /\ f["code"] <= g["code"]
  BY DEF Tools
<1>3. f["mcq"] + f["voice"] + f["diagram"] + f["code"]
        >= g["mcq"] + g["voice"] + g["diagram"] + g["code"]
  BY DEF Sum
<1>4. /\ f["mcq"] = g["mcq"] /\ f["voice"] = g["voice"]
      /\ f["diagram"] = g["diagram"] /\ f["code"] = g["code"]
  BY <1>1, <1>2, <1>3
<1> QED
  BY <1>4 DEF Tools

(* Four counts that are each within their limits add up within the sum of  *)
(* the limits.                                                             *)
LEMMA SumBounded ==
  ASSUME NEW f \in [Tools -> Nat], NEW g \in [Tools -> Nat],
         \A u \in Tools : f[u] <= g[u]
  PROVE  Sum(f) \in Nat /\ Sum(g) \in Nat /\ Sum(f) <= Sum(g)
<1>1. /\ f["mcq"] \in Nat /\ f["voice"] \in Nat /\ f["diagram"] \in Nat /\ f["code"] \in Nat
      /\ g["mcq"] \in Nat /\ g["voice"] \in Nat /\ g["diagram"] \in Nat /\ g["code"] \in Nat
  BY DEF Tools
<1>2. /\ f["mcq"] <= g["mcq"] /\ f["voice"] <= g["voice"]
      /\ f["diagram"] <= g["diagram"] /\ f["code"] <= g["code"]
  BY DEF Tools
<1> QED
  BY <1>1, <1>2 DEF Sum

(* The state a sitting starts from has consistent counts.                  *)
LEMMA InitialConsistent ==
  ASSUME NEW b \in Blueprints
  PROVE  InitialState(b) \in ExaminerState /\ CountsAgree(InitialState(b))
<1> DEFINE s == InitialState(b)
<1>1. b \in Blueprint
  BY BlueprintAssumption
<1>2. s.current \in Tools \cup {NoTool}
  BY <1>1, FirstIsLeast DEF InitialState, Blueprint
<1>3. s \in ExaminerState
  BY <1>2 DEF InitialState, ExaminerState
<1>4. CountsAgree(s)
  BY <1>1 DEF InitialState, CountsAgree, EnabledCount, Sum, Tools, Blueprint
<1> QED
  BY <1>3, <1>4

(* Settling the question keeps the counts within the blueprint.            *)
LEMMA SettleCorrect ==
  ASSUME NEW s \in ExaminerState, CountsAgree(s)
  PROVE  /\ RunToolLoop(s) \in ExaminerState
         /\ RunToolLoop(s).bp = s.bp
         /\ \A t \in Tools : RunToolLoop(s).done[t] <= EnabledCount(s.bp)[t]
<1>1. s.bp \in Blueprint
  BY BlueprintAssumption DEF ExaminerState
<1>2. ASSUME NEW t \in Tools, t \in s.bp.enabled
      PROVE  Settled(s, t) \in Nat /\ Settled(s, t) <= s.bp.count[t]
  <2>1. s.done[t] \in Nat /\ s.bp.count[t] \in Nat
    BY <1>1 DEF ExaminerState, Blueprint
  <2>2. s.done[t] <= s.bp.count[t]
    BY <1>2 DEF CountsAgree, EnabledCount
  <2> QED
    BY <2>1, <2>2 DEF Settled, Min2
<1> DEFINE d == [t \in Tools |->
     IF t = s.last.tool /\ t \in s.bp.enabled THEN Settled(s, t) ELSE s.done[t]]
<1>3. RunToolLoop(s) = [s EXCEPT !.done = d]
  BY DEF RunToolLoop
<1>4. d \in [Tools -> Nat]
  BY <1>2 DEF ExaminerState
<1>5. \A t \in Tools : d[t] <= EnabledCount(s.bp)[t]
  <2> SUFFICES ASSUME NEW t \in Tools PROVE d[t] <= EnabledCount(s.bp)[t]
    OBVIOUS
  <2>1. CASE t = s.last.tool /\ t \in s.bp.enabled
    BY <2>1, <1>2 DEF EnabledCount
  <2>2. CASE ~(t = s.last.tool /\ t \in s.bp.enabled)
    BY <2>2 DEF CountsAgree
  <2> QED
    BY <2>1, <2>2
<1> HIDE DEF d
<1> QED
  BY <1>3, <1>4, <1>5 DEF ExaminerState

(* One turn: whatever tool and action it reports, the new state is well    *)
(* formed, keeps its blueprint, has consistent counts, and routes right.   *)
LEMMA TurnCorrect ==
  ASSUME NEW s \in ExaminerState, CountsAgree(s),
         NEW tool \in Tools \cup {NoTool}, NEW action \in Actions
  PROVE  LET n == Turn(s, tool, action)
         IN  /\ n \in ExaminerState
             /\ n.bp = s.bp
             /\ CountsAgree(n)
             /\ RoutedToWork(n)
<1> DEFINE s0 == [s EXCEPT !.last = [tool |-> tool, action |-> action]]
           s1 == RunToolLoop(s0)
           s2 == UpdateSession(s1)
           s3 == CheckCompletion(s2)
           n  == RouteQuestion(s3)
<1>0. s0 \in ExaminerState /\ s0.bp = s.bp /\ CountsAgree(s0)
  BY DEF ExaminerState, CountsAgree
<1>1. /\ s1 \in ExaminerState /\ s1.bp = s.bp
      /\ \A t \in Tools : s1.done[t] <= EnabledCount(s.bp)[t]
  BY <1>0, SettleCorrect
<1> HIDE DEF s1
<1>2. /\ s2 \in ExaminerState /\ s2.bp = s.bp /\ s2.done = s1.done
      /\ s2.index = Sum(s1.done)
  BY <1>1 DEF UpdateSession, ExaminerState, Sum, Tools
<1> HIDE DEF s2
<1>3. /\ s3 \in ExaminerState /\ s3.bp = s.bp /\ s3.done = s1.done
      /\ s3.index = Sum(s1.done)
      /\ s3.complete <=> s.bp.total # 0 /\ Sum(s1.done) >= s.bp.total
  BY <1>1, <1>2 DEF CheckCompletion, ExaminerState
<1> HIDE DEF s3
<1> DEFINE d == s1.done
           c == EnabledCount(s.bp)
<1>4. /\ s.bp \in Blueprint /\ s.bp.total \in Int
      /\ d \in [Tools -> Nat] /\ c \in [Tools -> Nat] /\ \A u \in Tools : d[u] <= c[u]
  <2>1. s.bp \in Blueprint
    BY BlueprintAssumption DEF ExaminerState
  <2> QED
    BY <2>1, <1>1 DEF ExaminerState, Blueprint, EnabledCount
<1>5. Sum(d) \in Nat /\ Sum(c) \in Nat /\ Sum(d) <= Sum(c)
  <2> HIDE DEF d, c
  <2> QED
    BY <1>4, SumBounded
<1>6. Remaining(s3) = {} <=> Sum(d) = Sum(c)
  <2>1. Remaining(s3) = {} => \A u \in Tools : d[u] = c[u]
    <3> SUFFICES ASSUME Remaining(s3) = {}, NEW u \in Tools PROVE d[u] = c[u]
      OBVIOUS
    <3>1. d[u] \in Nat /\ c[u] \in Nat /\ d[u] <= c[u]
      BY <1>4
    <3>2. u \in s.bp.enabled => ~(d[u] < s.bp.count[u])
      BY <1>3 DEF Remaining
    <3>3. s.bp.count[u] \in Nat /\ c[u] = IF u \in s.bp.enabled THEN s.bp.count[u] ELSE 0
      BY <1>4 DEF Blueprint, EnabledCount
    <3> HIDE DEF d, c
    <3> QED
      BY <3>1, <3>2, <3>3
  <2>2. Sum(d) = Sum(c) => \A u \in Tools : d[u] = c[u]
    <3> HIDE DEF d, c
    <3> QED
      BY <1>4, <1>5, SumReached
  <2>3. (\A u \in Tools : d[u] = c[u]) => Sum(d) = Sum(c)
    BY DEF Sum, Tools
  <2>4. (\A u \in Tools : d[u] = c[u]) => Remaining(s3) = {}
    <3> SUFFICES ASSUME \A u \in Tools : d[u] = c[u], NEW u \in s.bp.enabled
                 PROVE  ~(d[u] < s.bp.count[u])
      BY <1>3 DEF Remaining
    <3>1. u \in Tools /\ s.bp.count[u] \in Nat /\ c[u] = s.bp.count[u]
      BY <1>4 DEF Blueprint, EnabledCount
    <3> QED
      BY <3>1
  <2> HIDE DEF d, c
  <2> QED
    BY <2>1, <2>2, <2>3, <2>4
<1>7. Short(s.bp) <=> s.bp.total # 0 /\ s.bp.total < Sum(c)
  BY DEF Short
<1>8. n.complete <=> s3.complete \/ Remaining(s3) = {}
  BY <1>3 DEF RouteQuestion, ExaminerState
<1>9. n.complete <=> IF Short(s.bp) THEN Sum(d) >= s.bp.total ELSE Remaining(s3) = {}
  <2> HIDE DEF d, c, n
  <2>1. s3.complete <=> s.bp.total # 0 /\ Sum(d) >= s.bp.total
    BY <1>3 DEF d
  <2>2. s.bp.total \in Int
    BY <1>4
  <2>3. CASE Short(s.bp)
    BY <1>5, <1>6, <1>7, <1>8, <2>1, <2>2, <2>3
  <2>4. CASE ~Short(s.bp)
    BY <1>5, <1>6, <1>7, <1>8, <2>1, <2>2, <2>4
  <2> QED
    BY <2>3, <2>4
<1>10. CASE s3.complete \/ Remaining(s3) = {}
  <2>1. n = [s3 EXCEPT !.current = NoTool, !.complete = TRUE]
    BY <1>10 DEF RouteQuestion
  <2>2. n \in ExaminerState /\ n.bp = s.bp /\ n.done = s1.done
        /\ n.index = Sum(s1.done) /\ n.complete /\ n.current = NoTool
    BY <2>1, <1>3 DEF ExaminerState
  <2>3. Remaining(n) = Remaining(s3)
    BY <2>2, <1>3 DEF Remaining
  <2>4. CountsAgree(n) /\ RoutedToWork(n)
    BY <2>2, <2>3, <1>1, <1>9 DEF CountsAgree, RoutedToWork
  <2> QED
    BY <2>2, <2>4 DEF Turn, Graph, s1, s2, s3
<1>11. CASE ~(s3.complete \/ Remaining(s3) = {})
  <2>0. Remaining(s3) \in SUBSET Tools
    BY <1>3, <1>4 DEF Remaining, Blueprint
  <2>2. n = [s3 EXCEPT !.current = First(Remaining(s3))]
    BY <1>11 DEF RouteQuestion
  <2>3. /\ First(Remaining(s3)) \in Remaining(s3)
        /\ \A u \in Remaining(s3) : Rank[First(Remaining(s3))] <= Rank[u]
    BY <2>0, <1>11, FirstIsLeast
  <2>4. n \in ExaminerState /\ n.bp = s.bp /\ n.done = s1.done
        /\ n.index = Sum(s1.done) /\ n.complete = s3.complete
        /\ n.current = First(Remaining(s3))
    BY <2>0, <2>2, <2>3, <1>3 DEF ExaminerState
  <2>5. Remaining(n) = Remaining(s3)
    BY <2>4, <1>3 DEF Remaining
  <2>6. CountsAgree(n) /\ RoutedToWork(n)
    BY <2>3, <2>4, <2>5, <1>1, <1>9, <1>11 DEF CountsAgree, RoutedToWork
  <2> QED
    BY <2>4, <2>6 DEF Turn, Graph, s1, s2, s3
<1> QED
  BY <1>10, <1>11

-----------------------------------------------------------------------------
(* The inductive invariant: besides what is saved, the snapshots held by   *)
(* the requests in flight are consistent, since any of them may be written *)
(* back; only a saved state has been routed.                               *)
IInv ==
  /\ TypeOK
  /\ CountsConsistent
  /\ RoutingConsistent
  /\ \A r \in Requests : \A s \in req[r].snap : CountsAgree(s)

(* A request that has loaded writes back a state that is again consistent. *)
LEMMA WriteKeeps ==
  ASSUME IInv, NEW r \in Requests, NEW s \in req[r].snap,
         Write(r, Turn(s, req[r].tool, req[r].action))
  PROVE  /\ saved' \in SUBSET ExaminerState
         /\ req' \in [Requests -> ReqType]
         /\ CountsConsistent' /\ RoutingConsistent'
         /\ \A q \in Requests : \A x \in req'[q].snap : CountsAgree(x)
         /\ LET n == Turn(s, req[r].tool, req[r].action)
            IN  n \in ExaminerState /\ RoutedToWork(n)
<1> DEFINE n == Turn(s, req[r].tool, req[r].action)
<1>1. /\ s \in ExaminerState /\ CountsAgree(s)
      /\ req[r].tool \in Tools \cup {NoTool} /\ req[r].action \in Actions
  BY DEF IInv, TypeOK, ReqType
<1>2. n \in ExaminerState /\ CountsAgree(n) /\ RoutedToWork(n)
  BY <1>1, TurnCorrect
<1> HIDE DEF n
<1>3. saved' \subseteq saved \cup {n} /\ req' = [req EXCEPT ![r] = Free]
  BY DEF Write, n
<1>4. Free \in ReqType /\ Free.snap = {}
  BY DEF Free, ReqType, Actions
<1>5. req' \in [Requests -> ReqType]
  BY <1>3, <1>4 DEF IInv, TypeOK
<1>6. \A q \in Requests : \A x \in req'[q].snap : CountsAgree(x)
  BY <1>3, <1>4 DEF IInv, TypeOK
<1>7. saved' \in SUBSET ExaminerState /\ CountsConsistent' /\ RoutingConsistent'
  BY <1>2, <1>3 DEF IInv, TypeOK, CountsConsistent, RoutingConsistent
<1> QED
  BY <1>2, <1>5, <1>6, <1>7 DEF n

(* A request that a tab sends leaves what is consistent consistent.        *)
LEMMA SendKeeps ==
  ASSUME IInv, NEW t \in Tabs, NEW r \in Requests,
         NEW tool \in Tools \cup {NoTool}, NEW action \in Actions,
         Send(t, r, tool, action)
  PROVE  /\ UNCHANGED <<blueprint, saved>>
         /\ req' \in [Requests -> ReqType]
         /\ tab' \in [Tabs -> TabType]
         /\ \A u \in Tabs : tab'[u].phase = "working" => tab'[u].tool \in Tools
         /\ \A q \in Requests : \A x \in req'[q].snap : CountsAgree(x)
<1> DEFINE m == [phase |-> "sent", tool |-> tool, action |-> action, snap |-> {}]
           w == [tab[t] EXCEPT !.phase = "waiting", !.awaits = {r}]
<1>1. m \in ReqType /\ m.snap = {}
  BY DEF ReqType
<1>2. tab \in [Tabs -> TabType] /\ req \in [Requests -> ReqType]
  BY DEF IInv, TypeOK
<1>3. w \in TabType /\ w.phase = "waiting"
  BY <1>2 DEF TabType, TabPhases
<1> HIDE DEF m
<1>4. req' = [req EXCEPT ![r] = m] /\ UNCHANGED <<blueprint, saved>>
  BY DEF Send, m
<1>5. tab' = [tab EXCEPT ![t] = w]
  BY <1>2 DEF Send, TabType
<1> HIDE DEF w
<1> QED
  BY <1>1, <1>2, <1>3, <1>4, <1>5 DEF IInv, TypeOK

(* A reply is shown by a tab as a widget only together with its tool.      *)
LEMMA ReplyKeeps ==
  ASSUME IInv, NEW r \in Requests, NEW s \in ExaminerState,
         RoutedToWork(s), Reply(r, s)
  PROVE  /\ tab' \in [Tabs -> TabType]
         /\ \A u \in Tabs : tab'[u].phase = "working" => tab'[u].tool \in Tools
<1>1. s.bp \in Blueprint
  BY BlueprintAssumption DEF ExaminerState
<1>2. ~s.complete => s.current \in Tools
  BY <1>1 DEF RoutedToWork, Remaining, Blueprint
<1>3. s.current \in Tools \cup {NoTool} /\ s.complete \in BOOLEAN
  BY DEF ExaminerState
<1>4. tab \in [Tabs -> TabType]
      /\ \A u \in Tabs : tab[u].phase = "working" => tab[u].tool \in Tools
  BY DEF IInv, TypeOK
<1> DEFINE w == [phase |-> IF s.complete THEN "complete" ELSE "working",
                 tool |-> s.current, awaits |-> {}]
<1>5. w \in TabType /\ (w.phase = "working" => w.tool \in Tools)
  BY <1>2, <1>3 DEF TabType, TabPhases
<1>6. tab' = [u \in Tabs |-> IF r \in tab[u].awaits THEN w ELSE tab[u]]
  BY DEF Reply
<1> HIDE DEF w
<1> QED
  BY <1>4, <1>5, <1>6

LEMMA FailKeeps ==
  ASSUME IInv, NEW r \in Requests, Fail(r)
  PROVE  /\ tab' \in [Tabs -> TabType]
         /\ \A u \in Tabs : tab'[u].phase = "working" => tab'[u].tool \in Tools
<1>1. tab \in [Tabs -> TabType]
      /\ \A u \in Tabs : tab[u].phase = "working" => tab[u].tool \in Tools
  BY DEF IInv, TypeOK
<1>2. ASSUME NEW u \in Tabs
      PROVE  LET w == [tab[u] EXCEPT !.phase = "failed", !.awaits = {}]
             IN  w \in TabType /\ w.phase = "failed"
  BY <1>1 DEF TabType, TabPhases
<1> QED
  BY <1>1, <1>2 DEF Fail

-----------------------------------------------------------------------------
LEMMA InitIInv == Init => IInv
<1> SUFFICES ASSUME Init PROVE IInv
  OBVIOUS
<1>1. Free \in ReqType /\ Free.snap = {}
  BY DEF Free, ReqType, Actions
<1>2. [phase |-> "closed", tool |-> NoTool, awaits |-> {}] \in TabType
  BY DEF TabType, TabPhases
<1>3. TypeOK
  BY <1>1, <1>2, BoundAssumption DEF Init, TypeOK
<1>4. CountsConsistent /\ RoutingConsistent
  BY DEF Init, CountsConsistent, RoutingConsistent
<1>5. \A r \in Requests : \A s \in req[r].snap : CountsAgree(s)
  BY <1>1 DEF Init
<1> QED
  BY <1>3, <1>4, <1>5 DEF IInv

LEMMA NextIInv == IInv /\ [Next]_vars => IInv'
<1> SUFFICES ASSUME IInv, [Next]_vars PROVE IInv'
  OBVIOUS
<1> USE DEF IInv
<1>1. ASSUME NEW t \in Tabs, NEW r \in Requests, OpenPage(t, r)
      PROVE  IInv'
  <2>1. Send(t, r, NoTool, "start") /\ UNCHANGED <<history, bounds>>
    BY <1>1 DEF OpenPage
  <2> QED
    BY <2>1, SendKeeps
       DEF Actions, TypeOK, CountsConsistent, RoutingConsistent, history, bounds
<1>2. ASSUME NEW t \in Tabs, NEW r \in Requests, Reload(t, r)
      PROVE  IInv'
  <2>1. Send(t, r, NoTool, "start") /\ UNCHANGED <<history, losses, edits>>
        /\ reloads' = reloads + 1
    BY <1>2 DEF Reload
  <2> QED
    BY <2>1, SendKeeps
       DEF Actions, TypeOK, CountsConsistent, RoutingConsistent, history
<1>3. ASSUME NEW t \in Tabs, NEW r \in Requests, FinishTool(t, r)
      PROVE  IInv'
  <2>1. Send(t, r, tab[t].tool, "complete_tool") /\ UNCHANGED <<answers, bounds>>
        /\ finished' = finished \cup {tab[t].tool} /\ tab[t].tool \in Tools
    BY <1>3 DEF FinishTool, TypeOK
  <2> QED
    BY <2>1, SendKeeps
       DEF Actions, TypeOK, CountsConsistent, RoutingConsistent, bounds
<1>4. ASSUME NEW t \in Tabs, NEW r \in Requests, AnswerOne(t, r)
      PROVE  IInv'
  <2>1. Send(t, r, tab[t].tool, "next") /\ UNCHANGED <<finished, bounds>>
        /\ answers' = [answers EXCEPT ![tab[t].tool] = @ + 1]
        /\ tab[t].tool \in Tools
    BY <1>4 DEF AnswerOne, TypeOK
  <2>2. answers' \in [Tools -> Nat]
    BY <2>1 DEF TypeOK
  <2> QED
    BY <2>1, <2>2, SendKeeps
       DEF Actions, TypeOK, CountsConsistent, RoutingConsistent, bounds
<1>5. ASSUME NEW r \in Requests, Load(r)
      PROVE  IInv'
  <2>1. PICK b \in blueprint :
          \E s \in (IF saved = {} THEN {InitialState(b)} ELSE saved) :
             req' = [req EXCEPT ![r].phase = "loaded", ![r].snap = {s}]
    BY <1>5 DEF Load
  <2>2. PICK s \in (IF saved = {} THEN {InitialState(b)} ELSE saved) :
          req' = [req EXCEPT ![r].phase = "loaded", ![r].snap = {s}]
    BY <2>1
  <2>3. s \in ExaminerState /\ CountsAgree(s)
    BY <2>1, <2>2, InitialConsistent DEF TypeOK, CountsConsistent
  <2> DEFINE m == [req[r] EXCEPT !.phase = "loaded", !.snap = {s}]
  <2>4. m \in ReqType /\ m.snap = {s}
    BY <2>3 DEF TypeOK, ReqType
  <2>5. req' = [req EXCEPT ![r] = m]
    BY <2>2 DEF TypeOK, ReqType
  <2> HIDE DEF m
  <2>6. UNCHANGED <<blueprint, saved, tab, history, bounds>>
    BY <1>5 DEF Load
  <2>7. /\ req' \in [Requests -> ReqType]
        /\ \A q \in Requests : \A x \in req'[q].snap : CountsAgree(x)
    BY <2>3, <2>4, <2>5 DEF TypeOK
  <2> QED
    BY <2>6, <2>7
       DEF TypeOK, CountsConsistent, RoutingConsistent, history, bounds
<1>6. ASSUME NEW r \in Requests, Reject(r)
      PROVE  IInv'
  <2>1. /\ req' = [req EXCEPT ![r] = Free] /\ Fail(r)
        /\ UNCHANGED <<blueprint, saved, history, bounds>>
    BY <1>6 DEF Reject
  <2>2. Free \in ReqType /\ Free.snap = {}
    BY DEF Free, ReqType, Actions
  <2>3. /\ req' \in [Requests -> ReqType]
        /\ \A q \in Requests : \A x \in req'[q].snap : CountsAgree(x)
    BY <2>1, <2>2 DEF TypeOK
  <2> QED
    BY <2>1, <2>3, FailKeeps
       DEF TypeOK, CountsConsistent, RoutingConsistent, history, bounds
<1>7. ASSUME NEW r \in Requests, Commit(r)
      PROVE  IInv'
  <2>1. PICK s \in req[r].snap :
          /\ Write(r, Turn(s, req[r].tool, req[r].action))
          /\ Reply(r, Turn(s, req[r].tool, req[r].action))
    BY <1>7 DEF Commit
  <2>2. UNCHANGED <<blueprint, history, bounds>>
    BY <1>7 DEF Commit
  <2> QED
    BY <2>1, <2>2, WriteKeeps, ReplyKeeps DEF TypeOK, history, bounds
<1>8. ASSUME NEW r \in Requests, CommitLost(r)
      PROVE  IInv'
  <2>1. PICK s \in req[r].snap : Write(r, Turn(s, req[r].tool, req[r].action))
    BY <1>8 DEF CommitLost
  <2>2. /\ UNCHANGED <<blueprint, history, reloads, edits>>
        /\ losses' = losses + 1 /\ Fail(r)
    BY <1>8 DEF CommitLost
  <2> QED
    BY <2>1, <2>2, WriteKeeps, FailKeeps DEF TypeOK, history
<1>9. CASE EditBlueprint \/ GenerateBlueprint
  <2>1. PICK new \in SUBSET Blueprints : Store(new)
    BY <1>9 DEF EditBlueprint, GenerateBlueprint
  <2> QED
    BY <2>1 DEF Store, TypeOK, CountsConsistent, RoutingConsistent, history
<1>10. CASE UNCHANGED vars
  BY <1>10 DEF TypeOK, CountsConsistent, RoutingConsistent,
               vars, server, history, bounds
<1> QED
  BY <1>1, <1>2, <1>3, <1>4, <1>5, <1>6, <1>7, <1>8, <1>9, <1>10 DEF Next

(* The variables keep their types in every behaviour.                      *)
THEOREM ExaminerTypeCorrect == Spec => []TypeOK
<1>1. IInv => TypeOK
  BY DEF IInv
<1> QED
  BY <1>1, InitIInv, NextIInv, PTL DEF Spec

(* However turns overlap and whatever is lost or edited, the persisted     *)
(* counts stay within the blueprint and add up (run_tool_loop,             *)
(* update_session).                                                        *)
THEOREM CountsAlwaysConsistent == Spec => []CountsConsistent
<1>1. IInv => CountsConsistent
  BY DEF IInv
<1> QED
  BY <1>1, InitIInv, NextIInv, PTL DEF Spec

(* However turns overlap, the persisted routing decision serves the first  *)
(* tool with a question left and completes exactly when none has, or, where *)
(* the blueprint's total is below the sum of its counts, when the questions *)
(* done reach it (check_completion, route_question).                       *)
THEOREM RoutingAlwaysConsistent == Spec => []RoutingConsistent
<1>1. IInv => RoutingConsistent
  BY DEF IInv
<1> QED
  BY <1>1, InitIInv, NextIInv, PTL DEF Spec

(* Both together: the persisted document hangs together (run_examiner_turn). *)
THEOREM DocumentConsistent == Spec => []StateConsistent
BY CountsAlwaysConsistent, RoutingAlwaysConsistent, PTL DEF StateConsistent

-----------------------------------------------------------------------------
(* Progress is neither lost by a turn that is not overtaken nor credited    *)
(* without work.                                                           *)

(* The questions in flight about a tool, one each.                         *)
Pending(u) == {r \in Requests : /\ req[r].phase # "free"
                                /\ req[r].action = "next" /\ req[r].tool = u}

Owed(u) == Cardinality(Pending(u))

(* A document counts for an unfinished tool what was answered, without the  *)
(* answers that are still in flight.                                       *)
Credited(s) == \A u \in Tools : u \in finished \/ s.done[u] + Owed(u) <= answers[u]

ReportsFinished == \A r \in Requests :
  req[r].phase # "free" /\ req[r].action = "complete_tool" => req[r].tool \in finished

(* No document is credited with work nobody reported; there is one document *)
(* at most.                                                                *)
EInv ==
  /\ IInv
  /\ \A s, n \in saved : s = n
  /\ \A u \in Tools : IsFiniteSet(Pending(u)) /\ Owed(u) <= answers[u]
  /\ ReportsFinished
  /\ \A s \in saved : Credited(s)
  /\ \A r \in Requests : \A s \in req[r].snap : Credited(s)

(* What a turn adds to the counts: one question of the tool it is about, or *)
(* what was left of a tool reported as finished.                           *)
LEMMA TurnProgress ==
  ASSUME NEW s \in ExaminerState, CountsAgree(s),
         NEW tool \in Tools \cup {NoTool}, NEW action \in Actions, NEW u \in Tools
  PROVE  LET n == Turn(s, tool, action)
         IN  /\ s.done[u] <= n.done[u]
             /\ \/ n.done[u] = s.done[u]
                \/ tool = u /\ action = "next" /\ n.done[u] <= s.done[u] + 1
                \/ tool = u /\ action = "complete_tool"
<1> DEFINE s0 == [s EXCEPT !.last = [tool |-> tool, action |-> action]]
           s1 == RunToolLoop(s0)
           n  == Turn(s, tool, action)
<1>1. /\ s0 \in ExaminerState /\ s0.done = s.done /\ s0.bp = s.bp /\ s0.index = s.index
      /\ s0.last.tool = tool /\ s0.last.action = action
  BY DEF ExaminerState
<1>2. s1 \in ExaminerState /\ CountsAgree(s0)
  <2>1. CountsAgree(s0)
    BY <1>1 DEF CountsAgree
  <2> QED
    BY <1>1, <2>1, SettleCorrect
<1>3. s1.done[u] = IF u = tool /\ u \in s.bp.enabled THEN Settled(s0, u) ELSE s.done[u]
  BY <1>1 DEF RunToolLoop, ExaminerState
<1>4. n.done = s1.done
  <2> DEFINE s2 == UpdateSession(s1)
             s3 == CheckCompletion(s2)
  <2> HIDE DEF s1
  <2>1. s2 \in ExaminerState /\ s2.done = s1.done
    BY <1>2 DEF UpdateSession, ExaminerState, Sum, Tools
  <2> HIDE DEF s2
  <2>2. s3.done = s2.done /\ s3 = [s2 EXCEPT !.complete = s3.complete]
    BY <2>1 DEF CheckCompletion, ExaminerState
  <2> HIDE DEF s3
  <2>3. RouteQuestion(s3).done = s3.done
    BY <2>1, <2>2 DEF RouteQuestion, ExaminerState
  <2> QED
    BY <2>1, <2>2, <2>3 DEF Turn, Graph, s1, s2, s3
<1>5. s.done[u] \in Nat /\ s.bp.count[u] \in Nat
  BY BlueprintAssumption DEF ExaminerState, Blueprint
<1>6. u \in s.bp.enabled => s.done[u] <= s.bp.count[u]
  BY DEF CountsAgree, EnabledCount
<1>7. Settled(s0, u) = CASE action = "next" -> Min2(s.done[u] + 1, s.bp.count[u])
                         [] action = "complete_tool" -> s.bp.count[u]
                         [] OTHER -> s.done[u]
  BY <1>1 DEF Settled
<1> HIDE DEF s0, s1, n
<1>8. CASE u = tool /\ u \in s.bp.enabled
  BY <1>3, <1>4, <1>5, <1>6, <1>7, <1>8 DEF Min2, Actions, n
<1>9. CASE ~(u = tool /\ u \in s.bp.enabled)
  BY <1>3, <1>4, <1>5, <1>9 DEF n
<1> QED
  BY <1>8, <1>9

(* A question that is sent is one more in flight.                          *)
LEMMA SentIsOwed ==
  ASSUME IInv, NEW t \in Tabs, NEW r \in Requests,
         NEW tool \in Tools \cup {NoTool}, NEW action \in Actions,
         Send(t, r, tool, action), NEW u \in Tools, IsFiniteSet(Pending(u))
  PROVE  /\ IsFiniteSet(Pending(u)')
         /\ Owed(u)' = Owed(u) + (IF action = "next" /\ tool = u THEN 1 ELSE 0)
<1> DEFINE m == [phase |-> "sent", tool |-> tool, action |-> action, snap |-> {}]
<1>1. req' = [req EXCEPT ![r] = m] /\ req[r].phase = "free"
  BY DEF Send
<1>2. m.phase = "sent" /\ m.action = action /\ m.tool = tool
  OBVIOUS
<1> HIDE DEF m
<1>3. req \in [Requests -> ReqType]
  BY DEF IInv, TypeOK
<1>4. r \notin Pending(u)
  BY <1>1 DEF Pending
<1>5. CASE action = "next" /\ tool = u
  <2>1. Pending(u)' = Pending(u) \cup {r}
    BY <1>1, <1>2, <1>3, <1>5 DEF Pending
  <2> QED
    BY <1>4, <1>5, <2>1, FS_AddElement DEF Owed
<1>6. CASE ~(action = "next" /\ tool = u)
  <2>1. Pending(u)' = Pending(u)
    BY <1>1, <1>2, <1>3, <1>6 DEF Pending
  <2>2. Cardinality(Pending(u)) \in Nat
    BY FS_CardinalityType
  <2> QED
    BY <1>6, <2>1, <2>2 DEF Owed
<1> QED
  BY <1>5, <1>6

(* A turn that is over is in flight no longer.                             *)
LEMMA EndedIsNotOwed ==
  ASSUME IInv, NEW r \in Requests, req[r].phase # "free",
         req' = [req EXCEPT ![r] = Free], NEW u \in Tools, IsFiniteSet(Pending(u))
  PROVE  /\ IsFiniteSet(Pending(u)')
         /\ Owed(u)' = Owed(u) - (IF req[r].action = "next" /\ req[r].tool = u THEN 1 ELSE 0)
<1>1. req \in [Requests -> ReqType] /\ Free.phase = "free"
  BY DEF IInv, TypeOK, Free
<1>2. Pending(u)' = Pending(u) \ {r}
  BY <1>1 DEF Pending
<1>3. r \in Pending(u) <=> req[r].action = "next" /\ req[r].tool = u
  BY DEF Pending
<1>4. Cardinality(Pending(u)) \in Nat
  BY FS_CardinalityType
<1> QED
  BY <1>2, <1>3, <1>4, FS_RemoveElement DEF Owed

LEMMA OwedNat ==
  ASSUME EInv, NEW u \in Tools
  PROVE  Owed(u) \in Nat /\ answers[u] \in Nat
BY FS_CardinalityType DEF EInv, Owed, IInv, TypeOK

(* A request that is sent leaves every document credited with what it was   *)
(* worth.                                                                  *)
LEMMA SendCredits ==
  ASSUME EInv, NEW t \in Tabs, NEW r \in Requests,
         NEW tool \in Tools \cup {NoTool}, NEW action \in Actions,
         Send(t, r, tool, action),
         action = "complete_tool" => tool \in finished',
         finished \subseteq finished',
         \A u \in Tools :
           answers'[u] = answers[u] + (IF action = "next" /\ tool = u THEN 1 ELSE 0),
         IInv'
  PROVE  EInv'
<1> DEFINE m == [phase |-> "sent", tool |-> tool, action |-> action, snap |-> {}]
<1>1. /\ req' = [req EXCEPT ![r] = m] /\ UNCHANGED saved
      /\ tab' = [tab EXCEPT ![t].phase = "waiting", ![t].awaits = {r}]
  BY DEF Send
<1>2. m.phase = "sent" /\ m.action = action /\ m.tool = tool /\ m.snap = {}
  OBVIOUS
<1> HIDE DEF m
<1>3. req \in [Requests -> ReqType] /\ tab \in [Tabs -> TabType] /\ saved \in SUBSET ExaminerState
  BY DEF EInv, IInv, TypeOK
<1>4. \A u \in Tools :
        /\ IsFiniteSet(Pending(u)')
        /\ Owed(u)' = Owed(u) + (IF action = "next" /\ tool = u THEN 1 ELSE 0)
  BY SentIsOwed DEF EInv
<1>5. \A u \in Tools : Owed(u) \in Nat /\ answers[u] \in Nat
  BY OwedNat
<1>6. \A u \in Tools : Owed(u)' <= answers'[u]
  BY <1>4, <1>5 DEF EInv
<1>7. ASSUME NEW s \in ExaminerState, Credited(s) PROVE Credited(s)'
  <2>1. \A u \in Tools : s.done[u] \in Nat
    BY DEF ExaminerState
  <2> QED
    BY <1>4, <1>5, <1>7, <2>1 DEF Credited
<1>8. \A s \in saved' : Credited(s)'
  BY <1>1, <1>3, <1>7 DEF EInv
<1>9. \A q \in Requests : \A s \in req'[q].snap : Credited(s)'
  <2>1. \A q \in Requests : req'[q].snap \subseteq req[q].snap /\ req[q].snap \subseteq ExaminerState
    BY <1>1, <1>2, <1>3 DEF ReqType
  <2> QED
    BY <1>7, <2>1 DEF EInv
<1>10. ReportsFinished'
  BY <1>1, <1>2, <1>3 DEF EInv, ReportsFinished
<1> QED
  BY <1>1, <1>4, <1>6, <1>8, <1>9, <1>10 DEF EInv

(* What is written back is credited with no more than its turn was worth.   *)
LEMMA WriteCredits ==
  ASSUME EInv, NEW r \in Requests, NEW s \in req[r].snap,
         NEW n, n = Turn(s, req[r].tool, req[r].action),
         Write(r, n), UNCHANGED history
  PROVE  /\ \A x, y \in saved' : x = y
         /\ \A u \in Tools : IsFiniteSet(Pending(u)') /\ Owed(u)' <= answers'[u]
         /\ ReportsFinished'
         /\ \A x \in saved' : Credited(x)'
         /\ \A q \in Requests : \A x \in req'[q].snap : Credited(x)'
         /\ Credited(n)'
<1> DEFINE tool == req[r].tool
           action == req[r].action
<1>1. /\ req \in [Requests -> ReqType] /\ saved \in SUBSET ExaminerState
      /\ req[r].phase = "loaded" /\ s \in ExaminerState /\ CountsAgree(s)
      /\ tool \in Tools \cup {NoTool} /\ action \in Actions
  BY DEF EInv, IInv, TypeOK, ReqType, Write
<1>2. /\ req' = [req EXCEPT ![r] = Free] /\ saved' \subseteq saved \cup {n}
      /\ saved' = saved \/ saved' = {n}
      /\ Free.snap = {} /\ Free.phase = "free"
  BY DEF Write, Free
<1>3. UNCHANGED <<finished, answers>>
  BY DEF history
<1>4. \A u \in Tools :
        /\ IsFiniteSet(Pending(u)')
        /\ Owed(u)' = Owed(u) - (IF action = "next" /\ tool = u THEN 1 ELSE 0)
  BY <1>1, <1>2, EndedIsNotOwed DEF EInv
<1>5. \A u \in Tools : Owed(u) \in Nat /\ answers[u] \in Nat
  BY OwedNat
<1>6. ASSUME NEW u \in Tools
      PROVE  /\ s.done[u] \in Nat
             /\ \/ n.done[u] = s.done[u]
                \/ tool = u /\ action = "next" /\ n.done[u] <= s.done[u] + 1
                \/ tool = u /\ action = "complete_tool"
  <2>1. s.done[u] \in Nat
    BY <1>1 DEF ExaminerState
  <2>2. n = Turn(s, tool, action)
    OBVIOUS
  <2> HIDE DEF tool, action
  <2>3. \/ Turn(s, tool, action).done[u] = s.done[u]
        \/ tool = u /\ action = "next" /\ Turn(s, tool, action).done[u] <= s.done[u] + 1
        \/ tool = u /\ action = "complete_tool"
    BY <1>1, TurnProgress
  <2> QED
    BY <2>1, <2>2, <2>3
<1>7. n \in ExaminerState
  BY <1>1, TurnCorrect
<1>8. \A u \in Tools : n.done[u] \in Nat
  BY <1>7 DEF ExaminerState
<1>9. \A x, y \in saved' : x = y
  BY <1>2 DEF EInv
<1>10. \A u \in Tools : Owed(u)' <= answers'[u]
  BY <1>3, <1>4, <1>5 DEF EInv
<1>11. ReportsFinished'
  BY <1>1, <1>2, <1>3 DEF EInv, ReportsFinished
<1>12. ASSUME NEW x \in ExaminerState, Credited(x) PROVE Credited(x)'
  <2>1. \A u \in Tools : x.done[u] \in Nat
    BY DEF ExaminerState
  <2> QED
    BY <1>3, <1>4, <1>5, <1>12, <2>1 DEF Credited
<1>13. Credited(n)'
  <2> SUFFICES ASSUME NEW u \in Tools, u \notin finished
               PROVE  n.done[u] + Owed(u)' <= answers[u]
    BY <1>3 DEF Credited
  <2>1. s.done[u] + Owed(u) <= answers[u]
    BY DEF EInv, Credited
  <2>2. tool = u => action # "complete_tool"
    BY <1>1 DEF EInv, ReportsFinished
  <2> QED
    BY <1>4, <1>5, <1>6, <1>8, <2>1, <2>2
<1>14. \A x \in saved' : Credited(x)'
  BY <1>1, <1>2, <1>12, <1>13 DEF EInv
<1>15. \A q \in Requests : \A x \in req'[q].snap : Credited(x)'
  <2>1. \A q \in Requests : req'[q].snap \subseteq req[q].snap /\ req[q].snap \subseteq ExaminerState
    BY <1>1, <1>2 DEF ReqType
  <2> QED
    BY <1>12, <2>1 DEF EInv
<1> QED
  BY <1>4, <1>9, <1>10, <1>11, <1>13, <1>14, <1>15

(* A document that is complete and credited with no more than was reported  *)
(* has its blueprint worked through.                                       *)
LEMMA CreditedIsWorked ==
  ASSUME NEW n \in ExaminerState, CountsAgree(n), RoutedToWork(n), n.complete,
         \A u \in Tools : u \in finished \/ n.done[u] <= answers[u],
         answers \in [Tools -> Nat]
  PROVE  WorkedThrough(n.bp)
<1> DEFINE b == n.bp
           a == [t \in Tools |-> Answered(b, t)]
<1>1. b \in Blueprint /\ b.total \in Int
  BY BlueprintAssumption DEF ExaminerState, Blueprint
<1>2. ASSUME NEW t \in Tools
      PROVE  /\ Answered(b, t) \in Nat /\ n.done[t] \in Nat /\ n.done[t] <= Answered(b, t)
             /\ t \in b.enabled => Answered(b, t) <= b.count[t]
  <2>1. /\ n.done[t] \in Nat /\ answers[t] \in Nat /\ b.count[t] \in Nat
        /\ n.done[t] <= IF t \in b.enabled THEN b.count[t] ELSE 0
    BY <1>1 DEF ExaminerState, Blueprint, CountsAgree, EnabledCount
  <2>2. t \in finished \/ n.done[t] <= answers[t]
    OBVIOUS
  <2> HIDE DEF b
  <2> QED
    BY <2>1, <2>2 DEF Answered, Min2
<1>3. CASE Short(b)
  <2>1. n.done \in [Tools -> Nat] /\ a \in [Tools -> Nat] /\ \A u \in Tools : n.done[u] <= a[u]
    BY <1>2 DEF ExaminerState
  <2> HIDE DEF a
  <2>2. Sum(n.done) \in Nat /\ Sum(a) \in Nat /\ Sum(n.done) <= Sum(a)
    BY <2>1, SumBounded
  <2>3. Sum(n.done) >= b.total
    BY <1>3 DEF RoutedToWork
  <2>4. Sum(a) >= b.total
    BY <1>1, <2>2, <2>3
  <2> QED
    BY <1>3, <2>4 DEF WorkedThrough, a
<1>4. CASE ~Short(b)
  <2>1. ASSUME NEW t \in b.enabled PROVE Answered(b, t) = b.count[t]
    <3>1. t \in Tools /\ b.count[t] \in Nat
      BY <1>1 DEF Blueprint
    <3>2. ~(n.done[t] < b.count[t])
      BY <1>4 DEF RoutedToWork, Remaining
    <3> QED
      BY <1>2, <3>1, <3>2
  <2> QED
    BY <1>4, <2>1 DEF WorkedThrough
<1> QED
  BY <1>3, <1>4

LEMMA InitEInv == Init => EInv
<1> SUFFICES ASSUME Init PROVE EInv
  OBVIOUS
<1>1. IInv
  BY InitIInv
<1>2. /\ saved = {} /\ finished = {}
      /\ \A r \in Requests : req[r].phase = "free" /\ req[r].snap = {}
      /\ \A u \in Tools : answers[u] = 0
      /\ \A t \in Tabs : tab[t].phase = "closed"
  BY DEF Init, Free
<1>3. \A u \in Tools : Pending(u) = {}
  BY <1>2 DEF Pending
<1>4. \A u \in Tools : IsFiniteSet(Pending(u)) /\ Owed(u) <= answers[u]
  BY <1>2, <1>3, FS_EmptySet DEF Owed
<1> QED
  BY <1>1, <1>2, <1>4 DEF EInv, ReportsFinished

LEMMA NextEInv == EInv /\ [Next]_vars => EInv'
<1> SUFFICES ASSUME EInv, [Next]_vars PROVE EInv'
  OBVIOUS
<1>1. IInv /\ IInv'
  BY NextIInv DEF EInv
<1>2. /\ req \in [Requests -> ReqType] /\ tab \in [Tabs -> TabType]
      /\ saved \in SUBSET ExaminerState /\ answers \in [Tools -> Nat]
  BY <1>1 DEF IInv, TypeOK
<1>3. ASSUME NEW t \in Tabs, NEW r \in Requests, OpenPage(t, r) \/ Reload(t, r)
      PROVE  EInv'
  <2>1. Send(t, r, NoTool, "start") /\ UNCHANGED <<finished, answers>>
    BY <1>3 DEF OpenPage, Reload, history
  <2>2. "start" \in Actions /\ "start" # "next"
    BY DEF Actions
  <2>3. \A u \in Tools :
          answers'[u] = answers[u] + (IF "start" = "next" /\ NoTool = u THEN 1 ELSE 0)
    BY <1>2, <2>1, <2>2
  <2> QED
    BY <1>1, <2>1, <2>2, <2>3, SendCredits
<1>4. ASSUME NEW t \in Tabs, NEW r \in Requests, FinishTool(t, r)
      PROVE  EInv'
  <2>1. /\ Send(t, r, tab[t].tool, "complete_tool") /\ UNCHANGED answers
        /\ finished' = finished \cup {tab[t].tool} /\ tab[t].tool \in Tools
    BY <1>1, <1>4 DEF FinishTool, IInv, TypeOK
  <2>2. "complete_tool" \in Actions /\ "complete_tool" # "next"
    BY DEF Actions
  <2>3. \A u \in Tools :
          answers'[u] = answers[u] + (IF "complete_tool" = "next" /\ tab[t].tool = u THEN 1 ELSE 0)
    BY <1>2, <2>1, <2>2
  <2>4. tab[t].tool \in finished' /\ finished \subseteq finished'
    BY <2>1
  <2> QED
    BY <1>1, <2>1, <2>2, <2>3, <2>4, SendCredits
<1>5. ASSUME NEW t \in Tabs, NEW r \in Requests, AnswerOne(t, r)
      PROVE  EInv'
  <2>1. /\ Send(t, r, tab[t].tool, "next") /\ UNCHANGED finished
        /\ answers' = [answers EXCEPT ![tab[t].tool] = @ + 1]
        /\ tab[t].tool \in Tools
    BY <1>1, <1>5 DEF AnswerOne, IInv, TypeOK
  <2>2. "next" \in Actions
    BY DEF Actions
  <2>3. \A u \in Tools :
          answers'[u] = answers[u] + (IF "next" = "next" /\ tab[t].tool = u THEN 1 ELSE 0)
    BY <1>2, <2>1
  <2> QED
    BY <1>1, <2>1, <2>2, <2>3, SendCredits
<1>6. ASSUME NEW r \in Requests, Load(r)
      PROVE  EInv'
  <2>1. PICK b \in blueprint :
          \E s \in (IF saved = {} THEN {InitialState(b)} ELSE saved) :
             req' = [req EXCEPT ![r].phase = "loaded", ![r].snap = {s}]
    BY <1>6 DEF Load
  <2>2. PICK s \in (IF saved = {} THEN {InitialState(b)} ELSE saved) :
          req' = [req EXCEPT ![r].phase = "loaded", ![r].snap = {s}]
    BY <2>1
  <2>3. UNCHANGED <<saved, tab, finished, answers>> /\ req[r].phase = "sent"
    BY <1>6 DEF Load, history
  <2>4. /\ req'[r].phase = "loaded" /\ req'[r].snap = {s}
        /\ req'[r].action = req[r].action /\ req'[r].tool = req[r].tool
        /\ \A q \in Requests \ {r} : req'[q] = req[q]
    BY <1>2, <2>2 DEF ReqType
  <2>5. \A u \in Tools : Pending(u)' = Pending(u)
    BY <2>3, <2>4 DEF Pending
  <2>6. \A u \in Tools : Owed(u)' = Owed(u)
    BY <2>5 DEF Owed
  <2>7. Credited(s)
    <3>1. CASE saved = {}
      <4>1. \A u \in Tools : s.done[u] = 0
        BY <2>2, <3>1 DEF InitialState
      <4>2. \A u \in Tools : Owed(u) \in Nat /\ Owed(u) <= answers[u]
        BY OwedNat DEF EInv
      <4> QED
        BY <4>1, <4>2 DEF Credited
    <3>2. CASE saved # {}
      BY <2>2, <3>2 DEF EInv
    <3> QED
      BY <3>1, <3>2
  <2>8. \A x : Credited(x) => Credited(x)'
    BY <2>3, <2>6 DEF Credited
  <2>9. \A q \in Requests : \A x \in req'[q].snap : Credited(x)'
    BY <2>4, <2>7, <2>8 DEF EInv
  <2>10. ReportsFinished'
    BY <2>3, <2>4 DEF EInv, ReportsFinished
  <2> QED
    BY <1>1, <2>3, <2>5, <2>6, <2>8, <2>9, <2>10 DEF EInv
<1>7. ASSUME NEW r \in Requests, Reject(r)
      PROVE  EInv'
  <2>1. /\ req' = [req EXCEPT ![r] = Free] /\ req[r].phase # "free" /\ Fail(r)
        /\ UNCHANGED <<saved, finished, answers>>
    BY <1>7 DEF Reject, history
  <2>2. \A u \in Tools : IsFiniteSet(Pending(u)') /\ Owed(u)' <= Owed(u)
    <3>1. \A u \in Tools :
            /\ IsFiniteSet(Pending(u)')
            /\ Owed(u)' = Owed(u) - (IF req[r].action = "next" /\ req[r].tool = u THEN 1 ELSE 0)
      BY <1>1, <2>1, EndedIsNotOwed DEF EInv
    <3> QED
      BY <3>1, OwedNat
  <2>3. \A u \in Tools : Owed(u)' \in Nat /\ Owed(u) \in Nat /\ answers[u] \in Nat
    BY <2>2, OwedNat, FS_CardinalityType DEF Owed
  <2>4. ASSUME NEW x \in ExaminerState, Credited(x) PROVE Credited(x)'
    <3>1. \A u \in Tools : x.done[u] \in Nat
      BY DEF ExaminerState
    <3> QED
      BY <2>1, <2>2, <2>3, <2>4, <3>1 DEF Credited
  <2>5. \A u \in Tools : Owed(u)' <= answers'[u]
    BY <2>1, <2>2, <2>3 DEF EInv
  <2>6. Free.snap = {} /\ Free.phase = "free"
    BY DEF Free
  <2>7. \A q \in Requests : req'[q].snap \subseteq req[q].snap /\ req[q].snap \subseteq ExaminerState
    BY <1>2, <2>1, <2>6 DEF ReqType
  <2>8. ReportsFinished'
    BY <1>2, <2>1, <2>6 DEF EInv, ReportsFinished
  <2> QED
    BY <1>1, <1>2, <2>1, <2>2, <2>4, <2>5, <2>7, <2>8 DEF EInv
<1>8. ASSUME NEW r \in Requests, Commit(r) \/ CommitLost(r)
      PROVE  EInv'
  <2>1. PICK s \in req[r].snap : Write(r, Turn(s, req[r].tool, req[r].action))
    BY <1>8 DEF Commit, CommitLost
  <2>2. UNCHANGED history
    BY <1>8 DEF Commit, CommitLost
  <2> QED
    BY <1>1, <2>1, <2>2, WriteCredits DEF EInv
<1>9. CASE EditBlueprint \/ GenerateBlueprint \/ UNCHANGED vars
  <2>1. UNCHANGED <<saved, req, tab, finished, answers>>
    BY <1>9 DEF EditBlueprint, GenerateBlueprint, Store, vars, server, history
  <2>2. \A u \in Tools : Pending(u)' = Pending(u) /\ Owed(u)' = Owed(u)
    BY <2>1 DEF Pending, Owed
  <2>3. \A x : Credited(x)' <=> Credited(x)
    BY <2>1, <2>2 DEF Credited
  <2> QED
    BY <1>1, <2>1, <2>2, <2>3 DEF EInv, ReportsFinished
<1> QED
  BY <1>3, <1>4, <1>5, <1>6, <1>7, <1>8, <1>9 DEF Next

(* A step that tells a page that its sitting is complete is the commit of a *)
(* turn whose blueprint was worked through.                                *)
LEMMA ToldIsWorked ==
  ASSUME EInv, [Next]_vars, NEW t \in Tabs,
         tab[t].phase # "complete", tab'[t].phase = "complete"
  PROVE  \E r \in tab[t].awaits : \E s \in req[r].snap : WorkedThrough(s.bp)
<1>1. /\ req \in [Requests -> ReqType] /\ tab \in [Tabs -> TabType]
      /\ answers \in [Tools -> Nat]
  BY DEF EInv, IInv, TypeOK
<1>2. CASE \E r \in Requests : Commit(r)
  <2>1. PICK r \in Requests : Commit(r)
    BY <1>2
  <2>2. PICK s \in req[r].snap :
          /\ Write(r, Turn(s, req[r].tool, req[r].action))
          /\ Reply(r, Turn(s, req[r].tool, req[r].action))
    BY <2>1 DEF Commit
  <2>3. PICK n : n = Turn(s, req[r].tool, req[r].action) /\ Write(r, n) /\ Reply(r, n)
    BY <2>2
  <2>4. /\ s \in ExaminerState /\ CountsAgree(s)
        /\ req[r].tool \in Tools \cup {NoTool} /\ req[r].action \in Actions
    BY <1>1 DEF EInv, IInv, ReqType
  <2>5. n \in ExaminerState /\ n.bp = s.bp /\ CountsAgree(n) /\ RoutedToWork(n)
    BY <2>3, <2>4, TurnCorrect
  <2>6. r \in tab[t].awaits /\ n.complete
    BY <1>1, <2>3 DEF Reply
  <2>7. UNCHANGED <<finished, answers>> /\ UNCHANGED history
    BY <2>1 DEF Commit, history
  <2>8. Credited(n)' /\ \A u \in Tools : IsFiniteSet(Pending(u)')
    BY <2>3, <2>7, WriteCredits
  <2>9. \A u \in Tools : Owed(u)' \in Nat
    BY <2>8, FS_CardinalityType DEF Owed
  <2>10. \A u \in Tools : u \in finished \/ n.done[u] <= answers[u]
    <3>1. \A u \in Tools : n.done[u] \in Nat
      BY <2>5 DEF ExaminerState
    <3> QED
      BY <1>1, <2>7, <2>8, <2>9, <3>1 DEF Credited
  <2>11. WorkedThrough(n.bp)
    BY <1>1, <2>5, <2>6, <2>10, CreditedIsWorked
  <2> QED
    BY <2>5, <2>6, <2>11
<1>3. CASE \E r \in Requests : CommitLost(r) \/ Reject(r)
  BY <1>1, <1>3 DEF CommitLost, Reject, Fail, TabType
<1>4. CASE \E u \in Tabs, r \in Requests :
             OpenPage(u, r) \/ Reload(u, r) \/ FinishTool(u, r) \/ AnswerOne(u, r)
  BY <1>1, <1>4 DEF OpenPage, Reload, FinishTool, AnswerOne, Send, TabType
<1>5. CASE (\E r \in Requests : Load(r)) \/ EditBlueprint \/ GenerateBlueprint
             \/ UNCHANGED vars
  BY <1>5 DEF Load, EditBlueprint, GenerateBlueprint, Store, vars
<1> QED
  BY <1>2, <1>3, <1>4, <1>5 DEF Next

(* A page is told that the sitting is complete only by a turn whose         *)
(* blueprint was worked through, whatever replies are lost, pages reloaded, *)
(* blueprints edited and turns overtaken (check_completion, advanceExaminer). *)
THEOREM CompletionAlwaysEarned == Spec => CompletionIsEarned
<1>1. EInv /\ [Next]_vars =>
        [\A t \in Tabs :
           tab[t].phase # "complete" /\ tab'[t].phase = "complete" =>
             \E r \in tab[t].awaits : \E s \in req[r].snap : WorkedThrough(s.bp)]_vars
  BY ToldIsWorked
<1> QED
  BY InitEInv, NextEInv, <1>1, PTL DEF Spec, CompletionIsEarned

(* A turn that writes back what it computed from the persisted document     *)
(* keeps its blueprint and all of its progress.                            *)
LEMMA FreshWritesKeep ==
  ASSUME EInv, [Next]_vars, NEW r \in Requests, WritesFresh(r),
         NEW s \in saved, NEW n \in saved'
  PROVE  KeptIn(s, n)
<1>1. /\ req[r].phase = "loaded" /\ req'[r] = Free /\ req[r].snap = saved
      /\ Free.phase = "free"
  BY DEF WritesFresh, Free
<1>2. req \in [Requests -> ReqType] /\ s \in ExaminerState
  BY DEF EInv, IInv, TypeOK
<1>3. KeptIn(s, s)
  <2>1. \A t \in Tools : s.done[t] \in Nat
    BY <1>2 DEF ExaminerState
  <2> QED
    BY <2>1 DEF KeptIn
<1>4. CASE UNCHANGED saved
  BY <1>3, <1>4 DEF EInv
<1>5. CASE \E q \in Requests : Commit(q) \/ CommitLost(q)
  <2>1. PICK q \in Requests : Commit(q) \/ CommitLost(q)
    BY <1>5
  <2>2. PICK x \in req[q].snap : Write(q, Turn(x, req[q].tool, req[q].action))
    BY <2>1 DEF Commit, CommitLost
  <2>3. req' = [req EXCEPT ![q] = Free]
    BY <2>2 DEF Write
  <2>4. q = r
    BY <1>1, <1>2, <2>3
  <2>5. x = s
    BY <1>1, <2>2, <2>4 DEF EInv
  <2>6. n \in saved \/ n = Turn(s, req[r].tool, req[r].action)
    BY <2>2, <2>4, <2>5 DEF Write
  <2>7. CountsAgree(s) /\ req[r].tool \in Tools \cup {NoTool} /\ req[r].action \in Actions
    BY <1>2 DEF EInv, IInv, CountsConsistent, ReqType
  <2>8. CASE n \in saved
    BY <1>3, <2>8 DEF EInv
  <2>9. CASE n = Turn(s, req[r].tool, req[r].action)
    <3>1. n.bp = s.bp
      BY <1>2, <2>7, <2>9, TurnCorrect
    <3>2. \A t \in Tools : s.done[t] <= n.done[t]
      BY <1>2, <2>7, <2>9, TurnProgress
    <3> QED
      BY <3>1, <3>2 DEF KeptIn
  <2> QED
    BY <2>6, <2>8, <2>9
<1>6. CASE [Next]_vars /\ ~(\E q \in Requests : Commit(q) \/ CommitLost(q))
  <2>1. UNCHANGED saved
    BY <1>6 DEF Next, OpenPage, Reload, FinishTool, AnswerOne, Send, Load, Reject,
                EditBlueprint, GenerateBlueprint, Store, vars, server
  <2> QED
    BY <1>4, <2>1
<1> QED
  BY <1>5, <1>6

(* Progress made is never lost by a turn that was not overtaken, and the    *)
(* learner stays on the blueprint he was started on, whatever is edited     *)
(* meanwhile (run_tool_loop, _initial_state).                              *)
THEOREM TurnsAlwaysKeep == Spec => TurnsKeep
<1>1. EInv /\ [Next]_vars =>
        [(\E r \in Requests : WritesFresh(r)) =>
           \A s \in saved, n \in saved' : KeptIn(s, n)]_vars
  BY FreshWritesKeep
<1> QED
  BY InitEInv, NextEInv, <1>1, PTL DEF Spec, TurnsKeep

=============================================================================
