-------------------------- MODULE AdmissionProofs ---------------------------
(* What holds of the way into a sitting, and out of it, for any number of  *)
(* sittings, blueprints, administrators' requests and failures.            *)
EXTENDS Admission, FiniteSetTheorems, TLAPS

(* How far the attempt at session s came, and what the tab may hold of it: *)
(* only the last step of an attempt puts a session into the tab, and only  *)
(* what the tab holds is asked for.                                        *)
Attempted(s) ==
  /\ attempt[s] # "none"
       => s \notin tab.urls /\ ~row[s].failed /\ row[s].status # "none"
  /\ attempt[s] = "verified" => row[s].verified

Entered(s) ==
  IF s \in tab.urls
    THEN row[s].verified /\ ~row[s].failed /\ row[s].status # "none"
    ELSE left[s] = Unrouted /\ row[s].status # "completed"

Views == {"chat", "refused", "completing", "complete"}

Addressed ==
  /\ \A c \in calls : c[1] \in tab.urls
  /\ page.shows \in Views => page.id \in tab.urls /\ page.url \in tab.urls

(* Nothing is completed, or about to be, before a sitting has been finished.*)
Finished == \E r \in tab.urls : left[r] = 0

Earned ==
  /\ store => Finished
  /\ page.shows \in {"completing", "complete"} => Finished
  /\ \A s \in Ids : row[s].status = "completed" => Finished
  /\ \A c \in calls : c[2] = 0 => left[c[1]] = 0

IInv ==
  /\ TypeOK
  /\ \A s \in Ids : Attempted(s) /\ Entered(s)
  /\ Addressed
  /\ Earned

LEMMA PlanTyped ==
  ASSUME TypeOK
  PROVE  Cardinality(a.plan.tools) \in 0 .. Cardinality(Tools)
<1>1. a.plan.tools \subseteq Tools
  BY AdmissionAssumption DEF TypeOK, Plan, NoPlan
<1> QED
  BY <1>1, AdmissionAssumption, FS_Subset, FS_CardinalityType

LEMMA LeftTyped ==
  ASSUME TypeOK, NEW s \in Ids, NEW k \in Counts
  PROVE  /\ LeftAfter(s, k) \in Counts /\ LeftAfter(s, k) # Unrouted
         /\ left[s] = 0 => LeftAfter(s, k) = 0
<1>1. Cardinality(a.plan.tools) \in 0 .. Cardinality(Tools) /\ Cardinality(Tools) \in Nat
  BY PlanTyped, AdmissionAssumption, FS_CardinalityType
<1>2. left[s] \in Counts
  BY DEF TypeOK
<1> QED
  BY <1>1, <1>2 DEF LeftAfter, Counts, Unrouted

LEMMA FormTyped ==
  /\ Form \in PageType /\ Form.shows \notin Views
  /\ NewRow("pending") \in RowType /\ NewRow("none") \in RowType
  /\ Unrouted \in Counts /\ 0 \in Counts
<1>1. Cardinality(Tools) \in Nat
  BY AdmissionAssumption, FS_CardinalityType
<1> QED
  BY <1>1 DEF Form, PageType, Views, NewRow, RowType, Unrouted, None, Counts

LEMMA InitIInv == Init => IInv
<1> SUFFICES ASSUME Init PROVE IInv
  OBVIOUS
<1>1. TypeOK
  <2>1. row \in [Ids -> RowType] /\ left \in [Ids -> Counts] /\ page \in PageType
    BY FormTyped DEF Init
  <2>2. req \in [Requests -> [phase : {"idle", "planning", "done"}, status : Status]]
    BY DEF Init, Idle, Status
  <2>3. edits \in 0 .. MaxEdits /\ faults \in 0 .. MaxFaults
    BY AdmissionAssumption DEF Init
  <2> QED
    BY <2>1, <2>2, <2>3 DEF Init, TypeOK, None
<1>2. \A s \in Ids : Attempted(s) /\ Entered(s)
  BY DEF Init, Attempted, Entered, NewRow
<1>3. Addressed /\ Earned
  BY DEF Init, Addressed, Earned, Form, Views, NewRow
<1> QED
  BY <1>1, <1>2, <1>3 DEF IInv

(* The administrator touches neither rows nor tab.                         *)
LEMMA AdminKeeps ==
  ASSUME IInv, AdminStep
  PROVE  IInv'
<1>1. UNCHANGED <<row, left, page, tab, store, attempt, calls>>
  BY DEF AdminStep, Edit, Asks, Plans, PlanFails, client
<1>2. TypeOK'
  <2>1. CASE Edit
    BY <2>1, <1>1, AdmissionAssumption DEF Edit, IInv, TypeOK
  <2>2. ASSUME NEW r \in Requests, Asks(r) PROVE TypeOK'
    BY <2>2, <1>1 DEF Asks, IInv, TypeOK
  <2>3. ASSUME NEW r \in Requests, Plans(r) PROVE TypeOK'
    BY <2>3, <1>1 DEF Plans, StatusAfter, Plan, Done, Idle, Status, IInv, TypeOK
  <2>4. ASSUME NEW r \in Requests, PlanFails(r) PROVE TypeOK'
    BY <2>4, <1>1, AdmissionAssumption DEF PlanFails, Fault, Done, Idle, Status, IInv, TypeOK
  <2> QED
    BY <2>1, <2>2, <2>3, <2>4 DEF AdminStep
<1> QED
  BY <1>1, <1>2 DEF IInv, Attempted, Entered, Addressed, Earned, Finished

(* The form: nothing of a session changes.                                 *)
LEMMA FormKeeps ==
  ASSUME IInv, Intake \/ IntakeFails \/ AttachCv
  PROVE  IInv'
<1>1. /\ UNCHANGED <<row, left, tab, store, attempt, calls>>
      /\ page'.shows = "form" /\ page' \in PageType
  BY AdmissionAssumption DEF Intake, IntakeFails, AttachCv, IInv, TypeOK, PageType
<1>2. TypeOK'
  BY <1>1, AdmissionAssumption DEF Intake, IntakeFails, AttachCv, Fault, server, IInv, TypeOK
<1> QED
  BY <1>1, <1>2 DEF IInv, Attempted, Entered, Addressed, Earned, Finished, Views

(* A step of the attempt at s that leaves the tab where it is: the form may *)
(* be freed or taken, the row and the attempt of s change.                 *)
LEMMA AttemptKeeps ==
  ASSUME IInv, NEW s \in Ids, s \notin tab.urls,
         UNCHANGED <<server, left, tab, store, calls>>,
         page' \in PageType, page'.shows = page.shows, page'.id = page.id, page'.url = page.url,
         NEW rw \in RowType, row' = [row EXCEPT ![s] = rw],
         NEW at \in {"none", "signedIn", "verified"}, attempt' = [attempt EXCEPT ![s] = at],
         faults' \in 0 .. MaxFaults,
         rw.status # "completed",
         at # "none" => ~rw.failed /\ rw.status # "none",
         at = "verified" => rw.verified
  PROVE  IInv'
<1>1. TypeOK'
  BY DEF IInv, TypeOK, server
<1>2. ASSUME NEW t \in Ids PROVE (Attempted(t) /\ Entered(t))'
  <2>1. CASE t = s
    BY <2>1, <1>1 DEF IInv, TypeOK, Attempted, Entered
  <2>2. CASE t # s
    BY <2>2, <1>1 DEF IInv, TypeOK, Attempted, Entered
  <2> QED
    BY <2>1, <2>2
<1>3. Addressed' /\ Earned'
  BY DEF IInv, TypeOK, Addressed, Earned, Finished
<1> QED
  BY <1>1, <1>2, <1>3 DEF IInv

(* The row of a session that is started.                                   *)
LEMMA StartedRow ==
  ASSUME TypeOK, NEW s \in Ids, StartsRow(s)
  PROVE  \E rw \in RowType :
           /\ row' = [row EXCEPT ![s] = rw]
           /\ rw.status = "active"
           /\ rw.verified = row[s].verified /\ rw.failed = row[s].failed
<1> DEFINE rw == Deadline([row[s] EXCEPT !.status = "active"])
<1>1. row[s] \in RowType /\ a.plan.limited \in BOOLEAN
  <2>1. a.plan \in Blueprints \cup {NoPlan}
    BY DEF TypeOK, Plan
  <2>2. \A p \in Blueprints : p.limited \in BOOLEAN
    BY AdmissionAssumption
  <2>3. a.plan.limited \in BOOLEAN
    <3>1. NoPlan.limited \in BOOLEAN
      BY Zenon DEF NoPlan
    <3> QED
      BY <2>1, <2>2, <3>1, Zenon
  <2> QED
    BY <2>3 DEF TypeOK
<1>2. /\ rw \in RowType /\ rw.status = "active"
      /\ rw.verified = row[s].verified /\ rw.failed = row[s].failed
  BY <1>1 DEF Deadline, RowType
<1>3. row' = [row EXCEPT ![s] = rw]
  BY DEF StartsRow, TypeOK
<1> QED
  BY <1>2, <1>3

LEMMA ChecksKeep ==
  ASSUME IInv, NEW s \in Ids,
         SignsIn(s) \/ SignInLost(s) \/ Verifies(s) \/ VerifyFails(s) \/ StartLost(s)
  PROVE  IInv'
<1>0. /\ row[s] \in RowType /\ attempt[s] \in {"none", "signedIn", "verified"}
      /\ page \in PageType /\ faults \in 0 .. MaxFaults /\ MaxFaults \in Nat
      /\ row \in [Ids -> RowType] /\ attempt \in [Ids -> {"none", "signedIn", "verified"}]
      /\ Attempted(s) /\ Entered(s)
  BY AdmissionAssumption DEF IInv, TypeOK
<1>1. CASE SignsIn(s)
  BY <1>0, <1>1, FormTyped, AttemptKeeps
     DEF SignsIn, Ready, Inserts, NewRow, PageType, Entered
<1>2. CASE SignInLost(s)
  <2>1. s \notin tab.urls /\ attempt[s] = "none"
    BY <1>0, <1>2 DEF SignInLost, Inserts, Attempted, Entered
  <2>2. attempt' = [attempt EXCEPT ![s] = "none"] /\ UNCHANGED <<page, tab, store, calls>>
    BY <1>0, <1>2, <2>1 DEF SignInLost, client
  <2>3. /\ row' = [row EXCEPT ![s] = NewRow("pending")] /\ faults' \in 0 .. MaxFaults
        /\ UNCHANGED <<server, left>>
    BY <1>0, <1>2 DEF SignInLost, Inserts, Fault
  <2> QED
    BY <1>0, <2>1, <2>2, <2>3, FormTyped, AttemptKeeps DEF NewRow
<1>3. CASE Verifies(s)
  <2> DEFINE rw == [row[s] EXCEPT !.verified = TRUE]
  <2>1. /\ rw \in RowType /\ rw.status = row[s].status /\ rw.failed = row[s].failed
        /\ rw.verified /\ row' = [row EXCEPT ![s] = rw]
    BY <1>0, <1>3 DEF Verifies, RowType
  <2>2. /\ attempt[s] = "signedIn" /\ row[s].status # "completed"
        /\ attempt' = [attempt EXCEPT ![s] = "verified"]
        /\ UNCHANGED <<server, left, page, tab, store, calls, faults>>
    BY <1>3 DEF Verifies
  <2> HIDE DEF rw
  <2> QED
    BY <1>0, <2>1, <2>2, AttemptKeeps DEF Attempted
<1>4. CASE VerifyFails(s)
  <2>1. s \notin tab.urls /\ row[s].status # "completed"
    BY <1>0, <1>4 DEF VerifyFails, Attempted, Entered
  <2>2. /\ attempt' = [attempt EXCEPT ![s] = "none"] /\ faults' \in 0 .. MaxFaults
        /\ UNCHANGED <<server, left, tab, store, calls>>
    BY <1>0, <1>4 DEF VerifyFails, Fails, Fault
  <2>3. page' \in PageType /\ page'.shows = page.shows /\ page'.id = page.id /\ page'.url = page.url
    BY <1>0, <1>4 DEF VerifyFails, Fails, PageType
  <2>4. PICK rw \in RowType : row' = [row EXCEPT ![s] = rw] /\ rw.status = row[s].status
    <3>1. CASE row' = [row EXCEPT ![s].failed = TRUE]
      <4> DEFINE rw == [row[s] EXCEPT !.failed = TRUE]
      <4>1. rw \in RowType /\ rw.status = row[s].status
        BY <1>0 DEF RowType
      <4>2. row' = [row EXCEPT ![s] = rw]
        BY <1>0, <3>1 DEF RowType
      <4> QED
        BY <4>1, <4>2
    <3>2. CASE row' = [row EXCEPT ![s].verified = TRUE]
      <4> DEFINE rw == [row[s] EXCEPT !.verified = TRUE]
      <4>1. rw \in RowType /\ rw.status = row[s].status
        BY <1>0 DEF RowType
      <4>2. row' = [row EXCEPT ![s] = rw]
        BY <1>0, <3>2 DEF RowType
      <4> QED
        BY <4>1, <4>2
    <3>3. CASE UNCHANGED row
      BY <1>0, <3>3
    <3> QED
      BY <1>4, <3>1, <3>2, <3>3 DEF VerifyFails
  <2> QED
    BY <2>1, <2>2, <2>3, <2>4, AttemptKeeps
<1>5. CASE StartLost(s)
  <2>1. s \notin tab.urls /\ row[s].status # "completed"
    BY <1>0, <1>5 DEF StartLost, Attempted, Entered
  <2>2. /\ attempt' = [attempt EXCEPT ![s] = "none"] /\ faults' \in 0 .. MaxFaults
        /\ UNCHANGED <<server, left, tab, store, calls>>
    BY <1>0, <1>5 DEF StartLost, Fails, Fault
  <2>3. page' \in PageType /\ page'.shows = page.shows /\ page'.id = page.id /\ page'.url = page.url
    BY <1>0, <1>5 DEF StartLost, Fails, PageType
  <2>4. PICK rw \in RowType : row' = [row EXCEPT ![s] = rw] /\ rw.status # "completed"
    <3>1. CASE StartsRow(s)
      BY <3>1, StartedRow DEF IInv
    <3>2. CASE UNCHANGED row
      BY <1>0, <2>1, <3>2
    <3> QED
      BY <1>5, <3>1, <3>2 DEF StartLost
  <2> QED
    BY <2>1, <2>2, <2>3, <2>4, AttemptKeeps
<1> QED
  BY <1>1, <1>2, <1>3, <1>4, <1>5

(* A page that goes to the chat of s, mounted before or now.               *)
LEMMA OpensTyped ==
  ASSUME IInv, NEW s \in Ids, NEW auth, Opens(s, auth)
  PROVE  /\ page' \in PageType /\ page'.url = s
         /\ page'.id = s \/ (page'.id = page.id /\ page.shows \in Views)
         /\ page'.shows \in {"completing", "complete"} => store
<1>1. CASE page.shows \in {"chat", "refused"}
  <2>1. page \in PageType /\ page' = [page EXCEPT !.url = s]
    BY <1>1 DEF Opens, IInv, TypeOK
  <2> QED
    BY <1>1, <2>1 DEF PageType, Views
<1>2. CASE page.shows \notin {"chat", "refused"}
  <2>1. Mounts(s, auth, store)
    BY <1>2 DEF Opens
  <2> QED
    BY <2>1, FormTyped DEF Mounts, PageType, Form
<1> QED
  BY <1>1, <1>2

(* The last step of an attempt puts the session into the tab.              *)
LEMMA StartKeeps ==
  ASSUME IInv, NEW s \in Ids, Starts(s)
  PROVE  IInv'
<1>1. /\ attempt[s] = "verified" /\ s \notin tab.urls /\ row[s].verified /\ ~row[s].failed
      /\ attempt' = [attempt EXCEPT ![s] = "none"]
      /\ tab' = [auth |-> s, urls |-> tab.urls \cup {s}]
      /\ store' = store /\ calls' \in {calls, calls \cup {<<s, Unrouted>>}}
      /\ UNCHANGED <<a, req, edits, left, faults>>
  BY DEF Starts, Opens, Mounts, FirstTurn, server, IInv, Attempted
<1>2. PICK rw \in RowType :
        /\ row' = [row EXCEPT ![s] = rw]
        /\ rw.status = "active"
        /\ rw.verified = row[s].verified /\ rw.failed = row[s].failed
  BY StartedRow DEF Starts, IInv
<1>3. /\ page' \in PageType /\ page'.url = s
      /\ page'.id = s \/ (page'.id = page.id /\ page.shows \in Views)
      /\ page'.shows \in {"completing", "complete"} => store
  BY OpensTyped DEF Starts
<1>4. TypeOK'
  BY <1>1, <1>2, <1>3, FormTyped DEF IInv, TypeOK
<1>5. ASSUME NEW t \in Ids PROVE (Attempted(t) /\ Entered(t))'
  <2>1. Attempted(t) /\ Entered(t) /\ row \in [Ids -> RowType]
        /\ attempt \in [Ids -> {"none", "signedIn", "verified"}]
    BY DEF IInv, TypeOK
  <2>2. CASE t = s
    BY <1>1, <1>2, <2>1, <2>2 DEF Attempted, Entered
  <2>3. CASE t # s
    <3>1. row'[t] = row[t] /\ attempt'[t] = attempt[t] /\ left'[t] = left[t]
          /\ (t \in tab'.urls <=> t \in tab.urls)
      BY <1>1, <1>2, <2>1, <2>3
    <3> QED
      BY <2>1, <3>1 DEF Attempted, Entered
  <2> QED
    BY <2>2, <2>3
<1>6. Addressed'
  BY <1>1, <1>3 DEF IInv, Addressed
<1>7. Finished => Finished'
  BY <1>1 DEF Finished
<1>8. Earned'
  BY <1>1, <1>2, <1>3, <1>4, <1>7 DEF IInv, TypeOK, Earned, Unrouted
<1> QED
  BY <1>4, <1>5, <1>6, <1>8 DEF IInv

(* A session the tab holds: its row may be closed or run late, and its      *)
(* tools are served; once finished it stays finished.                      *)
LEMMA ServedKeeps ==
  ASSUME IInv, NEW s \in tab.urls,
         UNCHANGED <<server, tab, attempt>>,
         NEW rw \in RowType, row' = [row EXCEPT ![s] = rw],
         rw.verified = row[s].verified, rw.failed = row[s].failed, rw.status # "none",
         rw.status = "completed" => row[s].status = "completed" \/ Finished,
         NEW n \in Counts, left' = [left EXCEPT ![s] = n], left[s] = 0 => n = 0,
         store' \in BOOLEAN, store' => store \/ n = 0,
         page' \in PageType,
         page'.shows \in Views => page'.id \in tab.urls /\ page'.url \in tab.urls,
         page'.shows \in {"completing", "complete"}
           => page.shows \in {"completing", "complete"} \/ store \/ n = 0,
         calls' \subseteq Ids \X Counts,
         \A c \in calls' : /\ c[1] \in tab.urls
                           /\ c \in calls \/ c[2] # 0 \/ (c[1] = s /\ n = 0),
         faults' \in 0 .. MaxFaults
  PROVE  IInv'
<1>0. s \in Ids
  BY DEF IInv, TypeOK
<1>1. TypeOK'
  BY <1>0 DEF IInv, TypeOK, server
<1>2. ASSUME NEW t \in Ids PROVE (Attempted(t) /\ Entered(t))'
  BY <1>0, <1>1 DEF IInv, TypeOK, Attempted, Entered
<1>3. Addressed'
  BY DEF Addressed
<1>4. /\ Finished => Finished'
      /\ n = 0 => Finished'
  BY <1>0, <1>1 DEF IInv, TypeOK, Finished
<1>5. Earned'
  <2>1. \A c \in calls' : c[2] = 0 => left'[c[1]] = 0
    BY <1>0 DEF IInv, TypeOK, Earned
  <2>2. \A t \in Ids : row'[t].status = "completed" => Finished'
    BY <1>0, <1>4 DEF IInv, TypeOK, Earned
  <2> QED
    BY <1>4, <2>1, <2>2 DEF IInv, Earned
<1> QED
  BY <1>1, <1>2, <1>3, <1>5 DEF IInv

(* Facts about the session that an action of the chat is about.            *)
LEMMA Held ==
  ASSUME IInv, NEW s \in tab.urls
  PROVE  /\ s \in Ids /\ row[s] \in RowType /\ left[s] \in Counts
         /\ row = [row EXCEPT ![s] = row[s]] /\ left = [left EXCEPT ![s] = left[s]]
         /\ row[s].status # "none"
         /\ page \in PageType /\ calls \subseteq Ids \X Counts /\ store \in BOOLEAN
         /\ faults \in 0 .. MaxFaults /\ MaxFaults \in Nat
         /\ \A c \in calls : c[1] \in tab.urls
  BY AdmissionAssumption DEF IInv, TypeOK, Entered, Addressed

LEMMA TurnKeeps ==
  ASSUME IInv, NEW s \in Ids, NEW k \in Counts, Turn(s, k) \/ TurnFails(s, k)
  PROVE  IInv'
<1>1. s \in tab.urls /\ <<s, k>> \in calls /\ k # 0
  BY DEF Turn, TurnFails, IInv, Addressed
<1>2. LeftAfter(s, k) \in Counts /\ (left[s] = 0 => LeftAfter(s, k) = 0)
  BY LeftTyped DEF IInv
<1>3. CASE Turn(s, k)
  <2> DEFINE n == LeftAfter(s, k)
  <2>1. /\ left' = [left EXCEPT ![s] = n] /\ row' = row
        /\ calls' = (calls \ {<<s, k>>}) \cup (IF n = 0 /\ k # Unrouted THEN {<<s, 0>>} ELSE {})
        /\ store' = (n = 0)
        /\ UNCHANGED <<server, tab, attempt, faults>>
    BY <1>3 DEF Turn, Shown
  <2>2. page' = IF page.shows # "chat" THEN page
                ELSE IF n = 0 THEN [page EXCEPT !.shows = "completing", !.seen = Unrouted]
                ELSE IF page.id = s THEN [page EXCEPT !.seen = n] ELSE page
    BY <1>3 DEF Turn, Shown
  <2> HIDE DEF n
  <2>3. n \in Counts /\ (left[s] = 0 => n = 0)
    BY <1>2 DEF n
  <2>4. /\ page' \in PageType /\ page'.id = page.id /\ page'.url = page.url
        /\ page'.shows = page.shows \/ (page'.shows = "completing" /\ n = 0 /\ page.shows = "chat")
    BY <1>1, <2>2, <2>3, Held, FormTyped DEF PageType
  <2>5. page'.shows \in Views => page'.id \in tab.urls /\ page'.url \in tab.urls
    BY <2>4 DEF IInv, Addressed, Views
  <2>6. calls' \subseteq Ids \X Counts
    BY <1>1, <2>1, Held, FormTyped
  <2>7. \A c \in calls' : /\ c[1] \in tab.urls
                          /\ c \in calls \/ c[2] # 0 \/ (c[1] = s /\ n = 0)
    BY <1>1, <2>1, Held
  <2>8. row' = [row EXCEPT ![s] = row[s]]
    BY <1>1, <2>1, Held
  <2>9. store' \in BOOLEAN /\ (store' => n = 0)
    BY <2>1
  <2>10. /\ left' = [left EXCEPT ![s] = n]
         /\ UNCHANGED <<server, tab, attempt, faults>>
    BY <2>1
  <2> QED
    BY <1>1, <2>3, <2>4, <2>5, <2>6, <2>7, <2>8, <2>9, <2>10, Held, ServedKeeps
<1>4. CASE TurnFails(s, k)
  <2>1. PICK n \in Counts : left' = [left EXCEPT ![s] = n] /\ (left[s] = 0 => n = 0)
    BY <1>1, <1>2, <1>4, Held DEF TurnFails
  <2>2. faults' \in 0 .. MaxFaults
    BY <1>1, <1>4, Held DEF TurnFails, Fault
  <2>3. /\ page' \in PageType /\ page'.id = page.id /\ page'.url = page.url
        /\ page'.shows = page.shows \/ (page'.shows = "refused" /\ page.shows = "chat")
    BY <1>1, <1>4, Held DEF TurnFails, PageType
  <2>4. page'.shows \in Views => page'.id \in tab.urls /\ page'.url \in tab.urls
    BY <2>3 DEF IInv, Addressed, Views
  <2>5. /\ calls' = calls \ {<<s, k>>} /\ store' = store /\ row' = row
        /\ UNCHANGED <<server, tab, attempt>>
    BY <1>4 DEF TurnFails
  <2> QED
    BY <1>1, <2>1, <2>2, <2>3, <2>4, <2>5, Held, ServedKeeps
<1> QED
  BY <1>3, <1>4

LEMMA AdvancesKeeps ==
  ASSUME IInv, Advances
  PROVE  IInv'
<1>1. /\ page.id \in tab.urls /\ page.seen > 0
      /\ calls' = calls \cup {<<page.id, page.seen>>}
      /\ UNCHANGED <<server, row, left, page, tab, store, attempt, faults>>
  BY DEF Advances, IInv, Addressed, Views
<1>2. page.seen \in Counts /\ page.seen # 0
  BY <1>1 DEF IInv, TypeOK, PageType, Counts, Unrouted
<1>3. /\ calls' \subseteq Ids \X Counts
      /\ \A c \in calls' : c[1] \in tab.urls /\ (c \in calls \/ c[2] # 0)
  BY <1>1, <1>2, Held
<1>4. page'.shows \in Views => page'.id \in tab.urls /\ page'.url \in tab.urls
  BY <1>1 DEF IInv, Addressed
<1> QED
  BY <1>1, <1>3, <1>4, Held, ServedKeeps

(* The row of a session that is completed.                                 *)
LEMMA Closed ==
  ASSUME IInv, NEW s \in tab.urls, Complete(s)
  PROVE  \E rw \in RowType :
           /\ row' = [row EXCEPT ![s] = rw]
           /\ rw.status # "none"
           /\ rw.verified = row[s].verified /\ rw.failed = row[s].failed
<1> DEFINE rw == [row[s] EXCEPT !.status = "completed"]
<1>1. /\ rw \in RowType /\ rw.status # "none"
      /\ rw.verified = row[s].verified /\ rw.failed = row[s].failed
  BY Held DEF RowType
<1>2. row' = [row EXCEPT ![s] = rw]
  BY Held DEF Complete, IInv, TypeOK
<1> QED
  BY <1>1, <1>2

LEMMA EndsKeeps ==
  ASSUME IInv, NEW s \in Ids, Ends(s)
  PROVE  IInv'
<1>1. /\ s \in tab.urls /\ left[s] = 0
      /\ calls' = calls \ {<<s, 0>>} /\ left' = left /\ page' = page /\ store' = store
      /\ UNCHANGED <<server, tab, attempt>>
  BY DEF Ends, IInv, Addressed, Earned
<1>2. Finished
  BY <1>1 DEF Finished
<1>3. PICK rw \in RowType :
        /\ row' = [row EXCEPT ![s] = rw]
        /\ rw.verified = row[s].verified /\ rw.failed = row[s].failed /\ rw.status # "none"
  <2>1. CASE Complete(s)
    BY <1>1, <2>1, Closed
  <2>2. CASE UNCHANGED row
    BY <1>1, <2>2, Held
  <2> QED
    BY <2>1, <2>2 DEF Ends
<1>4. faults' \in 0 .. MaxFaults
  BY <1>1, Held DEF Ends, Fault
<1>5. page'.shows \in Views => page'.id \in tab.urls /\ page'.url \in tab.urls
  BY <1>1 DEF IInv, Addressed
<1>6. /\ left[s] \in Counts /\ left' = [left EXCEPT ![s] = left[s]]
      /\ page' \in PageType /\ store' \in BOOLEAN /\ (store' => store)
      /\ calls' \subseteq Ids \X Counts
      /\ \A c \in calls' : c[1] \in tab.urls /\ c \in calls
  BY <1>1, Held
<1> QED
  BY <1>1, <1>2, <1>3, <1>4, <1>5, <1>6, ServedKeeps

LEMMA CompletesKeeps ==
  ASSUME IInv, Completes
  PROVE  IInv'
<1> DEFINE s == page.id
<1>1. /\ s \in tab.urls /\ page.shows = "completing"
      /\ page' = [page EXCEPT !.shows = "complete"]
      /\ UNCHANGED <<server, left, tab, store, attempt, calls>>
  BY DEF Completes, IInv, Addressed, Views
<1>2. Finished
  BY <1>1 DEF IInv, Earned
<1>3. /\ page' \in PageType /\ page'.shows = "complete" /\ page'.id = s
      /\ page'.url \in tab.urls
  BY <1>1, Held DEF PageType, IInv, Addressed, Views
<1> HIDE DEF s
<1>4. PICK rw \in RowType :
        /\ row' = [row EXCEPT ![s] = rw]
        /\ rw.verified = row[s].verified /\ rw.failed = row[s].failed /\ rw.status # "none"
  <2>1. CASE Complete(s)
    BY <1>1, <2>1, Closed
  <2>2. CASE UNCHANGED row
    BY <1>1, <2>2, Held
  <2> QED
    BY <2>1, <2>2 DEF Completes, s
<1>5. faults' \in 0 .. MaxFaults
  BY <1>1, Held DEF Completes, Fault
<1>6. /\ left[s] \in Counts /\ left' = [left EXCEPT ![s] = left[s]]
      /\ store' \in BOOLEAN /\ (store' => store)
      /\ calls' \subseteq Ids \X Counts
      /\ \A c \in calls' : c[1] \in tab.urls /\ c \in calls
  BY <1>1, Held
<1>7. page'.shows \in Views => page'.id \in tab.urls /\ page'.url \in tab.urls
  BY <1>1, <1>3
<1>8. page'.shows \in {"completing", "complete"}
        => page.shows \in {"completing", "complete"} \/ store \/ left[s] = 0
  BY <1>1
<1> QED
  BY <1>1, <1>2, <1>3, <1>4, <1>5, <1>6, <1>7, <1>8, ServedKeeps

LEMMA RunsOutKeeps ==
  ASSUME IInv, NEW s \in Ids, RunsOut(s)
  PROVE  IInv'
<1> DEFINE rw == [row[s] EXCEPT !.late = TRUE]
<1>1. /\ row[s] \in RowType /\ row[s].status = "active" /\ row \in [Ids -> RowType]
      /\ row' = [row EXCEPT ![s].late = TRUE]
      /\ UNCHANGED <<server, left, page, tab, store, attempt, calls, faults>>
  BY DEF RunsOut, client, IInv, TypeOK
<1>2. /\ rw \in RowType /\ rw.status = "active" /\ row' = [row EXCEPT ![s] = rw]
      /\ rw.verified = row[s].verified /\ rw.failed = row[s].failed
  BY <1>1 DEF RowType
<1> HIDE DEF rw
<1>3. TypeOK'
  <2>1. row' \in [Ids -> RowType]
    BY <1>1, <1>2
  <2>2. TypeOK /\ UNCHANGED <<a, req, edits, left, page, tab, store, attempt, calls, faults>>
    BY <1>1 DEF IInv, server
  <2> QED
    BY <2>1, <2>2 DEF TypeOK
<1>4. ASSUME NEW t \in Ids PROVE (Attempted(t) /\ Entered(t))'
  BY <1>1, <1>2, <1>3 DEF IInv, TypeOK, Attempted, Entered
<1>5. Addressed' /\ Earned'
  BY <1>1, <1>2 DEF IInv, TypeOK, Addressed, Earned, Finished
<1> QED
  BY <1>3, <1>4, <1>5 DEF IInv

LEMMA ReturnsKeeps ==
  ASSUME IInv, NEW s \in Ids, Returns(s)
  PROVE  IInv'
<1>1. /\ s \in tab.urls /\ store' = store
      /\ calls' \in {calls, calls \cup FirstTurn(s, tab.auth)}
      /\ UNCHANGED <<server, row, left, tab, attempt, faults>>
  BY DEF Returns, Opens, Mounts
<1>2. /\ page' \in PageType /\ page'.url \in tab.urls
      /\ page'.shows \in Views => page'.id \in tab.urls
      /\ page'.shows \in {"completing", "complete"} => store
  <2>1. /\ page' \in PageType /\ page'.url = s
        /\ page'.id = s \/ (page'.id = page.id /\ page.shows \in Views)
        /\ page'.shows \in {"completing", "complete"} => store
    BY OpensTyped DEF Returns
  <2> QED
    BY <1>1, <2>1 DEF IInv, Addressed
<1>3. /\ calls' \subseteq Ids \X Counts
      /\ \A c \in calls' : c[1] \in tab.urls /\ (c \in calls \/ c[2] # 0)
  BY <1>1, Held, FormTyped DEF FirstTurn, Unrouted
<1> QED
  BY <1>1, <1>2, <1>3, Held, ServedKeeps

LEMMA LeavesKeeps ==
  ASSUME IInv, Leaves
  PROVE  IInv'
<1>1. /\ page.id \in tab.urls /\ page' = Form
      /\ UNCHANGED <<server, row, left, tab, store, attempt, calls, faults>>
  BY DEF Leaves, IInv, Addressed, Views
<1>2. page' \in PageType /\ page'.shows \notin Views
  BY <1>1, FormTyped
<1> QED
  BY <1>1, <1>2, Held, ServedKeeps DEF Views

(* A reload: the attempts are given up, the script starts anew.            *)
LEMMA ReloadsKeeps ==
  ASSUME IInv, Reloads
  PROVE  IInv'
<1>1. /\ attempt' = [s \in Ids |-> "none"] /\ store' = FALSE
      /\ UNCHANGED <<server, row, left, tab>>
      /\ faults' \in 0 .. MaxFaults
  BY AdmissionAssumption DEF Reloads, Mounts, Fault, IInv, TypeOK
<1>2. /\ page' \in PageType
      /\ page'.shows \in Views => /\ page.shows \in Views
                                 /\ page'.id \in {page.id, page.url} /\ page'.url = page.url
      /\ page'.shows \in {"completing", "complete"} => page.shows \in {"completing", "complete"}
      /\ \A c \in calls' : c = <<page.url, Unrouted>> /\ page.shows \in Views
  <2>1. CASE page.shows \in {"chat", "refused"} /\ Mounts(page.url, tab.auth, FALSE)
               /\ calls' = FirstTurn(page.url, tab.auth)
    <3>0. page \in PageType
      BY DEF IInv, TypeOK
    <3>1. page.url \in Ids \cup {None} /\ page.shows \in Views
      BY <2>1, <3>0 DEF PageType, Views
    <3>2. /\ page' \in PageType /\ page'.id = page.url /\ page'.url = page.url
          /\ page'.shows \in {"chat", "refused"}
      BY <2>1, <3>1, FormTyped DEF Mounts, Form, PageType
    <3>3. \A c \in calls' : c = <<page.url, Unrouted>>
      BY <2>1 DEF FirstTurn
    <3> QED
      BY <3>1, <3>2, <3>3
  <2>2. CASE page' = Form /\ calls' = {}
    BY <2>2, FormTyped DEF Views
  <2>3. CASE page.shows \in {"completing", "complete"} /\ calls' = {}
               /\ page' = [page EXCEPT !.shows = "completing"]
    BY <2>3 DEF PageType, Views, IInv, TypeOK
  <2> QED
    BY <2>1, <2>2, <2>3 DEF Reloads
<1>3. page.shows \in Views => {page.id, page.url} \subseteq tab.urls /\ page.url \in Ids
  BY DEF IInv, Addressed, TypeOK
<1>4. TypeOK'
  <2>1. calls' \subseteq Ids \X Counts
    BY <1>2, <1>3, FormTyped
  <2> QED
    BY <1>1, <1>2, <2>1 DEF IInv, TypeOK, server
<1>5. \A s \in Ids : (Attempted(s) /\ Entered(s))'
  BY <1>1 DEF IInv, Attempted, Entered
<1>6. Addressed'
  BY <1>1, <1>2, <1>3 DEF Addressed
<1>7. Earned'
  BY <1>1, <1>2 DEF IInv, Earned, Finished, Unrouted
<1> QED
  BY <1>4, <1>5, <1>6, <1>7 DEF IInv

LEMMA NextIInv == IInv /\ [Next]_vars => IInv'
<1> SUFFICES ASSUME IInv, [Next]_vars PROVE IInv'
  OBVIOUS
<1>1. CASE AdminStep
  BY <1>1, AdminKeeps
<1>2. CASE PageStep
  BY <1>2, FormKeeps, AdvancesKeeps, CompletesKeeps, LeavesKeeps, ReloadsKeeps DEF PageStep
<1>3. ASSUME NEW s \in Ids, CheckStep(s) PROVE IInv'
  BY <1>3, ChecksKeep, StartKeeps DEF CheckStep
<1>4. ASSUME NEW s \in Ids, ChatStep(s) PROVE IInv'
  BY <1>4, TurnKeeps, EndsKeeps, RunsOutKeeps, ReturnsKeeps DEF ChatStep
<1>5. CASE UNCHANGED vars
  BY <1>5 DEF vars, server, client, IInv, TypeOK, Attempted, Entered, Addressed, Earned, Finished
<1> QED
  BY <1>1, <1>2, <1>3, <1>4, <1>5 DEF Next

LEMMA Invariance == Spec => []IInv
BY InitIInv, NextIInv, PTL DEF Spec

(* TypeOK: the rows, the views and the calls keep their types for any       *)
(* number of sittings, tools and failures.                                 *)
THEOREM AdmissionTypeCorrect == Spec => []TypeOK
<1>1. IInv => TypeOK
  BY DEF IInv
<1> QED
  BY <1>1, Invariance, PTL

(* AdmittedOnly: however often the checks fail, lose their replies or are   *)
(* left and taken up again, no session is served or completed but one that  *)
(* its own attempt took through all of them (handleContinue).              *)
THEOREM OnlyAdmittedServed == Spec => []AdmittedOnly
<1>1. IInv => AdmittedOnly
  BY DEF IInv, Entered, Addressed, AdmittedOnly, Views
<1> QED
  BY <1>1, Invariance, PTL

(* CompletionEarned: a session with tools left is completed only in a tab   *)
(* that has finished another sitting (chatStore is never reset).           *)
THEOREM CompletionAlwaysEarned == Spec => []CompletionEarned
<1>1. IInv => CompletionEarned
  BY DEF IInv, Earned, Finished, CompletionEarned
<1> QED
  BY <1>1, Invariance, PTL

(* PlannerKeepsClosed: whatever requests for a blueprint overlap, one that  *)
(* loaded the assessment active does not reopen it (generate_blueprint).   *)
THEOREM PlansKeepClosed == Spec => PlannerKeepsClosed
<1> DEFINE A == a.status = "archived" /\ a'.status # "archived"
       => \/ edits' # edits
          \/ \E r \in Requests :
               /\ req[r].phase = "planning" /\ req'[r].phase = "done"
               /\ req[r].status # "active"
<1>1. TypeOK /\ [Next]_vars => [A]_vars
  <2> SUFFICES ASSUME TypeOK, Next, a.status = "archived", a'.status # "archived", edits' = edits
               PROVE  \E r \in Requests :
                        /\ req[r].phase = "planning" /\ req'[r].phase = "done"
                        /\ req[r].status # "active"
    OBVIOUS
  <2>1. ~Edit
    BY DEF Edit, TypeOK
  <2>2. PICK r \in Requests : Plans(r)
    <3>1. a' # a
      OBVIOUS
    <3>2. ~PageStep
      BY <3>1 DEF PageStep, Intake, IntakeFails, AttachCv, Advances, Completes, Leaves, Reloads, server
    <3>3. \A s \in Ids : ~CheckStep(s)
      BY <3>1 DEF CheckStep, SignsIn, SignInLost, Verifies, VerifyFails, Starts, StartLost, server
    <3>4. \A s \in Ids : ~ChatStep(s)
      BY <3>1 DEF ChatStep, RunsOut, Returns, Ends, Turn, TurnFails, server
    <3>5. \A r \in Requests : ~Asks(r) /\ ~PlanFails(r)
      BY <3>1 DEF Asks, PlanFails
    <3> QED
      BY <2>1, <3>2, <3>3, <3>4, <3>5 DEF Next, AdminStep
  <2>3. /\ req[r].phase = "planning" /\ req' = [req EXCEPT ![r] = Done]
        /\ a'.status = StatusAfter(req[r].status)
    BY <2>2 DEF Plans, TypeOK
  <2>4. req'[r].phase = "done"
    BY <2>3 DEF TypeOK, Done, Idle
  <2> QED
    BY <2>3, <2>4 DEF StatusAfter
<1> QED
  BY <1>1, AdmissionTypeCorrect, PTL DEF Spec, PlannerKeepsClosed
=============================================================================
