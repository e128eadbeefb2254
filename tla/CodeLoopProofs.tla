--------------------------- MODULE CodeLoopProofs ---------------------------
(* What the coding loop guarantees for every budget, any skill rows of the *)
(* other tools, and every number of pages and requests in flight.          *)
(*                                                                         *)
(* The argument: a position the program goes by anywhere -- on a page, in  *)
(* a submit, in a contract that does not stop -- has all the positions     *)
(* before it graded already, and room in the budget.  Grades are never     *)
(* taken back, so this stays true however old the position gets.           *)
EXTENDS CodeLoop, FiniteSetTheorems, WellFoundedInduction, TLAPS

(* Position i may be asked for: with rows o of the other tools, A holds    *)
(* the positions before it and the budget is not used up.                  *)
Reach(o, A, i) ==
  /\ i \in Nat /\ NextIndex(o) <= i
  /\ NextIndex(o) .. (i - 1) \subseteq A
  /\ Cardinality(o) + (i - NextIndex(o)) < Budget

(* A has no gaps and keeps to the budget.                                  *)
Shape(o, A) == \A i \in A : Reach(o, A, i)

(* The rows the other tools may have left.                                 *)
Bounded(o) == o \subseteq 0 .. MaxOthers - 1

-----------------------------------------------------------------------------
(* The next index of a bounded set of numbers is its least strict upper    *)
(* bound.                                                                  *)
LEMMA NextIndexIsLeast ==
  ASSUME NEW S, S \subseteq Nat, NEW k \in Nat, \A m \in S : m < k
  PROVE  /\ NextIndex(S) \in Nat
         /\ \A m \in S : m < NextIndex(S)
         /\ NextIndex(S) = 0 \/ NextIndex(S) - 1 \in S
<1> DEFINE U == {n \in Nat : \A m \in S : m < n}
<1>1. PICK n \in U : \A y \in U : ~(<<y, n>> \in OpToRel(<, Nat))
  <2>1. U \subseteq Nat /\ U # {}
    OBVIOUS
  <2> HIDE DEF U
  <2> QED
    BY <2>1, NatLessThanWellFounded, WFMin
<1>2. \A y \in U : ~(y < n)
  BY <1>1 DEF OpToRel
<1>3. n \in {0} \cup {m + 1 : m \in S}
  <2>1. CASE n = 0
    BY <2>1
  <2>2. CASE n # 0
    <3>1. n - 1 \in Nat /\ n - 1 \notin U
      BY <1>2, <2>2
    <3>2. PICK m \in S : ~(m < n - 1)
      BY <3>1
    <3>3. m \in Nat /\ m < n
      BY <3>2
    <3>4. n = m + 1
      BY <3>2, <3>3
    <3> QED
      BY <3>2, <3>4
  <2> QED
    BY <2>1, <2>2
<1>4. \E x \in {0} \cup {m + 1 : m \in S} : \A m \in S : m < x
  BY <1>1, <1>3
<1>5. /\ NextIndex(S) \in {0} \cup {m + 1 : m \in S}
      /\ \A m \in S : m < NextIndex(S)
  BY <1>4 DEF NextIndex
<1>6. NextIndex(S) = 0 \/ \E m \in S : NextIndex(S) = m + 1
  BY <1>5
<1>7. CASE NextIndex(S) = 0
  BY <1>5, <1>7
<1>8. CASE \E m \in S : NextIndex(S) = m + 1
  <2>1. PICK m \in S : NextIndex(S) = m + 1
    BY <1>8
  <2>2. m \in Nat /\ (m + 1) - 1 = m
    OBVIOUS
  <2> QED
    BY <1>5, <2>1, <2>2
<1> QED
  BY <1>6, <1>7, <1>8

(* The rows of the other tools end before the first coding question.       *)
LEMMA BaseOfOthers ==
  ASSUME NEW o, Bounded(o)
  PROVE  /\ IsFiniteSet(o) /\ Cardinality(o) \in Nat /\ o \subseteq Nat
         /\ NextIndex(o) \in Nat
         /\ \A m \in o : m < NextIndex(o)
         /\ NextIndex(o) = 0 \/ NextIndex(o) - 1 \in o
<1>1. o \subseteq Nat /\ MaxOthers \in Nat /\ \A m \in o : m < MaxOthers
  BY LoopAssumption DEF Bounded
<1>2. \A m \in o : m <= MaxOthers
  BY <1>1
<1>3. IsFiniteSet(o)
  BY <1>1, <1>2, FS_BoundedSetOfNaturals
<1>4. Cardinality(o) \in Nat
  BY <1>3, FS_CardinalityType
<1>5. /\ NextIndex(o) \in Nat
      /\ \A m \in o : m < NextIndex(o)
      /\ NextIndex(o) = 0 \/ NextIndex(o) - 1 \in o
  BY <1>1, NextIndexIsLeast
<1> QED
  BY <1>1, <1>3, <1>4, <1>5

(* Positions without a gap are an interval that starts after the rows of   *)
(* the other tools; the next index ends it and the row count measures it.  *)
LEMMA ShapeIsInterval ==
  ASSUME NEW o, Bounded(o), NEW A, Shape(o, A)
  PROVE  /\ NextIndex(o \cup A) \in Nat
         /\ NextIndex(o) <= NextIndex(o \cup A)
         /\ A = NextIndex(o) .. (NextIndex(o \cup A) - 1)
         /\ Cardinality(o \cup A)
              = Cardinality(o) + (NextIndex(o \cup A) - NextIndex(o))
<1> DEFINE b == NextIndex(o)
           n == NextIndex(o \cup A)
           k == b + Budget
<1>1. /\ IsFiniteSet(o) /\ Cardinality(o) \in Nat /\ o \subseteq Nat
      /\ b \in Nat /\ \A m \in o : m < b
      /\ b = 0 \/ b - 1 \in o
  BY BaseOfOthers
<1>2. Budget \in Nat /\ k \in Nat
  BY <1>1, LoopAssumption
<1>3. \A i \in A : /\ i \in Nat /\ b <= i /\ b .. (i - 1) \subseteq A
                   /\ Cardinality(o) + (i - b) < Budget
  BY DEF Shape, Reach
<1> HIDE DEF b, n
<1>4. o \cup A \subseteq Nat
  BY <1>1, <1>3
<1>5. \A m \in o \cup A : m < k
  <2>1. \A m \in o : m < k
    BY <1>1, <1>2
  <2>2. \A m \in A : m < k
    BY <1>1, <1>2, <1>3
  <2> QED
    BY <2>1, <2>2
<1>6. /\ n \in Nat /\ \A m \in o \cup A : m < n
      /\ n = 0 \/ n - 1 \in o \cup A
  BY <1>2, <1>4, <1>5, NextIndexIsLeast DEF n
<1>7. b <= n
  <2>1. CASE b = 0
    BY <2>1, <1>6
  <2>2. CASE b - 1 \in o
    BY <2>2, <1>1, <1>6
  <2> QED
    BY <1>1, <2>1, <2>2
<1>8. A \subseteq b .. (n - 1)
  <2>1. SUFFICES ASSUME NEW i \in A PROVE i \in b .. (n - 1)
    OBVIOUS
  <2>2. i \in Nat /\ b <= i /\ i < n
    BY <1>3, <1>6
  <2> QED
    BY <2>2, <1>1, <1>6
<1>9. b .. (n - 1) \subseteq A
  <2>1. CASE n = b
    BY <2>1, <1>1
  <2>2. CASE n # b
    <3>1. n - 1 \in Nat /\ b <= n - 1
      BY <2>2, <1>1, <1>6, <1>7
    <3>2. n - 1 \notin o
      BY <3>1, <1>1
    <3>3. n - 1 \in A
      BY <3>1, <3>2, <1>6
    <3>4. b .. ((n - 1) - 1) \subseteq A
      BY <3>3, <1>3
    <3>5. \A j \in b .. (n - 1) : j = n - 1 \/ j \in b .. ((n - 1) - 1)
      BY <3>1, <1>1
    <3> QED
      BY <3>3, <3>4, <3>5
  <2> QED
    BY <2>1, <2>2
<1>10. A = b .. (n - 1)
  BY <1>8, <1>9
<1>11. IsFiniteSet(A) /\ Cardinality(A) = n - b
  <2>1. /\ IsFiniteSet(b .. (n - 1))
        /\ Cardinality(b .. (n - 1)) = IF b > n - 1 THEN 0 ELSE (n - 1) - b + 1
    <3>1. b \in Int /\ n - 1 \in Int
      BY <1>1, <1>6
    <3> QED
      BY <3>1, FS_Interval
  <2>2. (IF b > n - 1 THEN 0 ELSE (n - 1) - b + 1) = n - b
    BY <1>1, <1>6, <1>7
  <2> QED
    BY <2>1, <2>2, <1>10
<1>12. o \cap A = {}
  <2>1. \A m \in o \cap A : m < b /\ b <= m /\ m \in Nat
    BY <1>1, <1>3
  <2>2. \A m \in o \cap A : FALSE
    BY <2>1, <1>1
  <2> QED
    BY <2>2
<1>13. Cardinality(o \cup A) = Cardinality(o) + Cardinality(A) - Cardinality({})
  BY <1>1, <1>11, <1>12, FS_Union
<1>14. Cardinality({}) = 0
  BY FS_EmptySet
<1>15. Cardinality(o \cup A) = Cardinality(o) + (n - b)
  BY <1>1, <1>6, <1>11, <1>13, <1>14
<1> QED
  BY <1>6, <1>7, <1>10, <1>15 DEF b, n

(* A contract computed from positions without a gap is well formed, and    *)
(* unless it stops it names a position that may be asked for.              *)
LEMMA ContractReaches ==
  ASSUME NEW o, Bounded(o), NEW A, Shape(o, A)
  PROVE  /\ ContractOf(o \cup A) \in Contract
         /\ ~ContractOf(o \cup A).stop => Reach(o, A, ContractOf(o \cup A).index)
<1> DEFINE b == NextIndex(o)
           n == NextIndex(o \cup A)
           full == Cardinality(o \cup A)
<1>1. /\ n \in Nat /\ b <= n /\ A = b .. (n - 1)
      /\ full = Cardinality(o) + (n - b)
  BY ShapeIsInterval
<1>2. Cardinality(o) \in Nat /\ b \in Nat /\ Budget \in Nat
  BY BaseOfOthers, LoopAssumption
<1>3. ContractOf(o \cup A) = [index |-> n, stop |-> full >= Budget]
  BY DEF ContractOf
<1>4. (full >= Budget) \in BOOLEAN
  OBVIOUS
<1>5. ~(full >= Budget) => Cardinality(o) + (n - b) < Budget
  BY <1>1, <1>2
<1> HIDE DEF n, full, b
<1>6. ContractOf(o \cup A) \in Contract
  <2>1. \A s \in BOOLEAN : [index |-> n, stop |-> s] \in Contract
    BY <1>1 DEF Contract
  <2> QED
    BY <2>1, <1>3, <1>4, Zenon
<1>7. /\ ContractOf(o \cup A).index = n
      /\ ContractOf(o \cup A).stop = (full >= Budget)
  BY <1>3
<1>8. ~(full >= Budget) => Reach(o, A, n)
  BY <1>1, <1>5 DEF Reach, b
<1> QED
  BY <1>6, <1>7, <1>8

(* More grades leave a position reachable.                                 *)
LEMMA ReachGrows ==
  ASSUME NEW o, NEW A, NEW B, A \subseteq B, NEW i, Reach(o, A, i)
  PROVE  Reach(o, B, i)
BY DEF Reach

(* Grading a position that may be asked for leaves no gap.                 *)
LEMMA ShapeGrows ==
  ASSUME NEW o, NEW A, Shape(o, A), NEW i, Reach(o, A, i)
  PROVE  Shape(o, A \cup {i})
<1>1. \A j \in A \cup {i} : Reach(o, A, j)
  BY DEF Shape
<1> QED
  BY <1>1, ReachGrows DEF Shape

-----------------------------------------------------------------------------
(* The inductive invariant.                                                *)

(* A request goes by positions that may be asked for.  The contract of an  *)
(* analysed submit counts its own grade already.                           *)
ReqOK(o, A, m) ==
  /\ m.phase \in {"submitted", "executed", "carded", "analysed"} =>
       Reach(o, A, m.answer.index)
  /\ m.phase \in {"asked", "authoring"} =>
       \A c \in m.contract : ~c.stop => Reach(o, A, c.index)
  /\ m.phase = "authoring" => \A c \in m.contract : ~c.stop
  /\ m.phase = "analysed" =>
       \A c \in m.contract : ~c.stop => Reach(o, A \cup {m.answer.index}, c.index)

(* So does a page that shows a challenge.                                  *)
PageOK(o, A, q) == q.phase \in {"editing", "submitting"} => Reach(o, A, q.index)

Positions ==
  /\ Bounded(others)
  /\ Shape(others, Asked)
  /\ \A r \in Requests : ReqOK(others, Asked, req[r])
  /\ \A p \in Pages : PageOK(others, Asked, page[p])

(* A submit that is executed has a submission, one that is past the memory *)
(* agent has the card of it.                                               *)
CardOK(n, C, m) ==
  /\ m.phase \in {"executed", "carded", "analysed"} => m.sub \in 1 .. n
  /\ m.phase \in {"carded", "analysed"} => m.sub \in C

Cards ==
  /\ GradesHaveCards
  /\ \A r \in Requests : CardOK(subs, carded, req[r])

IInv == TypeOK /\ Positions /\ Cards

-----------------------------------------------------------------------------
(* The contract computed now goes by a position that may be asked for.     *)
LEMMA OwnContract ==
  ASSUME Positions
  PROVE  /\ ContractOf(Scored) \in Contract
         /\ ~ContractOf(Scored).stop =>
              Reach(others, Asked, ContractOf(Scored).index)
BY ContractReaches DEF Positions, Scored

(* So does the one computed with an answer that is about to be graded.     *)
LEMMA NextContract ==
  ASSUME Positions, NEW i, Reach(others, Asked, i)
  PROVE  /\ ContractOf(Scored \cup {i}) \in Contract
         /\ ~ContractOf(Scored \cup {i}).stop =>
              Reach(others, Asked \cup {i}, ContractOf(Scored \cup {i}).index)
<1>1. Shape(others, Asked \cup {i})
  BY ShapeGrows DEF Positions
<1>2. Scored \cup {i} = others \cup (Asked \cup {i})
  BY DEF Scored
<1> QED
  BY <1>1, <1>2, ContractReaches DEF Positions

(* And the one a challenge is generated from, sent along or not.           *)
LEMMA ChosenContract ==
  ASSUME TypeOK, Positions, NEW r \in Requests, req[r].phase = "asked"
  PROVE  /\ Chosen(req[r].contract) \in Contract
         /\ ~Chosen(req[r].contract).stop =>
              Reach(others, Asked, Chosen(req[r].contract).index)
<1> DEFINE sent == req[r].contract
           own  == ContractOf(Scored)
<1>1. /\ sent \subseteq Contract
      /\ \A c \in sent : ~c.stop => Reach(others, Asked, c.index)
  BY DEF TypeOK, ReqType, Positions, ReqOK
<1>2. own \in Contract /\ (~own.stop => Reach(others, Asked, own.index))
  BY OwnContract
<1> HIDE DEF own
<1>3. Chosen(sent) = IF \E c \in sent : c.index # own.index
                       THEN CHOOSE c \in sent : TRUE ELSE own
  BY DEF Chosen, own
<1>4. CASE \E c \in sent : c.index # own.index
  <2>1. Chosen(sent) \in sent
    BY <1>3, <1>4
  <2> QED
    BY <1>1, <2>1
<1>5. CASE ~(\E c \in sent : c.index # own.index)
  BY <1>2, <1>3, <1>5
<1> QED
  BY <1>4, <1>5

(* A grade adds its position to those asked, an upgrade none.              *)
LEMMA GradeIsAsked ==
  ASSUME NEW r \in Requests, Writes(r)
  PROVE  Asked' = Asked \cup {req[r].answer.index}
<1>1. grades' = grades \cup {Grade(r)} /\ Grade(r).index = req[r].answer.index
  BY DEF Writes, Grade
<1> QED
  BY <1>1 DEF Asked

LEMMA UpgradeAsksNothing ==
  ASSUME TypeOK, NEW n \in 1 .. subs, Upgrades(n)
  PROVE  /\ Asked' = Asked
         /\ grades' \subseteq GradeType
         /\ GradesHaveCards => GradesHaveCards'
<1> DEFINE up(g) == IF g.sub = n THEN [g EXCEPT !.rubric = "llm"] ELSE g
<1>1. grades' = {up(g) : g \in grades} /\ carded' = carded
  BY DEF Upgrades
<1>2. \A g \in GradeType : /\ up(g) \in GradeType
                           /\ up(g).index = g.index /\ up(g).sub = g.sub
  BY DEF GradeType
<1>3. grades \subseteq GradeType
  BY DEF TypeOK
<1> HIDE DEF up
<1>4. Asked' = {g.index : g \in grades'}
  BY DEF Asked
<1>5. Asked' = Asked
  BY <1>1, <1>2, <1>3, <1>4 DEF Asked
<1>6. GradesHaveCards => \A g \in grades' : g.sub \in carded'
  BY <1>1, <1>2, <1>3 DEF GradesHaveCards
<1> QED
  BY <1>1, <1>2, <1>3, <1>5, <1>6 DEF GradesHaveCards

-----------------------------------------------------------------------------
(* A page stays well formed whatever it is told.                           *)
LEMMA ToldPages ==
  ASSUME TypeOK
  PROVE  \A q \in PageType :
           /\ FailedPage(q) \in PageType
           /\ [q EXCEPT !.phase = "done", !.awaits = {}] \in PageType
           /\ [q EXCEPT !.phase = "generating"] \in PageType
BY DEF PageType, FailedPage

LEMMA FreeTyped == subs \in Nat => Free \in ReqType
BY DEF Free, NoAnswer, ReqType, Answer

LEMMA AskingTyped ==
  ASSUME subs \in Nat, NEW S \in SUBSET Contract
  PROVE  Asking(S) \in ReqType
BY FreeTyped DEF Asking, ReqType

(* The reply to a submit, and an error, leave everything well formed.      *)
LEMMA ContractedTyped ==
  ASSUME TypeOK, NEW r \in Requests, NEW c \in Contract, Contracted(r, c)
  PROVE  page' \in [Pages -> PageType] /\ req' \in [Requests -> ReqType]
<1>1. page \in [Pages -> PageType] /\ req \in [Requests -> ReqType] /\ subs \in Nat
  BY DEF TypeOK
<1>2. Free \in ReqType /\ Asking({c}) \in ReqType
  BY <1>1, FreeTyped, AskingTyped
<1>3. CASE Ends(c)
  BY <1>1, <1>2, <1>3, ToldPages DEF Contracted, Told
<1>4. CASE ~Ends(c)
  BY <1>1, <1>2, <1>4, ToldPages DEF Contracted, Told
<1> QED
  BY <1>3, <1>4

LEMMA FailedTyped ==
  ASSUME TypeOK, NEW r \in Requests, Told(r, FailedPage), req' = [req EXCEPT ![r] = Free]
  PROVE  page' \in [Pages -> PageType] /\ req' \in [Requests -> ReqType]
<1>1. page \in [Pages -> PageType] /\ req \in [Requests -> ReqType] /\ subs \in Nat
  BY DEF TypeOK
<1> QED
  BY <1>1, FreeTyped, ToldPages DEF Told

LEMMA SendsTyped ==
  ASSUME TypeOK, NEW p \in Pages, NEW r \in Requests, NEW m \in ReqType,
         NEW ph \in {"generating", "submitting"}, Sends(p, r, m, ph)
  PROVE  /\ page' \in [Pages -> PageType] /\ req' \in [Requests -> ReqType]
         /\ overlapped' \in BOOLEAN
<1>1. page \in [Pages -> PageType] /\ req \in [Requests -> ReqType]
  BY DEF TypeOK
<1>2. page' \in [Pages -> PageType]
  BY ZenonT(30), <1>1 DEF Sends, PageType
<1>3. req' \in [Requests -> ReqType]
  BY <1>1 DEF Sends
<1>4. overlapped' \in BOOLEAN
  BY DEF Sends
<1> QED
  BY <1>2, <1>3, <1>4

LEMMA RowsTyped ==
  ASSUME TypeOK, Cards, NEW r \in Requests, Writes(r)
  PROVE  grades' \subseteq GradeType
<1>1. req[r] \in ReqType /\ req[r].phase = "analysed" /\ req[r].sub \in 1 .. subs
  BY DEF TypeOK, Writes, Cards, CardOK
<1>2. Grade(r) \in GradeType
  BY <1>1 DEF Grade, GradeType, ReqType, Answer
<1> QED
  BY <1>2 DEF Writes, TypeOK

LEMMA CodeTyping == IInv /\ [Next]_vars => TypeOK'
<1> SUFFICES ASSUME IInv, [Next]_vars PROVE TypeOK'
  OBVIOUS
<1>0. TypeOK /\ Positions /\ Cards
  BY DEF IInv
<1> USE LoopAssumption
<1>1. ASSUME NEW p \in Pages, NEW r \in Requests, Mount(p, r) PROVE TypeOK'
  <2>1. Asking({}) \in ReqType
    BY <1>0, AskingTyped DEF TypeOK
  <2> QED
    BY <1>0, <1>1, <2>1, SendsTyped DEF TypeOK, Mount, rows, counters, ReqType, GradeType
<1>2. ASSUME NEW p \in Pages, NEW r \in Requests, Submit(p, r) PROVE TypeOK'
  <2>1. PICK s \in Codes :
          Sends(p, r, [Free EXCEPT !.phase = "submitted",
                                   !.answer = [challenge |-> page[p].challenge,
                                               index |-> page[p].index, code |-> {s}]],
                "submitting")
    BY <1>2 DEF Submit
  <2>2. [Free EXCEPT !.phase = "submitted",
                     !.answer = [challenge |-> page[p].challenge,
                                 index |-> page[p].index, code |-> {s}]] \in ReqType
    BY <1>0, FreeTyped DEF TypeOK, PageType, ReqType, Answer
  <2> QED
    BY <1>0, <1>2, <2>1, <2>2, SendsTyped
    DEF TypeOK, Submit, rows, counters, ReqType, GradeType
<1>3. ASSUME NEW p \in Pages, Reload(p) PROVE TypeOK'
  BY <1>0, <1>3 DEF TypeOK, Reload, rows, Blank, PageType, ReqType, GradeType
<1>4. ASSUME NEW r \in Requests, Refuses(r) PROVE TypeOK'
  <2>1. page' \in [Pages -> PageType] /\ req' \in [Requests -> ReqType]
    BY <1>0, <1>4, FailedTyped DEF Refuses
  <2> QED
    BY <1>0, <1>4, <2>1 DEF TypeOK, Refuses, rows, counters, ReqType, GradeType
<1>5. ASSUME NEW r \in Requests, Decides(r) PROVE TypeOK'
  <2>1. Chosen(req[r].contract) \in Contract
    BY <1>0, <1>5, ChosenContract DEF Decides
  <2> QED
    BY ZenonT(30), <1>0, <1>5, <2>1 DEF TypeOK, Decides, rows, counters, ReqType, GradeType
<1>6. ASSUME NEW r \in Requests, Authors(r) PROVE TypeOK'
  <2>1. PICK c \in req[r].contract :
          Told(r, LAMBDA q : [q EXCEPT !.phase = "editing", !.challenge = made + 1,
                                       !.index = c.index, !.awaits = {}])
    BY <1>6 DEF Authors, NewChallenge
  <2>2. /\ c.index \in Nat /\ made + 1 \in Nat
        /\ page \in [Pages -> PageType]
    BY <1>0 DEF TypeOK, ReqType, Contract
  <2>3. page' \in [Pages -> PageType]
    <3>1. \A q \in PageType :
            [q EXCEPT !.phase = "editing", !.challenge = made + 1,
                      !.index = c.index, !.awaits = {}] \in PageType
      BY <2>2 DEF PageType
    <3> QED
      BY <2>1, <2>2, <3>1 DEF Told
  <2>4. req' \in [Requests -> ReqType]
    BY <1>0, <1>6, FreeTyped DEF TypeOK, Authors, NewChallenge
  <2> QED
    BY <1>0, <1>6, <2>3, <2>4 DEF TypeOK, Authors, NewChallenge, counters, ReqType, GradeType
<1>7. ASSUME NEW r \in Requests, Recognises(r) PROVE TypeOK'
  <2>1. page' \in [Pages -> PageType] /\ req' \in [Requests -> ReqType]
    BY <1>0, <1>7, OwnContract, ContractedTyped DEF Recognises
  <2> QED
    BY <1>0, <1>7, <2>1 DEF TypeOK, Recognises, rows, counters, ReqType, GradeType
<1>8. ASSUME NEW r \in Requests, Executes(r) PROVE TypeOK'
  <2>1. subs \in Nat /\ subs' = subs + 1
    BY <1>0, <1>8 DEF TypeOK, Executes
  <2>2. /\ 1 .. subs \subseteq 1 .. subs' /\ 0 .. subs \subseteq 0 .. subs'
        /\ subs + 1 \in 0 .. subs'
    BY <2>1
  <2>3. req' \in [Requests -> ReqType']
    BY <1>0, <1>8, <2>2 DEF TypeOK, Executes, ReqType
  <2>4. grades' \subseteq GradeType'
    BY <1>0, <1>8, <2>2 DEF TypeOK, Executes, GradeType
  <2> QED
    BY <1>0, <1>8, <2>1, <2>2, <2>3, <2>4 DEF TypeOK, Executes, counters
<1>9. ASSUME NEW r \in Requests, Extracts(r) PROVE TypeOK'
  <2>1. req[r].sub \in 1 .. subs
    BY <1>0, <1>9 DEF Extracts, Cards, CardOK
  <2> QED
    BY <1>0, <1>9, <2>1 DEF TypeOK, Extracts, counters, ReqType, GradeType
<1>10. ASSUME NEW r \in Requests, Analyses(r) PROVE TypeOK'
  <2>1. Reach(others, Asked, req[r].answer.index)
    BY <1>0, <1>10 DEF Analyses, Positions, ReqOK
  <2>2. ContractOf(Scored \cup {req[r].answer.index}) \in Contract
    BY <1>0, <2>1, NextContract
  <2> QED
    BY ZenonT(30), <1>0, <1>10, <2>2 DEF TypeOK, Analyses, rows, counters, ReqType, GradeType
<1>11. ASSUME NEW r \in Requests, Commits(r) PROVE TypeOK'
  <2>1. PICK c \in req[r].contract : Contracted(r, c)
    BY <1>11 DEF Commits
  <2>2. c \in Contract
    BY <1>0 DEF TypeOK, ReqType
  <2>3. page' \in [Pages -> PageType] /\ req' \in [Requests -> ReqType]
    BY <1>0, <2>1, <2>2, ContractedTyped
  <2>4. grades' \subseteq GradeType /\ req[r].sub \in 1 .. subs
    BY <1>0, <1>11, RowsTyped DEF Commits, Writes, Cards, CardOK
  <2> QED
    BY <1>0, <1>11, <2>3, <2>4 DEF TypeOK, Commits, counters, ReqType, GradeType
<1>12. ASSUME NEW r \in Requests, Fails(r) PROVE TypeOK'
  <2>1. page' \in [Pages -> PageType] /\ req' \in [Requests -> ReqType]
    BY <1>0, <1>12, FailedTyped DEF Fails
  <2> QED
    BY <1>0, <1>12, <2>1 DEF TypeOK, Fails, Fault, rows, ReqType, GradeType
<1>13. ASSUME NEW r \in Requests, CommitsUnheard(r) PROVE TypeOK'
  <2>1. page' \in [Pages -> PageType] /\ req' \in [Requests -> ReqType]
    BY <1>0, <1>13, FailedTyped DEF CommitsUnheard
  <2>2. grades' \subseteq GradeType /\ req[r].sub \in 1 .. subs
    BY <1>0, <1>13, RowsTyped DEF CommitsUnheard, Writes, Cards, CardOK
  <2>3. /\ others' = others /\ carded' = carded /\ subs' = subs /\ made' = made
        /\ overlapped' = overlapped /\ reloads' = reloads
        /\ queued' = queued \cup {req[r].sub} /\ faults' = faults + 1
    BY <1>13 DEF CommitsUnheard, Fault
  <2>4. /\ others' \subseteq Nat /\ carded' \subseteq 1 .. subs' /\ queued' \subseteq 1 .. subs'
        /\ subs' \in Nat /\ made' \in Nat /\ reloads' \in Nat
    BY <1>0, <2>2, <2>3 DEF TypeOK
  <2>7. faults' \in Nat
    BY <1>0, <2>3 DEF TypeOK
  <2>5. overlapped' \in BOOLEAN
    BY <1>0, <2>3 DEF TypeOK
  <2>6. GradeType' = GradeType /\ ReqType' = ReqType
    BY <2>3 DEF GradeType, ReqType
  <2> QED
    BY <2>1, <2>2, <2>4, <2>5, <2>6, <2>7 DEF TypeOK
<1>14. ASSUME NEW n \in 1 .. subs, Upgrades(n) PROVE TypeOK'
  <2>1. grades' \subseteq GradeType
    BY <1>0, <1>14, UpgradeAsksNothing
  <2> QED
    BY <1>0, <1>14, <2>1 DEF TypeOK, Upgrades, counters, ReqType, GradeType
<1>15. ASSUME NEW n \in 1 .. subs, UpgradeFails(n) PROVE TypeOK'
  BY <1>0, <1>15 DEF TypeOK, UpgradeFails, Fault, ReqType, GradeType
<1>16. CASE UNCHANGED vars
  BY <1>0, <1>16 DEF TypeOK, vars, rows, counters, ReqType, GradeType
<1> QED
  BY <1>1, <1>2, <1>3, <1>4, <1>5, <1>6, <1>7, <1>8, <1>9, <1>10, <1>11, <1>12,
     <1>13, <1>14, <1>15, <1>16 DEF Next, Handles

-----------------------------------------------------------------------------
(* More grades leave requests and pages in order.                          *)
LEMMA ReqGrows ==
  ASSUME NEW o, NEW A, NEW B, A \subseteq B, NEW m, ReqOK(o, A, m)
  PROVE  ReqOK(o, B, m)
<1>1. A \cup {m.answer.index} \subseteq B \cup {m.answer.index}
  OBVIOUS
<1> QED
  BY <1>1, ReachGrows DEF ReqOK

LEMMA PageGrows ==
  ASSUME NEW o, NEW A, NEW B, A \subseteq B, NEW q, PageOK(o, A, q)
  PROVE  PageOK(o, B, q)
BY ReachGrows DEF PageOK

LEMMA FreeOK ==
  ASSUME NEW o, NEW A
  PROVE  ReqOK(o, A, Free)
BY DEF ReqOK, Free, NoAnswer

(* A step keeps the positions when it takes no grade back, leaves no gap,  *)
(* and whatever it writes to a request or a page is in order.              *)
LEMMA PositionsStep ==
  ASSUME Positions, others' = others, Asked \subseteq Asked', Shape(others, Asked'),
         \A r \in Requests : req'[r] = req[r] \/ ReqOK(others, Asked', req'[r]),
         \A p \in Pages : page'[p] = page[p] \/ PageOK(others, Asked', page'[p])
  PROVE  Positions'
<1>1. \A r \in Requests : ReqOK(others, Asked', req'[r])
  BY ReqGrows DEF Positions
<1>2. \A p \in Pages : PageOK(others, Asked', page'[p])
  BY PageGrows DEF Positions
<1> QED
  BY <1>1, <1>2 DEF Positions

(* What an error makes of the pages.                                       *)
LEMMA FailedPositions ==
  ASSUME TypeOK, Positions, NEW A, Asked \subseteq A,
         NEW r \in Requests, Told(r, FailedPage)
  PROVE  \A p \in Pages : PageOK(others, A, page'[p])
<1> SUFFICES ASSUME NEW p \in Pages PROVE PageOK(others, A, page'[p])
  OBVIOUS
<1>1. PageOK(others, A, page[p]) /\ page[p] \in PageType
  BY PageGrows DEF Positions, TypeOK
<1>2. page'[p] = FailedPage(page[p]) \/ page'[p] = page[p]
  BY DEF Told
<1>3. PageOK(others, A, FailedPage(page[p]))
  BY <1>1 DEF PageOK, FailedPage, PageType
<1> QED
  BY <1>1, <1>2, <1>3

(* What the reply to a submit makes of pages and requests.                 *)
LEMMA ContractedPositions ==
  ASSUME TypeOK, Positions, NEW A, Asked \subseteq A,
         NEW r \in Requests, NEW c \in Contract, Contracted(r, c),
         ~c.stop => Reach(others, A, c.index)
  PROVE  /\ \A p \in Pages : page'[p] = page[p] \/ PageOK(others, A, page'[p])
         /\ \A s \in Requests : req'[s] = req[s] \/ ReqOK(others, A, req'[s])
<1>0. page \in [Pages -> PageType] /\ req \in [Requests -> ReqType]
  BY DEF TypeOK
<1>1. ReqOK(others, A, Free)
  BY FreeOK
<1>2. ReqOK(others, A, Asking({c}))
  BY DEF ReqOK, Asking, Free
<1>3. \A q \in PageType :
        /\ PageOK(others, A, [q EXCEPT !.phase = "done", !.awaits = {}])
        /\ PageOK(others, A, [q EXCEPT !.phase = "generating"])
  BY DEF PageOK, PageType
<1>4. \A p \in Pages :
        \/ page'[p] = page[p]
        \/ page'[p] = [page[p] EXCEPT !.phase = "done", !.awaits = {}]
        \/ page'[p] = [page[p] EXCEPT !.phase = "generating"]
  BY DEF Contracted, Told
<1>5. \A s \in Requests : \/ req'[s] = req[s] \/ req'[s] = Free
                          \/ req'[s] = Asking({c})
  BY <1>0 DEF Contracted
<1> QED
  BY ZenonT(30), <1>0, <1>1, <1>2, <1>3, <1>4, <1>5

LEMMA PositionsKept == IInv /\ [Next]_vars => Positions'
<1> SUFFICES ASSUME IInv, [Next]_vars PROVE Positions'
  OBVIOUS
<1>0. /\ TypeOK /\ Positions /\ Shape(others, Asked)
      /\ page \in [Pages -> PageType] /\ req \in [Requests -> ReqType]
  BY DEF IInv, Positions, TypeOK
<1>1. ASSUME NEW p \in Pages, NEW r \in Requests, Mount(p, r) PROVE Positions'
  <2>1. ReqOK(others, Asked, Asking({}))
    BY DEF ReqOK, Asking, Free
  <2>2. /\ page' = [page EXCEPT ![p].phase = "generating", ![p].awaits = {r}]
        /\ req' = [req EXCEPT ![r] = Asking({})]
        /\ others' = others /\ Asked' = Asked
    BY <1>1 DEF Mount, Sends, rows, Asked
  <2>3. \A q \in Pages : page'[q] = page[q] \/ PageOK(others, Asked, page'[q])
    BY <1>0, <2>2 DEF PageOK, PageType
  <2> QED
    BY <1>0, <2>1, <2>2, <2>3, PositionsStep
<1>2. ASSUME NEW p \in Pages, NEW r \in Requests, Submit(p, r) PROVE Positions'
  <2>1. PICK s \in Codes :
          Sends(p, r, [Free EXCEPT !.phase = "submitted",
                                   !.answer = [challenge |-> page[p].challenge,
                                               index |-> page[p].index, code |-> {s}]],
                "submitting")
    BY <1>2 DEF Submit
  <2>2. Reach(others, Asked, page[p].index)
    BY <1>0, <1>2 DEF Submit, Positions, PageOK
  <2>3. ReqOK(others, Asked,
              [Free EXCEPT !.phase = "submitted",
                           !.answer = [challenge |-> page[p].challenge,
                                       index |-> page[p].index, code |-> {s}]])
    BY <2>2 DEF ReqOK, Free
  <2>4. others' = others /\ Asked' = Asked
    BY <1>2 DEF Submit, rows, Asked
  <2>5. \A q \in Pages : page'[q] = page[q] \/ PageOK(others, Asked, page'[q])
    BY <1>0, <2>1, <2>2 DEF Sends, PageOK, PageType
  <2>6. \A t \in Requests : req'[t] = req[t] \/ ReqOK(others, Asked, req'[t])
    BY <1>0, <2>1, <2>3 DEF Sends
  <2> QED
    BY <1>0, <2>4, <2>5, <2>6, PositionsStep
<1>3. ASSUME NEW p \in Pages, Reload(p) PROVE Positions'
  <2>1. PageOK(others, Asked, Blank)
    BY DEF PageOK, Blank
  <2>2. /\ page' = [page EXCEPT ![p] = Blank] /\ req' = req
        /\ others' = others /\ Asked' = Asked
    BY <1>3 DEF Reload, rows, Asked
  <2> QED
    BY <1>0, <2>1, <2>2, PositionsStep
<1>4. ASSUME NEW r \in Requests, req' = [req EXCEPT ![r] = Free], Told(r, FailedPage),
             others' = others, Asked \subseteq Asked', Shape(others, Asked')
      PROVE  Positions'
  <2>1. \A p \in Pages : PageOK(others, Asked', page'[p])
    BY <1>0, <1>4, FailedPositions
  <2>2. \A t \in Requests : req'[t] = req[t] \/ ReqOK(others, Asked', req'[t])
    BY <1>0, <1>4, FreeOK
  <2> QED
    BY <1>0, <1>4, <2>1, <2>2, PositionsStep
<1>5. ASSUME NEW r \in Requests, Refuses(r) \/ Fails(r) PROVE Positions'
  <2>1. others' = others /\ Asked' = Asked
    BY <1>5 DEF Refuses, Fails, rows, Asked
  <2> QED
    BY <1>0, <1>4, <1>5, <2>1 DEF Refuses, Fails
<1>6. ASSUME NEW r \in Requests, Decides(r) PROVE Positions'
  <2> DEFINE c == Chosen(req[r].contract)
  <2>1. ~c.stop /\ Reach(others, Asked, c.index)
    BY <1>0, <1>6, ChosenContract DEF Decides
  <2>2. /\ page' = page /\ others' = others /\ Asked' = Asked
        /\ req' = [req EXCEPT ![r].phase = "authoring", ![r].contract = {c}]
    BY <1>6 DEF Decides, rows, Asked
  <2> HIDE DEF c
  <2>3. ReqOK(others, Asked, [req[r] EXCEPT !.phase = "authoring", !.contract = {c}])
    BY <1>0, <2>1 DEF ReqOK, ReqType
  <2>4. \A t \in Requests : req'[t] = req[t] \/ ReqOK(others, Asked, req'[t])
    BY <1>0, <2>2, <2>3
  <2> QED
    BY <1>0, <2>2, <2>4, PositionsStep
<1>7. ASSUME NEW r \in Requests, Authors(r) PROVE Positions'
  <2>1. PICK c \in req[r].contract :
          Told(r, LAMBDA q : [q EXCEPT !.phase = "editing", !.challenge = made + 1,
                                       !.index = c.index, !.awaits = {}])
    BY <1>7 DEF Authors, NewChallenge
  <2>2. Reach(others, Asked, c.index)
    BY <1>0, <1>7 DEF Authors, Positions, ReqOK
  <2>3. others' = others /\ Asked' = Asked /\ req' = [req EXCEPT ![r] = Free]
    BY <1>7 DEF Authors, Asked
  <2>4. \A q \in PageType :
          PageOK(others, Asked, [q EXCEPT !.phase = "editing", !.challenge = made + 1,
                                          !.index = c.index, !.awaits = {}])
    BY <2>2 DEF PageOK, PageType
  <2>5. \A p \in Pages : page'[p] = page[p] \/ PageOK(others, Asked, page'[p])
    BY <1>0, <2>1, <2>4 DEF Told
  <2>6. \A t \in Requests : req'[t] = req[t] \/ ReqOK(others, Asked, req'[t])
    BY <1>0, <2>3, FreeOK
  <2> QED
    BY <1>0, <2>3, <2>5, <2>6, PositionsStep
<1>8. ASSUME NEW r \in Requests, Recognises(r) PROVE Positions'
  <2>1. others' = others /\ Asked' = Asked
    BY <1>8 DEF Recognises, rows, Asked
  <2>2. /\ ContractOf(Scored) \in Contract
        /\ ~ContractOf(Scored).stop =>
             Reach(others, Asked, ContractOf(Scored).index)
    BY <1>0, OwnContract
  <2>3. Contracted(r, ContractOf(Scored))
    BY <1>8 DEF Recognises
  <2>4. /\ \A p \in Pages : page'[p] = page[p] \/ PageOK(others, Asked, page'[p])
        /\ \A t \in Requests : req'[t] = req[t] \/ ReqOK(others, Asked, req'[t])
    BY <1>0, <2>2, <2>3, ContractedPositions
  <2> QED
    BY <1>0, <2>1, <2>4, PositionsStep
<1>9. ASSUME NEW r \in Requests, Executes(r) \/ Extracts(r) PROVE Positions'
  <2>1. page' = page /\ others' = others /\ Asked' = Asked
    BY <1>9 DEF Executes, Extracts, Asked
  <2>2. ReqOK(others, Asked, req'[r])
    <3>1. /\ req[r].phase \in {"submitted", "executed"}
          /\ Reach(others, Asked, req[r].answer.index)
      BY <1>0, <1>9 DEF Executes, Extracts, Positions, ReqOK
    <3>2. /\ req'[r].phase \in {"executed", "carded"}
          /\ req'[r].answer = req[r].answer
      BY <1>0, <1>9 DEF Executes, Extracts, ReqType
    <3> QED
      BY <3>1, <3>2 DEF ReqOK
  <2>3. \A t \in Requests : req'[t] = req[t] \/ ReqOK(others, Asked, req'[t])
    BY <1>0, <1>9, <2>2 DEF Executes, Extracts
  <2> QED
    BY <1>0, <2>1, <2>3, PositionsStep
<1>10. ASSUME NEW r \in Requests, Analyses(r) PROVE Positions'
  <2> DEFINE i == req[r].answer.index
             c == ContractOf(Scored \cup {i})
  <2>1. Reach(others, Asked, i)
    BY <1>0, <1>10 DEF Analyses, Positions, ReqOK
  <2>2. ~c.stop => Reach(others, Asked \cup {i}, c.index)
    BY <1>0, <2>1, NextContract
  <2>3. /\ page' = page /\ others' = others /\ Asked' = Asked
        /\ req' = [req EXCEPT ![r].phase = "analysed", ![r].contract = {c}]
    BY <1>10 DEF Analyses, rows, Asked
  <2> HIDE DEF c
  <2>4. ReqOK(others, Asked, [req[r] EXCEPT !.phase = "analysed", !.contract = {c}])
    BY <1>0, <2>1, <2>2 DEF ReqOK, ReqType
  <2>5. \A t \in Requests : req'[t] = req[t] \/ ReqOK(others, Asked, req'[t])
    BY <1>0, <2>3, <2>4
  <2> QED
    BY <1>0, <2>3, <2>5, PositionsStep
<1>11. ASSUME NEW r \in Requests, Writes(r)
       PROVE  /\ Asked' = Asked \cup {req[r].answer.index}
              /\ Shape(others, Asked')
              /\ \A c \in req[r].contract : ~c.stop => Reach(others, Asked', c.index)
  <2>1. Asked' = Asked \cup {req[r].answer.index}
    BY <1>11, GradeIsAsked
  <2>2. /\ Reach(others, Asked, req[r].answer.index)
        /\ \A c \in req[r].contract :
             ~c.stop => Reach(others, Asked \cup {req[r].answer.index}, c.index)
    BY <1>0, <1>11 DEF Writes, Positions, ReqOK
  <2>3. Shape(others, Asked \cup {req[r].answer.index})
    BY <1>0, <2>2, ShapeGrows
  <2> QED
    BY <2>1, <2>2, <2>3
<1>12. ASSUME NEW r \in Requests, Commits(r) PROVE Positions'
  <2>1. Writes(r) /\ others' = others
    BY <1>12 DEF Commits
  <2>2. PICK c \in req[r].contract : Contracted(r, c)
    BY <1>12 DEF Commits
  <2>3. c \in Contract
    BY <1>0 DEF ReqType
  <2>4. /\ Asked \subseteq Asked' /\ Shape(others, Asked')
        /\ ~c.stop => Reach(others, Asked', c.index)
    BY <1>11, <2>1
  <2>5. /\ \A p \in Pages : page'[p] = page[p] \/ PageOK(others, Asked', page'[p])
        /\ \A t \in Requests : req'[t] = req[t] \/ ReqOK(others, Asked', req'[t])
    BY <1>0, <2>2, <2>3, <2>4, ContractedPositions
  <2> QED
    BY <1>0, <2>1, <2>4, <2>5, PositionsStep
<1>13. ASSUME NEW r \in Requests, CommitsUnheard(r) PROVE Positions'
  <2>1. /\ Writes(r) /\ others' = others /\ Told(r, FailedPage)
        /\ req' = [req EXCEPT ![r] = Free]
    BY <1>13 DEF CommitsUnheard
  <2>2. Asked \subseteq Asked' /\ Shape(others, Asked')
    BY <1>11, <2>1
  <2> QED
    BY <1>4, <2>1, <2>2
<1>14. ASSUME NEW n \in 1 .. subs, Upgrades(n) PROVE Positions'
  <2>1. /\ Asked' = Asked /\ others' = others
        /\ page' = page /\ req' = req
    BY <1>0, <1>14, UpgradeAsksNothing DEF Upgrades
  <2> QED
    BY <1>0, <2>1, PositionsStep
<1>15. ASSUME NEW n \in 1 .. subs, UpgradeFails(n) PROVE Positions'
  <2>1. /\ Asked' = Asked /\ others' = others
        /\ page' = page /\ req' = req
    BY <1>15 DEF UpgradeFails, Asked
  <2> QED
    BY <1>0, <2>1, PositionsStep
<1>16. CASE UNCHANGED vars
  <2>1. /\ Asked' = Asked /\ others' = others
        /\ page' = page /\ req' = req
    BY <1>16 DEF vars, rows, Asked
  <2> QED
    BY <1>0, <2>1, PositionsStep
<1> QED
  BY <1>1, <1>2, <1>3, <1>5, <1>6, <1>7, <1>8, <1>9, <1>10, <1>12, <1>13, <1>14,
     <1>15, <1>16 DEF Next, Handles

-----------------------------------------------------------------------------
(* A step keeps the cards when none is lost, new grades have theirs, and   *)
(* the one request it writes to is in order.                               *)
LEMMA CardsStep ==
  ASSUME Cards, subs \in Nat, subs' \in Nat, subs <= subs', carded \subseteq carded',
         \A g \in grades' : (\E h \in grades : h.sub = g.sub) \/ g.sub \in carded',
         \A r \in Requests : req'[r] = req[r] \/ CardOK(subs', carded', req'[r])
  PROVE  Cards'
<1>1. \A g \in grades' : g.sub \in carded'
  BY DEF Cards, GradesHaveCards
<1>2. 1 .. subs \subseteq 1 .. subs'
  OBVIOUS
<1>3. \A r \in Requests : CardOK(subs', carded', req'[r])
  BY <1>2 DEF Cards, CardOK
<1> QED
  BY <1>1, <1>3 DEF Cards, GradesHaveCards

LEMMA CardsKept == IInv /\ [Next]_vars => Cards'
<1> SUFFICES ASSUME IInv, [Next]_vars PROVE Cards'
  OBVIOUS
<1>0. /\ TypeOK /\ Cards /\ subs \in Nat
      /\ req \in [Requests -> ReqType] /\ grades \subseteq GradeType
  BY DEF IInv, TypeOK
<1>1. \A n, C : CardOK(n, C, Free)
  BY DEF CardOK, Free
<1>2. \A n, C, S : CardOK(n, C, Asking(S))
  BY DEF CardOK, Asking, Free
<1>3. ASSUME NEW p \in Pages, NEW r \in Requests, Mount(p, r) \/ Submit(p, r) PROVE Cards'
  <2>1. UNCHANGED <<grades, carded, subs>>
    BY <1>3 DEF Mount, Submit, rows
  <2>2. \A t \in Requests :
          req'[t] = req[t] \/ req'[t].phase \in {"asked", "submitted"}
    BY <1>0, <1>3 DEF Mount, Submit, Sends, Asking, Free
  <2> QED
    BY <1>0, <2>1, <2>2, CardsStep DEF CardOK
<1>4. ASSUME NEW p \in Pages, Reload(p) PROVE Cards'
  BY <1>0, <1>4, CardsStep DEF Reload, rows
<1>5. ASSUME NEW r \in Requests, Refuses(r) \/ Authors(r) \/ Fails(r) PROVE Cards'
  <2>1. UNCHANGED <<grades, carded, subs>> /\ req' = [req EXCEPT ![r] = Free]
    BY <1>5 DEF Refuses, Authors, Fails, rows
  <2> QED
    BY <1>0, <1>1, <2>1, CardsStep
<1>6. ASSUME NEW r \in Requests, Decides(r) PROVE Cards'
  <2>1. UNCHANGED <<grades, carded, subs>>
    BY <1>6 DEF Decides, rows
  <2>2. \A t \in Requests : req'[t] = req[t] \/ req'[t].phase = "authoring"
    BY <1>0, <1>6 DEF Decides, ReqType
  <2> QED
    BY <1>0, <2>1, <2>2, CardsStep DEF CardOK
<1>7. ASSUME NEW r \in Requests, NEW c, Contracted(r, c)
      PROVE  \A t \in Requests :
               req'[t] = req[t] \/ \A n, C : CardOK(n, C, req'[t])
  BY <1>0, <1>1, <1>2, <1>7 DEF Contracted
<1>8. ASSUME NEW r \in Requests, Recognises(r) PROVE Cards'
  <2>1. UNCHANGED <<grades, carded, subs>> /\ Contracted(r, ContractOf(Scored))
    BY <1>8 DEF Recognises, rows
  <2>2. \A t \in Requests : req'[t] = req[t] \/ CardOK(subs', carded', req'[t])
    BY <1>7, <2>1
  <2> QED
    BY <1>0, <2>1, <2>2, CardsStep
<1>9. ASSUME NEW r \in Requests, Executes(r) PROVE Cards'
  <2>1. subs' = subs + 1 /\ grades' = grades /\ carded' = carded
    BY <1>9 DEF Executes
  <2>2. req'[r].phase = "executed" /\ req'[r].sub = subs'
    BY <1>0, <1>9, <2>1 DEF Executes, ReqType
  <2>3. CardOK(subs', carded', req'[r])
    BY <1>0, <2>1, <2>2 DEF CardOK
  <2>4. \A t \in Requests : req'[t] = req[t] \/ CardOK(subs', carded', req'[t])
    BY <1>0, <1>9, <2>3 DEF Executes
  <2> QED
    BY <1>0, <2>1, <2>4, CardsStep
<1>10. ASSUME NEW r \in Requests, Extracts(r) PROVE Cards'
  <2>1. /\ subs' = subs /\ grades' = grades /\ carded' = carded \cup {req[r].sub}
        /\ req[r].sub \in 1 .. subs
    BY <1>0, <1>10 DEF Extracts, Cards, CardOK
  <2>2. req'[r].phase = "carded" /\ req'[r].sub = req[r].sub
    BY <1>0, <1>10 DEF Extracts, ReqType
  <2>3. CardOK(subs', carded', req'[r])
    BY <2>1, <2>2 DEF CardOK
  <2>4. \A t \in Requests : req'[t] = req[t] \/ CardOK(subs', carded', req'[t])
    BY <1>0, <1>10, <2>3 DEF Extracts
  <2> QED
    BY <1>0, <2>1, <2>4, CardsStep
<1>11. ASSUME NEW r \in Requests, Analyses(r) PROVE Cards'
  <2>1. UNCHANGED <<grades, carded, subs>>
    BY <1>11 DEF Analyses, rows
  <2>2. /\ req[r].sub \in 1 .. subs /\ req[r].sub \in carded
        /\ req'[r].sub = req[r].sub
    BY <1>0, <1>11 DEF Analyses, Cards, CardOK, ReqType
  <2>3. \A t \in Requests : req'[t] = req[t] \/ CardOK(subs', carded', req'[t])
    BY <1>0, <1>11, <2>1, <2>2 DEF Analyses, CardOK
  <2> QED
    BY <1>0, <2>1, <2>3, CardsStep
<1>12. ASSUME NEW r \in Requests, Writes(r)
       PROVE  \A g \in grades' : (\E h \in grades : h.sub = g.sub) \/ g.sub \in carded
  <2>1. req[r].sub \in carded
    BY <1>0, <1>12 DEF Writes, Cards, CardOK
  <2>2. grades' = grades \cup {Grade(r)} /\ Grade(r).sub = req[r].sub
    BY <1>12 DEF Writes, Grade
  <2> QED
    BY <2>1, <2>2
<1>13. ASSUME NEW r \in Requests, Commits(r) PROVE Cards'
  <2>1. PICK c \in req[r].contract : Contracted(r, c)
    BY <1>13 DEF Commits
  <2>2. Writes(r) /\ carded' = carded /\ subs' = subs
    BY <1>13 DEF Commits
  <2>3. \A t \in Requests : req'[t] = req[t] \/ CardOK(subs', carded', req'[t])
    BY <1>7, <2>1
  <2> QED
    BY <1>0, <1>12, <2>2, <2>3, CardsStep
<1>14. ASSUME NEW r \in Requests, CommitsUnheard(r) PROVE Cards'
  <2>1. /\ Writes(r) /\ carded' = carded /\ subs' = subs
        /\ req' = [req EXCEPT ![r] = Free]
    BY <1>14 DEF CommitsUnheard
  <2> QED
    BY <1>0, <1>1, <1>12, <2>1, CardsStep
<1>15. ASSUME NEW n \in 1 .. subs, Upgrades(n) PROVE Cards'
  <2>1. GradesHaveCards' /\ UNCHANGED <<carded, subs, req>>
    BY <1>0, <1>15, UpgradeAsksNothing DEF Upgrades, Cards
  <2> QED
    BY <1>0, <2>1 DEF Cards
<1>16. ASSUME NEW n \in 1 .. subs, UpgradeFails(n) PROVE Cards'
  BY <1>0, <1>16, CardsStep DEF UpgradeFails
<1>17. CASE UNCHANGED vars
  BY <1>0, <1>17, CardsStep DEF vars, rows
<1> QED
  BY <1>3, <1>4, <1>5, <1>6, <1>8, <1>9, <1>10, <1>11, <1>13, <1>14, <1>15, <1>16,
     <1>17 DEF Next, Handles

-----------------------------------------------------------------------------
LEMMA LoopInit == Init => IInv
<1> SUFFICES ASSUME Init PROVE IInv
  OBVIOUS
<1> USE LoopAssumption
<1>1. TypeOK
  <2>1. Free \in ReqType /\ Blank \in PageType
    BY FreeTyped DEF Init, Blank, PageType
  <2>2. others \subseteq Nat
    BY DEF Init
  <2> QED
    BY <2>1, <2>2 DEF Init, TypeOK
<1>2. Positions
  <2>1. Asked = {} /\ Bounded(others)
    BY DEF Init, Asked, Bounded
  <2>2. PageOK(others, Asked, Blank)
    BY DEF PageOK, Blank
  <2> QED
    BY <2>1, <2>2, FreeOK DEF Init, Positions, Shape
<1>3. Cards
  BY DEF Init, Cards, GradesHaveCards, CardOK, Free
<1> QED
  BY <1>1, <1>2, <1>3 DEF IInv

LEMMA LoopInductive == Spec => []IInv
<1>1. IInv /\ [Next]_vars => IInv'
  BY CodeTyping, PositionsKept, CardsKept DEF IInv
<1> QED
  BY LoopInit, <1>1, PTL DEF Spec

(* Rows, requests and pages keep their shape; in particular the position   *)
(* computed for the next question is a number, and a grade is always of a  *)
(* submission there is (compute_adaptive_contract, adaptive_submit).       *)
THEOREM CodeLoopTypeCorrect == Spec => []TypeOK
BY LoopInductive, PTL DEF IInv

(* However many pages, submits, reloads and retries overlap, the coding    *)
(* questions follow those of the other tools without a gap, and none is    *)
(* graded beyond the budget (compute_adaptive_contract, generate_challenge). *)
THEOREM PositionsAlwaysInBudget == Spec => []PositionsInBudget
<1>1. Positions => PositionsInBudget
  <2> SUFFICES ASSUME Positions PROVE PositionsInBudget
    OBVIOUS
  <2> DEFINE b == NextIndex(others)
             n == NextIndex(others \cup Asked)
  <2>1. \A i \in Asked : /\ i \in Nat /\ b <= i /\ b .. (i - 1) \subseteq Asked
                         /\ Cardinality(others) + (i - b) < Budget
    BY DEF Positions, Shape, Reach
  <2>2. /\ b \in Nat /\ Cardinality(others) \in Nat /\ Budget \in Nat
    BY BaseOfOthers, LoopAssumption DEF Positions
  <2>3. /\ n \in Nat /\ b <= n /\ Asked = b .. (n - 1)
        /\ Cardinality(Scored) = Cardinality(others) + (n - b)
    BY ShapeIsInterval DEF Positions, Scored
  <2> HIDE DEF b, n
  <2>4. ASSUME NEW i \in Asked PROVE b .. i \subseteq Asked
    <3>1. \A j \in b .. i : j = i \/ j \in b .. (i - 1)
      BY <2>1, <2>2
    <3> QED
      BY <2>1, <3>1
  <2>5. ASSUME grades # {} PROVE Cardinality(Scored) <= Budget
    <3>1. PICK i \in Asked : TRUE
      BY <2>5 DEF Asked
    <3>2. n - 1 \in Asked
      BY <2>1, <2>2, <2>3, <3>1
    <3>3. Cardinality(others) + ((n - 1) - b) < Budget
      BY <2>1, <3>2
    <3>4. Cardinality(others) + (n - b) <= Budget
      BY <2>2, <2>3, <3>3
    <3> QED
      BY <2>3, <3>4
  <2> QED
    BY <2>4, <2>5 DEF PositionsInBudget, b
<1> QED
  BY <1>1, LoopInductive, PTL DEF IInv

(* Whatever fails or is lost between the three commits of a submit, every  *)
(* grade has its evidence card (extract_memory_card, run_adaptive_loop_fast). *)
THEOREM GradesAlwaysHaveCards == Spec => []GradesHaveCards
BY LoopInductive, PTL DEF IInv, Cards

(* Both: however requests overlap, fail or are sent again, what is stored   *)
(* of graded answers hangs together (adaptive_submit).                     *)
THEOREM GradesAlwaysSound == Spec => []GradesSound
BY PositionsAlwaysInBudget, GradesAlwaysHaveCards, PTL DEF GradesSound

-----------------------------------------------------------------------------
(* Requests that do not overlap: what the one request in flight goes by is  *)
(* what the rows say -- its solution is not graded yet, its contract names  *)
(* the next position, its challenge will be for one nobody has answered.    *)
AloneOK(G, S, m) ==
  /\ m.phase \in {"executed", "carded", "analysed"} => \A g \in G : g.answer # m.answer
  /\ m.phase = "asked" => \A c \in m.contract : c.index = NextIndex(S)
  /\ m.phase = "authoring" => \A c \in m.contract : c.index \notin S
  /\ m.phase = "analysed" =>
       \A c \in m.contract : c.index = NextIndex(S \cup {m.answer.index})

AnswersApart == \A g, h \in grades : g.answer = h.answer => g.sub = h.sub

Alone ==
  ~overlapped =>
    /\ \A r, t \in InFlight : r = t
    /\ AnswersApart
    /\ \A r \in Requests : AloneOK(grades, Scored, req[r])

AInv == IInv /\ Alone

LEMMA FreeIsAlone == \A G, S : AloneOK(G, S, Free)
BY DEF AloneOK, Free

(* The request that acts is the only one there is.                         *)
LEMMA OthersFree ==
  ASSUME Alone, ~overlapped, NEW r \in Requests, req[r].phase # "free"
  PROVE  \A t \in Requests : t # r => req[t].phase = "free"
BY DEF Alone, InFlight

LEMMA AloneStep ==
  ASSUME NEW r \in Requests,
         ~overlapped' =>
           /\ \A t \in Requests : t # r => req'[t].phase = "free"
           /\ AnswersApart'
           /\ AloneOK(grades', Scored', req'[r])
  PROVE  Alone'
<1> SUFFICES ASSUME ~overlapped'
             PROVE  /\ \A s, t \in InFlight' : s = t
                    /\ AnswersApart'
                    /\ \A t \in Requests : AloneOK(grades', Scored', req'[t])
  BY DEF Alone
<1>1. \A t \in InFlight' : t = r
  BY DEF InFlight
<1>2. \A t \in Requests : t # r => AloneOK(grades', Scored', req'[t])
  BY DEF AloneOK
<1> QED
  BY <1>1, <1>2

(* A step of request r that leaves the rows as they are.                   *)
LEMMA AloneHandler ==
  ASSUME Alone, NEW r \in Requests, req[r].phase # "free",
         UNCHANGED <<grades, others, overlapped>>,
         \A t \in Requests : t # r => req'[t] = req[t],
         ~overlapped => AloneOK(grades, Scored, req'[r])
  PROVE  Alone'
<1>1. Scored' = Scored /\ (AnswersApart' <=> AnswersApart)
  BY DEF Scored, Asked, AnswersApart
<1>2. ~overlapped => \A t \in Requests : t # r => req'[t].phase = "free"
  BY OthersFree
<1>3. ~overlapped => AnswersApart
  BY DEF Alone
<1> QED
  BY <1>1, <1>2, <1>3, AloneStep

LEMMA OwnIndexFresh ==
  ASSUME Positions
  PROVE  NextIndex(Scored) \notin Scored
<1>1. /\ NextIndex(others \cup Asked) \in Nat
      /\ NextIndex(others) <= NextIndex(others \cup Asked)
      /\ Asked = NextIndex(others) .. (NextIndex(others \cup Asked) - 1)
  BY ShapeIsInterval DEF Positions
<1>2. /\ NextIndex(others) \in Nat /\ others \subseteq Nat
      /\ \A m \in others : m < NextIndex(others)
  BY BaseOfOthers DEF Positions
<1> QED
  BY <1>1, <1>2 DEF Scored

(* A contract that agrees with the rows about the position changes nothing. *)
LEMMA ChosenIsOwn ==
  ASSUME NEW P, \A c \in P : c.index = NextIndex(Scored)
  PROVE  Chosen(P).index = NextIndex(Scored)
BY DEF Chosen, ContractOf

(* The reply to a submit whose contract is computed from all the rows.      *)
LEMMA ContractedAlone ==
  ASSUME req \in [Requests -> ReqType], NEW r \in Requests, NEW G, NEW S, NEW c,
         c.index = NextIndex(S), Contracted(r, c)
  PROVE  /\ \A t \in Requests : t # r => req'[t] = req[t]
         /\ AloneOK(G, S, req'[r])
<1>1. PICK m : req' = [req EXCEPT ![r] = m] /\ m \in {Free, Asking({c})}
  BY DEF Contracted
<1>2. req'[r] = m /\ \A t \in Requests : t # r => req'[t] = req[t]
  BY <1>1
<1>3. Asking({c}).phase = "asked" /\ Asking({c}).contract = {c}
  BY DEF Asking, Free
<1>4. AloneOK(G, S, Asking({c}))
  BY <1>3 DEF AloneOK
<1> QED
  BY <1>1, <1>2, <1>4, FreeIsAlone

(* What a submit that nothing overtook writes is a new answer, and its      *)
(* contract names the position after it.                                   *)
LEMMA WritesAlone ==
  ASSUME Alone, ~overlapped, NEW r \in Requests, Writes(r), others' = others
  PROVE  /\ AnswersApart'
         /\ \A c \in req[r].contract : c.index = NextIndex(Scored')
<1>1. grades' = grades \cup {Grade(r)} /\ Grade(r).answer = req[r].answer
  BY DEF Writes, Grade
<1>2. /\ AnswersApart
      /\ \A g \in grades : g.answer # req[r].answer
      /\ \A c \in req[r].contract : c.index = NextIndex(Scored \cup {req[r].answer.index})
  BY DEF Alone, AloneOK, Writes
<1>3. Scored' = Scored \cup {req[r].answer.index}
  BY GradeIsAsked DEF Scored
<1>4. AnswersApart'
  BY <1>1, <1>2 DEF AnswersApart
<1> QED
  BY <1>2, <1>3, <1>4

LEMMA AloneKept == AInv /\ [Next]_vars => Alone'
<1> SUFFICES ASSUME AInv, [Next]_vars PROVE Alone'
  OBVIOUS
<1>0. /\ IInv /\ Alone /\ TypeOK /\ Positions
      /\ req \in [Requests -> ReqType] /\ overlapped \in BOOLEAN
  BY DEF AInv, IInv, TypeOK
<1>1. ASSUME NEW p \in Pages, NEW r \in Requests, Mount(p, r) \/ Submit(p, r)
      PROVE  Alone'
  <2>1. UNCHANGED rows /\ overlapped' = (overlapped \/ InFlight # {})
    BY <1>1 DEF Mount, Submit, Sends
  <2>2. /\ req'[r].phase \in {"asked", "submitted"} /\ req'[r].contract = {}
        /\ \A t \in Requests : t # r => req'[t] = req[t]
    BY <1>0, <1>1 DEF Mount, Submit, Sends, Asking, Free
  <2>3. AloneOK(grades', Scored', req'[r])
    BY <2>2 DEF AloneOK
  <2>4. ~overlapped' => \A t \in Requests : req[t].phase = "free"
    BY <2>1 DEF InFlight
  <2>5. ~overlapped' => AnswersApart'
    BY <1>0, <2>1 DEF rows, Alone, AnswersApart
  <2> QED
    BY <2>2, <2>3, <2>4, <2>5, AloneStep
<1>2. ASSUME UNCHANGED <<grades, others, overlapped, req>> PROVE Alone'
  BY <1>0, <1>2 DEF Alone, AnswersApart, InFlight, Scored, Asked
<1>3. ASSUME NEW r \in Requests, Refuses(r) \/ Authors(r) \/ Fails(r) PROVE Alone'
  <2>1. /\ UNCHANGED <<grades, others, overlapped>> /\ req[r].phase # "free"
        /\ req' = [req EXCEPT ![r] = Free]
    BY <1>3 DEF Refuses, Authors, Fails, rows
  <2> QED
    BY <1>0, <2>1, FreeIsAlone, AloneHandler
<1>4. ASSUME NEW r \in Requests, Decides(r) PROVE Alone'
  <2> DEFINE c == Chosen(req[r].contract)
  <2>1. /\ UNCHANGED <<grades, others, overlapped>> /\ req[r].phase = "asked"
        /\ req' = [req EXCEPT ![r].phase = "authoring", ![r].contract = {c}]
    BY <1>4 DEF Decides, rows
  <2>2. ~overlapped => c.index \notin Scored
    BY <1>0, <2>1, OwnIndexFresh, ChosenIsOwn DEF Alone, AloneOK
  <2> HIDE DEF c
  <2>3. req'[r].phase = "authoring" /\ req'[r].contract = {c}
    BY <1>0, <2>1 DEF ReqType
  <2>4. ~overlapped => AloneOK(grades, Scored, req'[r])
    BY <2>2, <2>3 DEF AloneOK
  <2> QED
    BY <1>0, <2>1, <2>4, AloneHandler
<1>5. ASSUME NEW r \in Requests, Recognises(r) PROVE Alone'
  <2>1. /\ UNCHANGED <<grades, others, overlapped>> /\ req[r].phase # "free"
        /\ Contracted(r, ContractOf(Scored))
    BY <1>5 DEF Recognises, rows
  <2>2. ContractOf(Scored).index = NextIndex(Scored)
    BY DEF ContractOf
  <2>3. /\ \A t \in Requests : t # r => req'[t] = req[t]
        /\ AloneOK(grades, Scored, req'[r])
    BY <1>0, <2>1, <2>2, ContractedAlone
  <2> QED
    BY <1>0, <2>1, <2>3, AloneHandler
<1>6. ASSUME NEW r \in Requests, Executes(r) \/ Extracts(r) PROVE Alone'
  <2>1. /\ UNCHANGED <<grades, others, overlapped>> /\ req[r].phase # "free"
        /\ \A t \in Requests : t # r => req'[t] = req[t]
    BY <1>0, <1>6 DEF Executes, Extracts
  <2>2. /\ req'[r].phase \in {"executed", "carded"}
        /\ req'[r].answer = req[r].answer
        /\ req[r].phase = "executed" \/ ~Graded(req[r].answer)
    BY <1>0, <1>6 DEF Executes, Extracts, ReqType
  <2>3. ~overlapped => \A g \in grades : g.answer # req[r].answer
    BY <1>0, <2>2 DEF Alone, AloneOK, Graded
  <2>4. ~overlapped => AloneOK(grades, Scored, req'[r])
    BY <2>2, <2>3 DEF AloneOK
  <2> QED
    BY <1>0, <2>1, <2>4, AloneHandler
<1>7. ASSUME NEW r \in Requests, Analyses(r) PROVE Alone'
  <2> DEFINE c == ContractOf(Scored \cup {req[r].answer.index})
  <2>1. /\ UNCHANGED <<grades, others, overlapped>> /\ req[r].phase = "carded"
        /\ req' = [req EXCEPT ![r].phase = "analysed", ![r].contract = {c}]
    BY <1>7 DEF Analyses, rows
  <2>2. c.index = NextIndex(Scored \cup {req[r].answer.index})
    BY DEF ContractOf
  <2> HIDE DEF c
  <2>3. /\ req'[r].phase = "analysed" /\ req'[r].contract = {c}
        /\ req'[r].answer = req[r].answer
        /\ \A t \in Requests : t # r => req'[t] = req[t]
    BY <1>0, <2>1 DEF ReqType
  <2>4. ~overlapped => \A g \in grades : g.answer # req[r].answer
    BY <1>0, <2>1 DEF Alone, AloneOK
  <2>5. ~overlapped => AloneOK(grades, Scored, req'[r])
    BY <2>2, <2>3, <2>4 DEF AloneOK
  <2> QED
    BY <1>0, <2>1, <2>3, <2>5, AloneHandler
<1>8. ASSUME NEW r \in Requests, Commits(r) PROVE Alone'
  <2>1. Writes(r) /\ others' = others /\ overlapped' = overlapped
    BY <1>8 DEF Commits
  <2>2. PICK c \in req[r].contract : Contracted(r, c)
    BY <1>8 DEF Commits
  <2>3. ASSUME ~overlapped
        PROVE  /\ \A t \in Requests : t # r => req'[t].phase = "free"
               /\ AnswersApart'
               /\ AloneOK(grades', Scored', req'[r])
    <3>1. AnswersApart' /\ c.index = NextIndex(Scored')
      BY <1>0, <2>1, <2>3, WritesAlone
    <3>2. /\ \A t \in Requests : t # r => req'[t] = req[t]
          /\ AloneOK(grades', Scored', req'[r])
      BY <1>0, <2>2, <3>1, ContractedAlone
    <3>3. \A t \in Requests : t # r => req[t].phase = "free"
      BY <1>0, <2>1, <2>3, OthersFree DEF Writes
    <3> QED
      BY <3>1, <3>2, <3>3
  <2> QED
    BY <2>1, <2>3, AloneStep
<1>9. ASSUME NEW r \in Requests, CommitsUnheard(r) PROVE Alone'
  <2>1. /\ Writes(r) /\ others' = others /\ overlapped' = overlapped
        /\ req' = [req EXCEPT ![r] = Free]
    BY <1>9 DEF CommitsUnheard
  <2>2. ASSUME ~overlapped
        PROVE  /\ \A t \in Requests : t # r => req'[t].phase = "free"
               /\ AnswersApart'
               /\ AloneOK(grades', Scored', req'[r])
    <3>1. AnswersApart'
      BY <1>0, <2>1, <2>2, WritesAlone
    <3>2. \A t \in Requests : t # r => req[t].phase = "free"
      BY <1>0, <2>1, <2>2, OthersFree DEF Writes
    <3> QED
      BY <1>0, <2>1, <3>1, <3>2, FreeIsAlone
  <2> QED
    BY <2>1, <2>2, AloneStep
<1>10. ASSUME NEW n \in 1 .. subs, Upgrades(n) PROVE Alone'
  <2> DEFINE up(g) == IF g.sub = n THEN [g EXCEPT !.rubric = "llm"] ELSE g
  <2>1. grades' = {up(g) : g \in grades} /\ UNCHANGED <<others, req, overlapped>>
    BY <1>10 DEF Upgrades
  <2>2. \A g \in grades : up(g).sub = g.sub /\ up(g).answer = g.answer
    BY <1>0 DEF TypeOK, GradeType
  <2>3. Scored' = Scored /\ InFlight' = InFlight
    BY <1>0, <1>10, <2>1, UpgradeAsksNothing DEF Scored, InFlight
  <2> HIDE DEF up
  <2>4. AnswersApart => AnswersApart'
    BY <2>1, <2>2 DEF AnswersApart
  <2>5. \A S, m : AloneOK(grades, S, m) => AloneOK(grades', S, m)
    BY <2>1, <2>2 DEF AloneOK
  <2> QED
    BY <1>0, <2>1, <2>3, <2>4, <2>5 DEF Alone
<1>11. ASSUME NEW p \in Pages, Reload(p) PROVE Alone'
  BY <1>2, <1>11 DEF Reload, rows
<1>12. ASSUME NEW n \in 1 .. subs, UpgradeFails(n) PROVE Alone'
  BY <1>2, <1>12 DEF UpgradeFails
<1>13. CASE UNCHANGED vars
  BY <1>2, <1>13 DEF vars, rows
<1> QED
  BY <1>1, <1>3, <1>4, <1>5, <1>6, <1>7, <1>8, <1>9, <1>10, <1>11, <1>12, <1>13
     DEF Next, Handles

LEMMA AloneInductive == Spec => []AInv
<1>1. Init => AInv
  <2> SUFFICES ASSUME Init PROVE AInv
    OBVIOUS
  <2>1. Alone
    BY FreeIsAlone DEF Init, Alone, AnswersApart, InFlight, Free
  <2> QED
    BY <2>1, LoopInit DEF AInv
<1>2. AInv /\ [Next]_vars => AInv'
  BY CodeTyping, PositionsKept, CardsKept, AloneKept DEF AInv, IInv
<1> QED
  BY <1>1, <1>2, PTL DEF Spec

(* As long as no two requests are in flight together, the same solution of  *)
(* a challenge is graded once, however many replies are lost and pages      *)
(* reloaded (_find_idempotent_adaptive_submission).                        *)
THEOREM AlwaysGradedOnce == Spec => []GradedOnce
<1>1. AInv => GradedOnce
  BY DEF AInv, Alone, AnswersApart, GradedOnce
<1> QED
  BY AloneInductive, <1>1, PTL

(* A page that gets a challenge gets it from the request that wrote it.     *)
LEMMA ChallengeIsAuthored ==
  ASSUME TypeOK, [Next]_vars, NEW p \in Pages,
         page[p].phase = "generating", page'[p].phase = "editing"
  PROVE  \E r \in Requests : /\ req[r].phase = "authoring"
                             /\ overlapped' = overlapped
                             /\ \E c \in req[r].contract : page'[p].index = c.index
<1>0. page \in [Pages -> PageType]
  BY DEF TypeOK
<1>1. page' # page
  OBVIOUS
<1>2. ASSUME NEW o \in Pages, NEW r \in Requests, Mount(o, r) \/ Submit(o, r) PROVE FALSE
  BY <1>0, <1>2 DEF Mount, Submit, Sends, PageType
<1>3. ASSUME NEW o \in Pages, Reload(o) PROVE FALSE
  BY <1>0, <1>3 DEF Reload, Blank
<1>4. ASSUME NEW r \in Requests, Told(r, FailedPage) PROVE FALSE
  BY <1>0, <1>4 DEF Told, FailedPage, PageType
<1>5. ASSUME NEW r \in Requests, NEW c, Contracted(r, c) PROVE FALSE
  <2>1. \A q \in PageType : /\ [q EXCEPT !.phase = "done", !.awaits = {}].phase = "done"
                            /\ [q EXCEPT !.phase = "generating"].phase = "generating"
    BY DEF PageType
  <2>2. page'[p] \in {page[p], [page[p] EXCEPT !.phase = "done", !.awaits = {}],
                      [page[p] EXCEPT !.phase = "generating"]}
    BY <1>5 DEF Contracted, Told
  <2> QED
    BY <1>0, <2>1, <2>2
<1>6. ASSUME NEW r \in Requests, Authors(r)
      PROVE  \E c \in req[r].contract : page'[p].index = c.index
  <2>1. PICK c \in req[r].contract :
          page' = [o \in Pages |->
                     IF o \in Waiting(r)
                       THEN [page[o] EXCEPT !.phase = "editing", !.challenge = NewChallenge,
                                            !.index = c.index, !.awaits = {}]
                       ELSE page[o]]
    BY <1>6 DEF Authors, Told
  <2>2. p \in Waiting(r)
    BY <2>1
  <2>3. page'[p].index = c.index
    BY <1>0, <2>1, <2>2 DEF PageType
  <2> QED
    BY <2>3
<1>7. ASSUME NEW r \in Requests, Authors(r)
      PROVE  req[r].phase = "authoring" /\ overlapped' = overlapped
  BY <1>7 DEF Authors
<1> QED
  BY <1>1, <1>2, <1>3, <1>4, <1>5, <1>6, <1>7
     DEF Next, Handles, Refuses, Decides, Recognises, Executes, Extracts, Analyses,
         Commits, Fails, CommitsUnheard, Upgrades, UpgradeFails, vars

(* As long as no two requests are in flight together, a challenge that      *)
(* appears on a page is for a position nobody has answered, whatever        *)
(* contract the page sent along (generate_challenge).                      *)
THEOREM AlwaysAskedFresh == Spec => AskedFresh
<1>1. ASSUME AInv, [Next]_vars, ~overlapped', NEW p \in Pages,
             page[p].phase = "generating", page'[p].phase = "editing"
      PROVE  page'[p].index \notin Scored
  <2>1. PICK r \in Requests : /\ req[r].phase = "authoring"
                              /\ overlapped' = overlapped
                              /\ \E c \in req[r].contract : page'[p].index = c.index
    BY <1>1, ChallengeIsAuthored DEF AInv, IInv
  <2> QED
    BY <1>1, <2>1 DEF AInv, Alone, AloneOK
<1>2. AInv /\ [Next]_vars =>
        [~overlapped' => \A p \in Pages :
           page[p].phase = "generating" /\ page'[p].phase = "editing" =>
             page'[p].index \notin Scored]_vars
  BY <1>1
<1> QED
  BY AloneInductive, <1>2, PTL DEF Spec, AskedFresh

=============================================================================
