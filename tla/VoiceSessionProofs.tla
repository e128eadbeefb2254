------------------------- MODULE VoiceSessionProofs -------------------------
(* What holds of the voice tool for any number of questions, voice         *)
(* sessions, audio frames and faults.                                      *)
EXTENDS VoiceSession, TLAPS

(* The page waits for the answer to the question it shows.                 *)
PageJob == page.phase = "submitting" => job[page.id].index = page.index

(* What is not recorded yet is not processed either.                       *)
Fresh ==
  /\ \A v \in Ids : v > created => job[v] = NoJob
  /\ page.phase = "ready" => job[page.id] = NoJob

(* Who was told that the stream is over was told the truth, and it stays   *)
(* so.                                                                     *)
ToldOver == \A v \in Ids : job[v].told => stream[v].phase = "over"

(* The grade of an answer is there before anything that follows it.        *)
GradeThere ==
  \A v \in Ids : job[v].phase \in {"graded", "remembered"} => Grade(v) \in grades

(* Speech is behind a clean answer, in what is stored.                     *)
CleanSpoken ==
  \A v \in Ids : job[v].phase \in {"judging", "graded"} =>
                   Gradeable(stored[v], job[v].clean)

Whole  == ToldOver /\ GradedWhole
Graded == GradeThere /\ CleanSpoken /\ AnswersGraded /\ CardsHaveEvidence

(* The inductive invariant.                                                *)
IInv == TypeOK /\ PageJob /\ Fresh /\ Whole /\ Graded

JobPhases    == {"none", "sent", "judging", "graded", "remembered", "done"}
StreamPhases == {"none", "connecting", "live", "hearing", "over", "broken"}

(* More chunks take no speech away.                                        *)
LEMMA GradeableGrows ==
  ASSUME NEW s \in Seq(Chunk), NEW c \in Chunk, NEW b \in BOOLEAN, Gradeable(s, b)
  PROVE  Gradeable(Append(s, c), b)
<1>1. CASE b
  <2>1. PICK i \in DOMAIN s : s[i] = "speech"
    BY <1>1 DEF Gradeable
  <2>2. i \in DOMAIN Append(s, c) /\ Append(s, c)[i] = s[i]
    OBVIOUS
  <2> QED
    BY <2>1, <2>2 DEF Gradeable
<1>2. CASE ~b
  BY <1>2 DEF Gradeable
<1> QED
  BY <1>1, <1>2

LEMMA EmptySeq == <<>> \in Seq(Chunk)
OBVIOUS

(* A stream type is a phase, a backlog and whether it is open.             *)
LEMMA StreamIs ==
  ASSUME NEW s \in StreamType
  PROVE  /\ s.phase \in StreamPhases /\ s.backlog \in Nat /\ s.open \in BOOLEAN
         /\ \A p \in StreamPhases : [s EXCEPT !.phase = p] \in StreamType
         /\ \A b \in Nat : [s EXCEPT !.backlog = b] \in StreamType
         /\ \A o \in BOOLEAN : [s EXCEPT !.open = o] \in StreamType
BY DEF StreamType, StreamPhases

LEMMA ConstantTypes ==
  /\ NoStream \in StreamType /\ NoJob \in JobType /\ Done \in JobType
  /\ \A i \in 0 .. Budget - 1 : Blank(i) \in PageType
  /\ 0 \in 0 .. Budget - 1
  /\ ~NoJob.told /\ NoJob.phase = "none" /\ ~Done.told /\ Done.phase = "done"
  /\ \A t \in BOOLEAN, i \in 0 .. Budget - 1 :
       [NoJob EXCEPT !.phase = "sent", !.index = i, !.told = t] \in JobType
<1>1. NoStream \in StreamType
  BY DEF NoStream, StreamType
<1>2. NoJob \in JobType /\ Done \in JobType
  <2>1. 0 \in 0 .. Budget - 1
    BY VoiceAssumption
  <2>2. NoJob \in JobType
    BY <2>1, EmptySeq DEF NoJob, JobType
  <2> QED
    BY <2>2 DEF Done, JobType
<1>3. \A t \in BOOLEAN, i \in 0 .. Budget - 1 :
        [NoJob EXCEPT !.phase = "sent", !.index = i, !.told = t] \in JobType
  BY EmptySeq DEF NoJob, JobType
<1>4. \A i \in 0 .. Budget - 1 : Blank(i) \in PageType
  BY VoiceAssumption DEF Blank, PageType
<1>5. 0 \in 0 .. Budget - 1
  BY VoiceAssumption
<1> QED
  BY <1>1, <1>2, <1>3, <1>4, <1>5 DEF NoJob, Done

LEMMA InitIInv == Init => IInv
<1> SUFFICES ASSUME Init PROVE IInv
  OBVIOUS
<1>1. TypeOK
  <2>1. Blank(0) \in PageType /\ Blank(0).phase = "blank"
    BY ConstantTypes DEF Blank
  <2>2. created \in 0 .. MaxSessions /\ sent \in Nat /\ faults \in Nat
    BY VoiceAssumption DEF Init
  <2>3. /\ stored \in [Ids -> Seq(Chunk)] /\ stream \in [Ids -> StreamType]
        /\ job \in [Ids -> JobType]
    BY ConstantTypes, EmptySeq DEF Init
  <2>4. row \in [Ids -> {"none", "pending", "active", "completed"}]
    BY ConstantTypes DEF Init
  <2> QED
    BY <2>1, <2>2, <2>3, <2>4 DEF Init, TypeOK
<1>2. PageJob /\ Fresh
  BY DEF Init, PageJob, Fresh, Blank
<1>3. Whole /\ Graded
  BY VoiceAssumption
     DEF Init, Whole, Graded, ToldOver, GradedWhole, GradeThere, CleanSpoken,
         AnswersGraded, CardsHaveEvidence, NoJob, Blank
<1> QED
  BY <1>1, <1>2, <1>3 DEF IInv

(* Every action keeps the types.                                           *)
LEMMA InsertType ==
  ASSUME TypeOK, Insert
  PROVE  /\ created + 1 \in Ids /\ created' = created + 1 /\ created' \in 0 .. MaxSessions
         /\ row' \in [Ids -> {"none", "pending", "active", "completed"}]
<1>1. created + 1 \in Ids /\ created' = created + 1 /\ created' \in 0 .. MaxSessions
  BY VoiceAssumption DEF TypeOK, Insert, Ids
<1> QED
  BY <1>1 DEF TypeOK, Insert

LEMMA PageTypes ==
  ASSUME TypeOK, PageStep \/ CreateLost \/ Speak \/ Reload
  PROVE  TypeOK'
<1>1. CASE Create
  <2>0. created + 1 \in 1 .. created + 1 /\ created + 1 \in 0 .. MaxSessions
    BY <1>1, InsertType, VoiceAssumption DEF Create, Ids
  <2>1. page' \in PageType /\ page'.id \in 1 .. created'
    BY <1>1, <2>0, InsertType DEF Create, TypeOK, PageType
  <2> QED
    BY <1>1, <2>1, InsertType DEF Create, Insert, TypeOK
<1>2. CASE CreateLost
  <2>1. page' \in PageType /\ page'.phase = "error"
    BY <1>2 DEF CreateLost, TypeOK, PageType
  <2>2. faults' \in Nat
    BY <1>2 DEF CreateLost, Fault, TypeOK
  <2> QED
    BY <1>2, <2>1, <2>2, InsertType DEF CreateLost, Insert, TypeOK
<1>3. CASE Retry
  <2>1. page.index \in 0 .. Budget - 1
    BY DEF TypeOK, PageType
  <2>2. page' \in PageType /\ page'.phase = "blank"
    BY <1>3, <2>1, ConstantTypes DEF Retry, Blank
  <2> QED
    BY <1>3, <2>2 DEF Retry, TypeOK, rows
<1>4. CASE Record
  <2>1. page' \in PageType /\ page'.id \in 1 .. created
    BY <1>4 DEF Record, TypeOK, PageType
  <2>2. [phase |-> "connecting", backlog |-> 0, open |-> TRUE] \in StreamType
    BY DEF StreamType
  <2>3. stream' \in [Ids -> StreamType]
    BY <1>4, <2>2 DEF Record, TypeOK
  <2> QED
    BY <1>4, <2>1, <2>3 DEF Record, TypeOK, rows
<1>5. CASE Stop
  <2>1. page' \in PageType /\ page'.id \in 1 .. created
    BY <1>5 DEF Stop, Submits, TypeOK, PageType
  <2>2. stream' \in [Ids -> StreamType]
    <3> DEFINE o == stream[page.id].open /\ stream[page.id].phase = "connecting"
    <3>1. o \in BOOLEAN /\ page.id \in Ids
      BY <1>5, VoiceAssumption DEF Stop, TypeOK, Ids
    <3>2. [stream[page.id] EXCEPT !.open = o] \in StreamType
      BY <3>1, StreamIs DEF TypeOK
    <3>3. stream' = [stream EXCEPT ![page.id] = [@ EXCEPT !.open = o]]
      BY <1>5 DEF Stop
    <3> HIDE DEF o
    <3> QED
      BY <3>1, <3>2, <3>3 DEF TypeOK
  <2>4. job' \in [Ids -> JobType]
    BY <1>5, ConstantTypes DEF Stop, Submits, TypeOK, PageType
  <2> QED
    BY <1>5, <2>1, <2>2, <2>4 DEF Stop, TypeOK, rows
<1>6. CASE Speak
  <2>1. stream' \in [Ids -> StreamType] /\ sent' \in Nat
    <3>1. stream[page.id] \in StreamType /\ stream[page.id].backlog + 1 \in Nat
      BY <1>6, StreamIs, VoiceAssumption DEF Speak, TypeOK, Ids
    <3>2. [stream[page.id] EXCEPT !.backlog = @ + 1] \in StreamType
      BY <3>1, StreamIs
    <3>3. sent' \in Nat
      BY <1>6 DEF Speak, TypeOK
    <3>4. stream' \in [Ids -> StreamType]
      BY <1>6, <3>1, <3>2 DEF Speak, TypeOK
    <3> QED
      BY <3>3, <3>4
  <2> QED
    BY <1>6, <2>1 DEF Speak, TypeOK, rows
<1>7. CASE Reload
  <2>1. page' \in PageType /\ page'.phase = "blank"
    BY <1>7, ConstantTypes DEF Reload, Blank
  <2>2. stream' \in [Ids -> StreamType] /\ faults' \in Nat
    <3>1. \A v \in Ids : [stream[v] EXCEPT !.open = FALSE] \in StreamType
      BY StreamIs DEF TypeOK
    <3>2. faults' \in Nat
      BY <1>7 DEF Reload, TypeOK
    <3> QED
      BY <1>7, <3>1, <3>2 DEF Reload
  <2> QED
    BY <1>7, <2>1, <2>2 DEF Reload, TypeOK, rows
<1> QED
  BY <1>1, <1>2, <1>3, <1>4, <1>5, <1>6, <1>7 DEF PageStep

(* A stream whose page records asks, through it, for the processing.       *)
LEMMA TellsType ==
  ASSUME TypeOK, NEW v \in Ids, Tells(v)
  PROVE  /\ page' \in PageType /\ job' \in [Ids -> JobType]
         /\ page'.id = page.id /\ page'.index = page.index
         /\ \/ page'.phase = page.phase
            \/ page.phase = "recording" /\ page'.phase = "submitting"
<1>2. CASE stream[v].open /\ Shows(v, "recording")
  <2>1. Submits(v, TRUE) /\ page.phase = "recording" /\ page \in PageType
    BY <1>2 DEF Tells, Shows, TypeOK
  <2>2. job' \in [Ids -> JobType]
    BY <2>1, ConstantTypes DEF Submits, TypeOK, PageType
  <2> QED
    BY <2>1, <2>2 DEF Submits, PageType
<1>3. CASE ~(stream[v].open /\ Shows(v, "recording"))
  <2>1. page' = page /\ job' = job
    BY <1>3 DEF Tells
  <2>2. page \in PageType /\ job \in [Ids -> JobType]
    BY DEF TypeOK
  <2> QED
    BY <2>1, <2>2
<1> QED
  BY <1>2, <1>3

LEMMA StreamTypes ==
  ASSUME TypeOK, NEW v \in Ids, Streams(v) \/ StreamBreaks(v) \/ Drops(v)
  PROVE  TypeOK'
<1>1. CASE Connects(v)
  <2>1. stream' \in [Ids -> StreamType]
    BY <1>1 DEF Connects, TypeOK, StreamType
  <2>2. row' \in [Ids -> {"none", "pending", "active", "completed"}]
    BY <1>1 DEF Connects, TypeOK
  <2> QED
    BY <1>1, <2>1, <2>2 DEF Connects, TypeOK
<1>2. CASE Hears(v)
  <2>1. stream' \in [Ids -> StreamType]
    <3>1. stream[v] \in StreamType /\ stream[v].backlog - 1 \in Nat
      BY <1>2, StreamIs DEF Hears, TypeOK
    <3>2. [stream[v] EXCEPT !.phase = "hearing", !.backlog = @ - 1] \in StreamType
      BY <3>1 DEF StreamType
    <3> QED
      BY <1>2, <3>2 DEF Hears, TypeOK
  <2> QED
    BY <1>2, <2>1 DEF Hears, TypeOK, rows
<1>3. CASE Stores(v)
  <2>1. stream' \in [Ids -> StreamType]
    <3> DEFINE b == IF stream[v].open THEN stream[v].backlog ELSE 0
    <3>1. stream[v] \in StreamType /\ b \in Nat
      BY StreamIs DEF TypeOK
    <3>2. [stream[v] EXCEPT !.phase = "live", !.backlog = b] \in StreamType
      BY <3>1 DEF StreamType
    <3>3. stream' = [stream EXCEPT ![v] = [@ EXCEPT !.phase = "live", !.backlog = b]]
      BY <1>3 DEF Stores
    <3> HIDE DEF b
    <3> QED
      BY <3>2, <3>3 DEF TypeOK
  <2>2. stored' \in [Ids -> Seq(Chunk)]
    BY <1>3 DEF Stores, TypeOK
  <2> QED
    BY <1>3, <2>1, <2>2 DEF Stores, TypeOK, rows
<1>4. CASE Ends(v)
  <2>1. stream' \in [Ids -> StreamType]
    <3>1. [stream[v] EXCEPT !.phase = "over", !.open = FALSE, !.backlog = 0] \in StreamType
      BY DEF TypeOK, StreamType
    <3> QED
      BY <1>4, <3>1 DEF Ends, Closes, TypeOK
  <2>2. row' \in [Ids -> {"none", "pending", "active", "completed"}]
    BY <1>4 DEF Ends, TypeOK
  <2> QED
    BY <1>4, <2>1, <2>2, TellsType DEF Ends, TypeOK
<1>5. CASE StreamBreaks(v)
  <2>1. stream' \in [Ids -> StreamType] /\ faults' \in Nat
    <3>1. [stream[v] EXCEPT !.phase = "broken", !.open = FALSE, !.backlog = 0] \in StreamType
      BY DEF TypeOK, StreamType
    <3> QED
      BY <1>5, <3>1 DEF StreamBreaks, Fault, TypeOK
  <2> QED
    BY <1>5, <2>1 DEF StreamBreaks, TypeOK, rows
<1>6. CASE Drops(v)
  <2>1. stream' \in [Ids -> StreamType] /\ faults' \in Nat
    <3>1. [stream[v] EXCEPT !.open = FALSE] \in StreamType
      BY StreamIs DEF TypeOK
    <3> QED
      BY <1>6, <3>1 DEF Drops, Fault, TypeOK
  <2> QED
    BY <1>6, <2>1 DEF Drops, TypeOK, rows
<1> QED
  BY <1>1, <1>2, <1>3, <1>4, <1>5, <1>6 DEF Streams

LEMMA MovesType ==
  ASSUME TypeOK, NEW v \in Ids, NEW from, NEW to \in JobPhases, Moves(v, from, to)
  PROVE  /\ job' \in [Ids -> JobType]
         /\ job[v].phase = from /\ job'[v].phase = to
         /\ job'[v].told = job[v].told /\ job'[v].read = job[v].read
         /\ job'[v].index = job[v].index /\ job'[v].clean = job[v].clean
         /\ \A w \in Ids : w # v => job'[w] = job[w]
BY DEF TypeOK, Moves, JobType, JobPhases

LEMMA ProcessTypes ==
  ASSUME TypeOK, NEW v \in Ids, Processes(v) \/ Forgets(v) \/ JobFails(v)
  PROVE  TypeOK'
<1>1. CASE Evaluates(v)
  <2>1. job' \in [Ids -> JobType]
    <3>1. PICK c \in BOOLEAN :
            job' = [job EXCEPT ![v].phase = "judging", ![v].read = stored[v], ![v].clean = c]
      BY <1>1 DEF Evaluates
    <3>2. [job[v] EXCEPT !.phase = "judging", !.read = stored[v], !.clean = c] \in JobType
      BY DEF TypeOK, JobType
    <3> QED
      BY <3>1, <3>2 DEF TypeOK
  <2> QED
    BY <1>1, <2>1 DEF Evaluates, TypeOK, rows
<1>2. CASE Grades(v)
  <2>1. Grade(v) \in [id : Ids, index : 0 .. Budget - 1, clean : BOOLEAN]
    BY DEF Grade, TypeOK, JobType
  <2>2. job' \in [Ids -> JobType]
    BY <1>2, MovesType DEF Grades, JobPhases
  <2> QED
    BY <1>2, <2>1, <2>2 DEF Grades, TypeOK
<1>3. CASE Remembers(v)
  <2>1. job' \in [Ids -> JobType]
    BY <1>3, MovesType DEF Remembers, JobPhases
  <2> QED
    BY <1>3, <2>1 DEF Remembers, TypeOK
<1>4. CASE Forgets(v)
  <2>1. job' \in [Ids -> JobType] /\ faults' \in Nat
    BY <1>4, MovesType DEF Forgets, JobPhases, Fault, TypeOK
  <2> QED
    BY <1>4, <2>1 DEF Forgets, TypeOK, rows
<1>5. CASE Replies(v)
  <2>1. job' \in [Ids -> JobType]
    BY <1>5, ConstantTypes DEF Replies, TypeOK
  <2>2. page' \in PageType
        /\ (page'.phase \in {"ready", "recording", "submitting"} => page' = page)
    <3>1. page.index \in 0 .. Budget - 1
      BY DEF TypeOK, PageType
    <3>2. CASE ~Shows(v, "submitting")
      BY <1>5, <3>2 DEF Replies, TypeOK
    <3>3. CASE Shows(v, "submitting") /\ StopAfter(page.index)
      BY <1>5, <3>3 DEF Replies, TypeOK, PageType
    <3>4. CASE Shows(v, "submitting") /\ ~StopAfter(page.index)
      <4>1. page.index + 1 \in 0 .. Budget - 1
        BY <3>1, <3>4, VoiceAssumption DEF StopAfter
      <4> QED
        BY <1>5, <3>4, <4>1, ConstantTypes DEF Replies, Blank
    <3> QED
      BY <3>2, <3>3, <3>4
  <2> QED
    BY <1>5, <2>1, <2>2 DEF Replies, TypeOK, rows
<1>6. CASE JobFails(v)
  <2>1. job' \in [Ids -> JobType] /\ faults' \in Nat
    <3>1. Done \in JobType
      BY ConstantTypes
    <3> QED
      BY <1>6, <3>1 DEF JobFails, Fault, TypeOK
  <2>2. page' \in PageType
        /\ (page'.phase \in {"ready", "recording", "submitting"} => page' = page)
    BY <1>6 DEF JobFails, Stuck, TypeOK, PageType
  <2> QED
    BY <1>6, <2>1, <2>2 DEF JobFails, TypeOK, rows
<1> QED
  BY <1>1, <1>2, <1>3, <1>4, <1>5, <1>6 DEF Processes

LEMMA TypeStep == TypeOK /\ [Next]_vars => TypeOK'
<1>1. ASSUME TypeOK, Next PROVE TypeOK'
  BY <1>1, PageTypes, StreamTypes, ProcessTypes DEF Next
<1>2. ASSUME TypeOK, UNCHANGED vars PROVE TypeOK'
  BY <1>2 DEF vars, rows, TypeOK
<1> QED
  BY <1>1, <1>2

(* The remaining parts of the invariant.                                   *)

\* What a step may do to an answer that was graded.
GradesStay ==
  /\ grades \subseteq grades' /\ cards' = cards
  /\ \A v \in Ids : job'[v].phase \in {"judging", "graded", "remembered"} =>
                       job'[v] = job[v]
  /\ \A v \in Ids, b \in BOOLEAN : Gradeable(stored[v], b) => Gradeable(stored'[v], b)

\* A page that stays at its question, or starts over.
PageStays ==
  \/ page' = page
  \/ page'.index \in {0, page.index} /\ page'.phase # "done"

LEMMA GradesStayKeeps ==
  ASSUME TypeOK, Graded, GradesStay, PageStays
  PROVE  Graded'
<1>1. \A i \in 0 .. Budget - 1 :
        i < page'.index \/ page'.phase = "done" => i < page.index \/ page.phase = "done"
  BY DEF PageStays, TypeOK, PageType
<1>2. AnswersGraded'
  BY <1>1 DEF Graded, GradesStay, AnswersGraded
<1>3. GradeThere' /\ CardsHaveEvidence'
  BY DEF TypeOK, Graded, GradesStay, GradeThere, Grade, CardsHaveEvidence
<1>4. CleanSpoken'
  BY DEF TypeOK, JobType, Graded, GradesStay, CleanSpoken
<1> QED
  BY <1>2, <1>3, <1>4 DEF Graded

\* What a step may do to an answer that was announced as whole.
WholeStays ==
  \A v \in Ids :
    \/ ~job'[v].told
    \/ /\ job'[v] = job[v]
       /\ stream[v].phase = "over" => stream'[v].phase = "over" /\ stored'[v] = stored[v]

LEMMA WholeStaysKeeps ==
  ASSUME Whole, WholeStays
  PROVE  Whole'
BY DEF Whole, WholeStays, ToldOver, GradedWhole

(* A step that moves no job and stores nothing.                            *)
LEMMA NoJobStep ==
  ASSUME job' = job, grades' = grades, cards' = cards, stored' = stored
  PROVE  GradesStay
BY DEF GradesStay

LEMMA PageId ==
  ASSUME TypeOK
  PROVE  page.phase \in {"ready", "recording", "submitting"} => page.id \in Ids
BY VoiceAssumption DEF TypeOK, Ids

(* A job in progress belongs to a voice session that was created, and not  *)
(* to one that waits for its recording.                                    *)
LEMMA JobKeepsFresh ==
  ASSUME IInv, NEW v \in Ids, job[v].phase # "none",
         \A w \in Ids : w # v => job'[w] = job[w],
         created' = created,
         page'.phase = "ready" => page' = page
  PROVE  Fresh'
<1>1. ~(v > created)
  BY DEF IInv, Fresh, NoJob
<1>2. page.phase = "ready" => page.id # v /\ page.id \in Ids
  BY VoiceAssumption DEF IInv, Fresh, NoJob, TypeOK, Ids
<1> QED
  BY <1>1, <1>2 DEF IInv, Fresh

LEMMA PageStepKeeps ==
  ASSUME IInv, PageStep \/ CreateLost \/ Speak \/ Reload
  PROVE  PageJob' /\ Fresh' /\ Whole' /\ Graded'
<1>1. ASSUME Insert, job' = job, stream' = stream, stored' = stored, grades' = grades,
             cards' = cards, page'.index = page.index,
             \/ page'.phase = "error"
             \/ page'.phase = "ready" /\ page'.id = created + 1
      PROVE  PageJob' /\ Fresh' /\ Whole' /\ Graded'
  <2>0. /\ created + 1 \in Ids /\ created' = created + 1 /\ created \in Nat
    BY <1>1, InsertType DEF IInv, TypeOK
  <2>1. job[created + 1] = NoJob
    BY <2>0 DEF IInv, Fresh
  <2>2. PageJob' /\ Fresh'
    BY <1>1, <2>0, <2>1 DEF IInv, PageJob, Fresh, Ids
  <2>3. WholeStays /\ PageStays
    BY <1>1 DEF WholeStays, PageStays
  <2>4. GradesStay
    BY <1>1, NoJobStep
  <2> QED
    BY <2>2, <2>3, <2>4, WholeStaysKeeps, GradesStayKeeps DEF IInv
<1>2. CASE Create
  BY <1>1, <1>2 DEF Create, Insert, IInv, TypeOK, PageType
<1>3. CASE CreateLost
  BY <1>1, <1>3 DEF CreateLost, Insert, IInv, TypeOK, PageType
<1>4. CASE Retry \/ Reload
  <2>1. /\ page'.phase = "blank" /\ page'.index \in {0, page.index}
        /\ job' = job /\ stored' = stored /\ UNCHANGED rows
        /\ \A v \in Ids : stream'[v].phase = stream[v].phase
    BY <1>4 DEF Retry, Reload, Blank, IInv, TypeOK, StreamType
  <2>2. PageJob' /\ Fresh' /\ WholeStays /\ PageStays /\ GradesStay
    BY <2>1, NoJobStep DEF rows, IInv, PageJob, Fresh, WholeStays, PageStays
  <2> QED
    BY <2>2, WholeStaysKeeps, GradesStayKeeps DEF IInv
<1>5. CASE Record
  <2>1. page.id \in Ids /\ job[page.id] = NoJob /\ ~job[page.id].told
    <3>1. page.id \in Ids
      BY <1>5, VoiceAssumption DEF Record, IInv, TypeOK, Ids
    <3>2. job[page.id] = NoJob
      BY <1>5 DEF Record, IInv, Fresh
    <3> QED
      BY <3>1, <3>2, ConstantTypes
  <2>2. /\ page'.phase = "recording" /\ page'.id = page.id /\ page'.index = page.index
        /\ job' = job /\ stored' = stored /\ UNCHANGED rows
        /\ \A v \in Ids : v # page.id => stream'[v] = stream[v]
    BY <1>5 DEF Record, IInv, TypeOK, PageType
  <2>3. PageJob' /\ Fresh'
    BY <1>5, <2>2 DEF Record, rows, IInv, PageJob, Fresh
  <2>4. WholeStays /\ PageStays /\ GradesStay
    BY <2>1, <2>2, NoJobStep DEF rows, WholeStays, PageStays
  <2> QED
    BY <2>3, <2>4, WholeStaysKeeps, GradesStayKeeps DEF IInv
<1>6. CASE Stop
  <2>1. page.id \in Ids /\ page.id <= created
    BY <1>6, VoiceAssumption DEF Stop, IInv, TypeOK, Ids
  <2>2. /\ page.phase = "recording" /\ page'.phase = "submitting"
        /\ page'.id = page.id /\ page'.index = page.index
        /\ stored' = stored /\ UNCHANGED rows
    BY <1>6 DEF Stop, Submits, IInv, TypeOK, PageType
  <2>3. job'[page.id].phase = "sent" /\ ~job'[page.id].told /\ job'[page.id].index = page.index
    BY <1>6, <2>1 DEF Stop, Submits, NoJob, IInv, TypeOK
  <2>4. /\ \A v \in Ids : v # page.id => job'[v] = job[v]
        /\ \A v \in Ids : stream'[v].phase = stream[v].phase
    BY <1>6, <2>1 DEF Stop, Submits, IInv, TypeOK, StreamType
  <2>5. PageJob' /\ Fresh'
    BY <2>1, <2>2, <2>3, <2>4 DEF rows, IInv, TypeOK, PageJob, Fresh, Ids
  <2>6. WholeStays /\ PageStays /\ GradesStay
    BY <2>2, <2>3, <2>4 DEF rows, WholeStays, PageStays, GradesStay
  <2> QED
    BY <2>5, <2>6, WholeStaysKeeps, GradesStayKeeps DEF IInv
<1>7. CASE Speak
  <2>1. /\ page' = page /\ job' = job /\ stored' = stored /\ UNCHANGED rows
        /\ \A v \in Ids : stream'[v].phase = stream[v].phase
    BY <1>7 DEF Speak, IInv, TypeOK, StreamType
  <2>2. PageJob' /\ Fresh' /\ WholeStays /\ PageStays /\ GradesStay
    BY <2>1, NoJobStep DEF rows, IInv, PageJob, Fresh, WholeStays, PageStays
  <2> QED
    BY <2>2, WholeStaysKeeps, GradesStayKeeps DEF IInv
<1> QED
  BY <1>2, <1>3, <1>4, <1>5, <1>6, <1>7 DEF PageStep

LEMMA StreamStepKeeps ==
  ASSUME IInv, NEW v \in Ids, Streams(v) \/ StreamBreaks(v) \/ Drops(v)
  PROVE  PageJob' /\ Fresh' /\ Whole' /\ Graded'
<1>1. ASSUME page' = page, job' = job, created' = created, grades' = grades, cards' = cards,
             \A w \in Ids, b \in BOOLEAN :
               Gradeable(stored[w], b) => Gradeable(stored'[w], b),
             \A w \in Ids : stream[w].phase = "over" =>
               stream'[w].phase = "over" /\ stored'[w] = stored[w]
      PROVE  PageJob' /\ Fresh' /\ Whole' /\ Graded'
  <2>1. PageJob' /\ Fresh'
    BY <1>1, VoiceAssumption DEF IInv, PageJob, Fresh, TypeOK, Ids
  <2>2. WholeStays /\ PageStays /\ GradesStay
    BY <1>1 DEF WholeStays, PageStays, GradesStay
  <2> QED
    BY <2>1, <2>2, WholeStaysKeeps, GradesStayKeeps DEF IInv
<1>2. CASE Connects(v)
  BY <1>1, <1>2 DEF Connects, IInv, TypeOK, StreamType
<1>3. CASE Hears(v) \/ StreamBreaks(v) \/ Drops(v)
  BY <1>1, <1>3 DEF Hears, StreamBreaks, Drops, rows, IInv, TypeOK, StreamType
<1>4. CASE Stores(v)
  <2>1. PICK c \in Chunk : stored' = [stored EXCEPT ![v] = Append(@, c)]
    BY <1>4 DEF Stores
  <2>2. \A w \in Ids, b \in BOOLEAN : Gradeable(stored[w], b) => Gradeable(stored'[w], b)
    BY <2>1, GradeableGrows DEF IInv, TypeOK
  <2>3. \A w \in Ids : stream[w].phase = "over" =>
          stream'[w].phase = "over" /\ stored'[w] = stored[w]
    BY <1>4, <2>1 DEF Stores, IInv, TypeOK, StreamType
  <2> QED
    BY <1>1, <1>4, <2>2, <2>3 DEF Stores, rows
<1>5. CASE Ends(v)
  <2>1. /\ created' = created /\ grades' = grades /\ cards' = cards /\ stored' = stored
        /\ stream'[v].phase = "over"
        /\ \A w \in Ids : w # v => stream'[w] = stream[w]
    BY <1>5 DEF Ends, Closes, IInv, TypeOK, StreamType
  <2>2. CASE page' = page /\ job' = job
    BY <1>1, <2>1, <2>2
  <2>3. CASE Shows(v, "recording") /\ Submits(v, TRUE)
    <3>1. /\ page.phase = "recording" /\ page.id = v /\ v <= created
          /\ page'.phase = "submitting" /\ page'.id = v /\ page'.index = page.index
      BY <2>3 DEF Shows, Submits, IInv, TypeOK, PageType
    <3>2. /\ job'[v].phase = "sent" /\ job'[v].index = page.index
          /\ \A w \in Ids : w # v => job'[w] = job[w]
      BY <2>3 DEF Submits, NoJob, IInv, TypeOK
    <3>3. PageJob' /\ Fresh'
      BY <2>1, <3>1, <3>2 DEF IInv, TypeOK, PageJob, Fresh, Ids
    <3>4. Whole'
      BY <2>1, <3>2 DEF IInv, Whole, ToldOver, GradedWhole
    <3>5. GradesStay /\ PageStays
      BY <2>1, <3>1, <3>2 DEF GradesStay, PageStays
    <3> QED
      BY <3>3, <3>4, <3>5, GradesStayKeeps DEF IInv
  <2> QED
    BY <1>5, <2>2, <2>3 DEF Ends, Tells
<1> QED
  BY <1>2, <1>3, <1>4, <1>5 DEF Streams

LEMMA ProcessStepKeeps ==
  ASSUME IInv, NEW v \in Ids, Processes(v) \/ Forgets(v) \/ JobFails(v)
  PROVE  PageJob' /\ Fresh' /\ Whole' /\ Graded'
<1> USE DEF IInv
<1>1. CASE Evaluates(v)
  <2>1. /\ job[v].phase = "sent" /\ job'[v].phase = "judging"
        /\ job'[v].told = job[v].told /\ job'[v].read = stored[v]
        /\ job'[v].index = job[v].index /\ Gradeable(stored[v], job'[v].clean)
        /\ \A w \in Ids : w # v => job'[w] = job[w]
        /\ page' = page /\ UNCHANGED rows /\ stored' = stored /\ stream' = stream
    BY <1>1 DEF Evaluates, TypeOK, JobType
  <2>2. PageJob' /\ Fresh'
    BY <2>1, JobKeepsFresh, PageId DEF rows, PageJob
  <2>3. Whole'
    BY <2>1 DEF Whole, ToldOver, GradedWhole
  <2>4. Graded'
    BY <2>1 DEF rows, Graded, GradeThere, Grade, CleanSpoken, AnswersGraded, CardsHaveEvidence
  <2> QED
    BY <2>2, <2>3, <2>4
<1>2. ASSUME NEW from \in {"judging", "graded"}, NEW to \in {"graded", "remembered"},
             Moves(v, from, to), page' = page, row' = row, created' = created,
             stored' = stored, stream' = stream
      PROVE  /\ PageJob' /\ Fresh' /\ Whole'
             /\ job[v].phase = from /\ job'[v].phase = to
             /\ \A w \in Ids : /\ job'[w].clean = job[w].clean
                               /\ w # v => job'[w] = job[w]
                               /\ Grade(w)' = Grade(w)
  <2>1. /\ job[v].phase = from /\ job'[v].phase = to
        /\ job'[v].told = job[v].told /\ job'[v].read = job[v].read
        /\ job'[v].index = job[v].index /\ job'[v].clean = job[v].clean
        /\ \A w \in Ids : w # v => job'[w] = job[w]
    BY <1>2, MovesType DEF JobPhases
  <2>2. PageJob' /\ Fresh'
    BY <1>2, <2>1, JobKeepsFresh, PageId DEF PageJob
  <2>3. Whole'
    BY <1>2, <2>1 DEF Whole, ToldOver, GradedWhole
  <2>4. \A w \in Ids : job'[w].clean = job[w].clean /\ job'[w].index = job[w].index
    BY <2>1
  <2> QED
    BY <1>2, <2>1, <2>2, <2>3, <2>4 DEF Grade
<1>3. CASE Grades(v)
  <2>1. /\ PageJob' /\ Fresh' /\ Whole' /\ job'[v].phase = "graded"
        /\ \A w \in Ids : /\ w # v => job'[w] = job[w]
                          /\ job'[w].clean = job[w].clean /\ Grade(w)' = Grade(w)
        /\ page' = page /\ cards' = cards /\ grades' = grades \cup {Grade(v)}
        /\ job[v].phase = "judging" /\ stored' = stored
    BY <1>2, <1>3 DEF Grades
  <2> QED
    BY <2>1 DEF Graded, GradeThere, CleanSpoken, AnswersGraded, CardsHaveEvidence
<1>4. CASE Remembers(v)
  <2>1. /\ PageJob' /\ Fresh' /\ Whole' /\ job[v].phase = "graded"
        /\ \A w \in Ids : /\ w # v => job'[w] = job[w]
                          /\ job'[w].clean = job[w].clean /\ Grade(w)' = Grade(w)
        /\ page' = page /\ grades' = grades /\ stored' = stored /\ job'[v].phase = "remembered"
        /\ cards' = IF job[v].clean THEN cards \cup {v} ELSE cards
    BY <1>2, <1>4 DEF Remembers
  <2>2. job[v].clean => /\ Grade(v) \in grades /\ Grade(v).id = v /\ Grade(v).clean
                        /\ Gradeable(stored[v], TRUE)
    BY <2>1 DEF Graded, GradeThere, CleanSpoken, Grade, Gradeable
  <2>3. CardsHaveEvidence'
    BY <2>1, <2>2 DEF Graded, CardsHaveEvidence
  <2> QED
    BY <2>1, <2>3 DEF Graded, GradeThere, CleanSpoken, AnswersGraded
<1>5. CASE Forgets(v)
  <2>1. /\ PageJob' /\ Fresh' /\ Whole' /\ job[v].phase = "graded"
        /\ \A w \in Ids : /\ w # v => job'[w] = job[w]
                          /\ job'[w].clean = job[w].clean /\ Grade(w)' = Grade(w)
        /\ page' = page /\ grades' = grades /\ cards' = cards
        /\ stored' = stored /\ job'[v].phase = "remembered"
    BY <1>2, <1>5 DEF Forgets, rows
  <2> QED
    BY <2>1 DEF Graded, GradeThere, CleanSpoken, AnswersGraded, CardsHaveEvidence
<1>6. ASSUME job[v].phase # "none", job' = [job EXCEPT ![v] = Done], UNCHANGED rows,
             stored' = stored, stream' = stream,
             page'.phase = "ready" => page' = page,
             page'.phase = "submitting" => page' = page /\ page.id # v
      PROVE  PageJob' /\ Fresh' /\ Whole' /\ GradesStay
  <2>1. /\ ~job'[v].told /\ job'[v].phase = "done"
        /\ \A w \in Ids : w # v => job'[w] = job[w]
    BY <1>6, ConstantTypes DEF TypeOK
  <2>2. PageJob' /\ Fresh'
    BY <1>6, <2>1, JobKeepsFresh, PageId DEF rows, PageJob
  <2>3. Whole'
    BY <1>6, <2>1, WholeStaysKeeps DEF WholeStays
  <2> QED
    BY <1>6, <2>1, <2>2, <2>3 DEF rows, GradesStay, Grade
<1>7. CASE Replies(v)
  <2>1. \/ page'.phase \in {"blank", "done"}
        \/ page' = page /\ (page.phase = "submitting" => page.id # v)
    BY <1>7 DEF Replies, Blank, Shows, TypeOK, PageType
  <2>2. PageJob' /\ Fresh' /\ Whole' /\ GradesStay
    BY <1>6, <1>7, <2>1 DEF Replies
  <2>3. CASE page' = page
    BY <2>2, <2>3, GradesStayKeeps DEF PageStays
  <2>4. CASE Shows(v, "submitting") /\ page' # page
    <3>1. \E g \in grades : g.index = page.index
      BY <1>7, <2>4 DEF Replies, Shows, PageJob, Graded, GradeThere, Grade
    <3>2. page.index \in 0 .. Budget - 1
      BY DEF TypeOK, PageType
    <3>3. \A i \in 0 .. Budget - 1 :
            i < page'.index \/ page'.phase = "done" => i < page.index \/ i = page.index
      <4>1. CASE StopAfter(page.index)
        <5>1. \A i \in 0 .. Budget - 1 : i < page.index \/ i = page.index
          BY <3>2, <4>1, VoiceAssumption DEF StopAfter
        <5> QED
          BY <5>1
      <4>2. CASE ~StopAfter(page.index)
        <5>1. page'.index = page.index + 1 /\ page'.phase = "blank"
          BY <1>7, <2>4, <4>2 DEF Replies, Blank
        <5> QED
          BY <3>2, <5>1, VoiceAssumption
      <4> QED
        BY <4>1, <4>2
    <3>4. AnswersGraded'
      BY <1>7, <3>1, <3>3 DEF Replies, rows, Graded, AnswersGraded
    <3> QED
      <4>1. GradeThere' /\ CardsHaveEvidence'
        BY <2>2 DEF TypeOK, Graded, GradesStay, GradeThere, Grade, CardsHaveEvidence
      <4>2. CleanSpoken'
        BY <2>2 DEF TypeOK, JobType, Graded, GradesStay, CleanSpoken
      <4> QED
        BY <2>2, <3>4, <4>1, <4>2 DEF Graded
  <2> QED
    BY <1>7, <2>3, <2>4 DEF Replies
<1>8. CASE JobFails(v)
  <2>1. /\ \/ page'.phase = "stuck" /\ page'.index = page.index
           \/ page' = page /\ (page.phase = "submitting" => page.id # v)
        /\ job[v].phase # "none"
    BY <1>8 DEF JobFails, Stuck, Shows, TypeOK, PageType
  <2>2. PageJob' /\ Fresh' /\ Whole' /\ GradesStay
    BY <1>6, <1>8, <2>1 DEF JobFails
  <2> QED
    BY <2>1, <2>2, GradesStayKeeps DEF PageStays
<1> QED
  BY <1>1, <1>3, <1>4, <1>5, <1>7, <1>8 DEF Processes

LEMMA IInvStep == IInv /\ [Next]_vars => IInv'
<1>1. ASSUME IInv, Next PROVE PageJob' /\ Fresh' /\ Whole' /\ Graded'
  BY <1>1, PageStepKeeps, StreamStepKeeps, ProcessStepKeeps DEF Next
<1>2. ASSUME IInv, UNCHANGED vars PROVE PageJob' /\ Fresh' /\ Whole' /\ Graded'
  BY <1>2 DEF IInv, vars, rows, PageJob, Fresh, Whole, ToldOver, GradedWhole, Graded,
              GradeThere, Grade, CleanSpoken, AnswersGraded, CardsHaveEvidence
<1> QED
  BY <1>1, <1>2, TypeStep DEF IInv

LEMMA Invariance == Spec => []IInv
BY InitIInv, IInvStep, PTL DEF Spec

(* Every variable keeps the shape of the rows and messages of the code     *)
(* (TypeOK).                                                               *)
THEOREM VoiceTypeCorrect == Spec => []TypeOK
BY Invariance, PTL DEF IInv

(* An answer processed after session_complete is graded on everything that *)
(* was heard, however many streams are open and whatever breaks            *)
(* (stream_voice_audio, process_voice_session).                            *)
THEOREM VoiceGradedWhole == Spec => []GradedWhole
BY Invariance, PTL DEF IInv, Whole

(* The voice tool does not go on before its answers were graded, whatever  *)
(* failed, was retried or reloaded (run_voice_adaptive_loop).              *)
THEOREM VoiceAnswersGraded == Spec => []AnswersGraded
BY Invariance, PTL DEF IInv, Graded

(* A memory card rests on a grade of its own answer, with speech behind it *)
(* (evaluate_voice_response).                                              *)
THEOREM VoiceCardsHaveEvidence == Spec => []CardsHaveEvidence
BY Invariance, PTL DEF IInv, Graded

(* Both: the page goes on from answers on a sound record, through any       *)
(* number of failures, retries and reloads (run_voice_adaptive_loop).      *)
THEOREM VoiceOnRecord == Spec => []AnswersOnRecord
BY VoiceAnswersGraded, VoiceCardsHaveEvidence, PTL DEF AnswersOnRecord

=============================================================================
