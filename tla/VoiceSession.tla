---------------------------- MODULE VoiceSession ----------------------------
(***************************************************************************)
(* The voice tool, one learner's page and the server.                      *)
(*                                                                         *)
(* For each question the page creates a voice session, streams the         *)
(* learner's speech over a web socket, and has the answer processed:       *)
(* graded, remembered, analysed, and answered with a contract (stop, or    *)
(* the next question).  The stream and the processing are separate calls.  *)
(* The stream transcribes one frame after the other and stores each as a   *)
(* chunk; it ends by the time limit or when the page hangs up, and only    *)
(* then is the voice session completed.  The page asks for the processing  *)
(* when the server has told it that the stream is over, or at once when    *)
(* the learner or its own countdown stops the recording.                   *)
(*                                                                         *)
(* The position of a question is kept by the page alone: a page that is    *)
(* loaded again starts the tool over.                                      *)
(***************************************************************************)
EXTENDS Integers, Sequences

CONSTANTS
  Budget,        \* tools.voice.question_count of the blueprint
  MaxSessions,   \* bound: voice sessions created
  MaxFrames,     \* bound: audio frames of a sitting
  MaxFaults      \* bound: failures, broken connections, lost replies, and
                 \* reloads of a page that is not stuck

VARIABLES
  page,          \* what the page shows: phase, question index, voice session
  row,           \* voice_sessions: the status of each voice session
  stored,        \* voice_transcripts: the chunks of each voice session
  stream,        \* the web socket of each voice session
  sent,          \* how many audio frames were sent
  job,           \* the processing of each voice session's answer
  created,       \* how many voice sessions there are
  grades,        \* grade_results rows of the voice tool
  cards,         \* voice sessions whose answer has a memory card
  faults

rows     == <<row, created, grades, cards>>
vars     == <<page, rows, stored, stream, sent, job, faults>>

ASSUME VoiceAssumption ==
  /\ Budget \in Nat \ {0}
  /\ MaxSessions \in Nat /\ MaxFrames \in Nat
  /\ MaxFaults \in Nat

Ids == 1 .. MaxSessions

\* A chunk has text or not (silence, a failed transcription).
Chunk == {"speech", "silence"}

\* Whether an answer may be clean, that is, not flagged: a text is needed, and
\* enough confidence in it, which is left open.
Gradeable(chunks, clean) == clean => \E i \in DOMAIN chunks : chunks[i] = "speech"

NoStream == [phase |-> "none", backlog |-> 0, open |-> FALSE]
NoJob    == [phase |-> "none", index |-> 0, told |-> FALSE, read |-> <<>>, clean |-> FALSE]
Done     == [NoJob EXCEPT !.phase = "done"]
Blank(i) == [phase |-> "blank", index |-> i, id |-> 0]

Init ==
  /\ page = Blank(0)
  /\ row = [v \in Ids |-> "none"]
  /\ stored = [v \in Ids |-> <<>>]
  /\ stream = [v \in Ids |-> NoStream]
  /\ sent = 0
  /\ job = [v \in Ids |-> NoJob]
  /\ created = 0
  /\ grades = {} /\ cards = {}
  /\ faults = 0

Fault == faults < MaxFaults /\ faults' = faults + 1

\* The page shows session v in phase ph.
Shows(v, ph) == page.phase = ph /\ page.id = v

-----------------------------------------------------------------------------
(* A question: the page creates its voice session.                         *)

\* POST /voice/adaptive/sessions commits a pending row.
Insert ==
  /\ page.phase = "blank"
  /\ created < MaxSessions
  /\ created' = created + 1
  /\ row' = [row EXCEPT ![created + 1] = "pending"]
  /\ UNCHANGED <<stored, stream, sent, job, grades, cards>>

Create ==
  /\ Insert
  /\ page' = [page EXCEPT !.phase = "ready", !.id = created + 1]
  /\ UNCHANGED faults

\* The reply is lost: the page shows an error with a button.
CreateLost ==
  /\ Insert
  /\ Fault
  /\ page' = [page EXCEPT !.phase = "error"]

\* handleRetry: the same question, with a new voice session.
Retry ==
  /\ page.phase = "error"
  /\ page' = Blank(page.index)
  /\ UNCHANGED <<rows, stored, stream, sent, job, faults>>

-----------------------------------------------------------------------------
(* The recording: page and stream.                                         *)

\* The learner presses the microphone: the socket is opened.
Record ==
  /\ page.phase = "ready"
  /\ page' = [page EXCEPT !.phase = "recording"]
  /\ stream' = [stream EXCEPT ![page.id] = [phase |-> "connecting", backlog |-> 0, open |-> TRUE]]
  /\ UNCHANGED <<rows, stored, sent, job, faults>>

\* The socket is accepted and start_voice_session commits, whatever the status
\* was and whether or not the page still waits.
Connects(v) ==
  /\ stream[v].phase = "connecting"
  /\ stream' = [stream EXCEPT ![v].phase = "live"]
  /\ row' = [row EXCEPT ![v] = "active"]
  /\ UNCHANGED <<page, stored, sent, job, created, grades, cards, faults>>

\* The recorder sends what it has recorded, once the socket is open.
Speak ==
  /\ page.phase = "recording"
  /\ stream[page.id].phase \in {"live", "hearing"} /\ stream[page.id].open
  /\ sent < MaxFrames
  /\ sent' = sent + 1
  /\ stream' = [stream EXCEPT ![page.id].backlog = @ + 1]
  /\ UNCHANGED <<page, rows, stored, job, faults>>

\* The next frame is taken and transcribed; frames that arrived before the
\* connection was closed still come first.
Hears(v) ==
  /\ stream[v].phase = "live" /\ stream[v].backlog > 0
  /\ stream' = [stream EXCEPT ![v].phase = "hearing", ![v].backlog = @ - 1]
  /\ UNCHANGED <<page, rows, stored, sent, job, faults>>

\* The chunk is committed; a connection that is closed is noticed at the send
\* that follows, and what it still holds is not heard.
Stores(v) ==
  /\ stream[v].phase = "hearing"
  /\ \E c \in Chunk : stored' = [stored EXCEPT ![v] = Append(@, c)]
  /\ stream' = [stream EXCEPT ![v].phase = "live",
                              ![v].backlog = IF stream[v].open THEN @ ELSE 0]
  /\ UNCHANGED <<page, rows, sent, job, faults>>

\* Asks for the processing of the answer; told: the stream is over.
Submits(v, told) ==
  /\ page' = [page EXCEPT !.phase = "submitting"]
  /\ job' = [job EXCEPT ![v] = [NoJob EXCEPT !.phase = "sent", !.index = page.index,
                                             !.told = told]]

Closes(v) == [stream EXCEPT ![v].phase = "over", ![v].open = FALSE, ![v].backlog = 0]

\* A page that still records is told that the stream is over.
Tells(v) ==
  IF stream[v].open /\ Shows(v, "recording") THEN Submits(v, TRUE) ELSE UNCHANGED <<page, job>>

\* Wrong variant: the page is told while the last frame is being heard.
EndsEarly(v) ==
  /\ stream[v].phase \in {"hearing", "live"}
  /\ row' = [row EXCEPT ![v] = "completed"]
  /\ stream' = IF stream[v].phase = "live" THEN Closes(v) ELSE stream
  /\ Tells(v)
  /\ UNCHANGED <<stored, sent, created, grades, cards, faults>>

\* Wrong variant: only a stream whose page is still there is completed.
EndsAttended(v) ==
  /\ stream[v].phase = "live"
  /\ stream[v].open \/ stream[v].backlog = 0
  /\ row' = IF stream[v].open THEN [row EXCEPT ![v] = "completed"] ELSE row
  /\ stream' = Closes(v)
  /\ Tells(v)
  /\ UNCHANGED <<stored, sent, created, grades, cards, faults>>

\* The time limit has passed, or the page has hung up and nothing is left:
\* end_voice_session commits, then session_complete is sent, on which a page
\* that is still recording finalizes and submits.
Ends(v) ==
  /\ stream[v].phase = "live"
  /\ stream[v].open \/ stream[v].backlog = 0
  /\ row' = [row EXCEPT ![v] = "completed"]
  /\ stream' = Closes(v)
  /\ Tells(v)
  /\ UNCHANGED <<stored, sent, created, grades, cards, faults>>

\* The learner stops, or the countdown of the page does: it hangs up and submits
\* at once.  A socket that is still connecting is not closed.
Stop ==
  /\ page.phase = "recording"
  /\ stream' = [stream EXCEPT ![page.id].open = @ /\ stream[page.id].phase = "connecting"]
  /\ Submits(page.id, FALSE)
  /\ UNCHANGED <<rows, stored, sent, faults>>

\* The handler of the stream fails otherwise than by a disconnect: nothing
\* completes the voice session.
StreamBreaks(v) ==
  /\ stream[v].phase \in {"connecting", "live", "hearing"}
  /\ Fault
  /\ stream' = [stream EXCEPT ![v].phase = "broken", ![v].open = FALSE, ![v].backlog = 0]
  /\ UNCHANGED <<page, rows, stored, sent, job>>

\* The connection is lost; the page notices nothing.
Drops(v) ==
  /\ stream[v].phase \in {"connecting", "live", "hearing"} /\ stream[v].open
  /\ Fault
  /\ stream' = [stream EXCEPT ![v].open = FALSE]
  /\ UNCHANGED <<page, rows, stored, sent, job>>

-----------------------------------------------------------------------------
(* POST .../process: evaluation, memory, analysis, adaptation.             *)

Moves(v, from, to) == job[v].phase = from /\ job' = [job EXCEPT ![v].phase = to]

\* The transcript is what is stored by now; it is flagged or clean.
Evaluates(v) ==
  /\ job[v].phase = "sent"
  /\ \E c \in BOOLEAN :
       /\ Gradeable(stored[v], c)
       /\ job' = [job EXCEPT ![v].phase = "judging", ![v].read = stored[v], ![v].clean = c]
  /\ UNCHANGED <<page, rows, stored, stream, sent, faults>>

Grade(v) == [id |-> v, index |-> job[v].index, clean |-> job[v].clean]

\* Wrong variant: an answer that was flagged is not graded.
GradesClean(v) ==
  /\ Moves(v, "judging", "graded")
  /\ grades' = IF job[v].clean THEN grades \cup {Grade(v)} ELSE grades
  /\ UNCHANGED <<page, row, created, cards, stored, stream, sent, faults>>

\* By the language model, or with zero when it was flagged.
Grades(v) ==
  /\ Moves(v, "judging", "graded")
  /\ grades' = grades \cup {Grade(v)}
  /\ UNCHANGED <<page, row, created, cards, stored, stream, sent, faults>>

\* Only a clean answer gets a card.
Remembers(v) ==
  /\ Moves(v, "graded", "remembered")
  /\ cards' = IF job[v].clean THEN cards \cup {v} ELSE cards
  /\ UNCHANGED <<page, row, created, grades, stored, stream, sent, faults>>

\* The memory agent swallows its failure: the answer goes on without a card.
Forgets(v) ==
  /\ Moves(v, "graded", "remembered")
  /\ job[v].clean
  /\ Fault
  /\ UNCHANGED <<page, rows, stored, stream, sent>>

\* Wrong variant: the index counted from one.
StopAfterLate(i) == i >= Budget

StopAfter(i) == i >= Budget - 1

\* The skill row that the analysis writes is left out.  The contract reaches
\* the page, which ends or shows the next question.
Replies(v) ==
  /\ job[v].phase = "remembered"
  /\ job' = [job EXCEPT ![v] = Done]
  /\ page' = IF ~Shows(v, "submitting") THEN page
             ELSE IF StopAfter(page.index) THEN [page EXCEPT !.phase = "done"]
             ELSE Blank(page.index + 1)
  /\ UNCHANGED <<rows, stored, stream, sent, faults>>

\* Wrong variant: the error is not shown and the answer not marked.
StaysSubmitting == UNCHANGED page

\* The question is marked as answered already, which hides the error and its
\* button: only a reload is left.
Stuck == page' = [page EXCEPT !.phase = "stuck"]

\* The processing fails, or its reply is lost.
JobFails(v) ==
  /\ job[v].phase \in {"sent", "judging", "graded", "remembered"}
  /\ job' = [job EXCEPT ![v] = Done]
  /\ Fault
  /\ IF Shows(v, "submitting") THEN Stuck ELSE UNCHANGED page
  /\ UNCHANGED <<rows, stored, stream, sent>>

\* The tool starts over; the browser closes every socket.
Reload ==
  /\ page.phase # "done"
  /\ faults' = IF page.phase = "stuck" THEN faults ELSE faults + 1
  /\ faults' <= MaxFaults
  /\ page' = Blank(0)
  /\ stream' = [v \in Ids |-> [stream[v] EXCEPT !.open = FALSE]]
  /\ UNCHANGED <<rows, stored, sent, job>>

-----------------------------------------------------------------------------
PageStep == Create \/ Retry \/ Record \/ Stop

Streams(v) == Connects(v) \/ Hears(v) \/ Stores(v) \/ Ends(v)

Processes(v) ==
  Evaluates(v) \/ Grades(v) \/ Remembers(v) \/ Replies(v)

Next ==
  \/ PageStep \/ CreateLost \/ Speak \/ Reload
  \/ \E v \in Ids : \/ Streams(v) \/ StreamBreaks(v) \/ Drops(v)
                    \/ Processes(v) \/ Forgets(v) \/ JobFails(v)

Spec == Init /\ [][Next]_vars

(* The learner goes on, and the page's countdown stops a recording; he     *)
(* reloads a page that is stuck.  The server carries some stream on, whose *)
(* time limit passes, and some request: no more is needed, for streams and *)
(* requests take finitely many steps.                                      *)
Fairness ==
  /\ WF_vars(PageStep)
  /\ WF_vars(page.phase = "stuck" /\ Reload)
  /\ WF_vars(\E v \in Ids : Streams(v))
  /\ WF_vars(\E v \in Ids : Processes(v))

FairSpec == Spec /\ Fairness

-----------------------------------------------------------------------------
(* Properties.                                                             *)

PageType ==
  [ phase : {"blank", "error", "ready", "recording", "submitting", "stuck", "done"},
    index : 0 .. Budget - 1, id : 0 .. MaxSessions ]

StreamType ==
  [ phase : {"none", "connecting", "live", "hearing", "over", "broken"},
    backlog : Nat, open : BOOLEAN ]

JobType ==
  [ phase : {"none", "sent", "judging", "graded", "remembered", "done"},
    index : 0 .. Budget - 1, told : BOOLEAN, read : Seq(Chunk), clean : BOOLEAN ]

\* Every variable has the shape of the rows and messages of the code; a page
\* that records or submits does so for a voice session it has created.
TypeOK ==
  /\ page \in PageType
  /\ page.phase \in {"ready", "recording", "submitting"} => page.id \in 1 .. created
  /\ created \in 0 .. MaxSessions
  /\ row \in [Ids -> {"none", "pending", "active", "completed"}]
  /\ stored \in [Ids -> Seq(Chunk)]
  /\ stream \in [Ids -> StreamType]
  /\ sent \in Nat
  /\ job \in [Ids -> JobType]
  /\ grades \subseteq [id : Ids, index : 0 .. Budget - 1, clean : BOOLEAN]
  /\ cards \subseteq Ids
  /\ faults \in Nat

\* An answer whose processing is asked for "after the WebSocket sends
\* session_complete" is graded on everything that was heard: the stream is over
\* and no chunk is stored later, whatever connections broke.  An answer that the
\* learner stopped is not waited for (process_voice_session, stream_voice_audio,
\* useVoiceRecorder).
GradedWhole ==
  \A v \in Ids :
    job[v].told /\ job[v].phase \in {"judging", "graded", "remembered"} =>
      stream[v].phase = "over" /\ job[v].read = stored[v]

\* A grade_results row "is written for every response": the tool does not go on
\* to a question, or end, before all earlier questions were graded, whatever
\* failed, was reloaded or had nothing to grade (run_voice_adaptive_loop,
\* useVoiceDriver).
AnswersGraded ==
  \A i \in 0 .. Budget - 1 :
    i < page.index \/ page.phase = "done" => \E g \in grades : g.index = i

\* "Flagged transcripts carry no learner evidence": a memory card has a grade
\* of its own answer that was not flagged, and stored speech behind it
\* (evaluate_voice_response).
CardsHaveEvidence ==
  \A v \in cards :
    /\ \E g \in grades : g.id = v /\ g.clean
    /\ Gradeable(stored[v], TRUE)

\* The page goes on from answers that are on record, and the record is sound.
AnswersOnRecord == AnswersGraded /\ CardsHaveEvidence

\* "Finalize the session regardless of how the stream ended": every voice
\* session that became active is completed some day, also when the page stopped,
\* was reloaded, or had hung up before the socket was accepted.  Excepted is a
\* handler that fails otherwise than by a disconnect (stream_voice_audio).
StreamsFinalized ==
  \A v \in Ids : row[v] = "active" ~> row[v] = "completed" \/ stream[v].phase = "broken"

\* Failures, lost replies and reloads do not strand the learner: the tool ends
\* (useVoiceDriver, ChatVoiceMessage).
VoiceEnds == <>(page.phase = "done")

=============================================================================
