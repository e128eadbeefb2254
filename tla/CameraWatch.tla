---------------------------- MODULE CameraWatch -----------------------------
(***************************************************************************)
(* The camera in the learner's browser and the grace for his absence       *)
(* (useProctoring.ts, vlm_face.py), on top of the handlers of Proctoring.  *)
(*                                                                         *)
(* The page loads the policy, opens the camera and every 1.5 seconds sends *)
(* a frame, one at a time.  The server remembers, in the memory of its     *)
(* process, when a session first showed nobody: after the grace the next   *)
(* such frame makes an event, and a frame that shows somebody ends it.     *)
(***************************************************************************)
EXTENDS Proctoring

CONSTANTS
  Absent,         \* the type candidate_absent
  CameraOff       \* the type camera_disabled

ASSUME CameraAssumption == Absent \in HighTypes /\ CameraOff \in HighTypes

VARIABLES
  page,           \* policy, camera, and the frame whose reply is awaited, or 0
  frames,         \* frames captured so far, which number them
  shot,           \* the frame of each request, and whether it is empty
  absence,        \* _absence_started: since which frame, and if the grace is over
  shown,          \* history: the last frame captured that was seen not to be empty
  parted          \* history: the page has given up a request, or was reloaded

browser == <<page, frames, parted>>
memory  == <<absence, shown>>
watch   == <<browser, shot, memory>>

NoShot    == [number |-> 0, empty |-> FALSE]
NoAbsence == [phase |-> "none", since |-> 0]
NewPage   == [policy |-> "loading", camera |-> "off", looking |-> 0]

WatchInit ==
  /\ Init
  /\ page = NewPage /\ frames = 0 /\ parted = FALSE
  /\ shot = [r \in Requests |-> NoShot]
  /\ absence = NoAbsence /\ shown = 0

-----------------------------------------------------------------------------
(* The page.                                                               *)

\* The policy is asked for once; without it nothing is monitored.
LoadsPolicy ==
  /\ page.policy = "loading"
  /\ \E outcome \in {"loaded", "failed"} : page' = [page EXCEPT !.policy = outcome]
  /\ UNCHANGED <<vars, frames, parted, shot, memory>>

OpensCamera ==
  /\ page.policy = "loaded" /\ page.camera = "off" /\ RequireCamera
  /\ page' = [page EXCEPT !.camera = "on"]
  /\ UNCHANGED <<vars, frames, parted, shot, memory>>

\* The camera is refused, or its track ends: reported once, if that is enabled.
\* The frames of a track that ended are still captured.
LosesCamera(r) ==
  /\ page.policy = "loaded" /\ page.camera \in {"off", "on"} /\ RequireCamera
  /\ page' = [page EXCEPT !.camera = IF @ = "on" THEN "ended" ELSE "refused"]
  /\ IF CameraOff \in Enabled THEN Begin(r, "recording", {CameraOff}) ELSE UNCHANGED vars
  /\ UNCHANGED <<frames, parted, shot, memory>>

\* The listeners and timers of the page, the sound levels it sends, and whatever
\* other client of the API has the session's id.
Reports(r) == Report(r) /\ UNCHANGED watch

Captures(r) ==
  /\ page.camera \in {"on", "ended"}
  /\ AnalyzeCamera(r)
  /\ frames' = frames + 1
  /\ page' = [page EXCEPT !.looking = frames']
  /\ \E empty \in BOOLEAN : shot' = [shot EXCEPT ![r] = [number |-> frames', empty |-> empty]]
  /\ UNCHANGED <<parted, memory>>

InAnalysis(n) == \E r \in Requests : req[r].phase # "free" /\ shot[r].number = n

\* Wrong variant: a frame is sent although the last one is still looked at.
CapturesAnyway(r) == Captures(r)

\* One frame at a time (isAnalyzingCameraRef).
CapturesNext(r) == page.looking = 0 /\ Captures(r)

\* The answer arrives, or the error.
Hears ==
  /\ page.looking # 0 /\ ~InAnalysis(page.looking)
  /\ page' = [page EXCEPT !.looking = 0]
  /\ UNCHANGED <<vars, frames, parted, shot, memory>>

\* The connection breaks while the server is at work.
Parts ==
  /\ page.looking # 0 /\ InAnalysis(page.looking)
  /\ page' = [page EXCEPT !.looking = 0]
  /\ parted' = TRUE
  /\ UNCHANGED <<vars, frames, shot, memory>>

Reloads ==
  /\ page # NewPage
  /\ page' = NewPage
  /\ parted' = (parted \/ page.looking # 0)
  /\ UNCHANGED <<vars, frames, shot, memory>>

-----------------------------------------------------------------------------
(* The server.                                                             *)

\* apply_candidate_absence_grace: what is remembered after a frame.
AbsenceAfter(s) ==
  IF ~s.empty THEN NoAbsence
  ELSE IF absence.phase = "none" THEN [phase |-> "begun", since |-> s.number] ELSE absence

\* The vision model has looked at the frame of request r.
Looks(r) ==
  /\ Sees(r)
  /\ Absent \in req'[r].todo <=> Absent \in Enabled /\ shot[r].empty /\ absence.phase = "over"
  /\ absence' = AbsenceAfter(shot[r])
  /\ shown' = IF ~shot[r].empty /\ shot[r].number > shown THEN shot[r].number ELSE shown
  /\ UNCHANGED <<browser, shot>>

GraceEnds ==
  /\ absence.phase = "begun"
  /\ absence' = [absence EXCEPT !.phase = "over"]
  /\ UNCHANGED <<vars, browser, shot, shown>>

\* The process restarts, after the requests it was at work on have failed.
Restarts ==
  /\ absence # NoAbsence /\ InFlight = {}
  /\ absence' = NoAbsence
  /\ UNCHANGED <<vars, browser, shot, shown>>

\* stop_proctoring_session forgets the absence.
Stops == SessionCompletes /\ absence' = NoAbsence /\ UNCHANGED <<browser, shot, shown>>

Ends(r) ==
  /\ Commits(r) \/ Fails(r)
  /\ shot' = [shot EXCEPT ![r] = NoShot]
  /\ UNCHANGED <<browser, memory>>

Handles(r) == (VerifyIdentity(r) \/ Compares(r) \/ Records(r) \/ Counts(r)) /\ UNCHANGED watch

Around == (SessionStarts \/ \E t \in Types : CooldownPasses(t)) /\ UNCHANGED watch

-----------------------------------------------------------------------------
Pages == LoadsPolicy \/ OpensCamera \/ Hears \/ Parts \/ Reloads

WatchNext ==
  \/ Pages \/ GraceEnds \/ Restarts \/ Stops \/ Around
  \/ \E r \in Requests :
       LosesCamera(r) \/ Reports(r) \/ CapturesNext(r) \/ Looks(r) \/ Handles(r) \/ Ends(r)

WatchSpec == WatchInit /\ [][WatchNext]_<<vars, watch>>

-----------------------------------------------------------------------------
(* Properties.                                                             *)

WatchTypeOK ==
  /\ TypeOK
  /\ page \in [policy : {"loading", "loaded", "failed"},
               camera : {"off", "on", "ended", "refused"}, looking : Nat]
  /\ frames \in Nat /\ shown \in Nat /\ parted \in BOOLEAN
  /\ shot \in [Requests -> [number : Nat, empty : BOOLEAN]]
  /\ absence \in [phase : {"none", "begun", "over"}, since : Nat]

\* "Emit candidate_absent only after person_count stays 0 past grace_seconds"
\* (apply_candidate_absence_grace): no frame taken after the one from which
\* the absence is counted has shown the learner.  The server takes frames in
\* the order their analyses end; it is the page, waiting for each reply, that
\* keeps this the order in which they were taken.
AbsenceUnbroken == ~parted /\ absence.phase # "none" => shown < absence.since

=============================================================================
