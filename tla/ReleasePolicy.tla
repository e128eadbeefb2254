---------------------------- MODULE ReleasePolicy ----------------------------
(***************************************************************************)
(* What the platform promises about a sitting's results, without a word    *)
(* about rows, requests or workers: the sitting is closed, its grading is  *)
(* judged, a grading found inconsistent is held until an admin clears it,  *)
(* and only a cleared result is released to the learner.                   *)
(***************************************************************************)
VARIABLE outcome

Outcomes == {"open", "grading", "held", "cleared", "released"}

Init == outcome = "open"

Close   == outcome = "open" /\ outcome' = "grading"
Hold    == outcome = "grading" /\ outcome' = "held"
Clear   == outcome \in {"grading", "held"} /\ outcome' = "cleared"
Release == outcome = "cleared" /\ outcome' = "released"

Next == Close \/ Hold \/ Clear \/ Release

Spec == Init /\ [][Next]_outcome
=============================================================================
