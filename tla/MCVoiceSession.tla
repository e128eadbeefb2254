--------------------------- MODULE MCVoiceSession ---------------------------
(* Instances of VoiceSession for TLC. *)
EXTENDS VoiceSession
=============================================================================
