----------------------------- MODULE MCCodeLoop -----------------------------
(* Instances of CodeLoop for TLC. *)
EXTENDS CodeLoop
=============================================================================
