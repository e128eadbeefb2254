---------------------------- MODULE MCAdmission ----------------------------
(* A learner's tab and an administrator, for TLC. *)
EXTENDS Admission

CONSTANT mcq

MCTools == {mcq}

\* A sitting of one tool within a limit of time, and one without a tool.
MCBlueprints == {[tools |-> {mcq}, limited |-> TRUE], [tools |-> {}, limited |-> FALSE]}
=============================================================================
