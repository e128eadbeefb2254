----------------------------- MODULE MCExaminer -----------------------------
(* Small instances of Examiner for TLC.                                    *)
EXTENDS Examiner

Counts(m, v, d, c) == [mcq |-> m, voice |-> v, diagram |-> d, code |-> c]

\* Two questions of mcq, one of code; voice is configured but not enabled.
Screen == [enabled |-> {"mcq", "code"}, count |-> Counts(2, 1, 0, 1), total |-> 3]

\* The same assessment after an edit: voice is enabled, diagram counts zero.
Edited == [enabled |-> {"mcq", "voice", "diagram"},
           count |-> Counts(1, 1, 0, 1), total |-> 2]

\* Totals that no planner wrote: below the sum of the counts, above it, none.
Short2 == [Screen EXCEPT !.total = 2]
Long   == [Edited EXCEPT !.total = 4]
None   == [Edited EXCEPT !.total = 0]

MCBlueprints == {Screen, Short2, Long, None}
=============================================================================
