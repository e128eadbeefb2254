----------------------------- MODULE MCEvidence -----------------------------
(* Small instances of Evidence for TLC. *)
EXTENDS Evidence

\* The last MCQ answer has no pipeline, the one before has; the last diagram
\* answer is not graded, the one before is.
MCPlans ==
  {<<"mcq", "mcq", "voice">>, <<"diagram", "diagram", "coding">>,
   <<"voice", "voice", "coding">>, <<"coding", "coding", "none">>}

MCSignals == {{"thinking"}, {"soft"}}
MCConfig  == [initial |-> 0, intermediate |-> {4}, advanced |-> {8}]
=============================================================================
