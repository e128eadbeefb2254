-------------------------- MODULE MCQuestionCache --------------------------
(* Small instances of QuestionCache for TLC.                               *)
EXTENDS QuestionCache, TLC

Symm == Permutations(Pages) \cup Permutations(Workers)
=============================================================================
