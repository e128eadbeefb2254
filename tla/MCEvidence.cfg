\* Sittings of two or three questions, so that every tool has two in one of them;
\* two troubles: failures, or one and a completion while answers are processed.
SPECIFICATION Spec
CONSTANTS
  Length = 3
  Plans <- MCPlans
  Dims = {"thinking", "soft"}
  Engaged = {"thinking"}
  Signals <- MCSignals
  Tests = 1
  Opinions = {0, 500}
  Key = TRUE
  Development = TRUE
  Start = 0
  Cap = 1
  Config <- MCConfig
  MaxTroubles = 2
INVARIANT TypeOK
INVARIANT EvidenceSupported
INVARIANT ReportSound
INVARIANT TestsWeigh
PROPERTY JudgeKept
PROPERTY DifficultyEarned
CHECK_DEADLOCK FALSE
