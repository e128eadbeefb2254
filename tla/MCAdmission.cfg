\* Two sittings in one tab, one of them after a failure, and one change by the
\* administrator beside a request for a plan.
SPECIFICATION FairSpec
CONSTANTS
  mcq = mcq
  Tools <- MCTools
  Blueprints <- MCBlueprints
  CvRequired = TRUE
  Requests = {g1}
  MaxSessions = 2
  MaxEdits = 1
  MaxFaults = 1
INVARIANT TypeOK
INVARIANT AdmittedOnly
INVARIANT CompletionEarned
PROPERTY PlannerKeepsClosed
PROPERTY EventuallyAdmitted
CHECK_DEADLOCK FALSE
