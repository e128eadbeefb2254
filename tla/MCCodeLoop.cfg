\* One page that is reloaded or retried; one failure; up to two questions
\* of other tools before.
SPECIFICATION FairSpec
CONSTANTS
  Pages = {p1}
  Requests = {q1, q2}
  Codes = {a, b}
  Budget = 2
  MaxOthers = 2
  MaxFaults = 1
  MaxReloads = 1
INVARIANT TypeOK
INVARIANT GradesSound
INVARIANT GradedOnce
PROPERTY AskedFresh
PROPERTY CodingSettles
CHECK_DEADLOCK FALSE
