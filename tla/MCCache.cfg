\* One page, both tools; a crash or failed generation, a reload of a healthy
\* page, and one slow generation (which may get a rival).
SPECIFICATION FairSpec
CONSTANTS
  Pages = {p1}
  Workers = {w1, w2}
  Tools = {"mcq", "diagram"}
  Budget = 2
  MaxFaults = 1
  MaxReloads = 1
  MaxDelays = 1
INVARIANT TypeOK
INVARIANT ServedOnce
INVARIANT OneGenerator
PROPERTY NeverStranded
CHECK_DEADLOCK FALSE
