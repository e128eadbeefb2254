\* Two requests at a time, one fault.
SPECIFICATION Spec
CONSTANTS
  Requests = {q1, q2}
  Chains = {c1, c2, c3}
  Reviews = {v1, v2}
  MailSettings <- MCSends
  MaxStarts = 2
  MaxCompletes = 2
  MaxFlags = 1
  MaxApprovals = 1
  MaxFaults = 1
SYMMETRY Symm
INVARIANT TypeOK
INVARIANT ActiveIsProctored
INVARIANT ReportsAreCleared
CHECK_DEADLOCK FALSE
