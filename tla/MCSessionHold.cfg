\* The client completes twice, as the chat page and the complete page do.
SPECIFICATION Spec
CONSTANTS
  Requests = {q1}
  Chains = {c1, c2}
  Reviews = {v1}
  MailSettings <- MCSends
  MaxStarts = 1
  MaxCompletes = 2
  MaxFlags = 0
  MaxApprovals = 0
  MaxFaults = 0
PROPERTY HeldUntilApproved
CHECK_DEADLOCK FALSE
