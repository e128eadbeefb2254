\* The client completes once, and requests do not overlap each other; the
\* Celery tasks overlap with them.  Enough approvals for every hold.
SPECIFICATION FairSpec
CONSTANTS
  Requests = {q1}
  Chains = {c1, c2, c3, c4}
  Reviews = {v1, v2}
  MailSettings <- MCMail
  MaxStarts = 2
  MaxCompletes = 1
  MaxFlags = 2
  MaxApprovals = 3
  MaxFaults = 1
INVARIANT ReleasableOnce
PROPERTY ReleasesByPolicy
PROPERTY CompletionIsReported
CHECK_DEADLOCK FALSE
