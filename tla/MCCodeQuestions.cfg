\* One question of another tool was answered before; nothing fails.
SPECIFICATION Spec
CONSTANTS
  Pages = {p1}
  Requests = {q1}
  Codes = {a}
  Budget = 2
  MaxOthers = 1
  MaxFaults = 0
  MaxReloads = 0
INVARIANT AllQuestionsAsked
CHECK_DEADLOCK FALSE
