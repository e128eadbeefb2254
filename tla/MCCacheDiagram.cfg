\* An undisturbed diagram sitting.
SPECIFICATION FairSpec
CONSTANTS
  Pages = {p1}
  Workers = {w1, w2}
  Tools = {"diagram"}
  Budget = 2
  MaxFaults = 0
  MaxReloads = 0
  MaxDelays = 0
PROPERTY AnswersAreProcessed
CHECK_DEADLOCK FALSE
