\* One tab whose reload leaves a turn in flight, a lost reply and one edit of the
\* assessment, whose total may be right, short, too large or none.  No symmetry:
\* liveness is checked as well.
SPECIFICATION FairSpec
CONSTANTS
  Tabs = {t1}
  Requests = {r1, r2}
  Blueprints <- MCBlueprints
  MaxReloads = 1
  MaxLosses = 1
  MaxEdits = 1
  MaxAnswers = 1
INVARIANT TypeOK
INVARIANT StateConsistent
PROPERTY CompletionIsEarned
PROPERTY TurnsKeep
PROPERTY EventuallyComplete
CHECK_DEADLOCK FALSE
