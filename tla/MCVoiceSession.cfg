\* Two questions, an audio frame for one of them, and one disturbance: a failure,
\* a lost connection or reply, or a reload.  With it four voice sessions are all
\* the learner needs.
SPECIFICATION FairSpec
CONSTANTS
  Budget = 2
  MaxSessions = 4
  MaxFrames = 1
  MaxFaults = 1
INVARIANT TypeOK
INVARIANT GradedWhole
INVARIANT AnswersOnRecord
PROPERTY StreamsFinalized
PROPERTY VoiceEnds
CHECK_DEADLOCK FALSE
