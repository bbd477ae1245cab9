SPECIFICATION StreamSpec
CONSTANTS
  Rendered <- MCRendered
  Plain <- MCPlain
  Replies <- MCReplies
  Gone = "gone"
  MaxStreams = 2
  MaxRetries = 1
  MaxFaults = 2
INVARIANTS
  AnswerOnce
  SkipIsSound
PROPERTIES
  AnswerSettles
  LatestShown
CHECK_DEADLOCK FALSE
