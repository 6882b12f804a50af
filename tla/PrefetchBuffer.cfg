\* A word is named by its address.  With three addresses a redirection may go
\* one word on or back, and sequential fetch wraps.
SPECIFICATION FairSpec
CONSTANTS
  Depth = 2
  PULP_OBI = FALSE
  NWords = 3
  Word = {0, 1, 2}
  NoAddr = NoAddr
INVARIANTS
  TypeOK
  CountIsOutstanding
  AnswersHaveRoom
  EndRequested
  DelayedFlushOK
  PathIsContinuous
PROPERTIES
  ImplementsStream
  FetchProgress
