SPECIFICATION FairSpec
CONSTANTS
  NWords = 3
  NoAddr = NoAddr
INVARIANTS
  PcIfIsDue
  LoopTargetApplied
PROPERTIES
  ImplementsInstrStream
  InstrProgress
