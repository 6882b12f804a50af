CONSTANTS
  NAddr = 6
  NoAddr = NoAddr
  BootAddr = 0
  ExcAddr = 3
  IrqAddr = 3
  HaltAddr = 4
  DebugExcAddr = 5
  JumpTo = 0
  BranchTo = 0
  TriggerAddr = 2
  Programs <- DebugPrograms
  Loops = {}
  LoopStart <- None
  LoopEnd <- None
  Counts = {1}
  Width = 4
  Irqs <- Whenever
  DebugReqs <- Whenever
SPECIFICATION FairSpec
INVARIANT IdHoldsDue
INVARIANT TakenIfForStep
INVARIANT SleepsForWfi
INVARIANT ClockStopsIdle
PROPERTY ImplementsHart
PROPERTY RequestServed
