CONSTANTS
  NAddr = 11
  NoAddr = NoAddr
  BootAddr = 0
  ExcAddr = 9
  IrqAddr = 9
  HaltAddr = 9
  DebugExcAddr = 9
  JumpTo = 0
  BranchTo = 0
  TriggerAddr = NoAddr
  Programs <- StepEndPrograms
  Loops = {0, 1}
  LoopStart <- Starts
  LoopEnd <- Ends
  Counts = {2}
  Width = 4
  Irqs <- Never
  DebugReqs <- Whenever
SPECIFICATION Spec
INVARIANT SteppedPcIsDue
CHECK_DEADLOCK TRUE
