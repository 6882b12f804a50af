CONSTANTS
  None = None
  Start <- MCStart
  Insn <- MCInsn
  FpuInsn <- MCFpuInsn
SPECIFICATION Spec
INVARIANTS
  HazardsSeen
  FitsWriteBack
  DecodesCurrent
