CONSTANTS
  None = None
  Start <- MCOneStart
  Insn <- MCFewInsn
  FpuInsn <- MCFewInsn
SPECIFICATION Spec
INVARIANTS
  FsInOrder
