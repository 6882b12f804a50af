CONSTANTS
  None = None
  Zero = Zero
  Reg = {r1, r2}
  COREV_PULP = TRUE
  PULP_OBI = FALSE
  Insn <- MCInsn
SPECIFICATION Spec
SYMMETRY MCSymmetry
INVARIANTS
  ReadsNewest
  NewestNotLost
  DispatcherAgrees
