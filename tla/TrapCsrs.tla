------------------------------ MODULE TrapCsrs ------------------------------
(***************************************************************************)
(* cv32e40p_cs_registers: the registers a trap, a return or a debug entry  *)
(* reads and writes.  o holds what the controller asks for in this cycle.  *)
(* The program writes mstatus.MIE; the debugger writes dcsr.step, stepie   *)
(* and ebreakm; neither writes mepc or dpc.                                *)
(***************************************************************************)
EXTENDS Isa

VARIABLES mepc, mie, mpie,               \* mepc, mstatus.MIE, mstatus.MPIE
          dpc, step, ebreakm, cause      \* dpc, dcsr

trapCsrVars == <<mepc, mie, mpie, dpc, step, ebreakm, cause>>

TrapCsrsInit ==
  /\ mepc = 0 /\ mie = FALSE /\ mpie = FALSE
  /\ dpc = 0 /\ step = "off" /\ ebreakm = FALSE /\ cause = "none"

\* m_irq_enable_o
IrqEnable == mie /\ step # "noirq"

\* csr_save_cause_i with the pc of the stage csr_save_if_i or csr_save_id_i name
SaveTrap(pc) ==
  /\ mepc' = pc /\ mpie' = mie /\ mie' = FALSE
  /\ UNCHANGED <<dpc, step, ebreakm, cause>>

SaveDebug(pc, why) ==
  /\ dpc' = pc /\ cause' = why
  /\ UNCHANGED <<mepc, mie, mpie, step, ebreakm>>

\* csr_restore_mret_i
Restore ==
  /\ mie' = mpie /\ mpie' = TRUE
  /\ UNCHANGED <<mepc, dpc, step, ebreakm, cause>>

\* csr_op_ex_o is not CSR_OP_READ: the instruction in EX writes.
WriteFromEx(debugging) ==
  /\ IF debugging
     THEN step' \in Stepping /\ ebreakm' \in BOOLEAN /\ UNCHANGED mie
     ELSE mie' \in BOOLEAN /\ UNCHANGED <<step, ebreakm>>
  /\ UNCHANGED <<mepc, mpie, dpc, cause>>

\* A trap wins over a write.
TrapCsrsClock(o, pcOf, writes, debugging) ==
  \/ o.save # "no" /\ o.dbgSave /\ SaveDebug(pcOf[o.save], o.cause)
  \/ o.save # "no" /\ ~o.dbgSave /\ SaveTrap(pcOf[o.save])
  \/ o.save = "no" /\ o.restore /\ Restore
  \/ o.save = "no" /\ ~o.restore /\ writes /\ WriteFromEx(debugging)
  \/ o.save = "no" /\ ~o.restore /\ ~writes /\ UNCHANGED trapCsrVars
=============================================================================
