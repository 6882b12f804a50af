----------------------------- MODULE Controller -----------------------------
(***************************************************************************)
(* cv32e40p_controller for COREV_CLUSTER = 0, without PMP (data_err_i and  *)
(* is_fetch_failed_i are 0) and in machine mode only.  Out(in) is the      *)
(* combinational block: what the controller says in a cycle with inputs in *)
(* (see Pipeline), as a record                                             *)
(*   ns                 ctrl_fsm_ns                                        *)
(*   req, busy          instr_req_o, ctrl_busy_o                           *)
(*   haltIf, haltId     halt_if_o, halt_id_o                               *)
(*   decoding           is_decoding_o                                      *)
(*   pc                 where pc_set_o sends the fetch, or "none"          *)
(*   save, dbgSave, cause   csr_save_*_o with csr_save_cause_o,            *)
(*                      debug_csr_save_o, debug_cause_o                    *)
(*   irqAck, mask       irq_ack_o, hwlp_mask_o                             *)
(*   restore            csr_restore_mret_id_o                              *)
(*   jumpDone, debugN, illegalN, entryN, wakeN   next register values      *)
(*   dec, end4, hwlpJump, target                 hardware loops            *)
(* Operators named Faulty... take no part; each is what a slip would make  *)
(* of the definition after it.                                             *)
(***************************************************************************)
EXTENDS Pipeline, TrapCsrs, HwloopRegs

VARIABLES
  ctrl_fsm_cs, jump_done_q, debug_mode_q, illegal_insn_q, debug_req_entry_q,
  debug_force_wakeup_q, hwlp_end_4_id_q, debug_fsm_cs,
  debug_req_q                                   \* on the ungated clock

ctrlVars == <<ctrl_fsm_cs, jump_done_q, debug_mode_q, illegal_insn_q,
              debug_req_entry_q, debug_force_wakeup_q, hwlp_end_4_id_q, debug_fsm_cs>>

CtrlStates == {"RESET", "BOOT_SET", "WAIT_SLEEP", "SLEEP", "FIRST_FETCH",
               "DECODE", "DECODE_HWLOOP", "FLUSH_EX", "FLUSH_WB", "XRET_JUMP",
               "DBG_WAIT_BRANCH", "DBG_FLUSH", "DBG_TAKEN_ID", "DBG_TAKEN_IF"}

CtrlInit ==
  /\ ctrl_fsm_cs = "RESET" /\ debug_fsm_cs = "HAVERESET"
  /\ jump_done_q = FALSE /\ debug_mode_q = FALSE /\ illegal_insn_q = FALSE
  /\ debug_req_entry_q = FALSE /\ debug_force_wakeup_q = FALSE
  /\ hwlp_end_4_id_q = FALSE /\ debug_req_q = FALSE

-----------------------------------------------------------------------------
Pending(in) == in.dbg \/ debug_req_q                      \* debug_req_pending
trigger_match == pc_id = TriggerAddr
Wake(in) == in.irq \/ Pending(in) \/ debug_mode_q         \* wake_from_sleep_o
Stepped == step # "off" /\ ~debug_mode_q

\* wfi_active: elsewhere wfi is a nop
wfi_active(in) ==
  insn_id = "wfi" /\ ~(debug_mode_q \/ Pending(in) \/ step # "off" \/ trigger_match)

illegal_insn == insn_id = "illegal" \/ (insn_id = "dret" /\ ~debug_mode_q)
ForcedEbreak == ebreakm /\ insn_id = "ebreak"
MustHalt(in) == (Pending(in) \/ trigger_match) /\ ~debug_mode_q
MustTakeIrq(in) == in.irq /\ IrqEnable /\ ~debug_mode_q

Default(in) ==
  [ns |-> ctrl_fsm_cs, req |-> TRUE, busy |-> TRUE,
   haltIf |-> FALSE, haltId |-> FALSE, decoding |-> FALSE, pc |-> "none",
   save |-> "no", dbgSave |-> FALSE, cause |-> "ebreak",
   irqAck |-> FALSE, mask |-> FALSE, restore |-> FALSE,
   jumpDone |-> jump_done_q, debugN |-> debug_mode_q,
   illegalN |-> illegal_insn_q /\ ~(ctrl_fsm_cs = "DECODE" /\ instr_valid_id /\ ~branch_taken_ex),
   entryN |-> debug_req_entry_q, wakeN |-> debug_force_wakeup_q,
   dec |-> {}, end4 |-> FALSE, hwlpJump |-> FALSE, target |-> HwlpTarget(pc_id)]

Halted(in) == [Default(in) EXCEPT !.haltIf = TRUE, !.haltId = TRUE]

-----------------------------------------------------------------------------
\* Reset, boot and sleep.
FaultyOutReset(in) ==
  [Default(in) EXCEPT !.req = FALSE, !.busy = FALSE,
                      !.ns = IF in.fetchEnQ THEN "BOOT_SET" ELSE "RESET"]

OutReset(in) ==
  [Default(in) EXCEPT !.req = FALSE,
                      !.ns = IF in.fetchEnQ THEN "BOOT_SET" ELSE "RESET"]

OutBootSet(in) ==
  [Default(in) EXCEPT !.pc = "boot",
                      !.ns = IF Pending(in) THEN "DBG_TAKEN_IF" ELSE "FIRST_FETCH",
                      !.wakeN = Pending(in) \/ @]

OutWaitSleep(in) == [Halted(in) EXCEPT !.req = FALSE, !.busy = FALSE, !.ns = "SLEEP"]

OutSleep(in) ==
  [Halted(in) EXCEPT
     !.req = FALSE, !.busy = Wake(in),
     !.ns = IF ~Wake(in) THEN "SLEEP"
            ELSE IF Pending(in) THEN "DBG_TAKEN_IF" ELSE "FIRST_FETCH",
     !.wakeN = Pending(in) \/ @]

\* The interrupt taken: the pc of stage goes to mepc.
Interrupt(in, stage) ==
  [Halted(in) EXCEPT !.ns = "DECODE", !.pc = "irq", !.irqAck = TRUE,
                     !.save = stage, !.mask = COREV_PULP /\ stage = "id"]

OutFirstFetch(in) ==
  IF MustTakeIrq(in) /\ ~Pending(in) THEN Interrupt(in, "if")
  ELSE [Default(in) EXCEPT !.ns = "DECODE"]

-----------------------------------------------------------------------------
\* DECODE and DECODE_HWLOOP.  The instruction leaves for state s when ID is ready.
Leaves(in, s) == IF IdReady(in) THEN s ELSE ctrl_fsm_cs

\* It is decoded, but nothing may follow it.
Alone(in, s) ==
  [Default(in) EXCEPT !.decoding = TRUE, !.haltIf = TRUE, !.ns = Leaves(in, s)]

\* A debug request or a trigger: the instruction is not executed.
ServeDebug(in) ==
  [Halted(in) EXCEPT !.decoding = ~COREV_PULP, !.ns = "DBG_FLUSH", !.entryN = TRUE]

DecodeIllegal(in) ==
  IF ctrl_fsm_cs = "DECODE"
  THEN [Alone(in, "FLUSH_EX") EXCEPT !.illegalN = TRUE]
  ELSE [Alone(in, "FLUSH_EX") EXCEPT !.illegalN = TRUE, !.haltId = TRUE,
                                     !.ns = "FLUSH_EX"]

DecodeJump(in) ==
  IF ~in.jr /\ ~jump_done_q
  THEN [Default(in) EXCEPT !.decoding = TRUE, !.pc = "jump", !.jumpDone = TRUE]
  ELSE [Default(in) EXCEPT !.decoding = TRUE]

DecodeEbreak(in) ==
  IF debug_mode_q \/ ForcedEbreak
  THEN [Alone(in, "FLUSH_EX") EXCEPT !.ns = "DBG_FLUSH"]
  ELSE Alone(in, "FLUSH_EX")

DecodeCsr(in) ==
  IF IdReady(in)
  THEN [Alone(in, "FLUSH_EX") EXCEPT !.dec = {k \in Loops : AtLast(k, pc_id)}]
  ELSE Alone(in, "FLUSH_EX")

\* Any other instruction in DECODE: the last one of a loop to be repeated is
\* found here after a return to it or to the one before it.
FaultyDecodeOther(in) ==
  [Default(in) EXCEPT
     !.decoding = TRUE,
     !.ns = IF InHwlpBody(pc_id) THEN "DECODE_HWLOOP" ELSE @,
     !.dec = {k \in Loops : AtLast(k, pc_id) /\ hwlp_counter_q[k] = 1}]

DecodeOther(in) ==
  LET back == {k \in Loops : AtLast(k, pc_id) /\ hwlp_counter_q[k] > 1}
      goes == back # {} /\ ~jump_done_q
      stays == \E k \in Loops : AtLastButOne(k, pc_id)
  IN  [Default(in) EXCEPT
         !.decoding = TRUE,
         !.ns = IF InHwlpBody(pc_id) /\ ~stays THEN "DECODE_HWLOOP" ELSE @,
         !.pc = IF goes THEN "hwloop" ELSE @,
         !.jumpDone = goes \/ @,
         !.dec = {k \in Loops : AtLast(k, pc_id) /\ hwlp_counter_q[k] = 1}
                   \cup (IF goes THEN back ELSE {})]

\* In DECODE_HWLOOP the prefetcher is told one instruction ahead.
DecodeOtherHwloop(in) ==
  LET next == {k \in Loops : AtLastButOne(k, pc_id)}
      back == {k \in next : hwlp_counter_q[k] > 1}
      jump == back # {} /\ ~hwlp_end_4_id_q          \* a pulse
  IN  [Default(in) EXCEPT
         !.decoding = TRUE,
         !.ns = IF next # {} /\ back = {} /\ ~InHwlpBody(pc_id) THEN "DECODE" ELSE @,
         !.end4 = back # {}, !.hwlpJump = jump,
         !.target = IF back # {} THEN StartAddr(CHOOSE k \in back : TRUE) ELSE @,
         !.dec = {k \in Loops : AtLast(k, pc_id) /\ hwlp_counter_q[k] # 0}]

\* No rule of the language lets the others stand in a loop.
DecodeInsn(in) ==
  LET straight == ctrl_fsm_cs = "DECODE"
      others == IF straight THEN {"fencei", "mret", "dret"} ELSE {}
  IN  CASE illegal_insn -> DecodeIllegal(in)
        [] straight /\ insn_id = "jump" -> DecodeJump(in)
        [] insn_id = "ebreak" -> DecodeEbreak(in)
        [] ~illegal_insn /\ insn_id \in {"ecall"} \cup others -> Alone(in, "FLUSH_EX")
        [] straight /\ wfi_active(in) -> Alone(in, "FLUSH_EX")
        [] insn_id = "csr" -> DecodeCsr(in)
        [] OTHER -> IF straight THEN DecodeOther(in) ELSE DecodeOtherHwloop(in)

\* Single-stepping: where to go once the instruction has been executed.
FaultyAfterStep == "DBG_FLUSH"

AfterStep ==
  IF illegal_insn \/ insn_id \in {"ecall", "mret"} THEN "FLUSH_EX"
  ELSE IF insn_id = "ebreak" /\ ~ebreakm THEN "FLUSH_EX"
  ELSE IF insn_id = "branch" THEN "DBG_WAIT_BRANCH"
  ELSE "DBG_FLUSH"

DecodeValid(in) ==
  LET r == DecodeInsn(in)
  IN  IF ~Stepped THEN r
      ELSE [r EXCEPT !.haltIf = TRUE, !.ns = IF IdReady(in) THEN AfterStep ELSE @]

OutDecode(in) ==
  IF ctrl_fsm_cs = "DECODE" /\ branch_taken_ex THEN [Default(in) EXCEPT !.pc = "branch"]
  ELSE IF ~instr_valid_id THEN Default(in)
  ELSE IF MustHalt(in) THEN ServeDebug(in)
  ELSE IF MustTakeIrq(in) THEN Interrupt(in, "id")
  ELSE DecodeValid(in)

-----------------------------------------------------------------------------
\* Flushing: exceptions, xret, CSR instructions, wfi and fence.i
OutFlushEx(in) ==
  IF ~ExValid(in) THEN Halted(in)
  ELSE [Halted(in) EXCEPT
          !.ns = "FLUSH_WB",
          !.save = IF \/ illegal_insn_q /\ ~debug_mode_q
                      \/ ~illegal_insn_q /\ insn_id = "ebreak"
                      \/ ~illegal_insn_q /\ insn_id = "ecall" /\ ~debug_mode_q
                   THEN "id" ELSE @]

RaiseException(in) ==
  [Halted(in) EXCEPT
     !.pc = IF debug_mode_q /\ (illegal_insn_q \/ insn_id # "ebreak") THEN "dbe" ELSE "exc",
     !.illegalN = FALSE,
     !.ns = IF Stepped THEN "DBG_TAKEN_IF" ELSE "DECODE"]

OutFlushWb(in) ==
  IF illegal_insn_q \/ insn_id \in {"ebreak", "ecall"} THEN RaiseException(in)
  ELSE CASE insn_id \in {"mret", "dret"} ->
              [Halted(in) EXCEPT !.ns = "XRET_JUMP",
                                 !.restore = insn_id = "mret" /\ ~debug_mode_q]
         [] insn_id = "csr" ->
              [Halted(in) EXCEPT
                 !.ns = "DECODE",
                 !.pc = IF \E k \in Loops : AtLast(k, pc_id) /\ hwlp_counter_q[k] # 0
                        THEN "hwloop" ELSE @]
         [] insn_id = "wfi" ->
              IF Pending(in)
              THEN [Halted(in) EXCEPT !.ns = "DBG_TAKEN_IF", !.wakeN = TRUE]
              ELSE [Halted(in) EXCEPT !.ns = "WAIT_SLEEP"]
         [] insn_id = "fencei" -> [Halted(in) EXCEPT !.ns = "DECODE", !.pc = "fencei"]
         [] OTHER -> [Halted(in) EXCEPT !.ns = "DECODE"]

OutXretJump(in) ==
  [Default(in) EXCEPT
     !.pc = IF insn_id = "dret" THEN "dret"
            ELSE IF debug_mode_q THEN "dbe" ELSE "mret",
     !.debugN = @ /\ insn_id # "dret",
     !.ns = IF Stepped THEN "DBG_TAKEN_IF" ELSE "DECODE"]

-----------------------------------------------------------------------------
\* Debug entry
OutDbgWaitBranch(in) ==
  [Default(in) EXCEPT !.haltIf = TRUE, !.ns = "DBG_FLUSH",
                      !.pc = IF branch_taken_ex THEN "branch" ELSE @]

FaultyOutDbgFlush(in) ==
  [Halted(in) EXCEPT
     !.ns = IF \/ debug_mode_q \/ trigger_match \/ ForcedEbreak
            THEN "DBG_TAKEN_ID" ELSE "DBG_TAKEN_IF"]

OutDbgFlush(in) ==
  [Halted(in) EXCEPT
     !.ns = IF \/ debug_mode_q \/ trigger_match \/ ForcedEbreak \/ debug_req_entry_q
            THEN "DBG_TAKEN_ID" ELSE "DBG_TAKEN_IF"]

\* ebreak in debug mode starts the debugger over and saves nothing.
OutDbgTakenId(in) ==
  [Default(in) EXCEPT
     !.pc = "dbd", !.ns = "DECODE", !.debugN = TRUE, !.entryN = FALSE,
     !.save = IF debug_mode_q THEN @ ELSE "id",
     !.dbgSave = ~debug_mode_q,
     !.cause = IF debug_mode_q THEN @
               ELSE IF trigger_match THEN "trigger"
               ELSE IF ForcedEbreak THEN "ebreak"
               ELSE IF debug_req_entry_q THEN "haltreq" ELSE @]

OutDbgTakenIf(in) ==
  [Default(in) EXCEPT
     !.pc = "dbd", !.ns = "DECODE", !.debugN = TRUE, !.wakeN = FALSE,
     !.save = "if", !.dbgSave = TRUE,
     !.cause = IF debug_force_wakeup_q THEN "haltreq"
               ELSE IF step # "off" THEN "step" ELSE @]

-----------------------------------------------------------------------------
Out(in) ==
  CASE ctrl_fsm_cs = "RESET" -> OutReset(in)
    [] ctrl_fsm_cs = "BOOT_SET" -> OutBootSet(in)
    [] ctrl_fsm_cs = "WAIT_SLEEP" -> OutWaitSleep(in)
    [] ctrl_fsm_cs = "SLEEP" -> OutSleep(in)
    [] ctrl_fsm_cs = "FIRST_FETCH" -> OutFirstFetch(in)
    [] ctrl_fsm_cs \in {"DECODE", "DECODE_HWLOOP"} -> OutDecode(in)
    [] ctrl_fsm_cs = "FLUSH_EX" -> OutFlushEx(in)
    [] ctrl_fsm_cs = "FLUSH_WB" -> OutFlushWb(in)
    [] ctrl_fsm_cs = "XRET_JUMP" -> OutXretJump(in)
    [] ctrl_fsm_cs = "DBG_WAIT_BRANCH" -> OutDbgWaitBranch(in)
    [] ctrl_fsm_cs = "DBG_FLUSH" -> OutDbgFlush(in)
    [] ctrl_fsm_cs = "DBG_TAKEN_ID" -> OutDbgTakenId(in)
    [] ctrl_fsm_cs = "DBG_TAKEN_IF" -> OutDbgTakenIf(in)

\* The pc multiplexers of the IF stage; a taken branch goes to BranchTo.
Target(o) ==
  CASE o.pc = "boot" -> BootAddr      [] o.pc = "jump" -> JumpTo
    [] o.pc = "branch" -> BranchTo    [] o.pc = "irq" -> IrqAddr
    [] o.pc = "exc" -> ExcAddr        [] o.pc = "dbd" -> HaltAddr
    [] o.pc = "dbe" -> DebugExcAddr   [] o.pc = "mret" -> mepc
    [] o.pc = "dret" -> dpc           [] o.pc = "fencei" -> Sequel(pc_id)
    [] o.pc = "hwloop" -> o.target    [] OTHER -> NoAddr

DebugFsm(o) ==
  IF o.debugN THEN "HALTED"
  ELSE IF debug_fsm_cs = "HAVERESET" /\ o.ns # "FIRST_FETCH" THEN "HAVERESET"
  ELSE "RUNNING"

FaultyCtrlClock(in, o) ==
  /\ ctrl_fsm_cs' = o.ns
  /\ jump_done_q' = (o.jumpDone /\ ~IdReady(in))
  /\ debug_mode_q' = o.debugN /\ debug_fsm_cs' = DebugFsm(o)
  /\ illegal_insn_q' = o.illegalN
  /\ debug_req_entry_q' = o.entryN /\ debug_force_wakeup_q' = o.wakeN
  /\ hwlp_end_4_id_q' = o.hwlpJump

CtrlClock(in, o) ==
  /\ ctrl_fsm_cs' = o.ns
  /\ jump_done_q' = (o.jumpDone /\ ~IdReady(in))
  /\ debug_mode_q' = o.debugN /\ debug_fsm_cs' = DebugFsm(o)
  /\ illegal_insn_q' = o.illegalN
  /\ debug_req_entry_q' = o.entryN /\ debug_force_wakeup_q' = o.wakeN
  /\ hwlp_end_4_id_q' = o.end4

\* Never stopped, so that no request is missed.
FaultyDebugReqClock(in) == debug_req_q' = in.dbg

DebugReqClock(in) == debug_req_q' = (in.dbg \/ (debug_req_q /\ ~debug_mode_q))
=============================================================================
