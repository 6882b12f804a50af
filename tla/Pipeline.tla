------------------------------ MODULE Pipeline ------------------------------
(***************************************************************************)
(* What the controller sees of the IF, ID and EX stages: the instruction   *)
(* in ID, what EX and WB are busy with, and the stream of instructions at  *)
(* the IF stage, taken at its specification InstrStream (IfStage).  A      *)
(* cycle has inputs in:                                                    *)
(*   fetched   the IF stage offers the instruction due                     *)
(*   ready     "stall": EX is not ready; "ex": EX is, ID is not;           *)
(*             "id": ID is ready (id_ready_o)                              *)
(*   jr        a register jump waits for its address (jr_stall_o)          *)
(*   resp      the answer to the data access in WB is there                *)
(*   irq, dbg, fetchEn   irq_local, debug_req_i, fetch_enable_i            *)
(* and outputs o of the controller.                                        *)
(***************************************************************************)
EXTENDS Isa

VARIABLES
  npc, loopTo,                        \* instruction stream of the IF stage
  instr_valid_id, pc_id, insn_id,     \* IF/ID registers
  ex,        \* in EX: none, insn, mem, csr, or a branch taken or nottaken
  wb         \* a data access waits for its answer in WB?

pipeVars == <<npc, loopTo, instr_valid_id, pc_id, insn_id, ex, wb>>

PipelineInit ==
  /\ npc = NoAddr /\ loopTo = NoAddr
  /\ instr_valid_id = FALSE /\ pc_id = 0 /\ insn_id = "alu"
  /\ ex = "none" /\ wb = FALSE

branch_taken_ex == ex = "taken"
LsuBusy == wb \/ ex = "mem"
IdReady(in) == in.ready = "id"
WbReady(in) == wb => in.resp
ExValid(in) == in.ready # "stall" /\ WbReady(in)

\* Who can be ready: nothing stalls on an empty pipeline, a branch leaves EX at
\* once, and everything else waits for WB.
ReadyChoices(resp) ==
  IF ex \in {"taken", "nottaken"} THEN {"ex", "id"}
  ELSE IF wb /\ ~resp THEN {"stall"}
  ELSE IF ex = "none" THEN (IF wb THEN {"ex", "id"} ELSE {"id"})
  ELSE {"stall", "ex", "id"}

\* if_valid && instr_valid; nothing is fetched while the pc is set
IfAccepts(in, o) ==
  in.fetched /\ IdReady(in) /\ ~o.haltIf /\ o.pc = "none"

\* The controller changes the stream: pc_set_o goes to target, hwlp_jump_o
\* lets loop start o.target follow the instruction due.
StreamClock(in, o, target) ==
  LET after == IF o.hwlpJump THEN o.target ELSE loopTo
  IN  IF o.pc # "none" THEN npc' = target /\ loopTo' = NoAddr
      ELSE IF IfAccepts(in, o)
      THEN /\ npc' = IF after # NoAddr THEN after ELSE Sequel(npc)
           /\ loopTo' = NoAddr
      ELSE loopTo' = after /\ UNCHANGED npc

\* clear_instr_valid_o
FaultyClearInstrValid(in, o) == IdReady(in) \/ o.haltId

ClearInstrValid(in, o) == IdReady(in) \/ o.haltId \/ branch_taken_ex

IfIdClock(in, o) ==
  IF IfAccepts(in, o)
  THEN /\ instr_valid_id' = TRUE
       /\ pc_id' = npc /\ insn_id' \in Program[npc]
  ELSE /\ instr_valid_id' = (instr_valid_id /\ ~ClearInstrValid(in, o))
       /\ UNCHANGED <<pc_id, insn_id>>

\* The instruction in ID goes on to EX and takes effect (id_valid_o, deassert_we_o).
Issues(in, o) == instr_valid_id /\ IdReady(in) /\ ~o.haltId /\ o.decoding

\* A CSR instruction held in EX writes the same value again: once is enough.
IdExClock(in, o) ==
  IF Issues(in, o)
  THEN CASE insn_id = "branch" -> ex' \in {"taken", "nottaken"}
         [] insn_id \in {"mem", "csr"} -> ex' = insn_id
         [] OTHER -> ex' = "insn"
  ELSE IF in.ready # "stall" THEN ex' = "none"
  ELSE ex' = IF ex = "csr" THEN "insn" ELSE ex

ExWbClock(in) ==
  wb' = IF ex = "mem" /\ in.ready # "stall" THEN TRUE ELSE wb /\ ~in.resp

PipelineClock(in, o, target) ==
  /\ StreamClock(in, o, target)
  /\ IfIdClock(in, o)
  /\ IdExClock(in, o)
  /\ ExWbClock(in)
=============================================================================
