------------------------------ MODULE HartSpec ------------------------------
(***************************************************************************)
(* What the core promises to the program and to the debugger: one          *)
(* instruction after the other; interrupts, exceptions and debug entries   *)
(* between two instructions, with the address of the first one not yet     *)
(* executed saved; exactly one instruction per single step; hardware loops *)
(* run as often as their counters say.  No pipeline, no clock.             *)
(***************************************************************************)
EXTENDS Isa

VARIABLES
  due,        \* address of the next instruction to execute
  lp,         \* loop counters
  left,       \* instructions left to execute in a single step; 2: no limit
  debug,      \* in debug mode?
  haltReq,    \* the debugger has asked for a halt
  writing,    \* a CSR instruction was executed and is about to write
  mepc, mie, mpie, dpc, step, ebreakm, cause    \* CSRs

trapCsrs == <<mepc, mie, mpie>>
dbgCsrs == <<dpc, step, ebreakm, cause>>
hart == <<due, lp, left, debug, writing>>
hartVars == <<program, hart, haltReq, trapCsrs, dbgCsrs>>

HartInit ==
  /\ program \in DOMAIN Programs
  /\ due = NoAddr /\ left = 2 /\ debug = FALSE /\ writing = FALSE
  /\ lp = [k \in Loops |-> 0]
  /\ haltReq = FALSE
  /\ mepc = 0 /\ mie = FALSE /\ mpie = FALSE
  /\ dpc = 0 /\ step = "off" /\ ebreakm = FALSE /\ cause = "none"

\* An instruction is executed: the due one, if single-stepping leaves any.
Executes(kind) ==
  /\ due # NoAddr /\ kind \in Program[due] /\ left # 0 /\ ~writing
  /\ left' = IF left = 2 THEN 2 ELSE left - 1

Boot ==
  /\ due = NoAddr /\ due' = BootAddr
  /\ UNCHANGED <<lp, left, debug, writing, trapCsrs, dbgCsrs>>

Compute(kind) ==
  /\ kind \in {"alu", "mem", "wfi", "fencei", "csr"} /\ Executes(kind)
  /\ due' = After(due, lp) /\ lp' = Counted(due, lp)
  /\ writing' = (kind = "csr")
  /\ UNCHANGED <<debug, trapCsrs, dbgCsrs>>

SetUp ==
  /\ Executes("setup")
  /\ due' = After(due, lp)
  /\ \E n \in Counts :
       lp' = [k \in Loops |-> IF k \in SetUpAt(due) THEN n ELSE Counted(due, lp)[k]]
  /\ UNCHANGED <<debug, writing, trapCsrs, dbgCsrs>>

Transfer(kind) ==
  /\ Executes(kind)
  /\ \/ kind = "jump" /\ due' = JumpTo
     \/ kind = "branch" /\ due' \in {BranchTo, Sequel(due)}
  /\ UNCHANGED <<lp, debug, writing, trapCsrs, dbgCsrs>>

\* The program may change mstatus.MIE, the debugger dcsr.
WriteCsr ==
  /\ writing /\ writing' = FALSE
  /\ \/ ~debug /\ mie' \in BOOLEAN /\ UNCHANGED <<step, ebreakm>>
     \/ debug /\ step' \in Stepping /\ ebreakm' \in BOOLEAN /\ UNCHANGED mie
  /\ UNCHANGED <<due, lp, left, debug, mepc, mpie, dpc, cause>>

Trap ==
  /\ mepc' = due /\ mpie' = mie /\ mie' = FALSE
  /\ UNCHANGED <<lp, debug, writing, dbgCsrs>>

\* dret exists in debug mode only.
Except(kind) ==
  /\ kind \in {"ecall", "ebreak", "illegal"} \cup (IF debug THEN {} ELSE {"dret"})
  /\ Executes(kind)
  /\ IF debug
     THEN /\ kind # "ebreak" /\ due' = DebugExcAddr
          /\ UNCHANGED <<lp, debug, writing, trapCsrs, dbgCsrs>>
     ELSE due' = ExcAddr /\ Trap

TakeIrq ==
  /\ due # NoAddr /\ ~debug /\ mie /\ step # "noirq" /\ left # 0 /\ ~writing
  /\ due' = IrqAddr /\ Trap
  /\ UNCHANGED left

Mret ==
  /\ Executes("mret")
  /\ IF debug
     THEN due' = DebugExcAddr /\ UNCHANGED trapCsrs
     ELSE due' = mepc /\ mie' = mpie /\ mpie' = TRUE /\ UNCHANGED mepc
  /\ UNCHANGED <<lp, debug, writing, dbgCsrs>>

\* Back to the program, for one instruction when the debugger set dcsr.step.
Dret ==
  /\ debug /\ due # NoAddr /\ "dret" \in Program[due] /\ ~writing
  /\ due' = dpc /\ debug' = FALSE
  /\ left' = IF step = "off" THEN 2 ELSE 1
  /\ UNCHANGED <<lp, writing, trapCsrs, dbgCsrs>>

\* The reasons to enter debug mode.
MayHalt(why) ==
  \/ why = "haltreq" /\ haltReq
  \/ why = "step" /\ left = 0
  \/ why = "trigger" /\ due = TriggerAddr /\ left # 0
  \/ why = "ebreak" /\ ebreakm /\ "ebreak" \in Program[due] /\ left # 0

EnterDebug(why) ==
  /\ due # NoAddr /\ ~debug /\ ~writing /\ MayHalt(why)
  /\ dpc' = due /\ cause' = why
  /\ debug' = TRUE /\ due' = HaltAddr /\ left' = 2
  /\ UNCHANGED <<lp, writing, step, ebreakm, trapCsrs>>

\* ebreak in debug mode starts the debugger's code over.
Reenter ==
  /\ debug /\ "ebreak" \in Program[due] /\ ~writing
  /\ due' = HaltAddr
  /\ UNCHANGED <<lp, left, debug, writing, trapCsrs, dbgCsrs>>

\* A request may come at any moment; it is forgotten only once it is served.
Request == haltReq' \in BOOLEAN /\ (haltReq /\ ~haltReq' => debug)

HartNext ==
  /\ \/ Boot \/ SetUp \/ WriteCsr \/ TakeIrq \/ Mret \/ Dret \/ Reenter
     \/ \E kind \in Kinds : Compute(kind) \/ Transfer(kind) \/ Except(kind)
     \/ \E why \in {"haltreq", "step", "trigger", "ebreak"} : EnterDebug(why)
     \/ UNCHANGED <<hart, trapCsrs, dbgCsrs>>
  /\ Request /\ UNCHANGED program

HartSpec == HartInit /\ [][HartNext]_hartVars
=============================================================================
