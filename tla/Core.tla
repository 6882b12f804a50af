-------------------------------- MODULE Core --------------------------------
(***************************************************************************)
(* The controller, the sleep unit, the trap CSRs, the hardware-loop        *)
(* registers and the pipeline they steer, cycle by cycle, as cv32e40p_core *)
(* and cv32e40p_id_stage connect them (COREV_CLUSTER = 0, FPU = 0).  There *)
(* are two clocks: the sleep unit and debug_req_q run always, the rest     *)
(* only while the sleep unit lets it.                                      *)
(***************************************************************************)
EXTENDS Controller, SleepUnit

CONSTANTS Irqs, DebugReqs   \* for each program, the values of irq_local and debug_req_i

ASSUME CoreAssumption == {Irqs, DebugReqs} \subseteq [DOMAIN Programs -> SUBSET BOOLEAN]

VARIABLES
  outstanding,     \* if_busy_o: the prefetch buffer waits for the memory
  due, left        \* history: see HartSpec

history == <<due, left>>
gated == <<pipeVars, trapCsrVars, hwloopVars, ctrlVars, outstanding, history>>
vars == <<program, gated, sleepVars, debug_req_q>>

TypeOK ==
  /\ ctrl_fsm_cs \in CtrlStates /\ debug_fsm_cs \in {"HAVERESET", "RUNNING", "HALTED"}
  /\ {jump_done_q, debug_mode_q, illegal_insn_q, debug_req_entry_q, debug_req_q,
      debug_force_wakeup_q, hwlp_end_4_id_q, fetch_enable_q, core_busy_q,
      outstanding, instr_valid_id, wb, mie, mpie, ebreakm} \subseteq BOOLEAN
  /\ {npc, loopTo, due} \subseteq Addr \cup {NoAddr}
  /\ {pc_id, mepc, dpc} \subseteq Addr
  /\ insn_id \in Kinds
  /\ ex \in {"none", "insn", "mem", "csr", "taken", "nottaken"}
  /\ step \in Stepping /\ cause \in {"none", "ebreak", "trigger", "haltreq", "step"}
  /\ hwlp_set \subseteq Loops /\ hwlp_counter_q \in [Loops -> 0 .. Width - 1]
  /\ left \in 0 .. 2

Init ==
  /\ program \in DOMAIN Programs
  /\ PipelineInit /\ TrapCsrsInit /\ HwloopInit /\ CtrlInit /\ SleepInit
  /\ outstanding = FALSE /\ due = NoAddr /\ left = 2

-----------------------------------------------------------------------------
Inputs ==
  {in \in [irq : Irqs[program], dbg : DebugReqs[program],
           fetchEn : IF fetch_enable_q THEN {FALSE} ELSE BOOLEAN,
           fetchEnQ : {fetch_enable_q},
           ready : {"stall", "ex", "id"},
           jr : IF insn_id = "jump" THEN BOOLEAN ELSE {FALSE},
           resp : IF wb THEN BOOLEAN ELSE {FALSE},
           fetched : IF npc = NoAddr THEN {FALSE} ELSE BOOLEAN] :
     /\ in.ready \in ReadyChoices(in.resp)
     /\ in.jr => in.ready # "id" /\ ex # "none"
     /\ in.fetched => in.ready = "id"}      \* elsewhere it makes no difference

ClockRuns(in) == ClockEn(Wake(in))
Busy(o) == CoreBusy(outstanding, o.busy, LsuBusy)

\* hwlp_we_masked
SetsUp(in, o) ==
  IF insn_id = "setup" /\ o.decoding /\ ~o.mask /\ IdReady(in) THEN SetUpAt(pc_id) ELSE {}

\* While it requests, the prefetch buffer may have a transaction under way or a
\* full FIFO and none; afterwards it only waits for the answers.
IfBusyClock(o) == outstanding' \in IF o.req THEN BOOLEAN ELSE {outstanding, FALSE}

-----------------------------------------------------------------------------
\* History: which instruction has been executed, and which one is due.
Executes(in, o) ==
  Issues(in, o) /\ ~illegal_insn /\
  insn_id \notin {"ecall", "ebreak", "mret", "dret"}

Raises(o) == ctrl_fsm_cs = "FLUSH_EX" /\ o.ns = "FLUSH_WB" /\
             (illegal_insn_q \/ insn_id \in {"ecall", "ebreak"})

OneLess == IF left = 2 THEN 2 ELSE left - 1

HistoryClock(in, o) ==
  IF ctrl_fsm_cs = "BOOT_SET" THEN due' = BootAddr /\ left' = left
  ELSE IF o.irqAck THEN due' = IrqAddr /\ left' = left
  ELSE IF ctrl_fsm_cs \in {"DBG_TAKEN_ID", "DBG_TAKEN_IF"}
  THEN due' = HaltAddr /\ left' = 2
  ELSE IF Raises(o)
  THEN due' = (IF debug_mode_q THEN DebugExcAddr ELSE ExcAddr) /\ left' = OneLess
  ELSE IF ctrl_fsm_cs = "FLUSH_WB" /\ insn_id = "mret" /\ ~illegal_insn_q
  THEN due' = (IF debug_mode_q THEN DebugExcAddr ELSE mepc) /\ left' = OneLess
  ELSE IF ctrl_fsm_cs = "XRET_JUMP" /\ insn_id = "dret"
  THEN due' = dpc /\ left' = (IF step = "off" THEN 2 ELSE 1)
  ELSE IF Executes(in, o)
  THEN /\ left' = OneLess
       /\ due' = CASE insn_id = "jump" -> JumpTo
                   [] insn_id = "branch" /\ ex' = "taken" -> BranchTo
                   [] insn_id = "branch" /\ ex' = "nottaken" -> Sequel(due)
                   [] OTHER -> After(due, hwlp_counter_q)
  ELSE UNCHANGED history

-----------------------------------------------------------------------------
GatedClock(in, o) ==
  /\ CtrlClock(in, o)
  /\ PipelineClock(in, o, Target(o))
  /\ TrapCsrsClock(o, [if |-> npc, id |-> pc_id], ex = "csr", debug_mode_q)
  /\ HwloopClock(o.dec, instr_valid_id /\ ClearInstrValid(in, o), SetsUp(in, o))
  /\ IfBusyClock(o)
  /\ HistoryClock(in, o)

Cycle(in) ==
  LET o == Out(in)
  IN  /\ UNCHANGED program
      /\ SleepClock(in.fetchEn, Busy(o))
      /\ DebugReqClock(in)
      /\ IF ClockRuns(in) THEN GatedClock(in, o) ELSE UNCHANGED gated

Next == \E in \in Inputs : Cycle(in)

\* Nothing stays away for ever: the instruction memory and the data memory
\* answer, multi-cycle instructions finish, stalls end.
Forthcoming ==
  {in \in [irq : Irqs[program], dbg : DebugReqs[program],
           fetchEn : {~fetch_enable_q}, fetchEnQ : {fetch_enable_q},
           ready : {"id"}, jr : {FALSE}, resp : {wb}, fetched : {npc # NoAddr}] :
     in.ready \in ReadyChoices(in.resp)}

Proceed ==
  \E in \in Forthcoming : Cycle(in) /\ (outstanding' => Out(in).req)

Spec == Init /\ [][Next]_vars
FairSpec == Spec /\ WF_vars(Proceed)

-----------------------------------------------------------------------------
\* The pipeline, its flushes and its speculation are invisible: interrupts,
\* exceptions and debug entries save the address of the first instruction not
\* executed, for the right reason; one instruction is executed per single step;
\* loop counters count.
Hart == INSTANCE HartSpec WITH
  lp <- hwlp_counter_q, debug <- debug_mode_q, haltReq <- debug_req_q,
  writing <- ex = "csr"
ImplementsHart == Hart!HartSpec

\* An instruction in ID is the one due, but for the wrong path behind a taken
\* branch, which the controller never acts on.
IdHoldsDue == instr_valid_id /\ ~branch_taken_ex => pc_id = due

\* a_clock_en_4, a_clock_en_5, a_not_busy_during_sleep: the clock stops only when
\* the core has nothing under way, neither a fetch nor a data access whose
\* answer would be lost, and no step to take.
ClockStopsIdle ==
  \A in \in Inputs :
    ~ClockRuns(in) =>
      /\ ctrl_fsm_cs \in {"RESET", "SLEEP"} /\ Out(in).ns = ctrl_fsm_cs
      /\ ~wb /\ ~outstanding /\ ex = "none" /\ ~jump_done_q

\* a_non_busy, a_core_sleep, a_only_sleep_for_wfi: the core lets its clock go in
\* the sleep states only, and gets there by executing wfi, outside debug mode.
SleepsForWfi ==
  \A in \in Inputs :
    /\ ~Busy(Out(in)) => ctrl_fsm_cs \in {"WAIT_SLEEP", "SLEEP"}
    /\ CoreSleep(Wake(in)) =>
         /\ insn_id = "wfi" /\ due = Sequel(pc_id)
         /\ ~debug_mode_q /\ step = "off" /\ pc_id # TriggerAddr

\* a_single_step_dbg_taken_if, a_dbg_flush_to_taken_if: debug entry with the pc of
\* IF is for a single step or a request that came around sleep or boot.
TakenIfForStep ==
  ctrl_fsm_cs = "DBG_TAKEN_IF" =>
    /\ ~debug_mode_q /\ ~debug_req_entry_q
    /\ debug_force_wakeup_q = (step = "off")

\* What the IF stage relies on (HwlpJump of IfStage): the pulse comes with the
\* last instruction but one in ID, before the last one has left the IF stage,
\* and once.
HwlpJumpOnTime ==
  \A in \in Inputs :
    Out(in).hwlpJump => instr_valid_id /\ npc = Sequel(pc_id) /\ loopTo = NoAddr

\* debug_req_i is honoured, be it a pulse before the first fetch or in sleep.
RequestServed == debug_req_q ~> debug_mode_q

\* corev_hw_loop.rst: a single step on the last instruction of a loop leaves the
\* right PC.  The pc saved on debug entry from IF is that of the instruction due.
SteppedPcIsDue == ctrl_fsm_cs = "DBG_TAKEN_IF" => npc = due

\* corev_hw_loop.rst: a loop is enabled as soon as, hence only while, its counter
\* is above 0: run out, it comes back only when the program sets it up again.
\* The code does not keep it (README, section 4).
RunOutStaysOff ==
  [][\A k \in Loops :
       hwlp_counter_q[k] = 0 /\ hwlp_counter_q'[k] # 0 => insn_id = "setup"]_vars
=============================================================================
