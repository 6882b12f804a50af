----------------------------- MODULE CoreProofs -----------------------------
(***************************************************************************)
(* The pipelined core, hardware loops included, implements HartSpec, for   *)
(* every set of programs, every memory size, every choice of loops, handler *)
(* addresses and trigger, and whatever interrupts, debug requests and      *)
(* stalls come, as long as no CSR instruction ends a loop in one of the two *)
(* ways the code gets wrong (CsrLoopEnds).  The invariant says, for each   *)
(* state of the control FSM, what the registers around it hold and where   *)
(* the instruction due is: in ID, at the IF stage, or in a CSR.            *)
(***************************************************************************)
EXTENDS Core, TLAPS

\* Nothing in ID, and none of the flags of the FSM is up.
Idle ==
  /\ ~instr_valid_id /\ ~jump_done_q
  /\ ~illegal_insn_q /\ ~debug_req_entry_q /\ ~debug_force_wakeup_q

\* Before the first fetch.
InReset ==
  /\ Idle /\ ex = "none" /\ ~wb /\ due = NoAddr /\ npc = NoAddr
  /\ ~debug_mode_q /\ step = "off"

\* The kinds of instruction that are flushed for: a trap, a return, a refetch.
Raising == illegal_insn_q \/ insn_id \in {"ecall", "ebreak"}
Returning == ~illegal_insn_q /\ insn_id \in {"mret", "dret"}
Executed == ~illegal_insn_q /\ insn_id \in {"csr", "wfi", "fencei"}

\* With loop counters lp: where the stream goes back to behind the instruction
\* at a, if it does.
BackTo(a, lp) == IF JumpsBack(a, lp) # {} THEN After(a, lp) ELSE NoAddr

\* a is in a loop with iterations left, or in the last one and not at its end.
Inside(a, lp) ==
  \E k \in Loops : InBody(k, a) /\ (lp[k] > 1 \/ (lp[k] = 1 /\ ~IsLast(k, a)))

\* What may stand in a loop, and which of it leaves ID to the next instruction.
BodyKinds == {"alu", "mem", "csr", "ecall", "ebreak", "illegal", "setup"}
Flows == {"alu", "mem", "setup"}

\* The instruction has left ID; the one behind it has not been fetched.  A CSR
\* instruction that ends an iteration has not sent the fetch back yet.
NextAtIf ==
  /\ left = 2
  /\ IF \E k \in Loops : IsLast(k, pc_id) /\ hwlp_counter_q[k] # 0
     THEN insn_id = "csr" /\ \A k \in Loops : IsLast(k, pc_id) => due = LoopStart[k]
     ELSE due = Sequel(pc_id) /\ npc = due

\* wfi has been executed, and nothing keeps the core from sleeping.
WfiDone ==
  /\ insn_id = "wfi" /\ due = Sequel(pc_id) /\ npc = due /\ left = 2
  /\ ~debug_mode_q /\ step = "off" /\ ~trigger_match

\* All is done, and the instruction behind wfi is due.
InSleep == Idle /\ ex = "none" /\ WfiDone

\* The fetch is about to start, at the instruction due.
InFirstFetch ==
  Idle /\ ex = "none" /\ due \in Addr /\ npc = due /\ ~debug_mode_q /\ step = "off"

\* An instruction in ID is the one due, and the IF stage follows it, unless it
\* is on the wrong path behind a taken branch.
InDecode ==
  /\ ~debug_req_entry_q /\ ~debug_force_wakeup_q
  /\ due \in Addr /\ npc \in Addr /\ left # 0 /\ ex # "csr"
  /\ branch_taken_ex => due = BranchTo /\ ~jump_done_q /\ ~illegal_insn_q
  /\ ~branch_taken_ex /\ ~instr_valid_id => npc = due /\ ~illegal_insn_q
  /\ ~branch_taken_ex /\ instr_valid_id =>
       /\ insn_id \in Program[pc_id] /\ pc_id = due
       /\ npc = IF jump_done_q THEN JumpTo ELSE Sequel(pc_id)
       /\ jump_done_q => insn_id = "jump"
       /\ illegal_insn_q => illegal_insn

\* In DECODE_HWLOOP an iteration is under way.  The IF stage follows the
\* instruction due; the last one but one of an iteration that will be repeated
\* has told the stream where to go back to, or its successor is at the IF stage
\* and the stream still knows.
InHwloop ==
  /\ ~debug_req_entry_q /\ ~debug_force_wakeup_q /\ ~illegal_insn_q
  /\ due \in Addr /\ npc \in Addr /\ left # 0 /\ ex # "csr" /\ ~branch_taken_ex
  /\ Inside(due, hwlp_counter_q)
  /\ IF instr_valid_id
     THEN /\ insn_id \in Program[pc_id] /\ pc_id = due
          /\ npc = After(due, hwlp_counter_q)
          /\ jump_done_q => JumpsBack(due, hwlp_counter_q) # {} /\ insn_id \in Flows
          /\ loopTo = IF hwlp_end_4_id_q THEN BackTo(Sequel(due), hwlp_counter_q) ELSE NoAddr
          /\ loopTo # NoAddr => insn_id \in Flows
     ELSE npc = due /\ ~jump_done_q /\ loopTo = BackTo(due, hwlp_counter_q)

\* In the flush states the instruction has left ID, but pc_id and insn_id keep it.
Flushing ==
  /\ ~instr_valid_id /\ ~jump_done_q /\ ~debug_req_entry_q /\ ~debug_force_wakeup_q
  /\ due \in Addr /\ npc \in Addr /\ ~branch_taken_ex
  /\ insn_id \in Program[pc_id]

\* What has been flushed for, and how far it is: traps and returns are still due.
Flushed ==
  /\ Raising \/ Returning \/ Executed
  /\ illegal_insn_q = illegal_insn
  /\ insn_id = "ebreak" => ~debug_mode_q
  /\ Returning => due = pc_id /\ left # 0
  /\ Executed => NextAtIf
  /\ Executed /\ insn_id = "wfi" => WfiDone

\* EX drains; a CSR instruction may be about to write.
InFlushEx ==
  /\ Flushing /\ Flushed /\ left # 0
  /\ ex = "csr" => insn_id = "csr"
  /\ Raising => due = pc_id

\* Where an exception goes.
Handler == IF debug_mode_q THEN DebugExcAddr ELSE ExcAddr

\* EX is empty, and an exception has been taken.
InFlushWb ==
  /\ Flushing /\ Flushed /\ ex = "none"
  /\ Raising => due = Handler /\ left # 1

\* mret has been executed, dret is executed by the jump.
InXretJump ==
  /\ Flushing /\ ex = "none" /\ ~illegal_insn_q
  /\ \/ insn_id = "dret" /\ debug_mode_q /\ due = pc_id
     \/ insn_id = "mret" /\ left # 1 /\ due = IF debug_mode_q THEN DebugExcAddr ELSE mepc

\* The instruction of a single step has been executed.
SteppedOver == Stepped /\ left = 0

\* A stepped branch is in EX or past it.
InDbgWaitBranch ==
  /\ Idle /\ due \in Addr /\ npc \in Addr /\ SteppedOver /\ ex # "csr"
  /\ insn_id = "branch" /\ ~trigger_match
  /\ IF branch_taken_ex THEN due = BranchTo ELSE npc = due

\* Debug mode is entered instead of the instruction in ID, or else from IF.
InsteadOfId == debug_mode_q \/ trigger_match \/ ForcedEbreak \/ debug_req_entry_q

\* The instruction that is entered for is due, and none of a step is left out.
EntersForId ==
  /\ InsteadOfId /\ due = pc_id /\ left # 0
  /\ insn_id \in Program[pc_id]
  /\ debug_mode_q => insn_id = "ebreak"
  /\ debug_req_entry_q => ~debug_mode_q /\ (trigger_match \/ debug_req_q)

\* Debug mode is about to be entered from ID, or from IF after a step.
InDbgFlush ==
  /\ due \in Addr /\ npc \in Addr /\ ~branch_taken_ex
  /\ ~illegal_insn_q /\ ~debug_force_wakeup_q
  /\ \/ EntersForId
     \/ ~InsteadOfId /\ SteppedOver /\ npc = due /\ ~jump_done_q /\ ~instr_valid_id

\* EX has let go of what writes CSRs or the pc.
InDbgTakenId ==
  /\ due \in Addr /\ npc \in Addr /\ ex # "csr" /\ ~branch_taken_ex /\ ~instr_valid_id
  /\ ~illegal_insn_q /\ ~debug_force_wakeup_q
  /\ EntersForId

\* The IF stage is at the instruction due, and there is a reason to enter.
InDbgTakenIf ==
  /\ ~instr_valid_id /\ ~jump_done_q /\ ~illegal_insn_q /\ ~debug_req_entry_q
  /\ due \in Addr /\ npc = due /\ ex # "csr" /\ ~branch_taken_ex /\ ~debug_mode_q
  /\ IF step = "off" THEN debug_force_wakeup_q /\ debug_req_q
     ELSE ~debug_force_wakeup_q /\ left = 0

\* The clauses, state by state.
StateInv ==
  /\ loopTo # NoAddr =>
       ctrl_fsm_cs \in {"DECODE_HWLOOP", "DBG_FLUSH", "DBG_TAKEN_ID", "DBG_TAKEN_IF"}
  /\ ctrl_fsm_cs \in {"RESET", "BOOT_SET"} => InReset
  /\ ctrl_fsm_cs \in {"WAIT_SLEEP", "SLEEP"} => InSleep
  /\ ctrl_fsm_cs = "FIRST_FETCH" => InFirstFetch
  /\ ctrl_fsm_cs = "DECODE" => InDecode
  /\ ctrl_fsm_cs = "DECODE_HWLOOP" => InHwloop
  /\ ctrl_fsm_cs = "FLUSH_EX" => InFlushEx
  /\ ctrl_fsm_cs = "FLUSH_WB" => InFlushWb
  /\ ctrl_fsm_cs = "XRET_JUMP" => InXretJump
  /\ ctrl_fsm_cs = "DBG_WAIT_BRANCH" => InDbgWaitBranch
  /\ ctrl_fsm_cs = "DBG_FLUSH" => InDbgFlush
  /\ ctrl_fsm_cs = "DBG_TAKEN_ID" => InDbgTakenId
  /\ ctrl_fsm_cs = "DBG_TAKEN_IF" => InDbgTakenIf

\* Only a single step limits the number of instructions.
LeftCounts == left = 2 <=> ~Stepped

\* The clock may be off before the first fetch, and in sleep with nothing to wait for.
ClockInv ==
  /\ ctrl_fsm_cs = "RESET" => ~outstanding
  /\ ~fetch_enable_q => ctrl_fsm_cs = "RESET"
  /\ ~core_busy_q => \/ ctrl_fsm_cs = "RESET" /\ ~fetch_enable_q
                     \/ ctrl_fsm_cs = "SLEEP" /\ ~outstanding /\ ~wb

\* A loop that has never been set up does not count.
SetInv == \A k \in Loops \ hwlp_set : hwlp_counter_q[k] = 0

\* The inductive invariant.
CoreInv ==
  /\ TypeOK /\ SetInv /\ program \in DOMAIN Programs
  /\ LeftCounts /\ ClockInv /\ StateInv

\* What the proofs need of a program (README, section 4): a CSR instruction acted
\* on at the end of a loop ends its last iteration, or one to be repeated and is
\* not single-stepped.  corev_hw_loop.rst forbids neither; the code does not
\* keep its promises for a loop that has run out, nor for such a step.
CsrLoopEnds ==
  \A k \in Loops :
    instr_valid_id /\ ~branch_taken_ex /\ insn_id = "csr" /\ AtLast(k, pc_id) =>
      hwlp_counter_q[k] = 1 \/ (hwlp_counter_q[k] > 1 /\ ~Stepped)

-----------------------------------------------------------------------------
\* A cycle has Boolean inputs; nothing is fetched unless ID is ready for it and
\* the IF stage knows where it is.
LEMMA InputFacts ==
  ASSUME program \in DOMAIN Programs, NEW in \in Inputs
  PROVE  /\ in.irq \in BOOLEAN /\ in.dbg \in BOOLEAN /\ in.fetchEn \in BOOLEAN
         /\ in.jr \in BOOLEAN /\ in.resp \in BOOLEAN /\ in.fetched \in BOOLEAN
         /\ in.ready \in {"stall", "ex", "id"} /\ in.ready \in ReadyChoices(in.resp)
         /\ in.fetchEnQ = fetch_enable_q
         /\ in.fetched => in.ready = "id" /\ npc # NoAddr
         /\ in.jr => in.ready # "id"
         /\ in.resp => wb
<1>1. Irqs[program] \subseteq BOOLEAN /\ DebugReqs[program] \subseteq BOOLEAN
  BY CoreAssumption
<1>2. /\ in.irq \in Irqs[program] /\ in.dbg \in DebugReqs[program]
      /\ in.fetchEn \in IF fetch_enable_q THEN {FALSE} ELSE BOOLEAN
      /\ in.fetchEnQ \in {fetch_enable_q} /\ in.ready \in {"stall", "ex", "id"}
      /\ in.jr \in IF insn_id = "jump" THEN BOOLEAN ELSE {FALSE}
      /\ in.resp \in IF wb THEN BOOLEAN ELSE {FALSE}
      /\ in.fetched \in IF npc = NoAddr THEN {FALSE} ELSE BOOLEAN
      /\ in.ready \in ReadyChoices(in.resp)
      /\ in.jr => in.ready # "id" /\ ex # "none"
      /\ in.fetched => in.ready = "id"
  BY DEF Inputs
<1> QED BY <1>1, <1>2

\* Addresses count modulo the size of the memory.
LEMMA AddrFacts ==
  /\ \A a \in Addr : Sequel(a) \in Addr
  /\ {BootAddr, ExcAddr, IrqAddr, HaltAddr, DebugExcAddr, JumpTo, BranchTo} \subseteq Addr
  /\ NoAddr \notin Addr
  BY IsaAssumption DEF Sequel, Addr

\* The address behind a, but at the end of the memory.
LEMMA SequelNext ==
  ASSUME NEW a \in Addr
  PROVE  Sequel(a) = IF a + 1 = NAddr THEN 0 ELSE a + 1
<1>1. NAddr \in Nat \ {0} /\ a \in Nat /\ a < NAddr
  BY IsaAssumption DEF Addr
<1>2. CASE a + 1 = NAddr
  <2>1. NAddr % NAddr = 0
    BY <1>1
  <2> QED BY <1>1, <1>2, <2>1 DEF Sequel
<1>3. CASE a + 1 # NAddr
  <2>1. a + 1 \in 0 .. NAddr - 1
    BY <1>1, <1>3
  <2>2. (a + 1) % NAddr = a + 1
    BY <1>1, <2>1
  <2> QED BY <1>3, <2>2 DEF Sequel
<1> QED BY <1>2, <1>3

\* The rules for loops, as far as they concern where loops start and end.
LEMMA LoopShape ==
  /\ \A k \in Loops :
       /\ k \in {0, 1} /\ LoopStart[k] \in Addr /\ LoopEnd[k] \in Addr
       /\ LoopStart[k] \in Nat /\ LoopEnd[k] \in Nat /\ LoopEnd[k] < NAddr
       /\ LoopEnd[k] >= LoopStart[k] + 3
  /\ 0 \in Loops /\ 1 \in Loops =>
       \/ LoopStart[1] <= LoopStart[0] /\ LoopEnd[1] >= LoopEnd[0] + 2
       \/ LoopEnd[0] <= LoopStart[1]
       \/ LoopEnd[1] <= LoopStart[0]
<1>1. ASSUME NEW k \in Loops
      PROVE  /\ k \in {0, 1} /\ LoopStart[k] \in Addr /\ LoopEnd[k] \in Addr
             /\ LoopEnd[k] - LoopStart[k] >= 3
  BY LoopAssumption
<1>2. Addr = 0 .. NAddr - 1 /\ NAddr \in Nat
  BY IsaAssumption DEF Addr
<1>3. 0 \in Loops /\ 1 \in Loops => Loops = {0, 1}
  BY <1>1
<1> QED BY <1>1, <1>2, <1>3, LoopAssumption

\* An address ends one loop at most, and is the last but one of one at most, and
\* not both; a loop does not start where one ends.
LEMMA LoopEnds ==
  ASSUME NEW a \in Addr, NEW k \in Loops, NEW j \in Loops
  PROVE  /\ IsLast(k, a) /\ IsLast(j, a) => k = j
         /\ IsLastButOne(k, a) /\ IsLastButOne(j, a) => k = j
         /\ IsLast(k, a) => ~IsLastButOne(j, a)
         /\ IsLast(k, a) => InBody(k, a) /\ (j # k => ~InBody(0, a) \/ k = 0 \/ 0 \notin Loops)
         /\ ~IsLast(j, LoopStart[k]) /\ ~IsLast(k, LoopStart[k])
         /\ IsLastButOne(k, a) => InBody(k, a)
         /\ InBody(k, LoopStart[k])
         /\ InBody(k, a) => Sequel(a) = a + 1
         /\ InBody(k, a) /\ ~IsLast(k, a) => InBody(k, Sequel(a))
         /\ IsLast(k, Sequel(a)) <=> IsLastButOne(k, a)
         /\ k \in SetUpAt(a) => ~InBody(k, a) /\ Sequel(a) = LoopStart[k]
<1>1. a \in Nat /\ a < NAddr /\ NAddr \in Nat
  BY IsaAssumption DEF Addr
<1>2. Sequel(a) = IF a + 1 = NAddr THEN 0 ELSE a + 1
  BY SequelNext
<1>3. k \in {0, 1} /\ j \in {0, 1}
  BY LoopShape
<1>4. /\ LoopStart[k] \in Nat /\ LoopEnd[k] \in Nat /\ LoopEnd[k] < NAddr
      /\ LoopEnd[k] >= LoopStart[k] + 3
      /\ LoopStart[j] \in Nat /\ LoopEnd[j] \in Nat /\ LoopEnd[j] < NAddr
      /\ LoopEnd[j] >= LoopStart[j] + 3
  BY LoopShape
<1>5. \/ j = k
      \/ LoopStart[1] <= LoopStart[0] /\ LoopEnd[1] >= LoopEnd[0] + 2
      \/ LoopEnd[0] <= LoopStart[1]
      \/ LoopEnd[1] <= LoopStart[0]
  BY <1>3, LoopShape
<1>6. /\ IsLast(k, a) /\ IsLast(j, a) => k = j
      /\ IsLastButOne(k, a) /\ IsLastButOne(j, a) => k = j
      /\ IsLast(k, a) => ~IsLastButOne(j, a)
  BY <1>1, <1>3, <1>4, <1>5 DEF IsLast, IsLastButOne
<1>7. IsLast(k, a) => InBody(k, a)
  BY <1>1, <1>4 DEF IsLast, InBody
<1>8. IsLast(k, a) /\ j # k => ~InBody(0, a) \/ k = 0
  BY <1>1, <1>3, <1>4, <1>5 DEF IsLast, InBody
<1>9. ~IsLast(j, LoopStart[k]) /\ ~IsLast(k, LoopStart[k])
  BY <1>3, <1>4, <1>5 DEF IsLast
<1>10. /\ IsLastButOne(k, a) => InBody(k, a)
       /\ InBody(k, LoopStart[k])
       /\ InBody(k, a) => Sequel(a) = a + 1
       /\ InBody(k, a) /\ ~IsLast(k, a) => InBody(k, Sequel(a))
  BY <1>1, <1>2, <1>4 DEF IsLast, IsLastButOne, InBody
<1>11. IsLast(k, Sequel(a)) <=> IsLastButOne(k, a)
  BY <1>1, <1>2, <1>4 DEF IsLast, IsLastButOne
<1>12. k \in SetUpAt(a) => ~InBody(k, a) /\ Sequel(a) = LoopStart[k]
  BY <1>1, <1>2, <1>4 DEF SetUpAt, InBody
<1> QED BY <1>6, <1>7, <1>8, <1>9, <1>10, <1>11, <1>12

\* At the end of an iteration to be repeated the loop starts over.
LEMMA AfterLast ==
  ASSUME NEW a \in Addr, NEW lp
  PROVE  /\ \A k \in Loops : IsLast(k, a) /\ lp[k] > 1 => After(a, lp) = LoopStart[k]
         /\ JumpsBack(a, lp) = {} => After(a, lp) = Sequel(a)
         /\ After(a, lp) \in Addr
         /\ BackTo(a, lp) \in Addr \cup {NoAddr}
         /\ BackTo(a, lp) # NoAddr <=> JumpsBack(a, lp) # {}
         /\ After(a, lp) = IF BackTo(a, lp) # NoAddr THEN BackTo(a, lp) ELSE Sequel(a)
<1>1. ASSUME NEW k \in Loops, IsLast(k, a), lp[k] > 1
      PROVE  JumpsBack(a, lp) = {k}
  BY <1>1, LoopEnds DEF JumpsBack
<1>2. ASSUME NEW k \in Loops, IsLast(k, a), lp[k] > 1
      PROVE  After(a, lp) = LoopStart[k] /\ LoopStart[k] \in Addr
  BY <1>1, <1>2, LoopShape DEF After
<1>3. JumpsBack(a, lp) = {} => After(a, lp) = Sequel(a)
  BY DEF After
<1>4. Sequel(a) \in Addr /\ NoAddr \notin Addr
  BY AddrFacts
<1>5. CASE JumpsBack(a, lp) = {}
  BY <1>2, <1>3, <1>4, <1>5 DEF BackTo
<1>6. CASE JumpsBack(a, lp) # {}
  <2>1. PICK k \in Loops : IsLast(k, a) /\ lp[k] > 1
    BY <1>6 DEF JumpsBack
  <2>2. After(a, lp) \in Addr
    BY <2>1, <1>2
  <2> QED BY <1>2, <1>4, <1>6, <2>2 DEF BackTo
<1> QED BY <1>5, <1>6

\* Outside the loops the program goes straight on and nothing counts.
LEMMA OutsideLoops ==
  ASSUME program \in DOMAIN Programs, NEW a \in Addr, NEW kind \in Program[a],
         kind \notin BodyKinds, NEW lp
  PROVE  /\ \A k \in Loops : ~InBody(k, a) /\ ~IsLast(k, a)
         /\ After(a, lp) = Sequel(a) /\ JumpsBack(a, lp) = {}
         /\ lp \in [Loops -> Nat] => Counted(a, lp) = lp
<1>1. \A k \in Loops : ~InBody(k, a)
  <2> SUFFICES ASSUME NEW k \in Loops, InBody(k, a) PROVE FALSE
    OBVIOUS
  <2>1. Programs[program][a] \subseteq
          {"alu", "mem", "csr", "ecall", "ebreak", "illegal", "setup"}
    BY LoopAssumption
  <2> QED BY <2>1 DEF Program, BodyKinds
<1>2. \A k \in Loops : ~IsLast(k, a)
  BY <1>1, LoopEnds
<1>3. JumpsBack(a, lp) = {}
  BY <1>2 DEF JumpsBack
<1>4. lp \in [Loops -> Nat] => Counted(a, lp) = lp
  BY <1>2 DEF Counted
<1> QED BY <1>1, <1>2, <1>3, <1>4, AfterLast

\* In the body of a loop stands what may stand there.
LEMMA InsideKinds ==
  ASSUME program \in DOMAIN Programs, NEW a \in Addr, NEW lp, Inside(a, lp)
  PROVE  Program[a] \subseteq BodyKinds
  BY OutsideLoops DEF Inside

\* Where the stream goes behind the instruction that comes after the one at a does
\* not change when a is executed: a counts only the loop that it ends, and sets up
\* only loops that it is not in.
LEMMA Successor ==
  ASSUME NEW a \in Addr, NEW lp \in [Loops -> Nat], NEW lq \in [Loops -> Nat],
         \A k \in Loops \ SetUpAt(a) : lq[k] = Counted(a, lp)[k]
  PROVE  /\ BackTo(After(a, lp), lq) = BackTo(Sequel(a), lp)
         /\ JumpsBack(a, lp) # {} => BackTo(After(a, lp), lq) = NoAddr
         /\ BackTo(Sequel(a), lp) # NoAddr =>
              BackTo(Sequel(After(a, lp)), lq) = NoAddr
         /\ (\E k \in Loops : InBody(k, a) /\ lp[k] > 1) => Inside(After(a, lp), lq)
         /\ Inside(a, lp) /\ (\A k \in Loops : IsLastButOne(k, a) => lp[k] = 0) =>
              Inside(After(a, lp), lq)
<1> DEFINE b == After(a, lp)
<1>1. Sequel(a) \in Addr /\ b \in Addr
  BY AddrFacts, AfterLast
<1> HIDE DEF b
<1>2. ASSUME NEW k \in Loops, InBody(k, a)
      PROVE  lq[k] = IF IsLast(k, a) /\ lp[k] > 0 THEN lp[k] - 1 ELSE lp[k]
  <2>1. k \notin SetUpAt(a)
    BY <1>2, LoopEnds
  <2> QED BY <2>1 DEF Counted
<1>3. ASSUME JumpsBack(a, lp) # {}
      PROVE  \E k \in Loops : /\ IsLast(k, a) /\ lp[k] > 1 /\ b = LoopStart[k]
                              /\ InBody(k, b) /\ ~IsLast(k, b) /\ lq[k] >= 1
  <2>1. PICK k \in Loops : IsLast(k, a) /\ lp[k] > 1
    BY <1>3 DEF JumpsBack
  <2>2. b = LoopStart[k]
    BY <2>1, AfterLast DEF b
  <2>3. InBody(k, a) /\ InBody(k, b) /\ ~IsLast(k, b)
    BY <1>1, <2>1, <2>2, LoopEnds
  <2>4. lq[k] = lp[k] - 1 /\ lp[k] \in Nat
    BY <1>2, <2>1, <2>3
  <2> QED BY <2>1, <2>2, <2>3, <2>4
<1>4. JumpsBack(a, lp) # {} => JumpsBack(b, lq) = {} /\ JumpsBack(Sequel(a), lp) = {}
  <2> SUFFICES ASSUME JumpsBack(a, lp) # {}
      PROVE  JumpsBack(b, lq) = {} /\ JumpsBack(Sequel(a), lp) = {}
    OBVIOUS
  <2>1. PICK k \in Loops : IsLast(k, a) /\ b = LoopStart[k]
    BY <1>3
  <2>2. \A j \in Loops : ~IsLast(j, b) /\ ~IsLast(j, Sequel(a))
    BY <2>1, LoopEnds
  <2> QED BY <2>2 DEF JumpsBack
<1>5. JumpsBack(a, lp) = {} => b = Sequel(a) /\ JumpsBack(b, lq) = JumpsBack(Sequel(a), lp)
  <2> SUFFICES ASSUME JumpsBack(a, lp) = {}
      PROVE  b = Sequel(a) /\ JumpsBack(b, lq) = JumpsBack(Sequel(a), lp)
    OBVIOUS
  <2>1. b = Sequel(a)
    BY AfterLast DEF b
  <2>2. ASSUME NEW k \in Loops, IsLast(k, b) PROVE lq[k] = lp[k]
    <3>1. IsLastButOne(k, a) /\ InBody(k, a) /\ ~IsLast(k, a)
      BY <2>1, <2>2, LoopEnds
    <3> QED BY <1>2, <3>1
  <2> QED BY <2>1, <2>2 DEF JumpsBack
<1>6. BackTo(b, lq) = BackTo(Sequel(a), lp)
  <2>1. JumpsBack(a, lp) = {} => After(b, lq) = After(Sequel(a), lp)
    BY <1>5 DEF After
  <2> QED BY <1>4, <1>5, <2>1 DEF BackTo
<1>7. JumpsBack(a, lp) # {} => BackTo(b, lq) = NoAddr
  BY <1>4 DEF BackTo
<1>8. BackTo(b, lq) # NoAddr => BackTo(Sequel(b), lq) = NoAddr
  <2> SUFFICES ASSUME BackTo(b, lq) # NoAddr PROVE BackTo(Sequel(b), lq) = NoAddr
    OBVIOUS
  <2>1. PICK k \in Loops : IsLast(k, b)
    BY DEF BackTo, JumpsBack
  <2>2. \A j \in Loops : ~IsLast(j, Sequel(b))
    BY <1>1, <2>1, LoopEnds
  <2> QED BY <2>2 DEF BackTo, JumpsBack
<1>9. JumpsBack(a, lp) # {} => Inside(b, lq)
  <2> SUFFICES ASSUME JumpsBack(a, lp) # {} PROVE Inside(b, lq)
    OBVIOUS
  <2>1. PICK k \in Loops : InBody(k, b) /\ ~IsLast(k, b) /\ lq[k] >= 1
    BY <1>3
  <2>2. lq[k] \in Nat
    OBVIOUS
  <2> QED BY <2>1, <2>2 DEF Inside
<1>10. ASSUME JumpsBack(a, lp) = {}, NEW k \in Loops, InBody(k, a), ~IsLast(k, a)
       PROVE  InBody(k, b) /\ lq[k] = lp[k] /\ (IsLast(k, b) <=> IsLastButOne(k, a))
  <2>1. b = Sequel(a)
    BY <1>5, <1>10
  <2> QED BY <1>2, <1>10, <2>1, LoopEnds
<1>11. (\E k \in Loops : InBody(k, a) /\ lp[k] > 1) => Inside(b, lq)
  <2> SUFFICES ASSUME JumpsBack(a, lp) = {}, NEW k \in Loops, InBody(k, a), lp[k] > 1
      PROVE  Inside(b, lq)
    BY <1>9
  <2>1. ~IsLast(k, a)
    BY DEF JumpsBack
  <2> QED BY <1>10, <2>1 DEF Inside
<1>12. Inside(a, lp) /\ (\A k \in Loops : IsLastButOne(k, a) => lp[k] = 0) => Inside(b, lq)
  <2> SUFFICES ASSUME JumpsBack(a, lp) = {}, NEW k \in Loops, InBody(k, a),
                      lp[k] = 1, ~IsLast(k, a), IsLastButOne(k, a) => lp[k] = 0
      PROVE  Inside(b, lq)
    BY <1>9, <1>11 DEF Inside
  <2>1. ~IsLastButOne(k, a)
    OBVIOUS
  <2> QED BY <1>10, <2>1 DEF Inside
<1> QED BY <1>6, <1>7, <1>8, <1>11, <1>12 DEF b

\* The comparators see the loops that count, and the end of an iteration to be
\* repeated leads to the start of its loop.
LEMMA Comparators ==
  ASSUME TypeOK, SetInv, NEW a \in Addr
  PROVE  /\ hwlp_counter_q \in [Loops -> Nat]
         /\ \A k \in Loops : hwlp_counter_q[k] # 0 =>
              /\ AtLast(k, a) <=> IsLast(k, a)
              /\ AtLastButOne(k, a) <=> IsLastButOne(k, a)
              /\ Within(k, a) <=> InBody(k, a)
         /\ JumpsBack(a, hwlp_counter_q) =
              {k \in Loops : AtLast(k, a) /\ hwlp_counter_q[k] > 1}
         /\ JumpsBack(Sequel(a), hwlp_counter_q) =
              {k \in Loops : AtLastButOne(k, a) /\ hwlp_counter_q[k] > 1}
         /\ InHwlpBody(a) <=> \E k \in Loops : InBody(k, a) /\ hwlp_counter_q[k] > 1
         /\ \A k \in Loops : IsLast(k, a) /\ hwlp_counter_q[k] # 0 =>
              HwlpTarget(a) = LoopStart[k]
         /\ \A k \in JumpsBack(Sequel(a), hwlp_counter_q) :
              StartAddr(k) = BackTo(Sequel(a), hwlp_counter_q)
<1>1. hwlp_counter_q \in [Loops -> Nat]
  BY DEF TypeOK
<1>2. \A k \in Loops : hwlp_counter_q[k] # 0 => k \in hwlp_set
  BY DEF SetInv
<1>3. \A k \in Loops : hwlp_counter_q[k] # 0 =>
        /\ AtLast(k, a) <=> IsLast(k, a)
        /\ AtLastButOne(k, a) <=> IsLastButOne(k, a)
        /\ Within(k, a) <=> InBody(k, a)
  BY <1>2 DEF AtLast, AtLastButOne, Within
<1>4. \A k \in Loops : hwlp_counter_q[k] > 1 => hwlp_counter_q[k] # 0
  BY <1>1
<1>5. JumpsBack(a, hwlp_counter_q) =
        {k \in Loops : AtLast(k, a) /\ hwlp_counter_q[k] > 1}
  BY <1>3, <1>4 DEF JumpsBack
<1>6. Sequel(a) \in Addr
  BY AddrFacts
<1>7. JumpsBack(Sequel(a), hwlp_counter_q) =
        {k \in Loops : AtLastButOne(k, a) /\ hwlp_counter_q[k] > 1}
  BY <1>3, <1>4, LoopEnds DEF JumpsBack
<1>8. InHwlpBody(a) <=> \E k \in Loops : InBody(k, a) /\ hwlp_counter_q[k] > 1
  BY <1>3, <1>4 DEF InHwlpBody
<1>9. ASSUME NEW k \in Loops, IsLast(k, a), hwlp_counter_q[k] # 0
      PROVE  HwlpTarget(a) = LoopStart[k]
  <2>1. k \in {0, 1} /\ k \in hwlp_set /\ hwlp_set \subseteq Loops
    BY <1>2, <1>9, LoopShape DEF TypeOK
  <2>2. Within(k, a)
    BY <1>9, <2>1, LoopEnds DEF Within
  <2>3. k = 1 => ~Within(0, a)
    BY <1>9, <2>1, LoopEnds DEF Within
  <2> QED BY <2>1, <2>2, <2>3 DEF HwlpTarget, StartAddr
<1>10. ASSUME NEW k \in JumpsBack(Sequel(a), hwlp_counter_q)
       PROVE  StartAddr(k) = BackTo(Sequel(a), hwlp_counter_q)
  <2>1. k \in Loops /\ IsLast(k, Sequel(a)) /\ hwlp_counter_q[k] > 1 /\ k \in hwlp_set
    BY <1>2, <1>4 DEF JumpsBack
  <2>2. After(Sequel(a), hwlp_counter_q) = LoopStart[k]
    BY <1>6, <2>1, AfterLast
  <2> QED BY <2>1, <2>2 DEF StartAddr, BackTo
<1> QED BY <1>1, <1>3, <1>5, <1>7, <1>8, <1>9, <1>10

\* The instructions of a program are of the known kinds.
LEMMA ProgramKinds ==
  ASSUME program \in DOMAIN Programs
  PROVE  \A a \in Addr : Program[a] \subseteq Kinds
  BY IsaAssumption DEF Program

-----------------------------------------------------------------------------
\* What the controller says in each state of the FSM.

\* No instruction leaves ID, no interrupt is acknowledged, no loop is counted.
Silent(o) ==
  ~o.decoding /\ ~o.irqAck /\ ~o.hwlpJump /\ o.end4 \in BOOLEAN /\ o.dec = {}

SavesNothing(o) == o.save = "no" /\ ~o.restore

\* The flags of the FSM stay as they are.
Keeps(o) ==
  /\ o.jumpDone = jump_done_q /\ o.debugN = debug_mode_q
  /\ o.entryN = debug_req_entry_q /\ o.wakeN = debug_force_wakeup_q

\* In reset the controller waits for fetch_enable_i.
LEMMA ResetSays ==
  ASSUME TypeOK, NEW in, NEW o, o = Out(in), ctrl_fsm_cs = "RESET"
  PROVE  /\ Silent(o) /\ SavesNothing(o) /\ Keeps(o) /\ o.illegalN = illegal_insn_q
         /\ ~o.req /\ o.busy /\ o.pc = "none"
         /\ o.ns = IF in.fetchEnQ THEN "BOOT_SET" ELSE "RESET"
<1>1. o = OutReset(in)
  BY DEF Out
<1> QED BY <1>1 DEF OutReset, Default, TypeOK, Silent, SavesNothing, Keeps

\* Booting sends the fetch to the boot address, and to debug mode if asked to.
LEMMA BootSetSays ==
  ASSUME TypeOK, NEW in, NEW o, o = Out(in), ctrl_fsm_cs = "BOOT_SET"
  PROVE  /\ Silent(o) /\ SavesNothing(o) /\ o.illegalN = illegal_insn_q
         /\ o.req /\ o.busy /\ o.pc = "boot"
         /\ o.ns = IF Pending(in) THEN "DBG_TAKEN_IF" ELSE "FIRST_FETCH"
         /\ o.jumpDone = jump_done_q /\ o.debugN = debug_mode_q
         /\ o.entryN = debug_req_entry_q
         /\ o.wakeN = (Pending(in) \/ debug_force_wakeup_q)
<1>1. o = OutBootSet(in)
  BY DEF Out
<1> QED BY <1>1 DEF OutBootSet, Default, TypeOK, Silent, SavesNothing

\* On the way to sleep the controller is idle.
LEMMA WaitSleepSays ==
  ASSUME TypeOK, NEW in, NEW o, o = Out(in), ctrl_fsm_cs = "WAIT_SLEEP"
  PROVE  /\ Silent(o) /\ SavesNothing(o) /\ Keeps(o) /\ o.illegalN = illegal_insn_q
         /\ ~o.req /\ ~o.busy /\ o.haltIf /\ o.pc = "none" /\ o.ns = "SLEEP"
<1>1. o = OutWaitSleep(in)
  BY DEF Out
<1> QED BY <1>1 DEF OutWaitSleep, Halted, Default, TypeOK, Silent, SavesNothing, Keeps

\* Asleep, it waits for a wake-up, which a debug request sends to debug mode.
LEMMA SleepSays ==
  ASSUME TypeOK, NEW in, NEW o, o = Out(in), ctrl_fsm_cs = "SLEEP"
  PROVE  /\ Silent(o) /\ SavesNothing(o) /\ o.illegalN = illegal_insn_q
         /\ ~o.req /\ o.haltIf /\ o.pc = "none"
         /\ (o.busy <=> Wake(in))
         /\ o.ns = (IF ~Wake(in) THEN "SLEEP"
                    ELSE IF Pending(in) THEN "DBG_TAKEN_IF" ELSE "FIRST_FETCH")
         /\ o.jumpDone = jump_done_q /\ o.debugN = debug_mode_q
         /\ o.entryN = debug_req_entry_q
         /\ o.wakeN = (Pending(in) \/ debug_force_wakeup_q)
<1>1. o = OutSleep(in)
  BY DEF Out
<1>2. o.ns = (IF ~Wake(in) THEN "SLEEP"
              ELSE IF Pending(in) THEN "DBG_TAKEN_IF" ELSE "FIRST_FETCH")
  BY <1>1 DEF OutSleep, Halted, Default
<1>3. (o.busy <=> Wake(in)) /\ ~o.req /\ o.haltIf /\ o.pc = "none"
  BY <1>1 DEF OutSleep, Halted, Default
<1> QED
  BY <1>1, <1>2, <1>3 DEF OutSleep, Halted, Default, TypeOK, Silent, SavesNothing

\* An interrupt that is taken saves the pc of a stage and goes to its handler.
LEMMA InterruptSays ==
  ASSUME TypeOK, NEW in, NEW stage, NEW o, o = Interrupt(in, stage)
  PROVE  /\ ~o.decoding /\ o.irqAck /\ ~o.hwlpJump /\ o.end4 \in BOOLEAN
         /\ o.save = stage /\ ~o.dbgSave /\ Keeps(o) /\ o.dec = {}
         /\ o.req /\ o.busy /\ o.haltIf /\ o.haltId /\ o.pc = "irq" /\ o.ns = "DECODE"
         /\ o.illegalN = Default(in).illegalN
  BY DEF Interrupt, Halted, Default, TypeOK, Keeps

\* Nothing is decoded in the first cycle of fetching.
LEMMA FirstFetchSays ==
  ASSUME TypeOK, NEW in, NEW o, o = Out(in), ctrl_fsm_cs = "FIRST_FETCH"
  PROVE  \/ o = Interrupt(in, "if") /\ MustTakeIrq(in)
         \/ /\ Silent(o) /\ SavesNothing(o) /\ Keeps(o) /\ o.illegalN = illegal_insn_q
            /\ o.req /\ o.busy /\ ~o.haltIf /\ ~o.haltId /\ o.pc = "none" /\ o.ns = "DECODE"
<1>1. CASE MustTakeIrq(in) /\ ~Pending(in)
  BY <1>1 DEF Out, OutFirstFetch
<1>2. CASE ~(MustTakeIrq(in) /\ ~Pending(in))
  <2>1. o = [Default(in) EXCEPT !.ns = "DECODE"]
    BY <1>2 DEF Out, OutFirstFetch
  <2> QED BY <2>1 DEF Default, TypeOK, Silent, SavesNothing, Keeps
<1> QED BY <1>1, <1>2

\* Flushing starts when EX and WB are done; an exception saves the pc of ID.
LEMMA FlushExSays ==
  ASSUME TypeOK, NEW in, NEW o, o = Out(in), ctrl_fsm_cs = "FLUSH_EX",
         illegal_insn_q = illegal_insn, insn_id = "ebreak" => ~debug_mode_q
  PROVE  /\ Silent(o) /\ ~o.restore /\ Keeps(o) /\ o.illegalN = illegal_insn_q
         /\ o.req /\ o.busy /\ o.haltIf /\ o.pc = "none"
         /\ o.ns = (IF ExValid(in) THEN "FLUSH_WB" ELSE "FLUSH_EX")
         /\ o.save = (IF ExValid(in) /\ Raising /\ ~debug_mode_q THEN "id" ELSE "no")
         /\ ~o.dbgSave
<1>1. CASE ~ExValid(in)
  <2>1. o = Halted(in)
    BY <1>1 DEF Out, OutFlushEx
  <2> QED BY <1>1, <2>1 DEF Halted, Default, TypeOK, Silent, Keeps
<1>2. CASE ExValid(in)
  <2>1. o = OutFlushEx(in)
    BY DEF Out
  <2>2. o = [Halted(in) EXCEPT
               !.ns = "FLUSH_WB",
               !.save = IF Raising /\ ~debug_mode_q THEN "id" ELSE @]
    <3>1. (\/ illegal_insn_q /\ ~debug_mode_q
           \/ ~illegal_insn_q /\ insn_id = "ebreak"
           \/ ~illegal_insn_q /\ insn_id = "ecall" /\ ~debug_mode_q)
          <=> Raising /\ ~debug_mode_q
      BY DEF Raising, illegal_insn, TypeOK
    <3> QED BY <1>2, <2>1, <3>1, Zenon DEF OutFlushEx
  <2> QED BY <1>2, <2>2 DEF Halted, Default, TypeOK, Silent, Keeps
<1> QED BY <1>1, <1>2

\* An exception goes to its handler, or is where a single step ends.
LEMMA FlushWbRaises ==
  ASSUME TypeOK, NEW in, NEW o, o = Out(in), ctrl_fsm_cs = "FLUSH_WB", Raising,
         illegal_insn_q = illegal_insn, insn_id = "ebreak" => ~debug_mode_q
  PROVE  /\ Silent(o) /\ SavesNothing(o) /\ Keeps(o) /\ ~o.illegalN
         /\ o.illegalN \in BOOLEAN /\ o.req /\ o.busy /\ o.haltIf
         /\ o.pc = (IF debug_mode_q THEN "dbe" ELSE "exc")
         /\ o.ns = (IF Stepped THEN "DBG_TAKEN_IF" ELSE "DECODE")
<1>1. o = RaiseException(in)
  BY DEF Out, OutFlushWb, Raising
<1>2. o.pc = (IF debug_mode_q THEN "dbe" ELSE "exc")
  BY <1>1 DEF RaiseException, Halted, Default
<1> QED
  BY <1>1, <1>2 DEF RaiseException, Halted, Default, Silent, SavesNothing, Keeps

\* mret and dret go on to jump; mret outside debug mode restores mstatus.
LEMMA FlushWbReturns ==
  ASSUME TypeOK, NEW in, NEW o, o = Out(in), ctrl_fsm_cs = "FLUSH_WB", Returning
  PROVE  /\ Silent(o) /\ o.save = "no" /\ Keeps(o) /\ o.illegalN = illegal_insn_q
         /\ (o.restore <=> insn_id = "mret" /\ ~debug_mode_q)
         /\ o.req /\ o.busy /\ o.haltIf /\ o.pc = "none" /\ o.ns = "XRET_JUMP"
<1>1. o = [Halted(in) EXCEPT !.ns = "XRET_JUMP",
                             !.restore = insn_id = "mret" /\ ~debug_mode_q]
  BY DEF Out, OutFlushWb, Returning
<1>2. o.restore <=> insn_id = "mret" /\ ~debug_mode_q
  BY <1>1 DEF Halted, Default
<1> QED BY <1>1, <1>2 DEF Halted, Default, TypeOK, Silent, Keeps

\* After a CSR instruction or fence.i the fetch goes on, after wfi to sleep; at the
\* end of an iteration the CSR instruction goes back to the start of its loop.
LEMMA FlushWbGoesOn ==
  ASSUME TypeOK, NEW in, NEW o, o = Out(in), ctrl_fsm_cs = "FLUSH_WB", Executed
  PROVE  /\ Silent(o) /\ SavesNothing(o) /\ o.illegalN = illegal_insn_q
         /\ o.req /\ o.busy /\ o.haltIf
         /\ o.jumpDone = jump_done_q /\ o.debugN = debug_mode_q
         /\ o.entryN = debug_req_entry_q /\ o.target = HwlpTarget(pc_id)
         /\ o.pc = (IF insn_id = "fencei" THEN "fencei"
                    ELSE IF /\ insn_id = "csr"
                            /\ \E k \in Loops : AtLast(k, pc_id) /\ hwlp_counter_q[k] # 0
                         THEN "hwloop" ELSE "none")
         /\ o.ns = (IF insn_id # "wfi" THEN "DECODE"
                    ELSE IF Pending(in) THEN "DBG_TAKEN_IF" ELSE "WAIT_SLEEP")
         /\ o.wakeN = IF insn_id = "wfi" /\ Pending(in) THEN TRUE ELSE debug_force_wakeup_q
<1>1. CASE insn_id = "wfi"
  <2>1. o = IF Pending(in) THEN [Halted(in) EXCEPT !.ns = "DBG_TAKEN_IF", !.wakeN = TRUE]
            ELSE [Halted(in) EXCEPT !.ns = "WAIT_SLEEP"]
    BY <1>1 DEF Out, OutFlushWb, Executed
  <2>2. CASE Pending(in)
    BY <1>1, <2>1, <2>2 DEF Halted, Default, TypeOK, Silent, SavesNothing
  <2>3. CASE ~Pending(in)
    BY <1>1, <2>1, <2>3 DEF Halted, Default, TypeOK, Silent, SavesNothing
  <2> QED BY <2>2, <2>3
<1>2. CASE insn_id = "csr"
  <2> DEFINE ends == \E k \in Loops : AtLast(k, pc_id) /\ hwlp_counter_q[k] # 0
  <2>1. o = [Halted(in) EXCEPT !.ns = "DECODE", !.pc = IF ends THEN "hwloop" ELSE @]
    BY <1>2 DEF Out, OutFlushWb, Executed
  <2> HIDE DEF ends
  <2>2. CASE ends
    BY <1>2, <2>1, <2>2 DEF Halted, Default, TypeOK, Silent, SavesNothing, ends
  <2>3. CASE ~ends
    BY <1>2, <2>1, <2>3 DEF Halted, Default, TypeOK, Silent, SavesNothing, ends
  <2> QED BY <2>2, <2>3
<1>3. CASE insn_id = "fencei"
  <2>1. o = [Halted(in) EXCEPT !.ns = "DECODE", !.pc = "fencei"]
    BY <1>3 DEF Out, OutFlushWb, Executed
  <2> QED BY <1>3, <2>1 DEF Halted, Default, TypeOK, Silent, SavesNothing
<1> QED BY <1>1, <1>2, <1>3 DEF Executed

\* The jump of mret or dret; dret leaves debug mode.
LEMMA XretJumpSays ==
  ASSUME TypeOK, NEW in, NEW o, o = Out(in), ctrl_fsm_cs = "XRET_JUMP"
  PROVE  /\ Silent(o) /\ SavesNothing(o) /\ o.illegalN = illegal_insn_q
         /\ o.req /\ o.busy
         /\ o.pc = (IF insn_id = "dret" THEN "dret"
                    ELSE IF debug_mode_q THEN "dbe" ELSE "mret")
         /\ o.ns = (IF Stepped THEN "DBG_TAKEN_IF" ELSE "DECODE")
         /\ o.jumpDone = jump_done_q
         /\ (o.debugN <=> debug_mode_q /\ insn_id # "dret") /\ o.debugN \in BOOLEAN
         /\ o.entryN = debug_req_entry_q /\ o.wakeN = debug_force_wakeup_q
<1>1. o = OutXretJump(in)
  BY DEF Out
<1>2. (o.debugN <=> debug_mode_q /\ insn_id # "dret") /\ o.debugN \in BOOLEAN
  BY <1>1 DEF OutXretJump, Default, TypeOK
<1>3. o.pc = (IF insn_id = "dret" THEN "dret"
              ELSE IF debug_mode_q THEN "dbe" ELSE "mret")
  BY <1>1 DEF OutXretJump, Default
<1> QED BY <1>1, <1>2, <1>3 DEF OutXretJump, Default, TypeOK, Silent, SavesNothing

\* A single-stepped branch is waited for.
LEMMA DbgWaitBranchSays ==
  ASSUME TypeOK, NEW in, NEW o, o = Out(in), ctrl_fsm_cs = "DBG_WAIT_BRANCH"
  PROVE  /\ Silent(o) /\ SavesNothing(o) /\ Keeps(o) /\ o.illegalN = illegal_insn_q
         /\ o.req /\ o.busy /\ o.haltIf /\ o.ns = "DBG_FLUSH"
         /\ o.pc = IF branch_taken_ex THEN "branch" ELSE "none"
<1>1. o = OutDbgWaitBranch(in)
  BY DEF Out
<1> QED BY <1>1 DEF OutDbgWaitBranch, Default, TypeOK, Silent, SavesNothing, Keeps

\* The flush before debug entry tells whether it is instead of ID's instruction.
LEMMA DbgFlushSays ==
  ASSUME TypeOK, NEW in, NEW o, o = Out(in), ctrl_fsm_cs = "DBG_FLUSH"
  PROVE  /\ Silent(o) /\ SavesNothing(o) /\ Keeps(o) /\ o.illegalN = illegal_insn_q
         /\ o.req /\ o.busy /\ o.haltIf /\ o.haltId /\ o.pc = "none"
         /\ o.ns = IF InsteadOfId THEN "DBG_TAKEN_ID" ELSE "DBG_TAKEN_IF"
<1>1. o = OutDbgFlush(in)
  BY DEF Out
<1> QED
  BY <1>1 DEF OutDbgFlush, Halted, Default, TypeOK, Silent, SavesNothing, Keeps,
     InsteadOfId

\* Debug entry instead of the instruction in ID saves its pc, but in debug mode.
LEMMA DbgTakenIdSays ==
  ASSUME TypeOK, NEW in, NEW o, o = Out(in), ctrl_fsm_cs = "DBG_TAKEN_ID"
  PROVE  /\ Silent(o) /\ ~o.restore /\ o.illegalN = illegal_insn_q
         /\ o.req /\ o.busy /\ o.pc = "dbd" /\ o.ns = "DECODE"
         /\ o.jumpDone = jump_done_q /\ o.debugN = TRUE /\ o.entryN = FALSE
         /\ o.wakeN = debug_force_wakeup_q
         /\ debug_mode_q => o.save = "no"
         /\ ~debug_mode_q =>
              /\ o.save = "id" /\ o.dbgSave
              /\ o.cause = (IF trigger_match THEN "trigger" ELSE IF ForcedEbreak THEN "ebreak"
                            ELSE IF debug_req_entry_q THEN "haltreq" ELSE "ebreak")
<1>1. o = OutDbgTakenId(in)
  BY DEF Out
<1>2. debug_mode_q => o.save = "no"
  BY <1>1 DEF OutDbgTakenId, Default
<1>3. ~debug_mode_q => o.save = "id" /\ o.dbgSave
  BY <1>1 DEF OutDbgTakenId, Default
<1>4. ~debug_mode_q =>
        o.cause = (IF trigger_match THEN "trigger" ELSE IF ForcedEbreak THEN "ebreak"
                   ELSE IF debug_req_entry_q THEN "haltreq" ELSE "ebreak")
  <2> SUFFICES ASSUME ~debug_mode_q
      PROVE  o.cause = IF trigger_match THEN "trigger" ELSE IF ForcedEbreak THEN "ebreak"
                       ELSE IF debug_req_entry_q THEN "haltreq" ELSE "ebreak"
    OBVIOUS
  <2> QED BY <1>1, SMT DEF OutDbgTakenId, Default
<1> QED BY <1>1, <1>2, <1>3, <1>4 DEF OutDbgTakenId, Default, TypeOK, Silent

\* Debug entry from IF: the step is over, or a request came around sleep or boot.
LEMMA DbgTakenIfSays ==
  ASSUME TypeOK, NEW in, NEW o, o = Out(in), ctrl_fsm_cs = "DBG_TAKEN_IF"
  PROVE  /\ Silent(o) /\ ~o.restore /\ o.illegalN = illegal_insn_q
         /\ o.req /\ o.busy /\ o.pc = "dbd" /\ o.ns = "DECODE"
         /\ o.jumpDone = jump_done_q /\ o.debugN = TRUE /\ o.wakeN = FALSE
         /\ o.entryN = debug_req_entry_q
         /\ o.save = "if" /\ o.dbgSave
         /\ o.cause = (IF debug_force_wakeup_q THEN "haltreq"
                       ELSE IF step # "off" THEN "step" ELSE "ebreak")
<1>1. o = OutDbgTakenIf(in)
  BY DEF Out
<1>2. o.cause = (IF debug_force_wakeup_q THEN "haltreq"
                 ELSE IF step # "off" THEN "step" ELSE "ebreak")
  BY <1>1 DEF OutDbgTakenIf, Default
<1> QED BY <1>1, <1>2 DEF OutDbgTakenIf, Default, TypeOK, Silent

\* In DECODE a taken branch goes before everything else.
LEMMA DecodeRedirects ==
  ASSUME TypeOK, NEW in, NEW o, o = Out(in), ctrl_fsm_cs = "DECODE", branch_taken_ex
  PROVE  /\ Silent(o) /\ SavesNothing(o) /\ Keeps(o) /\ o.illegalN = illegal_insn_q
         /\ o.req /\ o.busy /\ o.pc = "branch" /\ o.ns = "DECODE"
<1>1. o = [Default(in) EXCEPT !.pc = "branch"]
  BY DEF Out, OutDecode
<1> QED BY <1>1 DEF Default, TypeOK, Silent, SavesNothing, Keeps

\* Nothing happens while ID is empty.
LEMMA DecodeWaits ==
  ASSUME TypeOK, NEW in, NEW o, o = Out(in), ctrl_fsm_cs \in {"DECODE", "DECODE_HWLOOP"},
         ~branch_taken_ex, ~instr_valid_id
  PROVE  /\ Silent(o) /\ SavesNothing(o) /\ Keeps(o) /\ o.illegalN = illegal_insn_q
         /\ o.req /\ o.busy /\ ~o.haltIf /\ o.pc = "none" /\ o.ns = ctrl_fsm_cs
         /\ o.end4 = FALSE
<1>1. o = Default(in)
  BY DEF Out, OutDecode
<1> QED BY <1>1 DEF Default, TypeOK, Silent, SavesNothing, Keeps

\* What may be met in ID: in DECODE_HWLOOP only what may stand in a loop.
Suits ==
  \/ ctrl_fsm_cs = "DECODE"
  \/ ctrl_fsm_cs = "DECODE_HWLOOP" /\ ~illegal_insn_q /\ insn_id \in BodyKinds

\* The flag of an illegal instruction goes with the instruction.
LEMMA ClearsIllegal ==
  ASSUME TypeOK, Suits, ~branch_taken_ex, instr_valid_id
  PROVE  (illegal_insn_q /\ ~(ctrl_fsm_cs = "DECODE" /\ instr_valid_id /\ ~branch_taken_ex))
           = FALSE
  BY DEF TypeOK, Suits

\* A debug request or a trigger goes before the instruction in ID.
LEMMA DecodeServesDebug ==
  ASSUME TypeOK, NEW in, NEW o, o = Out(in), Suits,
         ~branch_taken_ex, instr_valid_id, MustHalt(in)
  PROVE  /\ o.haltIf /\ o.haltId /\ ~o.irqAck /\ ~o.hwlpJump /\ o.end4 \in BOOLEAN
         /\ o.dec = {} /\ (o.decoding => Loops = {})
         /\ SavesNothing(o) /\ o.req /\ o.busy /\ o.pc = "none" /\ o.ns = "DBG_FLUSH"
         /\ o.jumpDone = jump_done_q /\ o.debugN = debug_mode_q
         /\ o.illegalN = FALSE /\ o.entryN = TRUE /\ o.wakeN = debug_force_wakeup_q
<1>1. o = ServeDebug(in)
  BY DEF Out, OutDecode, Suits
<1>2. o.illegalN = FALSE
  BY <1>1, ClearsIllegal DEF ServeDebug, Halted, Default
<1>3. o.decoding => Loops = {}
  BY <1>1 DEF ServeDebug, Halted, Default, COREV_PULP
<1> QED BY <1>1, <1>2, <1>3 DEF ServeDebug, Halted, Default, TypeOK, SavesNothing

\* Then an interrupt.
LEMMA DecodeTakesIrq ==
  ASSUME TypeOK, NEW in, NEW o, o = Out(in), Suits,
         ~branch_taken_ex, instr_valid_id, ~MustHalt(in), MustTakeIrq(in)
  PROVE  o = Interrupt(in, "id")
  BY DEF Out, OutDecode, Suits

\* Then the instruction, which leaves ID when EX can take it.
Decodes(in, o) ==
  /\ o.decoding /\ ~o.haltId /\ ~o.irqAck /\ ~o.mask /\ o.end4 \in BOOLEAN
  /\ SavesNothing(o) /\ o.req /\ o.busy
  /\ o.debugN = debug_mode_q
  /\ o.entryN = debug_req_entry_q /\ o.wakeN = debug_force_wakeup_q

\* The stream is not told of the end of an iteration.
NoPulse(o) == ~o.hwlpJump /\ o.end4 = FALSE

\* The loops of which the instruction in ID ends an iteration.
Ends == {k \in Loops : AtLast(k, pc_id) /\ hwlp_counter_q[k] # 0}

\* No branch, debug request or interrupt goes before the instruction in ID.
NothingFirst(in) ==
  /\ Suits /\ ~branch_taken_ex /\ instr_valid_id
  /\ ~MustHalt(in) /\ ~MustTakeIrq(in)

\* An illegal instruction is decoded alone, and flagged.
LEMMA DecodesIllegal ==
  ASSUME TypeOK, NEW in, NEW o, o = Out(in), NothingFirst(in), illegal_insn,
         ctrl_fsm_cs = "DECODE"
  PROVE  /\ Decodes(in, o) /\ NoPulse(o) /\ o.dec = {} /\ o.haltIf /\ o.pc = "none"
         /\ o.jumpDone = jump_done_q /\ o.illegalN = TRUE
         /\ o.ns = IF IdReady(in) THEN "FLUSH_EX" ELSE "DECODE"
<1>1. o = DecodeValid(in)
  BY DEF Out, OutDecode, NothingFirst
<1>2. DecodeInsn(in) = DecodeIllegal(in)
  BY DEF DecodeInsn, illegal_insn, wfi_active
<1>3. DecodeIllegal(in) = [Alone(in, "FLUSH_EX") EXCEPT !.illegalN = TRUE]
  BY DEF DecodeIllegal
<1>4. AfterStep = "FLUSH_EX"
  BY DEF AfterStep
<1>5. o = IF ~Stepped THEN [Alone(in, "FLUSH_EX") EXCEPT !.illegalN = TRUE]
          ELSE [[Alone(in, "FLUSH_EX") EXCEPT !.illegalN = TRUE]
                  EXCEPT !.haltIf = TRUE, !.ns = IF IdReady(in) THEN "FLUSH_EX" ELSE @]
  BY <1>1, <1>2, <1>3, <1>4 DEF DecodeValid
<1>6. CASE ~Stepped
  BY <1>5, <1>6 DEF Alone, Leaves, Default, TypeOK, Decodes, NoPulse, SavesNothing
<1>7. CASE Stepped
  BY <1>5, <1>7 DEF Alone, Leaves, Default, TypeOK, Decodes, NoPulse, SavesNothing
<1> QED BY <1>6, <1>7

\* In a loop it is flushed for at once.
LEMMA HwloopIllegal ==
  ASSUME TypeOK, NEW in, NEW o, o = Out(in), NothingFirst(in), illegal_insn,
         ctrl_fsm_cs = "DECODE_HWLOOP"
  PROVE  /\ o.haltIf /\ o.haltId /\ ~o.irqAck /\ NoPulse(o) /\ o.dec = {}
         /\ SavesNothing(o) /\ o.req /\ o.busy /\ o.pc = "none" /\ o.ns = "FLUSH_EX"
         /\ o.jumpDone = jump_done_q /\ o.debugN = debug_mode_q
         /\ o.illegalN = TRUE
         /\ o.entryN = debug_req_entry_q /\ o.wakeN = debug_force_wakeup_q
<1> DEFINE r == [Alone(in, "FLUSH_EX") EXCEPT !.illegalN = TRUE, !.haltId = TRUE,
                                              !.ns = "FLUSH_EX"]
<1>1. o = DecodeValid(in)
  BY DEF Out, OutDecode, NothingFirst
<1>2. DecodeInsn(in) = DecodeIllegal(in)
  BY DEF DecodeInsn, illegal_insn, wfi_active
<1>3. DecodeIllegal(in) = r
  BY DEF DecodeIllegal
<1>4. AfterStep = "FLUSH_EX"
  BY DEF AfterStep
<1>5. o = IF ~Stepped THEN r
          ELSE [r EXCEPT !.haltIf = TRUE, !.ns = IF IdReady(in) THEN "FLUSH_EX" ELSE @]
  BY <1>1, <1>2, <1>3, <1>4 DEF DecodeValid
<1>6. CASE ~Stepped
  BY <1>5, <1>6 DEF Alone, Leaves, Default, TypeOK, NoPulse, SavesNothing
<1>7. CASE Stepped
  BY <1>5, <1>7 DEF Alone, Leaves, Default, TypeOK, NoPulse, SavesNothing
<1> QED BY <1>6, <1>7

\* A jump sets the pc once, as soon as its target is known.
LEMMA DecodesJump ==
  ASSUME TypeOK, NEW in, NEW o, o = Out(in), NothingFirst(in), insn_id = "jump",
         ctrl_fsm_cs = "DECODE"
  PROVE  /\ Decodes(in, o) /\ NoPulse(o) /\ o.dec = {}
         /\ (o.haltIf <=> Stepped) /\ o.illegalN = FALSE
         /\ IF ~in.jr /\ ~jump_done_q THEN o.pc = "jump" /\ o.jumpDone = TRUE
            ELSE o.pc = "none" /\ o.jumpDone = jump_done_q
         /\ o.ns = IF IdReady(in) /\ Stepped THEN "DBG_FLUSH" ELSE "DECODE"
<1>1. o = DecodeValid(in)
  BY DEF Out, OutDecode, NothingFirst
<1>2. DecodeInsn(in) = DecodeJump(in)
  BY DEF DecodeInsn, illegal_insn, wfi_active, NothingFirst
<1>3. ~in.jr /\ ~jump_done_q =>
        DecodeJump(in) = [Default(in) EXCEPT !.decoding = TRUE, !.pc = "jump", !.jumpDone = TRUE]
  BY DEF DecodeJump
<1>4. ~(~in.jr /\ ~jump_done_q) => DecodeJump(in) = [Default(in) EXCEPT !.decoding = TRUE]
  BY DEF DecodeJump
<1>5. AfterStep = "DBG_FLUSH"
  BY DEF AfterStep, illegal_insn
<1>6. CASE ~Stepped
  <2>1. o = DecodeJump(in)
    BY <1>1, <1>2, <1>6 DEF DecodeValid
  <2>2. CASE ~in.jr /\ ~jump_done_q
    <3>1. o = [Default(in) EXCEPT !.decoding = TRUE, !.pc = "jump", !.jumpDone = TRUE]
      BY <2>1, <2>2, <1>3
    <3>2. o.illegalN = FALSE
      BY <3>1, ClearsIllegal DEF Default, NothingFirst
    <3> QED BY <3>1, <3>2, <2>2, <1>6 DEF Default, TypeOK, Decodes, NoPulse, SavesNothing
  <2>3. CASE ~(~in.jr /\ ~jump_done_q)
    <3>1. o = [Default(in) EXCEPT !.decoding = TRUE]
      BY <2>1, <2>3, <1>4
    <3>2. o.illegalN = FALSE
      BY <3>1, ClearsIllegal DEF Default, NothingFirst
    <3> QED BY <3>1, <3>2, <2>3, <1>6 DEF Default, TypeOK, Decodes, NoPulse, SavesNothing
  <2> QED BY <2>2, <2>3
<1>7. CASE Stepped
  <2>1. o = [DecodeJump(in) EXCEPT !.haltIf = TRUE,
                                   !.ns = IF IdReady(in) THEN "DBG_FLUSH" ELSE @]
    BY <1>1, <1>2, <1>5, <1>7 DEF DecodeValid
  <2>2. CASE ~in.jr /\ ~jump_done_q
    <3>1. o = [[Default(in) EXCEPT !.decoding = TRUE, !.pc = "jump", !.jumpDone = TRUE]
                 EXCEPT !.haltIf = TRUE, !.ns = IF IdReady(in) THEN "DBG_FLUSH" ELSE @]
      BY <2>1, <2>2, <1>3
    <3>2. o.illegalN = FALSE
      BY <3>1, ClearsIllegal DEF Default, NothingFirst
    <3> QED BY <3>1, <3>2, <2>2, <1>7 DEF Default, TypeOK, Decodes, NoPulse, SavesNothing
  <2>3. CASE ~(~in.jr /\ ~jump_done_q)
    <3>1. o = [[Default(in) EXCEPT !.decoding = TRUE]
                 EXCEPT !.haltIf = TRUE, !.ns = IF IdReady(in) THEN "DBG_FLUSH" ELSE @]
      BY <2>1, <2>3, <1>4
    <3>2. o.illegalN = FALSE
      BY <3>1, ClearsIllegal DEF Default, NothingFirst
    <3> QED BY <3>1, <3>2, <2>3, <1>7 DEF Default, TypeOK, Decodes, NoPulse, SavesNothing
  <2> QED BY <2>2, <2>3
<1> QED BY <1>6, <1>7

\* ebreak goes to debug mode if dcsr.ebreakm says so, or in debug mode.
LEMMA DecodesForcedEbreak ==
  ASSUME TypeOK, NEW in, NEW o, o = Out(in), NothingFirst(in), insn_id = "ebreak",
         debug_mode_q \/ ForcedEbreak
  PROVE  /\ Decodes(in, o) /\ NoPulse(o) /\ o.dec = {}
         /\ o.haltIf /\ o.illegalN = FALSE /\ o.pc = "none"
         /\ o.jumpDone = jump_done_q /\ o.ns = "DBG_FLUSH"
<1>1. o = DecodeValid(in)
  BY DEF Out, OutDecode, NothingFirst, Suits
<1>2. DecodeInsn(in) = DecodeEbreak(in)
  BY DEF DecodeInsn, illegal_insn, wfi_active, NothingFirst, Suits
<1>3. DecodeInsn(in) = [Alone(in, "FLUSH_EX") EXCEPT !.ns = "DBG_FLUSH"]
  BY <1>2 DEF DecodeEbreak
<1>4. Stepped => AfterStep = "DBG_FLUSH"
  BY DEF AfterStep, illegal_insn, ForcedEbreak, Stepped
<1>5. CASE ~Stepped
  <2>1. o = [Alone(in, "FLUSH_EX") EXCEPT !.ns = "DBG_FLUSH"]
    BY <1>1, <1>3, <1>5 DEF DecodeValid
  <2>2. o.illegalN = FALSE
    BY <2>1, ClearsIllegal DEF Alone, Default, NothingFirst
  <2> QED BY <2>1, <2>2 DEF Alone, Default, TypeOK, Decodes, NoPulse, SavesNothing
<1>6. CASE Stepped
  <2>1. o = [[Alone(in, "FLUSH_EX") EXCEPT !.ns = "DBG_FLUSH"]
               EXCEPT !.haltIf = TRUE, !.ns = IF IdReady(in) THEN "DBG_FLUSH" ELSE @]
    BY <1>1, <1>3, <1>4, <1>6 DEF DecodeValid
  <2>2. o.illegalN = FALSE
    BY <2>1, ClearsIllegal DEF Alone, Default, NothingFirst
  <2> QED BY <2>1, <2>2 DEF Alone, Default, TypeOK, Decodes, NoPulse, SavesNothing
<1> QED BY <1>5, <1>6

\* What is decoded alone and flushed for, but for the exceptions above.
FlushKinds(in) ==
  \/ insn_id = "ebreak" /\ ~debug_mode_q /\ ~ForcedEbreak
  \/ insn_id \in {"ecall", "fencei", "mret", "csr"}
  \/ insn_id = "dret" /\ debug_mode_q
  \/ wfi_active(in)

\* They are flushed for, but a stepped fence.i or CSR instruction goes to debug entry.
LEMMA DecodesFlushed ==
  ASSUME TypeOK, NEW in, NEW o, o = Out(in), NothingFirst(in), FlushKinds(in)
  PROVE  /\ Decodes(in, o) /\ NoPulse(o) /\ o.haltIf /\ o.illegalN = FALSE /\ o.pc = "none"
         /\ o.jumpDone = jump_done_q
         /\ o.dec = (IF insn_id = "csr" /\ IdReady(in)
                     THEN {k \in Loops : AtLast(k, pc_id)} ELSE {})
         /\ o.ns = IF ~IdReady(in) THEN ctrl_fsm_cs
                   ELSE IF Stepped /\ insn_id \in {"fencei", "csr"} THEN "DBG_FLUSH"
                   ELSE "FLUSH_EX"
<1> DEFINE counted == {k \in Loops : AtLast(k, pc_id)}
           f == Alone(in, "FLUSH_EX")
           c == [Alone(in, "FLUSH_EX") EXCEPT !.dec = counted]
           g == [DecodeInsn(in) EXCEPT !.haltIf = TRUE,
                                       !.ns = IF IdReady(in) THEN AfterStep ELSE @]
<1>1. o = IF ~Stepped THEN DecodeInsn(in) ELSE g
  BY DEF Out, OutDecode, NothingFirst, Suits, DecodeValid
<1>2. DecodeInsn(in) = IF insn_id = "csr" /\ IdReady(in) THEN c ELSE f
  <2>1. CASE insn_id = "csr"
    <3>1. DecodeInsn(in) = DecodeCsr(in)
      BY <2>1 DEF DecodeInsn, illegal_insn, wfi_active
    <3> QED BY <2>1, <3>1, Zenon DEF DecodeCsr
  <2>2. CASE insn_id = "ebreak"
    <3>1. DecodeInsn(in) = DecodeEbreak(in)
      BY <2>2 DEF DecodeInsn, illegal_insn, wfi_active
    <3>2. DecodeEbreak(in) = f
      BY <2>2 DEF DecodeEbreak, FlushKinds, wfi_active
    <3> QED BY <2>2, <3>1, <3>2
  <2>3. CASE insn_id \notin {"csr", "ebreak"}
    <3>1. DecodeInsn(in) = f
      BY <2>3
      DEF DecodeInsn, illegal_insn, wfi_active, NothingFirst, Suits, BodyKinds, FlushKinds
    <3> QED BY <2>3, <3>1
  <2> QED BY <2>1, <2>2, <2>3
<1>3. Stepped => AfterStep = IF insn_id \in {"fencei", "csr"} THEN "DBG_FLUSH" ELSE "FLUSH_EX"
  BY DEF AfterStep, illegal_insn, ForcedEbreak, Stepped, FlushKinds, wfi_active
<1> HIDE DEF counted
<1>4. f.illegalN = FALSE /\ c.illegalN = FALSE
  BY ClearsIllegal DEF Alone, Default, NothingFirst
<1>5. CASE ~(insn_id = "csr" /\ IdReady(in))
  <2>1. DecodeInsn(in) = f
    BY <1>2, <1>5
  <2>2. CASE ~Stepped
    BY <1>1, <1>4, <1>5, <2>1, <2>2
    DEF Alone, Leaves, Default, TypeOK, Decodes, NoPulse, SavesNothing
  <2>3. CASE Stepped
    BY <1>1, <1>3, <1>4, <1>5, <2>1, <2>3
    DEF Alone, Leaves, Default, TypeOK, Decodes, NoPulse, SavesNothing
  <2> QED BY <2>2, <2>3
<1>6. CASE insn_id = "csr" /\ IdReady(in)
  <2>1. DecodeInsn(in) = c
    BY <1>2, <1>6
  <2>2. CASE ~Stepped
    BY <1>1, <1>4, <1>6, <2>1, <2>2
    DEF Alone, Leaves, Default, TypeOK, Decodes, NoPulse, SavesNothing, counted
  <2>3. CASE Stepped
    BY <1>1, <1>3, <1>4, <1>6, <2>1, <2>3
    DEF Alone, Leaves, Default, TypeOK, Decodes, NoPulse, SavesNothing, counted
  <2> QED BY <2>2, <2>3
<1> QED BY <1>5, <1>6

\* All others flow, unless they are stepped: the last one of an iteration to be
\* repeated goes back to the start of its loop, and one in a loop with iterations
\* left goes on in DECODE_HWLOOP, unless it is the last but one.
LEMMA DecodesFlowing ==
  ASSUME TypeOK, SetInv, NEW in, NEW o, o = Out(in), NothingFirst(in),
         insn_id \in {"alu", "mem", "branch", "wfi", "setup"}, ~wfi_active(in),
         ctrl_fsm_cs = "DECODE", ~jump_done_q,
         NEW goes, goes = (JumpsBack(pc_id, hwlp_counter_q) # {}),
         NEW into, into = (InHwlpBody(pc_id) /\ ~\E k \in Loops : AtLastButOne(k, pc_id))
  PROVE  /\ Decodes(in, o) /\ NoPulse(o) /\ (o.haltIf <=> Stepped) /\ o.illegalN = FALSE
         /\ o.dec = Ends /\ o.target = HwlpTarget(pc_id)
         /\ o.pc = (IF goes THEN "hwloop" ELSE "none") /\ o.jumpDone = goes
         /\ o.ns = IF ~IdReady(in) \/ ~Stepped
                   THEN (IF into THEN "DECODE_HWLOOP" ELSE "DECODE")
                   ELSE IF insn_id = "branch" THEN "DBG_WAIT_BRANCH" ELSE "DBG_FLUSH"
<1>1. o = DecodeValid(in)
  BY DEF Out, OutDecode, NothingFirst
<1>2. DecodeInsn(in) = DecodeOther(in)
  BY DEF DecodeInsn, illegal_insn
<1> DEFINE back == {k \in Loops : AtLast(k, pc_id) /\ hwlp_counter_q[k] > 1}
           back2 == back # {} /\ ~jump_done_q
           counted == {k \in Loops : AtLast(k, pc_id) /\ hwlp_counter_q[k] = 1}
                        \cup (IF back2 THEN back ELSE {})
           r == [Default(in) EXCEPT !.decoding = TRUE,
                                    !.ns = IF into THEN "DECODE_HWLOOP" ELSE @,
                                    !.pc = IF goes THEN "hwloop" ELSE @,
                                    !.jumpDone = goes \/ @, !.dec = Ends]
<1>3. back2 <=> goes
  BY Comparators DEF TypeOK
<1>4. counted = Ends
  <2>1. \A k \in Loops : hwlp_counter_q[k] \in Nat
    BY DEF TypeOK
  <2>2. \A n \in Nat : n # 0 <=> n = 1 \/ n > 1
    OBVIOUS
  <2>3. counted = {k \in Loops : AtLast(k, pc_id) /\ hwlp_counter_q[k] = 1} \cup back
    BY <1>3, Comparators DEF TypeOK
  <2> QED BY <2>1, <2>2, <2>3 DEF Ends
<1>5. DecodeInsn(in) =
        [Default(in) EXCEPT !.decoding = TRUE,
                            !.ns = IF InHwlpBody(pc_id) /\ ~(\E k \in Loops : AtLastButOne(k, pc_id))
                                   THEN "DECODE_HWLOOP" ELSE @,
                            !.pc = IF back2 THEN "hwloop" ELSE @,
                            !.jumpDone = back2 \/ @, !.dec = counted]
  BY <1>2, Zenon DEF DecodeOther
<1> HIDE DEF counted, back2
<1>6. goes \in BOOLEAN /\ back2 \in BOOLEAN
  BY DEF back2
<1>7. back2 = goes
  BY <1>3, <1>6
<1>8. DecodeInsn(in) = r
  BY <1>4, <1>5, <1>7
<1>9. AfterStep = IF insn_id = "branch" THEN "DBG_WAIT_BRANCH" ELSE "DBG_FLUSH"
  BY DEF AfterStep, illegal_insn
<1>10. CASE ~Stepped
  <2>1. o = r
    BY <1>1, <1>8, <1>10 DEF DecodeValid
  <2>2. o.illegalN = FALSE
    BY <2>1, ClearsIllegal DEF Default, NothingFirst
  <2>3. o.jumpDone = goes
    <3>1. o.jumpDone = (goes \/ jump_done_q)
      BY <2>1 DEF Default
    <3> QED BY <1>6, <3>1 DEF TypeOK
  <2>4. o.dec = Ends /\ o.target = HwlpTarget(pc_id)
    BY <2>1 DEF Default
  <2> QED
    BY <1>10, <2>1, <2>2, <2>3, <2>4 DEF Default, TypeOK, Decodes, NoPulse, SavesNothing
<1>11. CASE Stepped
  <2>1. o = [r EXCEPT !.haltIf = TRUE, !.ns = IF IdReady(in) THEN AfterStep ELSE @]
    BY <1>1, <1>8, <1>11 DEF DecodeValid
  <2>2. o.illegalN = FALSE
    BY <2>1, ClearsIllegal DEF Default, NothingFirst
  <2>3. o.jumpDone = goes
    <3>1. o.jumpDone = (goes \/ jump_done_q)
      BY <2>1 DEF Default
    <3> QED BY <1>6, <3>1 DEF TypeOK
  <2>4. o.dec = Ends /\ o.target = HwlpTarget(pc_id)
    BY <2>1 DEF Default
  <2> QED
    BY <1>9, <1>11, <2>1, <2>2, <2>3, <2>4
    DEF Default, TypeOK, Decodes, NoPulse, SavesNothing
<1> QED BY <1>10, <1>11

\* In a loop the last one but one of an iteration to be repeated tells the stream,
\* once, where to go back to; the last one but one of the last iteration leaves
\* DECODE_HWLOOP, unless a loop around it goes on.
LEMMA HwloopFlows ==
  ASSUME TypeOK, SetInv, NEW in, NEW o, o = Out(in), NothingFirst(in),
         insn_id \in Flows, ctrl_fsm_cs = "DECODE_HWLOOP",
         NEW back, back = BackTo(Sequel(pc_id), hwlp_counter_q),
         NEW leaves, leaves = (/\ \E k \in Loops : AtLastButOne(k, pc_id)
                               /\ back = NoAddr /\ ~InHwlpBody(pc_id))
  PROVE  /\ Decodes(in, o) /\ (o.haltIf <=> Stepped) /\ o.illegalN = FALSE
         /\ o.dec = Ends /\ o.pc = "none" /\ o.jumpDone = jump_done_q
         /\ o.end4 = (back # NoAddr) /\ o.hwlpJump = (back # NoAddr /\ ~hwlp_end_4_id_q)
         /\ back # NoAddr => o.target = back
         /\ o.ns = IF ~IdReady(in) \/ ~Stepped
                   THEN (IF leaves THEN "DECODE" ELSE "DECODE_HWLOOP")
                   ELSE "DBG_FLUSH"
<1>1. o = DecodeValid(in)
  BY DEF Out, OutDecode, NothingFirst
<1>2. DecodeInsn(in) = DecodeOtherHwloop(in)
  BY DEF DecodeInsn, illegal_insn, wfi_active, Flows
<1> DEFINE next == {k \in Loops : AtLastButOne(k, pc_id)}
           goes == {k \in next : hwlp_counter_q[k] > 1}
           jump == goes # {} /\ ~hwlp_end_4_id_q
           start == StartAddr(CHOOSE k \in goes : TRUE)
           out == next # {} /\ goes = {} /\ ~InHwlpBody(pc_id)
           r == [Default(in) EXCEPT
                   !.decoding = TRUE, !.ns = IF out THEN "DECODE" ELSE @,
                   !.end4 = goes # {}, !.hwlpJump = jump,
                   !.target = IF goes # {} THEN start ELSE @, !.dec = Ends]
<1>3. Sequel(pc_id) \in Addr
  BY AddrFacts DEF TypeOK
<1>4. goes = JumpsBack(Sequel(pc_id), hwlp_counter_q)
  BY Comparators DEF TypeOK
<1>5. back # NoAddr <=> goes # {}
  BY <1>3, <1>4, AfterLast
<1>6. goes # {} => start = back
  BY <1>4, Comparators DEF TypeOK
<1>7. out = leaves
  BY <1>5
<1>8. DecodeInsn(in) = r
  BY <1>2, Zenon DEF DecodeOtherHwloop, Ends
<1>9. AfterStep = "DBG_FLUSH"
  BY DEF AfterStep, illegal_insn, Flows
<1> HIDE DEF goes, start, out, next
<1>10. CASE ~Stepped
  <2>1. o = r
    BY <1>1, <1>8, <1>10 DEF DecodeValid
  <2>2. o.illegalN = FALSE
    BY <2>1, ClearsIllegal DEF Default, NothingFirst
  <2>3. o.dec = Ends /\ o.end4 = (goes # {}) /\ o.hwlpJump = jump
    BY <2>1 DEF Default
  <2>4. goes # {} => o.target = start
    BY <2>1 DEF Default
  <2> QED
    BY <1>5, <1>6, <1>7, <1>10, <2>1, <2>2, <2>3, <2>4
    DEF Default, TypeOK, Decodes, SavesNothing
<1>11. CASE Stepped
  <2>1. o = [r EXCEPT !.haltIf = TRUE, !.ns = IF IdReady(in) THEN "DBG_FLUSH" ELSE @]
    BY <1>1, <1>8, <1>9, <1>11 DEF DecodeValid
  <2>2. o.illegalN = FALSE
    BY <2>1, ClearsIllegal DEF Default, NothingFirst
  <2>3. o.dec = Ends /\ o.end4 = (goes # {}) /\ o.hwlpJump = jump
    BY <2>1 DEF Default
  <2>4. goes # {} => o.target = start
    BY <2>1 DEF Default
  <2> QED
    BY <1>5, <1>6, <1>7, <1>11, <2>1, <2>2, <2>3, <2>4
    DEF Default, TypeOK, Decodes, SavesNothing
<1> QED BY <1>10, <1>11

-----------------------------------------------------------------------------
\* What a clock edge does outside the controller.

\* The IF and ID stages when no instruction is accepted and none leaves ID.
LEMMA Stands ==
  ASSUME program \in DOMAIN Programs, NEW in \in Inputs, NEW o,
         PipelineClock(in, o, Target(o)), ~o.hwlpJump,
         instr_valid_id \in BOOLEAN, ~Issues(in, o),
         o.haltIf \/ o.pc # "none" \/ npc = NoAddr
  PROVE  /\ loopTo' = (IF o.pc = "none" THEN loopTo ELSE NoAddr)
         /\ npc' = (IF o.pc = "none" THEN npc ELSE Target(o))
         /\ pc_id' = pc_id /\ insn_id' = insn_id
         /\ instr_valid_id' = (instr_valid_id /\ ~ClearInstrValid(in, o))
         /\ ex' = (IF in.ready # "stall" THEN "none"
                   ELSE IF ex = "csr" THEN "insn" ELSE ex)
<1>1. ~IfAccepts(in, o)
  BY InputFacts DEF IfAccepts
<1> QED BY <1>1 DEF PipelineClock, StreamClock, IfIdClock, IdExClock

\* The IF stage hands over the instruction due there, or does not; behind it the
\* stream goes straight on or to after, which it may have been told before.
LEMMA Hands ==
  ASSUME program \in DOMAIN Programs, NEW in \in Inputs, NEW o,
         PipelineClock(in, o, Target(o)), instr_valid_id \in BOOLEAN, o.pc = "none",
         NEW after, after = (IF o.hwlpJump THEN o.target ELSE loopTo)
  PROVE  \/ /\ npc # NoAddr /\ IdReady(in) /\ ~o.haltIf
            /\ npc' = (IF after # NoAddr THEN after ELSE Sequel(npc)) /\ loopTo' = NoAddr
            /\ pc_id' = npc /\ insn_id' \in Program[npc] /\ instr_valid_id' = TRUE
         \/ /\ npc' = npc /\ loopTo' = after /\ pc_id' = pc_id /\ insn_id' = insn_id
            /\ instr_valid_id' = (instr_valid_id /\ ~ClearInstrValid(in, o))
<1>1. CASE IfAccepts(in, o)
  BY <1>1, InputFacts DEF PipelineClock, StreamClock, IfIdClock, IfAccepts
<1>2. CASE ~IfAccepts(in, o)
  BY <1>2, InputFacts DEF PipelineClock, StreamClock, IfIdClock
<1> QED BY <1>1, <1>2

\* The CSRs keep their values, are written from EX, or save what a trap needs.
LEMMA CsrsStand ==
  ASSUME NEW o, NEW pcOf, NEW writes, NEW debugging,
         TrapCsrsClock(o, pcOf, writes, debugging), SavesNothing(o)
  PROVE  IF writes THEN WriteFromEx(debugging) ELSE UNCHANGED trapCsrVars
  BY DEF TrapCsrsClock, SavesNothing

\* Registers that no part of the invariant but their types depends on.
RestTyped ==
  /\ hwlp_set \subseteq Loops /\ hwlp_counter_q \in [Loops -> 0 .. Width - 1]
  /\ hwlp_end_4_id_q \in BOOLEAN /\ debug_fsm_cs \in {"HAVERESET", "RUNNING", "HALTED"}
  /\ debug_req_q \in BOOLEAN /\ fetch_enable_q \in BOOLEAN /\ core_busy_q \in BOOLEAN
  /\ outstanding \in BOOLEAN /\ wb \in BOOLEAN
  /\ SetInv

\* They keep their types at every clock edge, and no loop counts unless an
\* instruction leaves ID.
LEMMA RestKept ==
  ASSUME TypeOK, SetInv, program \in DOMAIN Programs, NEW in \in Inputs,
         NEW o, o = Out(in), o.end4 \in BOOLEAN,
         SleepClock(in.fetchEn, Busy(o)), DebugReqClock(in), GatedClock(in, o),
         ~o.decoding \/ ~IdReady(in) \/ insn_id # "setup" \/ Loops = {},
         o.dec = {} \/ ~ClearInstrValid(in, o)
  PROVE  RestTyped' /\ hwlp_counter_q' = hwlp_counter_q
<1>1. SetsUp(in, o) = {}
  BY DEF SetsUp, SetUpAt
<1>2. hwlp_set' = hwlp_set
  BY <1>1 DEF GatedClock, HwloopClock
<1>3. hwlp_counter_q' = hwlp_counter_q
  <2>1. PICK n : hwlp_counter_q' =
         [k \in Loops |-> IF k \in SetsUp(in, o) THEN n
                          ELSE Decremented(k, o.dec, instr_valid_id /\ ClearInstrValid(in, o))]
    BY DEF GatedClock, HwloopClock
  <2>2. \A k : Decremented(k, o.dec, instr_valid_id /\ ClearInstrValid(in, o)) = hwlp_counter_q[k]
    BY DEF Decremented
  <2>3. hwlp_counter_q = [k \in Loops |-> hwlp_counter_q[k]]
    BY DEF TypeOK
  <2> QED BY <1>1, <2>1, <2>2, <2>3
<1>4. SetInv' /\ hwlp_set' \subseteq Loops /\ hwlp_counter_q' \in [Loops -> 0 .. Width - 1]
  BY <1>2, <1>3 DEF SetInv, TypeOK
<1>5. hwlp_end_4_id_q' \in BOOLEAN
  BY DEF GatedClock, CtrlClock
<1>6. debug_fsm_cs' \in {"HAVERESET", "RUNNING", "HALTED"}
  BY DEF GatedClock, CtrlClock, DebugFsm
<1>7. debug_req_q' \in BOOLEAN
  BY DEF DebugReqClock
<1>8. fetch_enable_q' \in BOOLEAN /\ core_busy_q' \in BOOLEAN
  BY DEF SleepClock, Busy, CoreBusy
<1>9. outstanding' \in BOOLEAN
  BY DEF GatedClock, IfBusyClock, TypeOK
<1>10. wb' \in BOOLEAN
  BY DEF GatedClock, PipelineClock, ExWbClock
<1> QED BY <1>3, <1>4, <1>5, <1>6, <1>7, <1>8, <1>9, <1>10 DEF RestTyped

\* When an instruction leaves ID, the loop it ends counts, and those that it sets
\* up start.  A counter never wraps.
LEMMA LoopsCount ==
  ASSUME TypeOK, SetInv, program \in DOMAIN Programs, NEW in \in Inputs,
         NEW o, o = Out(in), o.end4 \in BOOLEAN,
         SleepClock(in.fetchEn, Busy(o)), DebugReqClock(in), GatedClock(in, o),
         o.decoding, ~o.mask, IdReady(in), instr_valid_id, o.dec = Ends
  PROVE  /\ RestTyped'
         /\ \E n \in Counts :
              hwlp_counter_q' =
                [k \in Loops |-> IF insn_id = "setup" /\ k \in SetUpAt(pc_id) THEN n
                                 ELSE Counted(pc_id, hwlp_counter_q)[k]]
<1> DEFINE set == IF insn_id = "setup" THEN SetUpAt(pc_id) ELSE {}
<1>1. SetsUp(in, o) = set /\ ClearInstrValid(in, o)
  BY DEF SetsUp, ClearInstrValid
<1>2. hwlp_set' = hwlp_set \cup set /\ set \subseteq Loops
  BY <1>1 DEF GatedClock, HwloopClock, SetUpAt
<1>3. PICK n \in Counts : hwlp_counter_q' =
        [k \in Loops |-> IF k \in set THEN n ELSE Decremented(k, o.dec, TRUE)]
  <2>1. (instr_valid_id /\ ClearInstrValid(in, o)) = TRUE
    BY <1>1
  <2> QED BY <1>1, <2>1 DEF GatedClock, HwloopClock
<1> HIDE DEF set
<1>4. n \in 0 .. Width - 1 /\ Width \in Nat
  BY WidthAssumption, IsaAssumption
<1>5. ASSUME NEW k \in Loops
      PROVE  /\ Decremented(k, o.dec, TRUE) = Counted(pc_id, hwlp_counter_q)[k]
             /\ Counted(pc_id, hwlp_counter_q)[k] \in 0 .. Width - 1
             /\ hwlp_counter_q[k] = 0 => Counted(pc_id, hwlp_counter_q)[k] = 0
  <2>1. hwlp_counter_q[k] \in 0 .. Width - 1
    BY DEF TypeOK
  <2>2. k \in o.dec <=> IsLast(k, pc_id) /\ hwlp_counter_q[k] > 0
    <3>1. hwlp_counter_q[k] > 0 <=> hwlp_counter_q[k] # 0
      BY <2>1
    <3> QED BY <3>1, Comparators DEF Ends, TypeOK
  <2>3. CASE k \in o.dec
    <3>1. hwlp_counter_q[k] - 1 \in 0 .. Width - 1
      BY <1>4, <2>1, <2>2, <2>3
    <3>2. (hwlp_counter_q[k] - 1) % Width = hwlp_counter_q[k] - 1
      BY <1>4, <3>1
    <3> QED BY <2>2, <2>3, <3>1, <3>2 DEF Decremented, Counted
  <2>4. CASE k \notin o.dec
    BY <2>1, <2>2, <2>4 DEF Decremented, Counted
  <2> QED BY <2>3, <2>4
<1>6. /\ hwlp_counter_q' \in [Loops -> 0 .. Width - 1] /\ hwlp_set' \subseteq Loops
      /\ hwlp_counter_q' =
           [k \in Loops |-> IF k \in set THEN n ELSE Counted(pc_id, hwlp_counter_q)[k]]
  BY <1>2, <1>3, <1>4, <1>5 DEF TypeOK
<1>7. SetInv'
  BY <1>2, <1>5, <1>6 DEF SetInv
<1>8. hwlp_end_4_id_q' \in BOOLEAN
  BY DEF GatedClock, CtrlClock
<1>9. debug_fsm_cs' \in {"HAVERESET", "RUNNING", "HALTED"}
  BY DEF GatedClock, CtrlClock, DebugFsm
<1>10. debug_req_q' \in BOOLEAN
  BY DEF DebugReqClock
<1>11. fetch_enable_q' \in BOOLEAN /\ core_busy_q' \in BOOLEAN
  BY DEF SleepClock, Busy, CoreBusy
<1>12. outstanding' \in BOOLEAN
  BY DEF GatedClock, IfBusyClock, TypeOK
<1>13. wb' \in BOOLEAN
  BY DEF GatedClock, PipelineClock, ExWbClock
<1>14. RestTyped'
  BY <1>6, <1>7, <1>8, <1>9, <1>10, <1>11, <1>12, <1>13 DEF RestTyped
<1> QED BY <1>6, <1>14 DEF set

-----------------------------------------------------------------------------
\* One clock edge with the clock running, from state s of the FSM, keeps the
\* invariant and is a step, or no step, of HartSpec.
Edge(in, o, s) ==
  /\ CoreInv /\ ctrl_fsm_cs = s
  /\ o = Out(in) /\ UNCHANGED program
  /\ SleepClock(in.fetchEn, Busy(o)) /\ DebugReqClock(in) /\ GatedClock(in, o)
  /\ ClockRuns(in)

\* The architectural state stays as it is.
HartStands == UNCHANGED <<due, left, hwlp_counter_q, debug_mode_q, trapCsrVars>>

\* With these, the rest of TypeOK' is RestTyped'.
SteeredTyped ==
  /\ ctrl_fsm_cs \in CtrlStates
  /\ {jump_done_q, debug_mode_q, illegal_insn_q, debug_req_entry_q,
      debug_force_wakeup_q, instr_valid_id, mie, mpie, ebreakm} \subseteq BOOLEAN
  /\ {npc, loopTo, due} \subseteq Addr \cup {NoAddr}
  /\ {pc_id, mepc, dpc} \subseteq Addr
  /\ insn_id \in Kinds
  /\ ex \in {"none", "insn", "mem", "csr", "taken", "nottaken"}
  /\ step \in Stepping /\ cause \in {"none", "ebreak", "trigger", "haltreq", "step"}
  /\ left \in 0 .. 2

\* The clock in the next state.
LEMMA BusyClock ==
  ASSUME NEW in, NEW o, SleepClock(in.fetchEn, Busy(o)), o.busy, fetch_enable_q,
         ctrl_fsm_cs' # "RESET"
  PROVE  ClockInv'
  BY DEF SleepClock, Busy, CoreBusy, ClockInv

\* The operators of HartSpec are those of Isa.
LEMMA HartOps ==
  /\ \A a, lp : Hart!After(a, lp) = After(a, lp) /\ Hart!Counted(a, lp) = Counted(a, lp)
  /\ \A a : Hart!Sequel(a) = Sequel(a) /\ Hart!SetUpAt(a) = SetUpAt(a)
  /\ Hart!Program = Program
  /\ Hart!Kinds = Kinds /\ Hart!Stepping = Stepping
<1>1. \A a : Hart!Sequel(a) = Sequel(a)
  BY DEF Hart!Sequel, Sequel
<1>2. \A a : Hart!SetUpAt(a) = SetUpAt(a)
  BY <1>1 DEF Hart!SetUpAt, SetUpAt
<1>3. \A k, a : Hart!IsLast(k, a) <=> IsLast(k, a)
  BY DEF Hart!IsLast, IsLast
<1>4. \A a, lp : Hart!JumpsBack(a, lp) = JumpsBack(a, lp)
  BY <1>3 DEF Hart!JumpsBack, JumpsBack
<1>5. \A a, lp : Hart!After(a, lp) = After(a, lp)
  BY <1>1, <1>4 DEF Hart!After, After
<1>6. \A a, lp : Hart!Counted(a, lp) = Counted(a, lp)
  BY <1>3 DEF Hart!Counted, Counted
<1>7. Hart!Program = Program
  BY DEF Hart!Program, Program
<1>8. Hart!Kinds = Kinds /\ Hart!Stepping = Stepping
  BY DEF Hart!Kinds, Kinds, Hart!Stepping, Stepping
<1> QED BY <1>1, <1>2, <1>5, <1>6, <1>7, <1>8

\* A step of the architectural state comes with any step of debug_req_q.
LEMMA HartSteps ==
  ASSUME NEW in, DebugReqClock(in), UNCHANGED program,
         \/ Hart!Boot \/ Hart!SetUp \/ Hart!WriteCsr \/ Hart!TakeIrq \/ Hart!Mret
         \/ Hart!Dret \/ Hart!Reenter
         \/ \E kind \in Kinds : Hart!Compute(kind) \/ Hart!Transfer(kind) \/ Hart!Except(kind)
         \/ \E why \in {"haltreq", "step", "trigger", "ebreak"} : Hart!EnterDebug(why)
         \/ HartStands /\ (ex' = "csr" <=> ex = "csr")
  PROVE  Hart!HartNext
<1>1. Hart!Request
  BY DEF Hart!Request, DebugReqClock
<1>2. Hart!Kinds = Kinds
  BY DEF Hart!Kinds, Kinds
<1>3. HartStands /\ (ex' = "csr" <=> ex = "csr") =>
        UNCHANGED <<Hart!hart, Hart!trapCsrs, Hart!dbgCsrs>>
  BY DEF HartStands, trapCsrVars, Hart!hart, Hart!trapCsrs, Hart!dbgCsrs
<1> QED BY <1>1, <1>2, <1>3 DEF Hart!HartNext

\* In reset nothing changes but the state of the FSM.
LEMMA ResetEdge ==
  ASSUME NEW in \in Inputs, NEW o, Edge(in, o, "RESET")
  PROVE  CoreInv' /\ Hart!HartNext
<1> USE DEF Edge, CoreInv
<1>1. InReset
  BY DEF StateInv
<1>2. /\ Silent(o) /\ SavesNothing(o) /\ Keeps(o) /\ o.illegalN = illegal_insn_q
      /\ ~o.req /\ o.busy /\ o.pc = "none" /\ fetch_enable_q /\ o.ns = "BOOT_SET"
  BY ResetSays, InputFacts DEF ClockRuns, ClockEn
<1>3. ~Issues(in, o) /\ PipelineClock(in, o, Target(o))
  BY <1>2 DEF Issues, Silent, GatedClock
<1>4. /\ loopTo' = NoAddr /\ npc' = npc /\ pc_id' = pc_id /\ insn_id' = insn_id
      /\ instr_valid_id' = FALSE /\ ex' = "none" /\ ~wb'
  BY <1>1, <1>2, <1>3, Stands
  DEF StateInv, Silent, TypeOK, InReset, Idle, PipelineClock, ExWbClock
<1>5. UNCHANGED trapCsrVars
  BY <1>1, <1>2, CsrsStand DEF GatedClock, InReset
<1>6. UNCHANGED history
  BY <1>2, <1>3 DEF GatedClock, HistoryClock, Silent, Raises, Executes
<1>7. /\ ctrl_fsm_cs' = "BOOT_SET" /\ jump_done_q' = FALSE /\ debug_mode_q' = debug_mode_q
      /\ illegal_insn_q' = FALSE /\ debug_req_entry_q' = FALSE
      /\ debug_force_wakeup_q' = FALSE
  BY <1>1, <1>2 DEF GatedClock, CtrlClock, Keeps, InReset, Idle, TypeOK
<1>8. RestTyped' /\ hwlp_counter_q' = hwlp_counter_q
  BY <1>2, RestKept DEF Silent
<1>9. TypeOK' /\ SetInv'
  <2>1. SteeredTyped'
    BY <1>4, <1>5, <1>6, <1>7 DEF TypeOK, SteeredTyped, CtrlStates, trapCsrVars, history
  <2> QED BY <2>1, <1>8 DEF TypeOK, RestTyped, SteeredTyped
<1>10. LeftCounts'
  BY <1>5, <1>6, <1>7 DEF LeftCounts, Stepped, trapCsrVars, history
<1>11. ClockInv'
  BY <1>2, <1>7, BusyClock
<1>12. StateInv'
  BY <1>1, <1>4, <1>5, <1>6, <1>7 DEF StateInv, InReset, Idle, trapCsrVars, history
<1>13. Hart!HartNext
  BY <1>1, <1>4, <1>5, <1>6, <1>7, <1>8, HartSteps DEF HartStands, history, InReset
<1> QED BY <1>9, <1>10, <1>11, <1>12, <1>13

\* Booting makes the instruction at the boot address the one due.
LEMMA BootSetEdge ==
  ASSUME NEW in \in Inputs, NEW o, Edge(in, o, "BOOT_SET")
  PROVE  CoreInv' /\ Hart!HartNext
<1> USE DEF Edge, CoreInv
<1>1. InReset /\ fetch_enable_q
  BY DEF StateInv, ClockRuns, ClockEn
<1>2. /\ Silent(o) /\ SavesNothing(o) /\ o.illegalN = illegal_insn_q
      /\ o.req /\ o.busy /\ o.pc = "boot"
      /\ o.ns = (IF Pending(in) THEN "DBG_TAKEN_IF" ELSE "FIRST_FETCH")
      /\ o.jumpDone = jump_done_q /\ o.debugN = debug_mode_q
      /\ o.entryN = debug_req_entry_q
      /\ o.wakeN = (Pending(in) \/ debug_force_wakeup_q)
  BY BootSetSays
<1>3. ~Issues(in, o) /\ PipelineClock(in, o, Target(o)) /\ Target(o) = BootAddr
  BY <1>2 DEF Issues, Silent, GatedClock, Target
<1>4. /\ loopTo' = NoAddr /\ npc' = BootAddr /\ pc_id' = pc_id /\ insn_id' = insn_id
      /\ instr_valid_id' = FALSE /\ ex' = "none"
  BY <1>1, <1>2, <1>3, Stands DEF StateInv, Silent, TypeOK, InReset, Idle
<1>5. UNCHANGED trapCsrVars
  BY <1>1, <1>2, CsrsStand DEF GatedClock, InReset
<1>6. due' = BootAddr /\ left' = left
  BY DEF GatedClock, HistoryClock
<1>7. /\ ctrl_fsm_cs' = (IF Pending(in) THEN "DBG_TAKEN_IF" ELSE "FIRST_FETCH")
      /\ jump_done_q' = FALSE /\ debug_mode_q' = debug_mode_q
      /\ illegal_insn_q' = FALSE /\ debug_req_entry_q' = FALSE
      /\ debug_force_wakeup_q' = (Pending(in) \/ debug_force_wakeup_q)
  BY <1>1, <1>2 DEF GatedClock, CtrlClock, InReset, Idle, TypeOK
<1>8. RestTyped' /\ hwlp_counter_q' = hwlp_counter_q
  BY <1>2, RestKept DEF Silent
<1>9. TypeOK' /\ SetInv'
  <2>1. SteeredTyped'
    BY <1>4, <1>5, <1>6, <1>7, AddrFacts
    DEF TypeOK, SteeredTyped, CtrlStates, trapCsrVars
  <2> QED BY <2>1, <1>8 DEF TypeOK, RestTyped, SteeredTyped
<1>10. LeftCounts'
  BY <1>5, <1>6, <1>7 DEF LeftCounts, Stepped, trapCsrVars
<1>11. ClockInv'
  BY <1>1, <1>2, <1>7, BusyClock
<1>12. StateInv'
  <2>1. CASE Pending(in)
    <3>1. debug_force_wakeup_q' = TRUE /\ debug_req_q' = TRUE
      BY <2>1, <1>1, <1>7 DEF InReset, DebugReqClock, Pending
    <3>2. InDbgTakenIf'
      BY <3>1, <1>1, <1>4, <1>5, <1>6, <1>7, AddrFacts
      DEF InDbgTakenIf, InReset, trapCsrVars, branch_taken_ex
    <3> QED BY <2>1, <3>2, <1>4, <1>7 DEF StateInv
  <2>2. CASE ~Pending(in)
    <3>1. InFirstFetch'
      BY <2>2, <1>1, <1>4, <1>5, <1>6, <1>7, AddrFacts
      DEF InFirstFetch, InReset, Idle, trapCsrVars
    <3> QED BY <2>2, <3>1, <1>4, <1>7 DEF StateInv
  <2> QED BY <2>1, <2>2
<1>13. Hart!HartNext
  <2>1. Hart!Boot
    BY <1>1, <1>4, <1>5, <1>6, <1>7, <1>8
    DEF Hart!Boot, Hart!trapCsrs, Hart!dbgCsrs, trapCsrVars, InReset
  <2> QED BY <2>1, HartSteps
<1> QED BY <1>9, <1>10, <1>11, <1>12, <1>13

\* Going to sleep.
LEMMA WaitSleepEdge ==
  ASSUME NEW in \in Inputs, NEW o, Edge(in, o, "WAIT_SLEEP")
  PROVE  CoreInv' /\ Hart!HartNext
<1> USE DEF Edge, CoreInv
<1>1. InSleep
  BY DEF StateInv
<1>2. /\ Silent(o) /\ SavesNothing(o) /\ Keeps(o) /\ o.illegalN = illegal_insn_q
      /\ ~o.req /\ ~o.busy /\ o.haltIf /\ o.pc = "none" /\ o.ns = "SLEEP"
  BY WaitSleepSays
<1>3. ~Issues(in, o) /\ PipelineClock(in, o, Target(o))
  BY <1>2 DEF Issues, Silent, GatedClock
<1>4. /\ loopTo' = NoAddr /\ npc' = npc /\ pc_id' = pc_id /\ insn_id' = insn_id
      /\ instr_valid_id' = FALSE /\ ex' = "none" /\ wb' = (wb /\ ~in.resp)
  BY <1>1, <1>2, <1>3, Stands
  DEF StateInv, Silent, TypeOK, InSleep, Idle, PipelineClock, ExWbClock
<1>5. UNCHANGED trapCsrVars
  BY <1>1, <1>2, CsrsStand DEF GatedClock, InSleep
<1>6. UNCHANGED history
  BY <1>2, <1>3 DEF GatedClock, HistoryClock, Silent, Raises, Executes
<1>7. /\ ctrl_fsm_cs' = "SLEEP" /\ jump_done_q' = FALSE /\ debug_mode_q' = debug_mode_q
      /\ illegal_insn_q' = FALSE /\ debug_req_entry_q' = FALSE
      /\ debug_force_wakeup_q' = FALSE
  BY <1>1, <1>2 DEF GatedClock, CtrlClock, Keeps, InSleep, Idle, TypeOK
<1>8. RestTyped' /\ hwlp_counter_q' = hwlp_counter_q
  BY <1>2, RestKept DEF Silent
<1>9. TypeOK' /\ SetInv'
  <2>1. SteeredTyped'
    BY <1>4, <1>5, <1>6, <1>7 DEF TypeOK, SteeredTyped, CtrlStates, trapCsrVars, history
  <2> QED BY <2>1, <1>8 DEF TypeOK, RestTyped, SteeredTyped
<1>10. LeftCounts'
  BY <1>5, <1>6, <1>7 DEF LeftCounts, Stepped, trapCsrVars, history
<1>11. ClockInv'
  BY <1>1, <1>2, <1>4, <1>7
  DEF ClockInv, SleepClock, Busy, CoreBusy, LsuBusy, GatedClock, IfBusyClock, InSleep
<1>12. StateInv'
  BY <1>1, <1>4, <1>5, <1>6, <1>7
  DEF StateInv, InSleep, Idle, WfiDone, NextAtIf, trapCsrVars, history, trigger_match
<1>13. Hart!HartNext
  BY <1>1, <1>4, <1>5, <1>6, <1>7, <1>8, HartSteps DEF HartStands, history, InSleep
<1> QED BY <1>9, <1>10, <1>11, <1>12, <1>13

\* Sleeping and waking up: the instruction behind wfi stays due.
LEMMA SleepEdge ==
  ASSUME NEW in \in Inputs, NEW o, Edge(in, o, "SLEEP")
  PROVE  CoreInv' /\ Hart!HartNext
<1> USE DEF Edge, CoreInv
<1>1. InSleep
  BY DEF StateInv
<1>2. /\ Silent(o) /\ SavesNothing(o) /\ o.illegalN = illegal_insn_q
      /\ ~o.req /\ o.haltIf /\ o.pc = "none"
      /\ (o.busy <=> Wake(in))
      /\ o.ns = (IF ~Wake(in) THEN "SLEEP"
                 ELSE IF Pending(in) THEN "DBG_TAKEN_IF" ELSE "FIRST_FETCH")
      /\ o.jumpDone = jump_done_q /\ o.debugN = debug_mode_q
      /\ o.entryN = debug_req_entry_q
      /\ o.wakeN = (Pending(in) \/ debug_force_wakeup_q)
  BY SleepSays
<1>3. ~Issues(in, o) /\ PipelineClock(in, o, Target(o))
  BY <1>2 DEF Issues, Silent, GatedClock
<1>4. /\ loopTo' = NoAddr /\ npc' = npc /\ pc_id' = pc_id /\ insn_id' = insn_id
      /\ instr_valid_id' = FALSE /\ ex' = "none" /\ wb' = (wb /\ ~in.resp)
  BY <1>1, <1>2, <1>3, Stands
  DEF StateInv, Silent, TypeOK, InSleep, Idle, PipelineClock, ExWbClock
<1>5. UNCHANGED trapCsrVars
  BY <1>1, <1>2, CsrsStand DEF GatedClock, InSleep
<1>6. UNCHANGED history
  BY <1>2, <1>3 DEF GatedClock, HistoryClock, Silent, Raises, Executes
<1>7. /\ ctrl_fsm_cs' = (IF ~Wake(in) THEN "SLEEP"
                         ELSE IF Pending(in) THEN "DBG_TAKEN_IF" ELSE "FIRST_FETCH")
      /\ jump_done_q' = FALSE /\ debug_mode_q' = debug_mode_q
      /\ illegal_insn_q' = FALSE /\ debug_req_entry_q' = FALSE
      /\ debug_force_wakeup_q' = (Pending(in) \/ debug_force_wakeup_q)
  BY <1>1, <1>2 DEF GatedClock, CtrlClock, InSleep, Idle, TypeOK
<1>8. RestTyped' /\ hwlp_counter_q' = hwlp_counter_q
  BY <1>2, RestKept DEF Silent
<1>9. TypeOK' /\ SetInv'
  <2>1. SteeredTyped'
    BY <1>4, <1>5, <1>6, <1>7 DEF TypeOK, SteeredTyped, CtrlStates, trapCsrVars, history
  <2> QED BY <2>1, <1>8 DEF TypeOK, RestTyped, SteeredTyped
<1>10. LeftCounts'
  BY <1>5, <1>6, <1>7 DEF LeftCounts, Stepped, trapCsrVars, history
<1>11. ClockInv'
  BY <1>1, <1>2, <1>4, <1>7
  DEF ClockInv, SleepClock, Busy, CoreBusy, LsuBusy, GatedClock, IfBusyClock, InSleep
<1>12. StateInv'
  <2>1. CASE ~Wake(in)
    BY <2>1, <1>1, <1>4, <1>5, <1>6, <1>7
    DEF StateInv, InSleep, Idle, WfiDone, NextAtIf, trapCsrVars, history, trigger_match,
        Wake
  <2>2. due \in Addr /\ npc = due /\ ~debug_mode_q /\ step = "off"
    BY <1>1, AddrFacts DEF InSleep, WfiDone, NextAtIf, TypeOK
  <2>3. CASE Wake(in) /\ Pending(in)
    <3>1. debug_force_wakeup_q' = TRUE /\ debug_req_q' = TRUE
      BY <2>2, <2>3, <1>7 DEF DebugReqClock, Pending
    <3>2. InDbgTakenIf'
      BY <3>1, <2>2, <1>4, <1>5, <1>6, <1>7
      DEF InDbgTakenIf, trapCsrVars, history, branch_taken_ex
    <3> QED BY <2>3, <3>2, <1>4, <1>7 DEF StateInv
  <2>4. CASE Wake(in) /\ ~Pending(in)
    <3>1. InFirstFetch'
      BY <2>2, <2>4, <1>1, <1>4, <1>5, <1>6, <1>7
      DEF InFirstFetch, InSleep, Idle, trapCsrVars, history
    <3> QED BY <2>4, <3>1, <1>4, <1>7 DEF StateInv
  <2> QED BY <2>1, <2>3, <2>4
<1>13. Hart!HartNext
  BY <1>1, <1>4, <1>5, <1>6, <1>7, <1>8, HartSteps DEF HartStands, history, InSleep
<1> QED BY <1>9, <1>10, <1>11, <1>12, <1>13

\* An interrupt that is taken, from IF or instead of the instruction in ID.
LEMMA InterruptEdge ==
  ASSUME NEW in \in Inputs, NEW o, NEW s, Edge(in, o, s), NEW stage,
         s \in {"FIRST_FETCH", "DECODE", "DECODE_HWLOOP"}, stage \in {"if", "id"},
         o = Interrupt(in, stage), MustTakeIrq(in), ~branch_taken_ex, ex # "csr",
         due = (IF stage = "if" THEN npc ELSE pc_id), due \in Addr, left # 0,
         ~debug_req_entry_q /\ ~debug_force_wakeup_q,
         illegal_insn_q => s = "DECODE" /\ instr_valid_id
  PROVE  CoreInv' /\ Hart!HartNext
<1> USE DEF Edge, CoreInv
<1>2. /\ ~o.decoding /\ o.irqAck /\ ~o.hwlpJump /\ o.end4 \in BOOLEAN
      /\ o.save = stage /\ ~o.dbgSave /\ Keeps(o) /\ o.dec = {}
      /\ o.req /\ o.busy /\ o.haltIf /\ o.haltId /\ o.pc = "irq" /\ o.ns = "DECODE"
      /\ o.illegalN = Default(in).illegalN
  BY InterruptSays
<1>3. /\ ~Issues(in, o) /\ PipelineClock(in, o, Target(o)) /\ Target(o) = IrqAddr
      /\ o.illegalN = FALSE /\ fetch_enable_q
  BY <1>2 DEF Issues, GatedClock, Target, Default, TypeOK, ClockRuns, ClockEn
<1>4. /\ loopTo' = NoAddr /\ npc' = IrqAddr /\ pc_id' = pc_id /\ insn_id' = insn_id
      /\ instr_valid_id' = FALSE
      /\ ex' = IF in.ready # "stall" THEN "none" ELSE ex
  BY <1>2, <1>3, Stands DEF StateInv, TypeOK, ClearInstrValid
<1>5. /\ mepc' = due /\ mpie' = mie /\ mie' = FALSE
      /\ UNCHANGED <<dpc, step, ebreakm, cause>>
  BY <1>2 DEF GatedClock, TrapCsrsClock, SaveTrap
<1>6. due' = IrqAddr /\ left' = left
  BY <1>2 DEF GatedClock, HistoryClock
<1>7. /\ ctrl_fsm_cs' = "DECODE" /\ jump_done_q' \in BOOLEAN /\ debug_mode_q' = debug_mode_q
      /\ illegal_insn_q' = FALSE /\ debug_req_entry_q' = FALSE
      /\ debug_force_wakeup_q' = FALSE
  BY <1>2, <1>3 DEF GatedClock, CtrlClock, Keeps, TypeOK
<1>8. RestTyped' /\ hwlp_counter_q' = hwlp_counter_q
  BY <1>2, RestKept
<1>9. TypeOK' /\ SetInv'
  <2>1. SteeredTyped'
    BY <1>4, <1>5, <1>6, <1>7, AddrFacts DEF TypeOK, SteeredTyped, CtrlStates
  <2> QED BY <2>1, <1>8 DEF TypeOK, RestTyped, SteeredTyped
<1>10. LeftCounts'
  BY <1>5, <1>6, <1>7 DEF LeftCounts, Stepped
<1>11. ClockInv'
  BY <1>2, <1>3, <1>7, BusyClock
<1>12. StateInv'
  <2>1. InDecode'
    BY <1>4, <1>6, <1>7, AddrFacts DEF InDecode, branch_taken_ex
  <2> QED BY <2>1, <1>4, <1>7 DEF StateInv
<1>13. Hart!HartNext
  <2>1. Hart!TakeIrq
    BY <1>4, <1>5, <1>6, <1>7, <1>8, AddrFacts
    DEF Hart!TakeIrq, Hart!Trap, Hart!dbgCsrs, MustTakeIrq, IrqEnable
  <2> QED BY <2>1, HartSteps
<1> QED BY <1>9, <1>10, <1>11, <1>12, <1>13

\* The first fetch, from boot or after sleep.
LEMMA FirstFetchEdge ==
  ASSUME NEW in \in Inputs, NEW o, Edge(in, o, "FIRST_FETCH")
  PROVE  CoreInv' /\ Hart!HartNext
<1> USE DEF Edge, CoreInv
<1>1. InFirstFetch /\ fetch_enable_q /\ left = 2
  BY DEF StateInv, ClockRuns, ClockEn, LeftCounts, Stepped, InFirstFetch
<1>a. CASE o = Interrupt(in, "if") /\ MustTakeIrq(in)
  <2>1. /\ ~branch_taken_ex /\ ex # "csr" /\ due = npc /\ due \in Addr /\ left # 0
        /\ ~debug_req_entry_q /\ ~debug_force_wakeup_q /\ ~illegal_insn_q
    BY <1>1 DEF InFirstFetch, Idle, branch_taken_ex
  <2> HIDE DEF Edge, CoreInv
  <2> QED BY <1>a, <2>1, InterruptEdge
<1>b. CASE ~(o = Interrupt(in, "if") /\ MustTakeIrq(in))
  <2>2. /\ Silent(o) /\ SavesNothing(o) /\ Keeps(o) /\ o.illegalN = illegal_insn_q
        /\ o.busy /\ o.pc = "none" /\ o.ns = "DECODE"
    BY <1>b, FirstFetchSays
  <2>3. ~Issues(in, o) /\ PipelineClock(in, o, Target(o))
    BY <2>2 DEF Issues, Silent, GatedClock
  <2>4. /\ loopTo' = NoAddr
        /\ \/ /\ npc' = Sequel(npc) /\ pc_id' = npc /\ insn_id' \in Program[npc]
              /\ instr_valid_id' = TRUE
           \/ npc' = npc /\ pc_id' = pc_id /\ insn_id' = insn_id /\ instr_valid_id' = FALSE
    BY <1>1, <2>2, <2>3, Hands DEF StateInv, Silent, TypeOK, InFirstFetch, Idle
  <2>5. ex' = "none"
    BY <1>1, <2>3 DEF InFirstFetch, PipelineClock, IdExClock
  <2>6. UNCHANGED trapCsrVars
    BY <1>1, <2>2, CsrsStand DEF GatedClock, InFirstFetch
  <2>7. UNCHANGED history
    BY <2>2, <2>3 DEF GatedClock, HistoryClock, Silent, Raises, Executes
  <2>8. /\ ctrl_fsm_cs' = "DECODE" /\ jump_done_q' = FALSE /\ debug_mode_q' = debug_mode_q
        /\ illegal_insn_q' = FALSE /\ debug_req_entry_q' = FALSE
        /\ debug_force_wakeup_q' = FALSE
    BY <1>1, <2>2 DEF GatedClock, CtrlClock, Keeps, InFirstFetch, Idle, TypeOK
  <2>9. RestTyped' /\ hwlp_counter_q' = hwlp_counter_q
    BY <2>2, RestKept DEF Silent
  <2>10. TypeOK' /\ SetInv'
    <3>1. npc' \in Addr /\ pc_id' \in Addr /\ insn_id' \in Kinds /\ instr_valid_id' \in BOOLEAN
      BY <1>1, <2>4, AddrFacts, ProgramKinds DEF InFirstFetch, TypeOK
    <3>2. SteeredTyped'
      BY <3>1, <2>4, <2>5, <2>6, <2>7, <2>8
      DEF TypeOK, SteeredTyped, CtrlStates, trapCsrVars, history
    <3> QED BY <3>2, <2>9 DEF TypeOK, RestTyped, SteeredTyped
  <2>11. LeftCounts'
    BY <2>6, <2>7, <2>8 DEF LeftCounts, Stepped, trapCsrVars, history
  <2>12. ClockInv'
    BY <1>1, <2>2, <2>8, BusyClock
  <2>13. StateInv'
    <3>1. InDecode'
      BY <1>1, <2>4, <2>5, <2>7, <2>8, AddrFacts
      DEF InDecode, InFirstFetch, branch_taken_ex, history, Program
    <3> QED BY <3>1, <2>4, <2>8 DEF StateInv
  <2>14. Hart!HartNext
    BY <1>1, <2>5, <2>6, <2>7, <2>8, <2>9, HartSteps DEF HartStands, history, InFirstFetch
  <2> QED BY <2>10, <2>11, <2>12, <2>13, <2>14
<1> QED BY <1>a, <1>b

\* What the pipeline ahead of ID does while an instruction is flushed for.
LEMMA ExDrains ==
  ASSUME program \in DOMAIN Programs, NEW in \in Inputs
  PROVE  /\ branch_taken_ex => in.ready # "stall"
         /\ ~branch_taken_ex /\ ~ExValid(in) /\ in.ready # "stall" => ex = "nottaken"
         /\ ExValid(in) => in.ready # "stall"
  BY InputFacts DEF ReadyChoices, ExValid, WbReady, branch_taken_ex

\* While EX is busy an exception waits, and a CSR instruction writes.
LEMMA FlushExEdge ==
  ASSUME NEW in \in Inputs, NEW o, Edge(in, o, "FLUSH_EX")
  PROVE  CoreInv' /\ Hart!HartNext
<1> USE DEF Edge, CoreInv
<1>1. /\ InFlushEx /\ fetch_enable_q
      /\ illegal_insn_q = illegal_insn /\ (insn_id = "ebreak" => ~debug_mode_q)
      /\ Raising => ex # "csr" /\ due = pc_id
  BY DEF StateInv, ClockRuns, ClockEn, InFlushEx, Flushed, Raising, illegal_insn
<1>2. /\ Silent(o) /\ ~o.restore /\ Keeps(o) /\ o.illegalN = illegal_insn_q
      /\ o.busy /\ o.haltIf /\ o.pc = "none"
      /\ o.ns = (IF ExValid(in) THEN "FLUSH_WB" ELSE "FLUSH_EX")
      /\ o.save = (IF ExValid(in) /\ Raising /\ ~debug_mode_q THEN "id" ELSE "no")
      /\ ~o.dbgSave
  BY <1>1, FlushExSays
<1>3. ~Issues(in, o) /\ PipelineClock(in, o, Target(o))
  BY <1>2 DEF Issues, Silent, GatedClock
<1>4. /\ loopTo' = NoAddr /\ npc' = npc /\ pc_id' = pc_id /\ insn_id' = insn_id
      /\ instr_valid_id' = FALSE
      /\ ex' = (IF in.ready # "stall" THEN "none" ELSE IF ex = "csr" THEN "insn" ELSE ex)
  BY <1>1, <1>2, <1>3, Stands DEF StateInv, Silent, TypeOK, InFlushEx, Flushing
<1>7. /\ ctrl_fsm_cs' = (IF ExValid(in) THEN "FLUSH_WB" ELSE "FLUSH_EX")
      /\ jump_done_q' = FALSE /\ debug_mode_q' = debug_mode_q
      /\ illegal_insn_q' = illegal_insn_q /\ debug_req_entry_q' = FALSE
      /\ debug_force_wakeup_q' = FALSE
  BY <1>1, <1>2 DEF GatedClock, CtrlClock, Keeps, InFlushEx, Flushing, TypeOK
<1>8. RestTyped' /\ hwlp_counter_q' = hwlp_counter_q
  BY <1>2, RestKept DEF Silent
<1>9. ClockInv'
  BY <1>1, <1>2, <1>7, BusyClock
<1>10. CASE ExValid(in) /\ Raising
  <2>1. left \in {1, 2} /\ OneLess \in {0, 2} /\ (OneLess = 2 <=> left = 2)
    BY <1>1 DEF InFlushEx, OneLess, TypeOK
  <2>2. due' = Handler /\ left' = OneLess
    BY <1>2, <1>10 DEF GatedClock, HistoryClock, Raises, Raising, Silent, Handler
  <2>3. IF debug_mode_q THEN UNCHANGED trapCsrVars
        ELSE /\ mepc' = pc_id /\ mpie' = mie /\ mie' = FALSE
             /\ UNCHANGED <<dpc, step, ebreakm, cause>>
    BY <1>1, <1>2, <1>10 DEF GatedClock, TrapCsrsClock, SaveTrap
  <2>4. ex' = "none"
    BY <1>4, <1>10, ExDrains
  <2>5. TypeOK' /\ SetInv'
    <3>1. /\ {mie', mpie', ebreakm'} \subseteq BOOLEAN /\ {mepc', dpc'} \subseteq Addr
          /\ step' = step /\ cause' = cause
      BY <2>3 DEF TypeOK, trapCsrVars
    <3>2. due' \in Addr /\ left' \in 0 .. 2
      BY <2>1, <2>2, AddrFacts DEF Handler
    <3>3. SteeredTyped'
      BY <1>4, <1>7, <3>1, <3>2, <2>4 DEF TypeOK, SteeredTyped, CtrlStates
    <3> QED BY <3>3, <1>8 DEF TypeOK, RestTyped, SteeredTyped
  <2>6. LeftCounts'
    BY <1>7, <2>1, <2>2, <2>3 DEF LeftCounts, Stepped, trapCsrVars
  <2>7. StateInv'
    <3>1. Flushing'
      BY <1>1, <1>4, <1>7, <2>2, <2>4, AddrFacts
      DEF InFlushEx, Flushing, Handler, branch_taken_ex, Program
    <3>2. Raising' /\ ~Returning' /\ ~Executed' /\ (illegal_insn_q = illegal_insn)'
      BY <1>1, <1>4, <1>7, <1>10
      DEF Raising, Returning, Executed, illegal_insn
    <3>3. InFlushWb'
      BY <3>1, <3>2, <1>1, <1>4, <1>7, <2>1, <2>2, <2>4 DEF InFlushWb, Flushed, Handler
    <3> QED BY <3>3, <1>4, <1>7, <1>10 DEF StateInv
  <2>8. Hart!HartNext
    <3>1. /\ insn_id \in {"ecall", "ebreak", "illegal"} \cup (IF debug_mode_q THEN {} ELSE {"dret"})
          /\ insn_id \in Kinds
      BY <1>1, <1>10 DEF Raising, illegal_insn, TypeOK
    <3>2. Hart!Executes(insn_id)
      <4>1. due \in Addr /\ insn_id \in Program[due] /\ left # 0 /\ ex # "csr"
        BY <1>1, <1>10 DEF InFlushEx, Flushing
      <4> QED BY <4>1, <2>2, HartOps, AddrFacts DEF Hart!Executes, OneLess
    <3>3. Hart!Except(insn_id)
      BY <3>1, <3>2, <1>1, <1>7, <1>8, <1>10, <2>2, <2>3, <2>4
      DEF Hart!Except, Hart!Trap, Hart!trapCsrs, Hart!dbgCsrs, Handler, trapCsrVars
    <3> QED BY <3>1, <3>3, HartSteps
  <2> QED BY <1>9, <2>5, <2>6, <2>7, <2>8
<1>11. CASE ~(ExValid(in) /\ Raising)
  <2>1. UNCHANGED history
    BY <1>2, <1>3, <1>11 DEF GatedClock, HistoryClock, Silent, Raises, Raising, Executes
  <2>2. SavesNothing(o)
    BY <1>2, <1>11 DEF SavesNothing
  <2>3. IF ex = "csr" THEN WriteFromEx(debug_mode_q) ELSE UNCHANGED trapCsrVars
    BY <2>2, CsrsStand DEF GatedClock
  <2>4. /\ mie' \in BOOLEAN /\ mpie' = mpie /\ mepc' = mepc /\ dpc' = dpc /\ cause' = cause
        /\ ebreakm' \in BOOLEAN /\ step' \in Stepping
        /\ insn_id # "csr" \/ ~debug_mode_q => step' = step
    BY <1>1, <2>3 DEF WriteFromEx, trapCsrVars, TypeOK, InFlushEx
  <2>5. ex' # "csr" /\ ~branch_taken_ex' /\ ex' \in {"none", "insn", "mem", "nottaken"}
    BY <1>1, <1>4 DEF InFlushEx, Flushing, branch_taken_ex, TypeOK
  <2>6. TypeOK' /\ SetInv'
    <3>1. SteeredTyped'
      BY <1>4, <1>7, <2>1, <2>4, <2>5
      DEF TypeOK, SteeredTyped, CtrlStates, history
    <3> QED BY <3>1, <1>8 DEF TypeOK, RestTyped, SteeredTyped
  <2>7. LeftCounts'
    BY <1>7, <2>1, <2>4 DEF LeftCounts, Stepped, history
  <2>8. StateInv'
    <3>1. Flushing'
      BY <1>1, <1>4, <1>7, <2>1, <2>5
      DEF InFlushEx, Flushing, branch_taken_ex, Program, history
    <3>2. /\ (Raising <=> Raising') /\ (Returning <=> Returning') /\ (Executed <=> Executed')
          /\ (illegal_insn_q = illegal_insn)'
      BY <1>1, <1>4, <1>7 DEF Raising, Returning, Executed, illegal_insn
    <3>a. NextAtIf => NextAtIf'
      BY <1>4, <1>8, <2>1 DEF NextAtIf, history
    <3>3. Flushed'
      BY <3>2, <3>a, <1>1, <1>4, <1>7, <2>1, <2>4
      DEF InFlushEx, Flushed, WfiDone, history, trigger_match
    <3>4. CASE ExValid(in)
      <4>1. ex' = "none"
        BY <1>4, <3>4, ExDrains
      <4>2. InFlushWb'
        BY <3>1, <3>2, <3>3, <3>4, <4>1, <1>11 DEF InFlushWb
      <4> QED BY <4>2, <3>4, <1>4, <1>7 DEF StateInv
    <3>5. CASE ~ExValid(in)
      <4>1. InFlushEx'
        BY <3>1, <3>2, <3>3, <1>1, <1>4, <2>1, <2>5 DEF InFlushEx, history
      <4> QED BY <4>1, <3>5, <1>4, <1>7 DEF StateInv
    <3> QED BY <3>4, <3>5
  <2>9. Hart!HartNext
    <3>1. CASE ex = "csr"
      <4>1. Hart!WriteCsr
        BY <3>1, <1>7, <1>8, <2>1, <2>3, <2>5, HartOps
        DEF Hart!WriteCsr, WriteFromEx, history, TypeOK
      <4> QED BY <4>1, HartSteps
    <3>2. CASE ex # "csr"
      BY <3>2, <1>7, <1>8, <2>1, <2>3, <2>5, HartSteps DEF HartStands, history
    <3> QED BY <3>1, <3>2
  <2> QED BY <1>9, <2>6, <2>7, <2>8, <2>9
<1> QED BY <1>10, <1>11

\* The flush ends: a handler, a return, the next instruction, or sleep.
LEMMA FlushWbEdge ==
  ASSUME NEW in \in Inputs, NEW o, Edge(in, o, "FLUSH_WB")
  PROVE  CoreInv' /\ Hart!HartNext
<1> USE DEF Edge, CoreInv
<1>1. /\ InFlushWb /\ fetch_enable_q
      /\ illegal_insn_q = illegal_insn /\ (insn_id = "ebreak" => ~debug_mode_q)
      /\ Raising \/ Returning \/ Executed
  BY DEF StateInv, ClockRuns, ClockEn, InFlushWb, Flushed
<1>a. CASE Raising
  <2>1. /\ Silent(o) /\ SavesNothing(o) /\ Keeps(o) /\ ~o.illegalN
        /\ o.illegalN \in BOOLEAN /\ o.busy /\ o.haltIf
        /\ o.pc = (IF debug_mode_q THEN "dbe" ELSE "exc")
        /\ o.ns = (IF Stepped THEN "DBG_TAKEN_IF" ELSE "DECODE")
    BY <1>1, <1>a, FlushWbRaises
  <2>2. ~Issues(in, o) /\ PipelineClock(in, o, Target(o)) /\ Target(o) = Handler
    BY <2>1 DEF Issues, Silent, GatedClock, Target, Handler
  <2>3. /\ loopTo' = NoAddr /\ npc' = Handler /\ pc_id' = pc_id /\ insn_id' = insn_id
        /\ instr_valid_id' = FALSE /\ ex' = "none"
    BY <1>1, <2>1, <2>2, Stands DEF StateInv, Silent, TypeOK, InFlushWb, Flushing
  <2>4. UNCHANGED trapCsrVars
    BY <1>1, <2>1, CsrsStand DEF GatedClock, InFlushWb
  <2>5. UNCHANGED history
    BY <1>1, <1>a, <2>1, <2>2
    DEF GatedClock, HistoryClock, Silent, Raises, Executes, Raising, illegal_insn
  <2>6. /\ ctrl_fsm_cs' = (IF Stepped THEN "DBG_TAKEN_IF" ELSE "DECODE")
        /\ jump_done_q' = FALSE /\ debug_mode_q' = debug_mode_q
        /\ illegal_insn_q' = FALSE /\ debug_req_entry_q' = FALSE
        /\ debug_force_wakeup_q' = FALSE
    BY <1>1, <2>1 DEF GatedClock, CtrlClock, Keeps, InFlushWb, Flushing, TypeOK
  <2>7. RestTyped' /\ hwlp_counter_q' = hwlp_counter_q
    BY <2>1, RestKept DEF Silent
  <2>8. Handler \in Addr /\ due = Handler /\ left # 1
    BY <1>1, <1>a, AddrFacts DEF Handler, InFlushWb
  <2>9. TypeOK' /\ SetInv'
    <3>1. SteeredTyped'
      BY <2>3, <2>4, <2>5, <2>6, <2>8
      DEF TypeOK, SteeredTyped, CtrlStates, trapCsrVars, history
    <3> QED BY <3>1, <2>7 DEF TypeOK, RestTyped, SteeredTyped
  <2>10. LeftCounts'
    BY <2>4, <2>5, <2>6 DEF LeftCounts, Stepped, trapCsrVars, history
  <2>11. ClockInv'
    BY <1>1, <2>1, <2>6, BusyClock
  <2>12. StateInv'
    <3>1. CASE Stepped
      <4>1. left = 0
        BY <3>1, <2>8 DEF LeftCounts, TypeOK
      <4>2. InDbgTakenIf'
        BY <3>1, <4>1, <2>3, <2>4, <2>5, <2>6, <2>8
        DEF InDbgTakenIf, Stepped, trapCsrVars, history, branch_taken_ex
      <4> QED BY <3>1, <4>2, <2>3, <2>6 DEF StateInv
    <3>2. CASE ~Stepped
      <4>1. InDecode'
        BY <3>2, <2>3, <2>5, <2>6, <2>8
        DEF InDecode, LeftCounts, history, branch_taken_ex
      <4> QED BY <3>2, <4>1, <2>3, <2>6 DEF StateInv
    <3> QED BY <3>1, <3>2
  <2>13. Hart!HartNext
    BY <1>1, <2>3, <2>4, <2>5, <2>6, <2>7, HartSteps DEF HartStands, history, InFlushWb
  <2> QED BY <2>9, <2>10, <2>11, <2>12, <2>13
<1>b. CASE Returning
  <2>1. /\ Silent(o) /\ o.save = "no" /\ Keeps(o) /\ o.illegalN = illegal_insn_q
        /\ (o.restore <=> insn_id = "mret" /\ ~debug_mode_q)
        /\ o.busy /\ o.haltIf /\ o.pc = "none" /\ o.ns = "XRET_JUMP"
    BY <1>b, FlushWbReturns
  <2>2. ~Issues(in, o) /\ PipelineClock(in, o, Target(o))
    BY <2>1 DEF Issues, Silent, GatedClock
  <2>3. /\ loopTo' = NoAddr /\ npc' = npc /\ pc_id' = pc_id /\ insn_id' = insn_id
        /\ instr_valid_id' = FALSE /\ ex' = "none"
    BY <1>1, <2>1, <2>2, Stands DEF StateInv, Silent, TypeOK, InFlushWb, Flushing
  <2>4. IF insn_id = "mret" /\ ~debug_mode_q
        THEN mie' = mpie /\ mpie' = TRUE /\ UNCHANGED <<mepc, dpc, step, ebreakm, cause>>
        ELSE UNCHANGED trapCsrVars
    BY <1>1, <2>1 DEF GatedClock, InFlushWb, TrapCsrsClock, Restore
  <2>5. IF insn_id = "mret"
        THEN due' = (IF debug_mode_q THEN DebugExcAddr ELSE mepc) /\ left' = OneLess
        ELSE UNCHANGED history
    BY <1>b, <2>1, <2>2
    DEF GatedClock, HistoryClock, Silent, Raises, Executes, Returning
  <2>6. /\ ctrl_fsm_cs' = "XRET_JUMP"
        /\ jump_done_q' = FALSE /\ debug_mode_q' = debug_mode_q
        /\ illegal_insn_q' = FALSE /\ debug_req_entry_q' = FALSE
        /\ debug_force_wakeup_q' = FALSE
    BY <1>1, <1>b, <2>1
    DEF GatedClock, CtrlClock, Keeps, InFlushWb, Flushing, TypeOK, Returning
  <2>7. RestTyped' /\ hwlp_counter_q' = hwlp_counter_q
    BY <2>1, RestKept DEF Silent
  <2>8. /\ due = pc_id /\ due \in Addr /\ npc \in Addr /\ left \in {1, 2}
        /\ insn_id = "dret" => debug_mode_q
    <3>1. due = pc_id /\ left # 0 /\ due \in Addr /\ npc \in Addr
      BY <1>1, <1>b DEF InFlushWb, Flushing, Flushed
    <3>2. left \in {1, 2}
      BY <3>1 DEF TypeOK
    <3>3. insn_id = "dret" => debug_mode_q
      BY <1>1, <1>b DEF Returning, illegal_insn
    <3> QED BY <3>1, <3>2, <3>3
  <2>9. OneLess \in {0, 2} /\ (OneLess = 2 <=> left = 2)
    BY <2>8 DEF OneLess
  <2>10. /\ due' \in Addr /\ left' \in {0, 1, 2} /\ (left' = 2 <=> left = 2)
         /\ insn_id = "mret" => left' # 1
    BY <2>5, <2>8, <2>9, AddrFacts DEF TypeOK, history
  <2>a. /\ mie' \in BOOLEAN /\ mpie' \in BOOLEAN /\ ebreakm' \in BOOLEAN
        /\ mepc' = mepc /\ dpc' = dpc /\ step' = step /\ cause' = cause
    BY <2>4 DEF TypeOK, trapCsrVars
  <2>11. TypeOK' /\ SetInv'
    <3>1. left' \in 0 .. 2
      BY <2>10
    <3>2. SteeredTyped'
      BY <3>1, <2>3, <2>6, <2>8, <2>a, <2>10 DEF TypeOK, SteeredTyped, CtrlStates
    <3> QED BY <3>2, <2>7 DEF TypeOK, RestTyped, SteeredTyped
  <2>12. LeftCounts'
    BY <2>6, <2>a, <2>10 DEF LeftCounts, Stepped
  <2>13. ClockInv'
    BY <1>1, <2>1, <2>6, BusyClock
  <2>14. StateInv'
    <3>1. Flushing'
      BY <1>1, <2>3, <2>6, <2>8, <2>10 DEF InFlushWb, Flushing, branch_taken_ex, Program
    <3>2. InXretJump'
      BY <3>1, <1>b, <2>3, <2>5, <2>6, <2>8, <2>a, <2>10 DEF InXretJump, Returning, history
    <3> QED BY <3>2, <2>3, <2>6 DEF StateInv
  <2>15. Hart!HartNext
    <3>1. CASE insn_id = "mret"
      <4>1. Hart!Executes("mret")
        BY <1>1, <3>1, <2>5, <2>8, <2>9, HartOps, AddrFacts
        DEF Hart!Executes, OneLess, InFlushWb, Flushing
      <4>2. Hart!Mret
        BY <3>1, <4>1, <1>1, <2>3, <2>4, <2>5, <2>6, <2>7
        DEF Hart!Mret, Hart!trapCsrs, Hart!dbgCsrs, trapCsrVars, InFlushWb
      <4> QED BY <4>2, HartSteps
    <3>2. CASE insn_id # "mret"
      BY <3>2, <1>1, <2>3, <2>4, <2>5, <2>6, <2>7, HartSteps
      DEF HartStands, history, InFlushWb
    <3> QED BY <3>1, <3>2
  <2> QED BY <2>11, <2>12, <2>13, <2>14, <2>15
<1>c. CASE Executed
  <2>1. /\ Silent(o) /\ SavesNothing(o) /\ o.illegalN = illegal_insn_q
        /\ o.busy /\ o.haltIf
        /\ o.jumpDone = jump_done_q /\ o.debugN = debug_mode_q
        /\ o.entryN = debug_req_entry_q /\ o.target = HwlpTarget(pc_id)
        /\ o.pc = (IF insn_id = "fencei" THEN "fencei"
                   ELSE IF /\ insn_id = "csr"
                           /\ \E k \in Loops : AtLast(k, pc_id) /\ hwlp_counter_q[k] # 0
                        THEN "hwloop" ELSE "none")
        /\ o.ns = (IF insn_id # "wfi" THEN "DECODE"
                   ELSE IF Pending(in) THEN "DBG_TAKEN_IF" ELSE "WAIT_SLEEP")
        /\ o.wakeN = IF insn_id = "wfi" /\ Pending(in) THEN TRUE ELSE debug_force_wakeup_q
    BY <1>c, FlushWbGoesOn
  <2>2. /\ NextAtIf /\ due \in Addr
        /\ insn_id = "wfi" => WfiDone
    BY <1>1, <1>c DEF InFlushWb, Flushed, Flushing
  <2>a. (IF o.pc = "none" THEN npc ELSE Target(o)) = due
    <3>1. CASE \E k \in Loops : IsLast(k, pc_id) /\ hwlp_counter_q[k] # 0
      <4>1. PICK k \in Loops : IsLast(k, pc_id) /\ hwlp_counter_q[k] # 0
        BY <3>1
      <4>2. AtLast(k, pc_id) /\ HwlpTarget(pc_id) = LoopStart[k]
        BY <4>1, Comparators DEF TypeOK
      <4>3. insn_id = "csr" /\ due = LoopStart[k]
        BY <2>2, <4>1 DEF NextAtIf
      <4> QED BY <2>1, <4>1, <4>2, <4>3 DEF Target
    <3>2. CASE ~\E k \in Loops : IsLast(k, pc_id) /\ hwlp_counter_q[k] # 0
      <4>1. ~\E k \in Loops : AtLast(k, pc_id) /\ hwlp_counter_q[k] # 0
        BY <3>2 DEF AtLast
      <4>2. due = Sequel(pc_id) /\ npc = due
        BY <2>2, <3>2 DEF NextAtIf
      <4> QED BY <2>1, <4>1, <4>2 DEF Target
    <3> QED BY <3>1, <3>2
  <2>3. ~Issues(in, o) /\ PipelineClock(in, o, Target(o))
    BY <2>1 DEF Issues, Silent, GatedClock
  <2>4. /\ loopTo' = NoAddr /\ npc' = due /\ pc_id' = pc_id /\ insn_id' = insn_id
        /\ instr_valid_id' = FALSE /\ ex' = "none"
    BY <1>1, <2>1, <2>a, <2>3, Stands
    DEF StateInv, Silent, TypeOK, InFlushWb, Flushing
  <2>5. UNCHANGED trapCsrVars
    BY <1>1, <2>1, CsrsStand DEF GatedClock, InFlushWb
  <2>6. UNCHANGED history
    BY <1>c, <2>1, <2>3
    DEF GatedClock, HistoryClock, Silent, Raises, Executes, Executed
  <2>7. /\ ctrl_fsm_cs' = (IF insn_id # "wfi" THEN "DECODE"
                           ELSE IF Pending(in) THEN "DBG_TAKEN_IF" ELSE "WAIT_SLEEP")
        /\ jump_done_q' = FALSE /\ debug_mode_q' = debug_mode_q
        /\ illegal_insn_q' = FALSE /\ debug_req_entry_q' = FALSE
        /\ debug_force_wakeup_q' = (IF insn_id = "wfi" /\ Pending(in) THEN TRUE ELSE FALSE)
    BY <1>1, <1>c, <2>1 DEF GatedClock, CtrlClock, InFlushWb, Flushing, TypeOK, Executed
  <2>8. RestTyped' /\ hwlp_counter_q' = hwlp_counter_q
    BY <2>1, RestKept DEF Silent
  <2>9. TypeOK' /\ SetInv'
    <3>1. SteeredTyped'
      BY <2>2, <2>4, <2>5, <2>6, <2>7
      DEF TypeOK, SteeredTyped, CtrlStates, trapCsrVars, history
    <3> QED BY <3>1, <2>8 DEF TypeOK, RestTyped, SteeredTyped
  <2>10. LeftCounts'
    BY <2>5, <2>6, <2>7 DEF LeftCounts, Stepped, trapCsrVars, history
  <2>11. ClockInv'
    BY <1>1, <2>1, <2>7, BusyClock
  <2>12. StateInv'
    <3>1. CASE insn_id # "wfi"
      <4>1. InDecode'
        BY <3>1, <2>2, <2>4, <2>6, <2>7 DEF InDecode, NextAtIf, history, branch_taken_ex
      <4> QED BY <3>1, <4>1, <2>4, <2>7 DEF StateInv
    <3>2. CASE insn_id = "wfi" /\ Pending(in)
      <4>1. debug_req_q' = TRUE
        BY <2>2, <3>2 DEF DebugReqClock, Pending, WfiDone
      <4>2. InDbgTakenIf'
        BY <3>2, <4>1, <2>2, <2>4, <2>5, <2>6, <2>7
        DEF InDbgTakenIf, WfiDone, history, trapCsrVars, branch_taken_ex
      <4> QED BY <3>2, <4>2, <2>4, <2>7 DEF StateInv
    <3>3. CASE insn_id = "wfi" /\ ~Pending(in)
      <4>1. InSleep'
        BY <3>3, <2>2, <2>4, <2>5, <2>6, <2>7
        DEF InSleep, Idle, WfiDone, NextAtIf, history, trapCsrVars, trigger_match
      <4> QED BY <3>3, <4>1, <2>4, <2>7 DEF StateInv
    <3> QED BY <3>1, <3>2, <3>3
  <2>13. Hart!HartNext
    BY <1>1, <2>4, <2>5, <2>6, <2>7, <2>8, HartSteps DEF HartStands, history, InFlushWb
  <2> QED BY <2>9, <2>10, <2>11, <2>12, <2>13
<1> QED BY <1>1, <1>a, <1>b, <1>c

\* A return jumps; dret leaves debug mode, for one instruction when stepping.
LEMMA XretJumpEdge ==
  ASSUME NEW in \in Inputs, NEW o, Edge(in, o, "XRET_JUMP")
  PROVE  CoreInv' /\ Hart!HartNext
<1> USE DEF Edge, CoreInv
<1>1. /\ InXretJump /\ fetch_enable_q
      /\ insn_id \in {"mret", "dret"} /\ (insn_id = "dret" => debug_mode_q)
  BY DEF StateInv, ClockRuns, ClockEn, InXretJump
<1>2. /\ Silent(o) /\ SavesNothing(o) /\ o.illegalN = illegal_insn_q
      /\ o.busy
      /\ o.pc = (IF insn_id = "dret" THEN "dret"
                 ELSE IF debug_mode_q THEN "dbe" ELSE "mret")
      /\ o.ns = (IF Stepped THEN "DBG_TAKEN_IF" ELSE "DECODE")
      /\ o.jumpDone = jump_done_q
      /\ (o.debugN <=> debug_mode_q /\ insn_id # "dret") /\ o.debugN \in BOOLEAN
      /\ o.entryN = debug_req_entry_q /\ o.wakeN = debug_force_wakeup_q
  BY XretJumpSays
<1>3. /\ ~Issues(in, o) /\ PipelineClock(in, o, Target(o))
      /\ Target(o) = (IF insn_id = "dret" THEN dpc ELSE due)
  BY <1>1, <1>2 DEF Issues, Silent, GatedClock, Target, InXretJump
<1>4. /\ loopTo' = NoAddr /\ npc' = (IF insn_id = "dret" THEN dpc ELSE due)
      /\ pc_id' = pc_id /\ insn_id' = insn_id /\ instr_valid_id' = FALSE /\ ex' = "none"
  BY <1>1, <1>2, <1>3, Stands DEF StateInv, Silent, TypeOK, InXretJump, Flushing
<1>5. UNCHANGED trapCsrVars
  BY <1>1, <1>2, CsrsStand DEF GatedClock, InXretJump
<1>6. IF insn_id = "dret" THEN due' = dpc /\ left' = (IF step = "off" THEN 2 ELSE 1)
      ELSE UNCHANGED history
  BY <1>1, <1>2, <1>3 DEF GatedClock, HistoryClock, Silent, Raises, Executes
<1>7. /\ ctrl_fsm_cs' = (IF Stepped THEN "DBG_TAKEN_IF" ELSE "DECODE")
      /\ jump_done_q' = FALSE /\ debug_mode_q' \in BOOLEAN
      /\ (debug_mode_q' <=> debug_mode_q /\ insn_id # "dret")
      /\ illegal_insn_q' = FALSE /\ debug_req_entry_q' = FALSE
      /\ debug_force_wakeup_q' = FALSE
  BY <1>1, <1>2 DEF GatedClock, CtrlClock, InXretJump, Flushing, TypeOK
<1>8. RestTyped' /\ hwlp_counter_q' = hwlp_counter_q
  BY <1>2, RestKept DEF Silent
<1>9. due \in Addr /\ dpc \in Addr
  BY <1>1 DEF InXretJump, Flushing, TypeOK
<1>10. /\ npc' = due' /\ due' \in Addr /\ left' \in 0 .. 2
       /\ insn_id # "dret" => left' = left
  BY <1>4, <1>6, <1>9 DEF TypeOK, history
<1>11. TypeOK' /\ SetInv'
  <2>1. SteeredTyped'
    BY <1>4, <1>5, <1>7, <1>10 DEF TypeOK, SteeredTyped, CtrlStates, trapCsrVars
  <2> QED BY <2>1, <1>8 DEF TypeOK, RestTyped, SteeredTyped
<1>12. LeftCounts'
  BY <1>1, <1>5, <1>6, <1>7 DEF LeftCounts, Stepped, trapCsrVars, history
<1>13. ClockInv'
  BY <1>1, <1>2, <1>7, BusyClock
<1>14. StateInv'
  <2>1. CASE Stepped
    <3>1. left' = 0 /\ step' # "off" /\ debug_mode_q' = FALSE
      BY <2>1, <1>1, <1>5, <1>7, <1>10
      DEF InXretJump, LeftCounts, Stepped, TypeOK, trapCsrVars
    <3>2. InDbgTakenIf'
      BY <3>1, <1>4, <1>7, <1>10 DEF InDbgTakenIf, branch_taken_ex
    <3> QED BY <2>1, <3>2, <1>4, <1>7 DEF StateInv
  <2>2. CASE ~Stepped
    <3>1. left' # 0
      BY <2>2, <1>6 DEF LeftCounts, history
    <3>2. InDecode'
      BY <3>1, <1>4, <1>7, <1>10 DEF InDecode, branch_taken_ex
    <3> QED BY <2>2, <3>2, <1>4, <1>7 DEF StateInv
  <2> QED BY <2>1, <2>2
<1>15. Hart!HartNext
  <2>1. CASE insn_id = "dret"
    <3>1. due \in Addr /\ "dret" \in Program[due]
      BY <2>1, <1>1 DEF InXretJump, Flushing
    <3>2. Hart!Dret
      BY <2>1, <3>1, <1>1, <1>4, <1>5, <1>6, <1>7, <1>8, HartOps, AddrFacts
      DEF Hart!Dret, Hart!trapCsrs, Hart!dbgCsrs, trapCsrVars, InXretJump
    <3> QED BY <3>2, HartSteps
  <2>2. CASE insn_id # "dret"
    BY <2>2, <1>1, <1>4, <1>5, <1>6, <1>7, <1>8, HartSteps
    DEF HartStands, history, InXretJump, TypeOK
  <2> QED BY <2>1, <2>2
<1> QED BY <1>11, <1>12, <1>13, <1>14, <1>15

\* A stepped branch is done: the fetch follows it.
LEMMA DbgWaitBranchEdge ==
  ASSUME NEW in \in Inputs, NEW o, Edge(in, o, "DBG_WAIT_BRANCH")
  PROVE  CoreInv' /\ Hart!HartNext
<1> USE DEF Edge, CoreInv
<1>1. InDbgWaitBranch /\ fetch_enable_q
  BY DEF StateInv, ClockRuns, ClockEn
<1>2. /\ Silent(o) /\ SavesNothing(o) /\ Keeps(o) /\ o.illegalN = illegal_insn_q
      /\ o.busy /\ o.haltIf /\ o.ns = "DBG_FLUSH"
      /\ o.pc = IF branch_taken_ex THEN "branch" ELSE "none"
  BY DbgWaitBranchSays
<1>3. /\ ~Issues(in, o) /\ PipelineClock(in, o, Target(o))
      /\ branch_taken_ex => Target(o) = BranchTo
  BY <1>1, <1>2 DEF Issues, Silent, GatedClock, Target
<1>4. /\ loopTo' = NoAddr /\ npc' = (IF branch_taken_ex THEN BranchTo ELSE npc)
      /\ pc_id' = pc_id /\ insn_id' = insn_id /\ instr_valid_id' = FALSE
      /\ ex' = (IF in.ready # "stall" THEN "none" ELSE IF ex = "csr" THEN "insn" ELSE ex)
  BY <1>1, <1>2, <1>3, Stands DEF StateInv, Silent, TypeOK, InDbgWaitBranch, Idle
<1>5. UNCHANGED trapCsrVars
  BY <1>1, <1>2, CsrsStand DEF GatedClock, InDbgWaitBranch
<1>6. UNCHANGED history
  BY <1>2, <1>3 DEF GatedClock, HistoryClock, Silent, Raises, Executes
<1>7. /\ ctrl_fsm_cs' = "DBG_FLUSH" /\ jump_done_q' = FALSE /\ debug_mode_q' = debug_mode_q
      /\ illegal_insn_q' = FALSE /\ debug_req_entry_q' = FALSE
      /\ debug_force_wakeup_q' = FALSE
  BY <1>1, <1>2 DEF GatedClock, CtrlClock, Keeps, InDbgWaitBranch, Idle, TypeOK
<1>8. RestTyped' /\ hwlp_counter_q' = hwlp_counter_q
  BY <1>2, RestKept DEF Silent
<1>9. /\ npc' = due' /\ due' \in Addr
      /\ ex' # "csr" /\ ~branch_taken_ex'
      /\ ex' \in {"none", "insn", "mem", "nottaken"}
  <2>1. branch_taken_ex => in.ready # "stall"
    BY ExDrains
  <2> QED
    BY <2>1, <1>1, <1>4, <1>6 DEF InDbgWaitBranch, TypeOK, branch_taken_ex, history
<1>10. TypeOK' /\ SetInv'
  <2>1. SteeredTyped'
    BY <1>4, <1>5, <1>6, <1>7, <1>9
    DEF TypeOK, SteeredTyped, CtrlStates, trapCsrVars, history
  <2> QED BY <2>1, <1>8 DEF TypeOK, RestTyped, SteeredTyped
<1>11. LeftCounts'
  BY <1>5, <1>6, <1>7 DEF LeftCounts, Stepped, trapCsrVars, history
<1>12. ClockInv'
  BY <1>1, <1>2, <1>7, BusyClock
<1>13. StateInv'
  <2>1. ~InsteadOfId' /\ SteppedOver'
    BY <1>1, <1>4, <1>5, <1>6, <1>7
    DEF InDbgWaitBranch, InsteadOfId, SteppedOver, Stepped, ForcedEbreak, trigger_match,
        trapCsrVars, history
  <2>2. InDbgFlush'
    BY <2>1, <1>4, <1>7, <1>9 DEF InDbgFlush
  <2> QED BY <2>2, <1>4, <1>7 DEF StateInv
<1>14. Hart!HartNext
  BY <1>1, <1>5, <1>6, <1>7, <1>8, <1>9, HartSteps DEF HartStands, history, InDbgWaitBranch
<1> QED BY <1>10, <1>11, <1>12, <1>13, <1>14

\* What is in EX stays there or leaves it; a CSR instruction writes once.
LEMMA ExGoesOn ==
  ASSUME NEW in, ex \in {"none", "insn", "mem", "csr", "taken", "nottaken"}, ~branch_taken_ex,
         ex' = (IF in.ready # "stall" THEN "none" ELSE IF ex = "csr" THEN "insn" ELSE ex)
  PROVE  ex' # "csr" /\ ~branch_taken_ex' /\ ex' \in {"none", "insn", "mem", "nottaken"}
  BY DEF branch_taken_ex

\* A write from EX touches neither the saved pcs nor, outside debug mode, dcsr.
LEMMA WritesKeep ==
  ASSUME TypeOK, IF ex = "csr" THEN WriteFromEx(debug_mode_q) ELSE UNCHANGED trapCsrVars
  PROVE  /\ mie' \in BOOLEAN /\ mpie' = mpie /\ mepc' = mepc /\ dpc' = dpc /\ cause' = cause
         /\ ebreakm' \in BOOLEAN /\ step' \in Stepping
         /\ ~debug_mode_q => step' = step /\ ebreakm' = ebreakm
  BY DEF WriteFromEx, trapCsrVars, TypeOK

\* The pipeline is flushed before debug mode is entered; a CSR instruction writes.
LEMMA DbgFlushEdge ==
  ASSUME NEW in \in Inputs, NEW o, Edge(in, o, "DBG_FLUSH")
  PROVE  CoreInv' /\ Hart!HartNext
<1> USE DEF Edge, CoreInv
<1>1. InDbgFlush /\ fetch_enable_q
  BY DEF StateInv, ClockRuns, ClockEn
<1>2. /\ Silent(o) /\ SavesNothing(o) /\ Keeps(o) /\ o.illegalN = illegal_insn_q
      /\ o.busy /\ o.haltIf /\ o.haltId /\ o.pc = "none"
      /\ o.ns = IF InsteadOfId THEN "DBG_TAKEN_ID" ELSE "DBG_TAKEN_IF"
  BY DbgFlushSays
<1>3. ~Issues(in, o) /\ PipelineClock(in, o, Target(o))
  BY <1>2 DEF Issues, Silent, GatedClock
<1>4. /\ loopTo' = loopTo /\ npc' = npc /\ pc_id' = pc_id /\ insn_id' = insn_id
      /\ instr_valid_id' = FALSE
      /\ ex' = (IF in.ready # "stall" THEN "none" ELSE IF ex = "csr" THEN "insn" ELSE ex)
  BY <1>1, <1>2, <1>3, Stands DEF StateInv, Silent, TypeOK, ClearInstrValid
<1>5. IF ex = "csr" THEN WriteFromEx(debug_mode_q) ELSE UNCHANGED trapCsrVars
  BY <1>2, CsrsStand DEF GatedClock
<1>a. /\ mie' \in BOOLEAN /\ mpie' = mpie /\ mepc' = mepc /\ dpc' = dpc /\ cause' = cause
      /\ ebreakm' \in BOOLEAN /\ step' \in Stepping
      /\ ~debug_mode_q => step' = step /\ ebreakm' = ebreakm
  BY <1>5, WritesKeep
<1>6. UNCHANGED history
  BY <1>2, <1>3 DEF GatedClock, HistoryClock, Silent, Raises, Executes
<1>7. /\ ctrl_fsm_cs' = (IF InsteadOfId THEN "DBG_TAKEN_ID" ELSE "DBG_TAKEN_IF")
      /\ jump_done_q' \in BOOLEAN /\ (~jump_done_q => ~jump_done_q')
      /\ debug_mode_q' = debug_mode_q /\ illegal_insn_q' = FALSE
      /\ debug_req_entry_q' = debug_req_entry_q /\ debug_force_wakeup_q' = FALSE
  BY <1>1, <1>2 DEF GatedClock, CtrlClock, Keeps, InDbgFlush, TypeOK
<1>8. RestTyped' /\ hwlp_counter_q' = hwlp_counter_q
  BY <1>2, RestKept DEF Silent
<1>9. ex' # "csr" /\ ~branch_taken_ex' /\ ex' \in {"none", "insn", "mem", "nottaken"}
  BY <1>1, <1>4, ExGoesOn DEF InDbgFlush, TypeOK
<1>10. TypeOK' /\ SetInv'
  <2>1. SteeredTyped'
    BY <1>4, <1>a, <1>6, <1>7, <1>9 DEF TypeOK, SteeredTyped, CtrlStates, history
  <2> QED BY <2>1, <1>8 DEF TypeOK, RestTyped, SteeredTyped
<1>11. LeftCounts'
  BY <1>a, <1>6, <1>7 DEF LeftCounts, Stepped, history
<1>12. ClockInv'
  BY <1>1, <1>2, <1>7, BusyClock
<1>13. StateInv'
  <2>1. CASE InsteadOfId
    <3>1. EntersForId
      BY <1>1, <2>1 DEF InDbgFlush
    <3>2. InsteadOfId'
      BY <2>1, <1>4, <1>a, <1>7 DEF InsteadOfId, ForcedEbreak, trigger_match
    <3>3. debug_req_entry_q => ~debug_mode_q' /\ (trigger_match' \/ debug_req_q')
      BY <3>1, <1>4, <1>7 DEF EntersForId, trigger_match, DebugReqClock
    <3>4. EntersForId'
      BY <3>1, <3>2, <3>3, <1>4, <1>6, <1>7 DEF EntersForId, history, Program
    <3>5. InDbgTakenId'
      BY <3>4, <1>1, <1>4, <1>6, <1>7, <1>9 DEF InDbgTakenId, InDbgFlush, history
    <3> QED BY <2>1, <3>5, <1>4, <1>7 DEF StateInv
  <2>2. CASE ~InsteadOfId
    <3>1. /\ ~debug_mode_q /\ ~debug_req_entry_q /\ step # "off" /\ left = 0
          /\ npc = due /\ ~jump_done_q /\ due \in Addr
      BY <1>1, <2>2 DEF InDbgFlush, InsteadOfId, EntersForId, SteppedOver, Stepped
    <3>2. InDbgTakenIf'
      BY <3>1, <1>4, <1>a, <1>6, <1>7, <1>9 DEF InDbgTakenIf, history
    <3> QED BY <2>2, <3>2, <1>4, <1>7 DEF StateInv
  <2> QED BY <2>1, <2>2
<1>14. Hart!HartNext
  <2>1. CASE ex = "csr"
    <3>1. Hart!WriteCsr
      BY <2>1, <1>7, <1>8, <1>6, <1>5, <1>9, HartOps
      DEF Hart!WriteCsr, WriteFromEx, history, TypeOK
    <3> QED BY <3>1, HartSteps
  <2>2. CASE ex # "csr"
    BY <2>2, <1>7, <1>8, <1>5, <1>6, <1>9, HartSteps DEF HartStands, history
  <2> QED BY <2>1, <2>2
<1> QED BY <1>10, <1>11, <1>12, <1>13, <1>14

\* Debug mode is entered instead of the instruction in ID, or started over.
LEMMA DbgTakenIdEdge ==
  ASSUME NEW in \in Inputs, NEW o, Edge(in, o, "DBG_TAKEN_ID")
  PROVE  CoreInv' /\ Hart!HartNext
<1> USE DEF Edge, CoreInv
<1>1. InDbgTakenId /\ fetch_enable_q
  BY DEF StateInv, ClockRuns, ClockEn
<1>2. /\ Silent(o) /\ ~o.restore /\ o.illegalN = illegal_insn_q
      /\ o.busy /\ o.pc = "dbd" /\ o.ns = "DECODE"
      /\ o.jumpDone = jump_done_q /\ o.debugN = TRUE /\ o.entryN = FALSE
      /\ o.wakeN = debug_force_wakeup_q
      /\ debug_mode_q => o.save = "no"
      /\ ~debug_mode_q =>
           /\ o.save = "id" /\ o.dbgSave
           /\ o.cause = (IF trigger_match THEN "trigger" ELSE IF ForcedEbreak THEN "ebreak"
                         ELSE IF debug_req_entry_q THEN "haltreq" ELSE "ebreak")
  BY DbgTakenIdSays
<1>3. ~Issues(in, o) /\ PipelineClock(in, o, Target(o)) /\ Target(o) = HaltAddr
  BY <1>2 DEF Issues, Silent, GatedClock, Target
<1>4. /\ loopTo' = NoAddr /\ npc' = HaltAddr /\ pc_id' = pc_id /\ insn_id' = insn_id
      /\ instr_valid_id' = FALSE
      /\ ex' = (IF in.ready # "stall" THEN "none" ELSE IF ex = "csr" THEN "insn" ELSE ex)
  BY <1>1, <1>2, <1>3, Stands DEF StateInv, Silent, TypeOK, InDbgTakenId
<1>5. IF debug_mode_q THEN UNCHANGED trapCsrVars
      ELSE /\ dpc' = pc_id /\ cause' = o.cause
           /\ UNCHANGED <<mepc, mie, mpie, step, ebreakm>>
  BY <1>1, <1>2 DEF GatedClock, TrapCsrsClock, SaveDebug, InDbgTakenId
<1>6. due' = HaltAddr /\ left' = 2
  BY <1>2 DEF GatedClock, HistoryClock, Silent
<1>7. /\ ctrl_fsm_cs' = "DECODE" /\ jump_done_q' \in BOOLEAN
      /\ debug_mode_q' = TRUE /\ illegal_insn_q' = FALSE
      /\ debug_req_entry_q' = FALSE /\ debug_force_wakeup_q' = FALSE
  BY <1>1, <1>2 DEF GatedClock, CtrlClock, InDbgTakenId, TypeOK
<1>8. RestTyped' /\ hwlp_counter_q' = hwlp_counter_q
  BY <1>2, RestKept DEF Silent
<1>9. ex' # "csr" /\ ~branch_taken_ex' /\ ex' \in {"none", "insn", "mem", "nottaken"}
  BY <1>1, <1>4, ExGoesOn DEF InDbgTakenId, TypeOK
<1>10. TypeOK' /\ SetInv'
  <2>1. /\ cause' \in {"none", "ebreak", "trigger", "haltreq", "step"}
        /\ dpc' \in Addr /\ mepc' = mepc /\ step' = step
        /\ mie' \in BOOLEAN /\ mpie' \in BOOLEAN /\ ebreakm' \in BOOLEAN
    BY <1>2, <1>5 DEF TypeOK, trapCsrVars
  <2>2. {npc', due'} \subseteq Addr /\ left' \in 0 .. 2
    BY <1>4, <1>6, AddrFacts
  <2>3. SteeredTyped'
    BY <1>4, <2>1, <2>2, <1>7, <1>9 DEF TypeOK, SteeredTyped, CtrlStates
  <2> QED BY <2>3, <1>8 DEF TypeOK, RestTyped, SteeredTyped
<1>11. LeftCounts'
  BY <1>6, <1>7 DEF LeftCounts, Stepped
<1>12. ClockInv'
  BY <1>1, <1>2, <1>7, BusyClock
<1>13. StateInv'
  <2>1. InDecode'
    BY <1>4, <1>6, <1>7, <1>9, AddrFacts DEF InDecode
  <2> QED BY <2>1, <1>4, <1>7 DEF StateInv
<1>14. Hart!HartNext
  <2>1. /\ due = pc_id /\ due \in Addr /\ left # 0 /\ ex # "csr" /\ ex' # "csr"
        /\ insn_id \in Program[due]
    BY <1>1, <1>9 DEF InDbgTakenId, EntersForId
  <2>2. CASE debug_mode_q
    <3>1. left = 2 /\ insn_id = "ebreak"
      BY <2>2, <1>1 DEF LeftCounts, Stepped, InDbgTakenId, EntersForId
    <3>2. Hart!Reenter
      BY <2>1, <2>2, <3>1, <1>5, <1>6, <1>7, <1>8, HartOps
      DEF Hart!Reenter, Hart!trapCsrs, Hart!dbgCsrs, trapCsrVars
    <3> QED BY <3>2, HartSteps
  <2>3. CASE ~debug_mode_q
    <3>1. o.cause \in {"haltreq", "trigger", "ebreak"}
      BY <2>3, <1>2
    <3>2. Hart!MayHalt(o.cause)
      BY <2>1, <2>3, <1>1, <1>2, HartOps
      DEF Hart!MayHalt, InDbgTakenId, EntersForId, InsteadOfId, ForcedEbreak, trigger_match
    <3>3. Hart!EnterDebug(o.cause)
      BY <2>1, <2>3, <3>2, <1>5, <1>6, <1>7, <1>8, AddrFacts
      DEF Hart!EnterDebug, Hart!trapCsrs
    <3> QED BY <3>1, <3>3, HartSteps
  <2> QED BY <2>2, <2>3
<1> QED BY <1>10, <1>11, <1>12, <1>13, <1>14

\* Debug mode is entered from IF: the instruction due there has not been fetched.
LEMMA DbgTakenIfEdge ==
  ASSUME NEW in \in Inputs, NEW o, Edge(in, o, "DBG_TAKEN_IF")
  PROVE  CoreInv' /\ Hart!HartNext
<1> USE DEF Edge, CoreInv
<1>1. InDbgTakenIf /\ fetch_enable_q
  BY DEF StateInv, ClockRuns, ClockEn
<1>2. /\ Silent(o) /\ ~o.restore /\ o.illegalN = illegal_insn_q
      /\ o.busy /\ o.pc = "dbd" /\ o.ns = "DECODE"
      /\ o.jumpDone = jump_done_q /\ o.debugN = TRUE /\ o.wakeN = FALSE
      /\ o.entryN = debug_req_entry_q
      /\ o.save = "if" /\ o.dbgSave
      /\ o.cause = (IF debug_force_wakeup_q THEN "haltreq"
                    ELSE IF step # "off" THEN "step" ELSE "ebreak")
  BY DbgTakenIfSays
<1>3. ~Issues(in, o) /\ PipelineClock(in, o, Target(o)) /\ Target(o) = HaltAddr
  BY <1>2 DEF Issues, Silent, GatedClock, Target
<1>4. /\ loopTo' = NoAddr /\ npc' = HaltAddr /\ pc_id' = pc_id /\ insn_id' = insn_id
      /\ instr_valid_id' = FALSE
      /\ ex' = (IF in.ready # "stall" THEN "none" ELSE IF ex = "csr" THEN "insn" ELSE ex)
  BY <1>1, <1>2, <1>3, Stands DEF StateInv, Silent, TypeOK, InDbgTakenIf
<1>5. /\ dpc' = due /\ cause' = o.cause
      /\ UNCHANGED <<mepc, mie, mpie, step, ebreakm>>
  BY <1>1, <1>2 DEF GatedClock, TrapCsrsClock, SaveDebug, InDbgTakenIf
<1>6. due' = HaltAddr /\ left' = 2
  BY <1>2 DEF GatedClock, HistoryClock, Silent
<1>7. /\ ctrl_fsm_cs' = "DECODE" /\ jump_done_q' = FALSE
      /\ debug_mode_q' = TRUE /\ illegal_insn_q' = FALSE
      /\ debug_req_entry_q' = FALSE /\ debug_force_wakeup_q' = FALSE
  BY <1>1, <1>2 DEF GatedClock, CtrlClock, InDbgTakenIf, TypeOK
<1>8. RestTyped' /\ hwlp_counter_q' = hwlp_counter_q
  BY <1>2, RestKept DEF Silent
<1>9. ex' # "csr" /\ ~branch_taken_ex' /\ ex' \in {"none", "insn", "mem", "nottaken"}
  BY <1>1, <1>4, ExGoesOn DEF InDbgTakenIf, TypeOK
<1>10. TypeOK' /\ SetInv'
  <2>1. /\ cause' \in {"none", "ebreak", "trigger", "haltreq", "step"} /\ dpc' \in Addr
    BY <1>1, <1>2, <1>5 DEF TypeOK, InDbgTakenIf
  <2>2. {npc', due'} \subseteq Addr /\ left' \in 0 .. 2
    BY <1>4, <1>6, AddrFacts
  <2>3. SteeredTyped'
    BY <1>4, <1>5, <2>1, <2>2, <1>7, <1>9 DEF TypeOK, SteeredTyped, CtrlStates
  <2> QED BY <2>3, <1>8 DEF TypeOK, RestTyped, SteeredTyped
<1>11. LeftCounts'
  BY <1>6, <1>7 DEF LeftCounts, Stepped
<1>12. ClockInv'
  BY <1>1, <1>2, <1>7, BusyClock
<1>13. StateInv'
  <2>1. InDecode'
    BY <1>4, <1>6, <1>7, <1>9, AddrFacts DEF InDecode
  <2> QED BY <2>1, <1>4, <1>7 DEF StateInv
<1>14. Hart!HartNext
  <2>1. /\ ~debug_mode_q /\ due \in Addr /\ ex # "csr" /\ ex' # "csr"
        /\ o.cause \in {"haltreq", "step"}
    BY <1>1, <1>2, <1>9 DEF InDbgTakenIf
  <2>2. Hart!MayHalt(o.cause)
    BY <1>1, <1>2 DEF Hart!MayHalt, InDbgTakenIf
  <2>3. Hart!EnterDebug(o.cause)
    BY <2>1, <2>2, <1>5, <1>6, <1>7, <1>8, AddrFacts DEF Hart!EnterDebug, Hart!trapCsrs
  <2> QED BY <2>1, <2>3, HartSteps
<1> QED BY <1>10, <1>11, <1>12, <1>13, <1>14

-----------------------------------------------------------------------------
\* DECODE: the instruction in ID waits, goes on to EX or gives way.

\* Behind a taken branch the fetch goes to its target and ID is cleared.
LEMMA RedirectEdge ==
  ASSUME NEW in \in Inputs, NEW o, Edge(in, o, "DECODE"), branch_taken_ex
  PROVE  CoreInv' /\ Hart!HartNext
<1> USE DEF Edge, CoreInv
<1>1. InDecode /\ fetch_enable_q
  BY DEF StateInv, ClockRuns, ClockEn
<1>2. /\ Silent(o) /\ SavesNothing(o) /\ Keeps(o) /\ o.illegalN = illegal_insn_q
      /\ o.busy /\ o.pc = "branch" /\ o.ns = "DECODE"
  BY DecodeRedirects
<1>3. ~Issues(in, o) /\ PipelineClock(in, o, Target(o)) /\ Target(o) = BranchTo
  BY <1>2 DEF Issues, Silent, GatedClock, Target
<1>4. /\ loopTo' = NoAddr /\ npc' = BranchTo /\ pc_id' = pc_id /\ insn_id' = insn_id
      /\ instr_valid_id' = FALSE /\ ex' = "none"
  BY <1>1, <1>2, <1>3, Stands, ExDrains DEF StateInv, Silent, TypeOK, ClearInstrValid
<1>5. UNCHANGED trapCsrVars
  BY <1>1, <1>2, CsrsStand DEF GatedClock, InDecode
<1>6. UNCHANGED history
  BY <1>2, <1>3 DEF GatedClock, HistoryClock, Silent, Raises, Executes
<1>7. /\ ctrl_fsm_cs' = "DECODE" /\ jump_done_q' = FALSE /\ debug_mode_q' = debug_mode_q
      /\ illegal_insn_q' = FALSE /\ debug_req_entry_q' = FALSE
      /\ debug_force_wakeup_q' = FALSE
  BY <1>1, <1>2 DEF GatedClock, CtrlClock, Keeps, InDecode, TypeOK
<1>8. RestTyped' /\ hwlp_counter_q' = hwlp_counter_q
  BY <1>2, RestKept DEF Silent
<1>9. TypeOK' /\ SetInv'
  <2>1. SteeredTyped'
    BY <1>4, <1>5, <1>6, <1>7, AddrFacts
    DEF TypeOK, SteeredTyped, CtrlStates, trapCsrVars, history
  <2> QED BY <2>1, <1>8 DEF TypeOK, RestTyped, SteeredTyped
<1>10. LeftCounts'
  BY <1>5, <1>6, <1>7 DEF LeftCounts, Stepped, trapCsrVars, history
<1>11. ClockInv'
  BY <1>1, <1>2, <1>7, BusyClock
<1>12. StateInv'
  <2>1. InDecode'
    BY <1>1, <1>4, <1>6, <1>7 DEF InDecode, branch_taken_ex, history
  <2> QED BY <2>1, <1>4, <1>7 DEF StateInv
<1>13. Hart!HartNext
  BY <1>1, <1>4, <1>5, <1>6, <1>7, <1>8, HartSteps DEF HartStands, history, InDecode
<1> QED BY <1>9, <1>10, <1>11, <1>12, <1>13

\* An instruction in ID that is not behind a taken branch is the one due.
LEMMA DueInId ==
  ASSUME CoreInv, ctrl_fsm_cs \in {"DECODE", "DECODE_HWLOOP"},
         ~branch_taken_ex, instr_valid_id
  PROVE  /\ Suits /\ ~debug_req_entry_q /\ ~debug_force_wakeup_q
         /\ due = pc_id /\ due \in Addr /\ npc \in Addr /\ insn_id \in Program[pc_id]
         /\ left # 0 /\ ex # "csr"
         /\ ctrl_fsm_cs = "DECODE" =>
              /\ loopTo = NoAddr /\ npc = (IF jump_done_q THEN JumpTo ELSE Sequel(due))
              /\ jump_done_q => insn_id = "jump"
              /\ illegal_insn_q => illegal_insn
         /\ ctrl_fsm_cs = "DECODE_HWLOOP" =>
              /\ Inside(due, hwlp_counter_q) /\ npc = After(due, hwlp_counter_q)
              /\ jump_done_q => JumpsBack(due, hwlp_counter_q) # {} /\ insn_id \in Flows
              /\ loopTo = IF hwlp_end_4_id_q THEN BackTo(Sequel(due), hwlp_counter_q)
                          ELSE NoAddr
              /\ loopTo # NoAddr => insn_id \in Flows
              /\ ~illegal_insn_q /\ insn_id \in BodyKinds
<1>1. CASE ctrl_fsm_cs = "DECODE"
  BY <1>1 DEF CoreInv, StateInv, InDecode, Suits
<1>2. CASE ctrl_fsm_cs = "DECODE_HWLOOP"
  <2>1. InHwloop
    BY <1>2 DEF CoreInv, StateInv
  <2>2. insn_id \in BodyKinds
    BY <2>1, InsideKinds DEF InHwloop, CoreInv
  <2> QED BY <1>2, <2>1, <2>2 DEF InHwloop, Suits
<1> QED BY <1>1, <1>2

\* An empty ID waits for the instruction due.
LEMMA EmptyIdEdge ==
  ASSUME NEW in \in Inputs, NEW o, NEW s \in {"DECODE", "DECODE_HWLOOP"}, Edge(in, o, s),
         ~branch_taken_ex, ~instr_valid_id
  PROVE  CoreInv' /\ Hart!HartNext
<1> USE DEF Edge, CoreInv
<1>1. /\ fetch_enable_q /\ npc = due /\ due \in Addr /\ left # 0 /\ ex # "csr"
      /\ ~illegal_insn_q /\ ~debug_req_entry_q /\ ~debug_force_wakeup_q
      /\ s = "DECODE" => loopTo = NoAddr
      /\ s = "DECODE_HWLOOP" =>
           /\ ~jump_done_q /\ loopTo = BackTo(due, hwlp_counter_q)
           /\ Inside(due, hwlp_counter_q)
  BY DEF StateInv, ClockRuns, ClockEn, InDecode, InHwloop
<1>2. /\ Silent(o) /\ SavesNothing(o) /\ Keeps(o) /\ o.illegalN = illegal_insn_q
      /\ o.busy /\ o.pc = "none" /\ o.ns = s /\ o.end4 = FALSE
  BY DecodeWaits
<1>3. ~Issues(in, o) /\ PipelineClock(in, o, Target(o))
  BY <1>2 DEF Issues, Silent, GatedClock
<1>4. \/ /\ IdReady(in) /\ npc' = (IF loopTo # NoAddr THEN loopTo ELSE Sequel(npc))
         /\ loopTo' = NoAddr /\ pc_id' = npc
         /\ insn_id' \in Program[npc] /\ instr_valid_id' = TRUE
      \/ /\ npc' = npc /\ loopTo' = loopTo
         /\ pc_id' = pc_id /\ insn_id' = insn_id /\ instr_valid_id' = FALSE
  BY <1>1, <1>2, <1>3, Hands DEF Silent, TypeOK
<1>5. ex' # "csr" /\ ~branch_taken_ex' /\ ex' \in {"none", "insn", "mem", "nottaken"}
  <2>1. ex' = (IF in.ready # "stall" THEN "none" ELSE IF ex = "csr" THEN "insn" ELSE ex)
    BY <1>3 DEF PipelineClock, IdExClock
  <2> QED BY <2>1, ExGoesOn DEF TypeOK
<1>6. UNCHANGED trapCsrVars
  BY <1>1, <1>2, CsrsStand DEF GatedClock
<1>7. UNCHANGED history
  BY <1>2, <1>3 DEF GatedClock, HistoryClock, Silent, Raises, Executes
<1>8. /\ ctrl_fsm_cs' = s /\ jump_done_q' = (jump_done_q /\ ~IdReady(in))
      /\ debug_mode_q' = debug_mode_q /\ hwlp_end_4_id_q' = FALSE
      /\ illegal_insn_q' = FALSE /\ debug_req_entry_q' = FALSE
      /\ debug_force_wakeup_q' = FALSE
  BY <1>1, <1>2 DEF GatedClock, CtrlClock, Keeps, TypeOK
<1>9. RestTyped' /\ hwlp_counter_q' = hwlp_counter_q
  BY <1>2, RestKept DEF Silent
<1>10. TypeOK' /\ SetInv'
  <2>1. /\ npc' \in Addr /\ loopTo' \in Addr \cup {NoAddr} /\ pc_id' \in Addr
        /\ insn_id' \in Kinds /\ instr_valid_id' \in BOOLEAN
    BY <1>1, <1>4, AddrFacts, ProgramKinds DEF TypeOK
  <2>2. SteeredTyped'
    BY <2>1, <1>5, <1>6, <1>7, <1>8
    DEF TypeOK, SteeredTyped, CtrlStates, trapCsrVars, history
  <2> QED BY <2>2, <1>9 DEF TypeOK, RestTyped, SteeredTyped
<1>11. LeftCounts'
  BY <1>6, <1>7, <1>8 DEF LeftCounts, Stepped, trapCsrVars, history
<1>12. ClockInv'
  BY <1>1, <1>2, <1>8, BusyClock
<1>13. StateInv'
  <2>1. CASE s = "DECODE"
    <3>1. InDecode'
      BY <2>1, <1>1, <1>4, <1>5, <1>7, <1>8, AddrFacts DEF InDecode, history, Program
    <3> QED BY <2>1, <3>1, <1>1, <1>4, <1>8 DEF StateInv
  <2>2. CASE s = "DECODE_HWLOOP"
    <3>1. /\ Inside(due', hwlp_counter_q') /\ due' = due /\ left' = left
          /\ BackTo(due', hwlp_counter_q') = BackTo(due, hwlp_counter_q)
          /\ After(due', hwlp_counter_q') = After(due, hwlp_counter_q)
      BY <2>2, <1>1, <1>7, <1>9 DEF history
    <3>2. After(due, hwlp_counter_q) = IF loopTo # NoAddr THEN loopTo ELSE Sequel(npc)
      BY <2>2, <1>1, AfterLast
    <3>3. npc' \in Addr
      BY <1>10, <1>1, <1>4, <3>2, AfterLast
    <3>4. InHwloop'
      <4>1. CASE instr_valid_id'
        BY <4>1, <3>1, <3>2, <3>3, <1>1, <1>4, <1>5, <1>8 DEF InHwloop, Program
      <4>2. CASE ~instr_valid_id'
        BY <4>2, <2>2, <3>1, <3>3, <1>1, <1>4, <1>5, <1>8 DEF InHwloop
      <4> QED BY <4>1, <4>2
    <3> QED BY <2>2, <3>4, <1>8 DEF StateInv
  <2> QED BY <2>1, <2>2
<1>14. Hart!HartNext
  BY <1>1, <1>5, <1>6, <1>7, <1>8, <1>9, HartSteps DEF HartStands, history
<1> QED BY <1>10, <1>11, <1>12, <1>13, <1>14

\* A debug request or a trigger: the instruction in ID gives way, and stays due.
LEMMA ServeDebugEdge ==
  ASSUME NEW in \in Inputs, NEW o, NEW s \in {"DECODE", "DECODE_HWLOOP"}, Edge(in, o, s),
         ~branch_taken_ex, instr_valid_id, MustHalt(in)
  PROVE  CoreInv' /\ Hart!HartNext
<1> USE DEF Edge, CoreInv
<1>1. /\ fetch_enable_q /\ due = pc_id /\ due \in Addr /\ npc \in Addr
      /\ insn_id \in Program[pc_id] /\ left # 0 /\ ex # "csr" /\ Suits
      /\ ~debug_force_wakeup_q
  BY DueInId DEF ClockRuns, ClockEn
<1>2. /\ o.haltIf /\ o.haltId /\ ~o.irqAck /\ ~o.hwlpJump /\ o.end4 \in BOOLEAN
      /\ o.dec = {} /\ (o.decoding => Loops = {})
      /\ SavesNothing(o) /\ o.busy /\ o.pc = "none" /\ o.ns = "DBG_FLUSH"
      /\ o.jumpDone = jump_done_q /\ o.debugN = debug_mode_q
      /\ o.illegalN = FALSE /\ o.entryN = TRUE /\ o.wakeN = debug_force_wakeup_q
  BY <1>1, DecodeServesDebug
<1>3. ~Issues(in, o) /\ PipelineClock(in, o, Target(o))
  BY <1>2 DEF Issues, GatedClock
<1>4. /\ loopTo' = loopTo /\ npc' = npc /\ pc_id' = pc_id /\ insn_id' = insn_id
      /\ instr_valid_id' = FALSE
      /\ ex' = (IF in.ready # "stall" THEN "none" ELSE IF ex = "csr" THEN "insn" ELSE ex)
  BY <1>1, <1>2, <1>3, Stands DEF TypeOK, ClearInstrValid
<1>5. UNCHANGED trapCsrVars
  BY <1>1, <1>2, CsrsStand DEF GatedClock
<1>6. UNCHANGED history
  BY <1>2, <1>3 DEF GatedClock, HistoryClock, Raises, Executes
<1>7. /\ ctrl_fsm_cs' = "DBG_FLUSH" /\ jump_done_q' \in BOOLEAN
      /\ debug_mode_q' = FALSE /\ debug_mode_q = FALSE
      /\ illegal_insn_q' = FALSE /\ debug_req_entry_q' = TRUE
      /\ debug_force_wakeup_q' = FALSE
  BY <1>1, <1>2 DEF GatedClock, CtrlClock, TypeOK, MustHalt
<1>8. RestTyped' /\ hwlp_counter_q' = hwlp_counter_q
  BY <1>2, RestKept
<1>9. ex' # "csr" /\ ~branch_taken_ex' /\ ex' \in {"none", "insn", "mem", "nottaken"}
  BY <1>1, <1>4, ExGoesOn DEF TypeOK
<1>10. TypeOK' /\ SetInv'
  <2>1. SteeredTyped'
    BY <1>4, <1>5, <1>6, <1>7, <1>9
    DEF TypeOK, SteeredTyped, CtrlStates, trapCsrVars, history
  <2> QED BY <2>1, <1>8 DEF TypeOK, RestTyped, SteeredTyped
<1>11. LeftCounts'
  BY <1>5, <1>6, <1>7 DEF LeftCounts, Stepped, trapCsrVars, history
<1>12. ClockInv'
  BY <1>1, <1>2, <1>7, BusyClock
<1>13. StateInv'
  <2>1. trigger_match' \/ debug_req_q'
    BY <1>4, <1>7 DEF MustHalt, Pending, trigger_match, DebugReqClock
  <2>2. EntersForId'
    BY <2>1, <1>1, <1>4, <1>6, <1>7 DEF EntersForId, InsteadOfId, history, Program
  <2>3. InDbgFlush'
    BY <2>2, <1>1, <1>4, <1>6, <1>7, <1>9 DEF InDbgFlush, history
  <2> QED BY <2>3, <1>4, <1>7 DEF StateInv
<1>14. Hart!HartNext
  BY <1>1, <1>5, <1>6, <1>7, <1>8, <1>9, HartSteps DEF HartStands, history
<1> QED BY <1>10, <1>11, <1>12, <1>13, <1>14

\* While EX cannot take it, the instruction in ID stays there; the fetch may be
\* sent elsewhere, or told where to go back to.
LEMMA Held ==
  ASSUME NEW in \in Inputs, NEW o, NEW s \in {"DECODE", "DECODE_HWLOOP"}, Edge(in, o, s),
         NothingFirst(in), Decodes(in, o), ~IdReady(in),
         o.ns \in {"DECODE", "DECODE_HWLOOP"},
         o.illegalN \in BOOLEAN, o.jumpDone \in BOOLEAN,
         o.pc = "none" \/ Target(o) \in Addr,
         NEW after \in Addr \cup {NoAddr},
         after = (IF o.hwlpJump THEN o.target ELSE loopTo)
  PROVE  /\ TypeOK' /\ SetInv' /\ program' \in DOMAIN Programs /\ LeftCounts' /\ ClockInv'
         /\ Hart!HartNext
         /\ due' = due /\ left' = left /\ hwlp_counter_q' = hwlp_counter_q
         /\ pc_id' = pc_id /\ insn_id' = insn_id /\ instr_valid_id' = TRUE
         /\ npc' = (IF o.pc = "none" THEN npc ELSE Target(o))
         /\ loopTo' = (IF o.pc = "none" THEN after ELSE NoAddr)
         /\ ex' # "csr" /\ ~branch_taken_ex'
         /\ ctrl_fsm_cs' = o.ns /\ jump_done_q' = o.jumpDone /\ debug_mode_q' = debug_mode_q
         /\ illegal_insn_q' = o.illegalN /\ debug_req_entry_q' = FALSE
         /\ debug_force_wakeup_q' = FALSE /\ hwlp_end_4_id_q' = o.end4
<1> USE DEF Edge, CoreInv
<1>1. /\ fetch_enable_q /\ due \in Addr /\ npc \in Addr /\ ex # "csr"
      /\ ~debug_req_entry_q /\ ~debug_force_wakeup_q
      /\ ~branch_taken_ex /\ instr_valid_id
  BY DueInId DEF ClockRuns, ClockEn, NothingFirst
<1>2. /\ ~Issues(in, o) /\ PipelineClock(in, o, Target(o))
      /\ ~IfAccepts(in, o) /\ ~ClearInstrValid(in, o)
  BY <1>1 DEF Issues, GatedClock, IfAccepts, ClearInstrValid, Decodes
<1>3. /\ npc' = (IF o.pc = "none" THEN npc ELSE Target(o))
      /\ loopTo' = (IF o.pc = "none" THEN after ELSE NoAddr)
      /\ pc_id' = pc_id /\ insn_id' = insn_id /\ instr_valid_id' = TRUE
      /\ ex' = (IF in.ready # "stall" THEN "none" ELSE IF ex = "csr" THEN "insn" ELSE ex)
  BY <1>1, <1>2 DEF PipelineClock, StreamClock, IfIdClock, IdExClock
<1>4. ex' # "csr" /\ ~branch_taken_ex' /\ ex' \in {"none", "insn", "mem", "nottaken"}
  BY <1>1, <1>3, ExGoesOn DEF TypeOK
<1>5. UNCHANGED trapCsrVars
  BY <1>1, CsrsStand DEF GatedClock, Decodes
<1>6. UNCHANGED history
  BY <1>2 DEF GatedClock, HistoryClock, Decodes, Raises, Executes
<1>7. /\ ctrl_fsm_cs' = o.ns /\ jump_done_q' = o.jumpDone /\ debug_mode_q' = debug_mode_q
      /\ illegal_insn_q' = o.illegalN /\ debug_req_entry_q' = FALSE
      /\ debug_force_wakeup_q' = FALSE /\ hwlp_end_4_id_q' = o.end4
  BY <1>1 DEF GatedClock, CtrlClock, TypeOK, Decodes
<1>8. RestTyped' /\ hwlp_counter_q' = hwlp_counter_q
  BY <1>2, RestKept DEF Decodes
<1>9. TypeOK' /\ SetInv'
  <2>1. npc' \in Addr /\ loopTo' \in Addr \cup {NoAddr}
    BY <1>1, <1>3
  <2>2. SteeredTyped'
    BY <2>1, <1>3, <1>4, <1>5, <1>6, <1>7
    DEF TypeOK, SteeredTyped, CtrlStates, trapCsrVars, history
  <2> QED BY <2>2, <1>8 DEF TypeOK, RestTyped, SteeredTyped
<1>10. LeftCounts'
  BY <1>5, <1>6, <1>7 DEF LeftCounts, Stepped, trapCsrVars, history
<1>11. ClockInv'
  BY <1>1, <1>7, BusyClock DEF Decodes
<1>12. Hart!HartNext
  BY <1>1, <1>4, <1>5, <1>6, <1>7, <1>8, HartSteps DEF HartStands, history
<1> QED BY <1>3, <1>4, <1>6, <1>7, <1>8, <1>9, <1>10, <1>11, <1>12 DEF history

\* There it is decoded again; a jump goes first.
LEMMA HeldEdge ==
  ASSUME NEW in \in Inputs, NEW o, NEW s \in {"DECODE", "DECODE_HWLOOP"}, Edge(in, o, s),
         NothingFirst(in), Decodes(in, o), NoPulse(o), ~IdReady(in), o.ns = s,
         o.illegalN \in BOOLEAN, o.illegalN => illegal_insn,
         s = "DECODE_HWLOOP" => insn_id \notin Flows /\ o.illegalN = FALSE /\ o.pc = "none",
         \/ o.pc = "none" /\ o.jumpDone = jump_done_q
         \/ insn_id = "jump" /\ o.pc = "jump" /\ o.jumpDone = TRUE
  PROVE  CoreInv' /\ Hart!HartNext
<1>1. /\ ~branch_taken_ex /\ instr_valid_id /\ CoreInv /\ ctrl_fsm_cs = s
      /\ program' = program
  BY DEF NothingFirst, Edge
<1>2. /\ due = pc_id /\ due \in Addr /\ npc \in Addr /\ insn_id \in Program[pc_id]
      /\ left # 0
      /\ s = "DECODE" => loopTo = NoAddr /\ npc = (IF jump_done_q THEN JumpTo ELSE Sequel(due))
                         /\ (jump_done_q => insn_id = "jump")
      /\ s = "DECODE_HWLOOP" =>
           /\ Inside(due, hwlp_counter_q) /\ npc = After(due, hwlp_counter_q)
           /\ ~jump_done_q /\ loopTo = NoAddr
  BY <1>1, DueInId
<1>3. loopTo = NoAddr /\ ~o.hwlpJump /\ o.end4 = FALSE
  BY <1>2 DEF NoPulse
<1>4. o.pc = "jump" => Target(o) = JumpTo /\ JumpTo \in Addr
  BY AddrFacts DEF Target
<1>5. /\ TypeOK' /\ SetInv' /\ program' \in DOMAIN Programs /\ LeftCounts' /\ ClockInv'
      /\ Hart!HartNext
      /\ due' = due /\ left' = left /\ hwlp_counter_q' = hwlp_counter_q
      /\ pc_id' = pc_id /\ insn_id' = insn_id /\ instr_valid_id' = TRUE
      /\ npc' = (IF o.pc = "none" THEN npc ELSE Target(o)) /\ loopTo' = NoAddr
      /\ ex' # "csr" /\ ~branch_taken_ex'
      /\ ctrl_fsm_cs' = o.ns /\ jump_done_q' = o.jumpDone
      /\ illegal_insn_q' = o.illegalN /\ debug_req_entry_q' = FALSE
      /\ debug_force_wakeup_q' = FALSE /\ hwlp_end_4_id_q' = FALSE
  <2>1. o.jumpDone \in BOOLEAN
    BY <1>1 DEF CoreInv, TypeOK
  <2> QED BY <2>1, <1>3, <1>4, Held
<1>6. CASE s = "DECODE"
  <2>1. illegal_insn_q' => illegal_insn'
    <3>1. illegal_insn => insn_id = "illegal" \/ (insn_id = "dret" /\ ~debug_mode_q)
      BY DEF illegal_insn
    <3>2. debug_mode_q' = debug_mode_q
      BY DEF Edge, GatedClock, CtrlClock, Decodes
    <3> QED BY <3>2, <1>5 DEF illegal_insn
  <2>2. /\ npc' = (IF jump_done_q' THEN JumpTo ELSE Sequel(pc_id))
        /\ jump_done_q' => insn_id = "jump"
    BY <1>2, <1>4, <1>5, <1>6
  <2>3. InDecode'
    BY <2>1, <2>2, <1>1, <1>2, <1>4, <1>5 DEF InDecode, Program
  <2> QED BY <2>3, <1>5, <1>6 DEF CoreInv, StateInv
<1>7. CASE s = "DECODE_HWLOOP"
  <2>1. InHwloop'
    BY <1>1, <1>2, <1>5, <1>7 DEF InHwloop, Program
  <2> QED BY <2>1, <1>5, <1>7 DEF CoreInv, StateInv
<1> QED BY <1>6, <1>7

\* The instruction decoded leaves ID.
LEMMA Issued ==
  ASSUME NEW in \in Inputs, NEW o, NEW s \in {"DECODE", "DECODE_HWLOOP"}, Edge(in, o, s),
         NothingFirst(in), Decodes(in, o), IdReady(in), o.ns # "RESET",
         NEW after, after = (IF o.hwlpJump THEN o.target ELSE loopTo)
  PROVE  /\ Issues(in, o) /\ UNCHANGED trapCsrVars /\ ClockInv'
         /\ ctrl_fsm_cs' = o.ns /\ jump_done_q' = FALSE /\ debug_mode_q' = debug_mode_q
         /\ illegal_insn_q' = o.illegalN /\ debug_req_entry_q' = FALSE
         /\ debug_force_wakeup_q' = FALSE /\ hwlp_end_4_id_q' = o.end4
         /\ o.haltIf \/ o.pc # "none" =>
              /\ npc' = (IF o.pc = "none" THEN npc ELSE Target(o))
              /\ loopTo' = (IF o.pc = "none" THEN after ELSE NoAddr)
              /\ pc_id' = pc_id /\ insn_id' = insn_id /\ instr_valid_id' = FALSE
         /\ ~o.haltIf /\ o.pc = "none" =>
              \/ /\ npc' = (IF after # NoAddr THEN after ELSE Sequel(npc)) /\ loopTo' = NoAddr
                 /\ pc_id' = npc /\ insn_id' \in Program[npc] /\ instr_valid_id' = TRUE
              \/ /\ npc' = npc /\ loopTo' = after
                 /\ pc_id' = pc_id /\ insn_id' = insn_id /\ instr_valid_id' = FALSE
         /\ insn_id = "branch" => ex' \in {"taken", "nottaken"}
         /\ insn_id \in {"mem", "csr"} => ex' = insn_id
         /\ insn_id \notin {"branch", "mem", "csr"} => ex' = "insn"
<1> USE DEF Edge, CoreInv
<1>1. /\ fetch_enable_q /\ instr_valid_id /\ ~branch_taken_ex /\ ex # "csr"
      /\ ~debug_req_entry_q /\ ~debug_force_wakeup_q
  BY DueInId DEF ClockRuns, ClockEn, NothingFirst
<1>2. Issues(in, o) /\ PipelineClock(in, o, Target(o)) /\ ClearInstrValid(in, o)
  BY <1>1 DEF Issues, Decodes, GatedClock, ClearInstrValid
<1>3. UNCHANGED trapCsrVars /\ ClockInv'
  <2>1. ctrl_fsm_cs' # "RESET"
    BY DEF GatedClock, CtrlClock
  <2>2. UNCHANGED trapCsrVars
    BY <1>1, CsrsStand DEF GatedClock, Decodes
  <2> QED BY <1>1, <2>1, <2>2, BusyClock DEF Decodes
<1>4. /\ ctrl_fsm_cs' = o.ns /\ jump_done_q' = FALSE /\ debug_mode_q' = debug_mode_q
      /\ illegal_insn_q' = o.illegalN /\ debug_req_entry_q' = FALSE
      /\ debug_force_wakeup_q' = FALSE /\ hwlp_end_4_id_q' = o.end4
  BY <1>1 DEF GatedClock, CtrlClock, Decodes, TypeOK
<1>5. o.haltIf \/ o.pc # "none" =>
        /\ npc' = (IF o.pc = "none" THEN npc ELSE Target(o))
        /\ loopTo' = (IF o.pc = "none" THEN after ELSE NoAddr)
        /\ pc_id' = pc_id /\ insn_id' = insn_id /\ instr_valid_id' = FALSE
  BY <1>1, <1>2 DEF PipelineClock, StreamClock, IfIdClock, IfAccepts
<1>6. ~o.haltIf /\ o.pc = "none" =>
        \/ /\ npc' = (IF after # NoAddr THEN after ELSE Sequel(npc)) /\ loopTo' = NoAddr
           /\ pc_id' = npc /\ insn_id' \in Program[npc] /\ instr_valid_id' = TRUE
        \/ /\ npc' = npc /\ loopTo' = after
           /\ pc_id' = pc_id /\ insn_id' = insn_id /\ instr_valid_id' = FALSE
  <2> SUFFICES ASSUME ~o.haltIf, o.pc = "none"
      PROVE  \/ /\ npc' = (IF after # NoAddr THEN after ELSE Sequel(npc)) /\ loopTo' = NoAddr
                /\ pc_id' = npc /\ insn_id' \in Program[npc] /\ instr_valid_id' = TRUE
             \/ /\ npc' = npc /\ loopTo' = after
                /\ pc_id' = pc_id /\ insn_id' = insn_id /\ instr_valid_id' = FALSE
    OBVIOUS
  <2>1. instr_valid_id \in BOOLEAN
    BY DEF TypeOK
  <2> HIDE DEF Edge, CoreInv
  <2>2. program \in DOMAIN Programs
    BY DEF Edge, CoreInv
  <2> QED BY <2>1, <2>2, <1>2, Hands
<1>7. /\ insn_id = "branch" => ex' \in {"taken", "nottaken"}
      /\ insn_id \in {"mem", "csr"} => ex' = insn_id
      /\ insn_id \notin {"branch", "mem", "csr"} => ex' = "insn"
  BY <1>2 DEF PipelineClock, IdExClock
<1> QED BY <1>2, <1>3, <1>4, <1>5, <1>6, <1>7

\* What an instruction that leaves ID and is executed counts for.
LEMMA CountsOneLess ==
  ASSUME TypeOK, LeftCounts, left # 0
  PROVE  /\ OneLess \in 0 .. 2 /\ (OneLess = 2 <=> left = 2)
         /\ OneLess = IF Stepped THEN 0 ELSE 2
  BY DEF TypeOK, LeftCounts, OneLess

\* What it makes due, what it counts, and that this is a step of HartSpec.
LEMMA IsExecuted ==
  ASSUME NEW in \in Inputs, NEW o, NEW s \in {"DECODE", "DECODE_HWLOOP"}, Edge(in, o, s),
         NothingFirst(in), Decodes(in, o), IdReady(in), o.ns # "RESET", o.dec = Ends,
         insn_id \in {"alu", "mem", "wfi", "fencei", "csr", "jump", "branch", "setup"}
  PROVE  /\ left' = OneLess /\ left' \in 0 .. 2
         /\ due' = (IF insn_id = "jump" THEN JumpTo
                    ELSE IF insn_id = "branch" /\ ex' = "taken" THEN BranchTo
                    ELSE After(due, hwlp_counter_q))
         /\ due' \in Addr
         /\ RestTyped' /\ hwlp_counter_q' \in [Loops -> Nat]
         /\ \A k \in Loops \ SetUpAt(due) :
              hwlp_counter_q'[k] = Counted(due, hwlp_counter_q)[k]
         /\ insn_id # "setup" => hwlp_counter_q' = Counted(due, hwlp_counter_q)
         /\ Hart!HartNext
<1>1. /\ Issues(in, o) /\ UNCHANGED trapCsrVars /\ debug_mode_q' = debug_mode_q
      /\ insn_id = "branch" => ex' \in {"taken", "nottaken"}
      /\ insn_id \in {"mem", "csr"} => ex' = insn_id
      /\ insn_id \notin {"branch", "mem", "csr"} => ex' = "insn"
  BY Issued
<1> USE DEF Edge, CoreInv
<1>2. /\ due = pc_id /\ due \in Addr /\ insn_id \in Program[due] /\ left # 0 /\ ex # "csr"
      /\ instr_valid_id /\ hwlp_counter_q \in [Loops -> Nat]
  BY DueInId, Comparators DEF NothingFirst
<1>3. Executes(in, o) /\ ~o.irqAck /\ ~Raises(o)
  BY <1>1 DEF Executes, illegal_insn, Decodes, Raises
<1>4. /\ left' = OneLess
      /\ due' = CASE insn_id = "jump" -> JumpTo
                  [] insn_id = "branch" /\ ex' = "taken" -> BranchTo
                  [] insn_id = "branch" /\ ex' = "nottaken" -> Sequel(due)
                  [] OTHER -> After(due, hwlp_counter_q)
  BY <1>3 DEF GatedClock, HistoryClock
<1>5. insn_id \in {"jump", "branch"} =>
        /\ After(due, hwlp_counter_q) = Sequel(due)
        /\ Counted(due, hwlp_counter_q) = hwlp_counter_q
  BY <1>2, OutsideLoops DEF BodyKinds
<1>6. due' = (IF insn_id = "jump" THEN JumpTo
              ELSE IF insn_id = "branch" /\ ex' = "taken" THEN BranchTo
              ELSE After(due, hwlp_counter_q))
  <2>1. CASE insn_id = "jump"
    BY <2>1, <1>4
  <2>2. CASE insn_id = "branch"
    <3>1. CASE ex' = "taken"
      BY <2>2, <3>1, <1>4
    <3>2. CASE ex' = "nottaken"
      BY <2>2, <3>2, <1>4, <1>5
    <3> QED BY <2>2, <3>1, <3>2, <1>1
  <2>3. CASE insn_id \notin {"jump", "branch"}
    BY <2>3, <1>4
  <2> QED BY <2>1, <2>2, <2>3
<1>7. due' \in Addr /\ left' \in 0 .. 2
  <2>1. After(due, hwlp_counter_q) \in Addr
    BY <1>2, AfterLast
  <2> QED BY <2>1, <1>2, <1>4, <1>6, AddrFacts, CountsOneLess
<1>8. PICK n \in Counts :
        hwlp_counter_q' = [k \in Loops |-> IF insn_id = "setup" /\ k \in SetUpAt(due) THEN n
                                           ELSE Counted(due, hwlp_counter_q)[k]]
  BY <1>2, LoopsCount DEF Decodes
<1>9. RestTyped' /\ hwlp_counter_q' \in [Loops -> Nat]
  <2>1. RestTyped'
    BY <1>2, LoopsCount DEF Decodes
  <2> QED BY <2>1 DEF RestTyped
<1>10. \A k \in Loops \ SetUpAt(due) : hwlp_counter_q'[k] = Counted(due, hwlp_counter_q)[k]
  BY <1>8
<1>11. insn_id # "setup" => hwlp_counter_q' = Counted(due, hwlp_counter_q)
  BY <1>8 DEF Counted
<1>12. Hart!Executes(insn_id)
  BY <1>2, <1>4, HartOps, AddrFacts DEF Hart!Executes, OneLess
<1>13. Hart!HartNext
  <2>1. insn_id \in Kinds
    BY DEF TypeOK
  <2>2. CASE insn_id \in {"jump", "branch"}
    <3>1. hwlp_counter_q' = hwlp_counter_q /\ (ex' = "csr" <=> ex = "csr")
      BY <2>2, <1>1, <1>2, <1>5, <1>11
    <3>2. due' = JumpTo \/ due' \in {BranchTo, Sequel(due)}
      BY <2>2, <1>5, <1>6
    <3>3. insn_id = "jump" => due' = JumpTo
      BY <1>6
    <3>4. insn_id = "branch" => due' \in {BranchTo, Sequel(due)}
      BY <1>5, <1>6
    <3>5. Hart!Transfer(insn_id)
      BY <2>2, <3>1, <3>3, <3>4, <1>1, <1>12, HartOps
      DEF Hart!Transfer, Hart!trapCsrs, Hart!dbgCsrs, trapCsrVars
    <3> QED BY <2>1, <3>5, HartSteps
  <2>3. CASE insn_id \in {"alu", "mem", "wfi", "fencei", "csr"}
    <3>1. ex' = "csr" <=> insn_id = "csr"
      BY <2>3, <1>1
    <3>2. Hart!Compute(insn_id)
      BY <2>3, <3>1, <1>1, <1>6, <1>11, <1>12, HartOps
      DEF Hart!Compute, Hart!trapCsrs, Hart!dbgCsrs, trapCsrVars
    <3> QED BY <2>1, <3>2, HartSteps
  <2>4. CASE insn_id = "setup"
    <3>1. hwlp_counter_q' = [k \in Loops |-> IF k \in SetUpAt(due) THEN n
                                             ELSE Counted(due, hwlp_counter_q)[k]]
      BY <2>4, <1>8
    <3>2. Hart!SetUp
      BY <2>4, <3>1, <1>1, <1>2, <1>6, <1>12, HartOps
      DEF Hart!SetUp, Hart!trapCsrs, Hart!dbgCsrs, trapCsrVars
    <3> QED BY <3>2, HartSteps
  <2> QED BY <2>2, <2>3, <2>4
<1> QED BY <1>4, <1>6, <1>7, <1>9, <1>10, <1>11, <1>13

\* The others leave ID unexecuted: what they do is done at the end of the flush.
LEMMA IsDeferred ==
  ASSUME NEW in \in Inputs, NEW o, NEW s \in {"DECODE", "DECODE_HWLOOP"}, Edge(in, o, s),
         NothingFirst(in), Decodes(in, o), IdReady(in), o.ns # "RESET", o.dec = {},
         illegal_insn \/ insn_id \in {"ecall", "ebreak", "mret", "dret"}
  PROVE  /\ UNCHANGED history /\ ex' = "insn"
         /\ RestTyped' /\ hwlp_counter_q' = hwlp_counter_q
         /\ Hart!HartNext
<1>1. /\ UNCHANGED trapCsrVars /\ debug_mode_q' = debug_mode_q
      /\ insn_id \notin {"branch", "mem", "csr"} => ex' = "insn"
  BY Issued
<1> USE DEF Edge, CoreInv
<1>2. ex # "csr"
  BY DueInId DEF NothingFirst
<1>3. UNCHANGED history
  BY DEF GatedClock, HistoryClock, Decodes, Raises, Executes
<1>4. ex' = "insn"
  BY <1>1 DEF illegal_insn
<1>5. RestTyped' /\ hwlp_counter_q' = hwlp_counter_q
  <2>1. insn_id # "setup"
    BY DEF illegal_insn
  <2> QED BY <2>1, RestKept DEF Decodes
<1> QED BY <1>1, <1>2, <1>3, <1>4, <1>5, HartSteps DEF HartStands, history

\* The types and the count of a state after an instruction has left ID.
LEMMA IssuedTyped ==
  ASSUME NEW in \in Inputs, NEW o, NEW s \in {"DECODE", "DECODE_HWLOOP"}, Edge(in, o, s),
         NothingFirst(in), Decodes(in, o), IdReady(in), o.ns # "RESET",
         o.ns \in CtrlStates, o.illegalN \in BOOLEAN, RestTyped',
         npc' \in Addr, loopTo' \in Addr \cup {NoAddr},
         pc_id' \in Addr, insn_id' \in Kinds, instr_valid_id' \in BOOLEAN,
         due' \in Addr, left' \in 0 .. 2, left' = 2 <=> left = 2
  PROVE  TypeOK' /\ SetInv' /\ program' \in DOMAIN Programs /\ LeftCounts' /\ ClockInv'
<1>1. /\ UNCHANGED trapCsrVars /\ ClockInv'
      /\ ctrl_fsm_cs' = o.ns /\ jump_done_q' = FALSE /\ debug_mode_q' = debug_mode_q
      /\ illegal_insn_q' = o.illegalN /\ debug_req_entry_q' = FALSE
      /\ debug_force_wakeup_q' = FALSE
      /\ insn_id = "branch" => ex' \in {"taken", "nottaken"}
      /\ insn_id \in {"mem", "csr"} => ex' = insn_id
      /\ insn_id \notin {"branch", "mem", "csr"} => ex' = "insn"
  BY Issued
<1> USE DEF Edge, CoreInv
<1>2. ex' \in {"none", "insn", "mem", "csr", "taken", "nottaken"}
  BY <1>1
<1>3. SteeredTyped'
  BY <1>1, <1>2 DEF TypeOK, SteeredTyped, trapCsrVars
<1>4. TypeOK' /\ SetInv'
  BY <1>1, <1>3 DEF TypeOK, RestTyped, SteeredTyped
<1>5. LeftCounts'
  BY <1>1 DEF LeftCounts, Stepped, trapCsrVars
<1> QED BY <1>1, <1>4, <1>5

\* Outside the loops no instruction ends an iteration.
LEMMA NoEnds ==
  ASSUME TypeOK, program \in DOMAIN Programs, insn_id \in Program[pc_id],
         insn_id \notin BodyKinds
  PROVE  Ends = {}
<1>1. \A k \in Loops : ~IsLast(k, pc_id)
  BY OutsideLoops DEF TypeOK
<1> QED BY <1>1 DEF Ends, AtLast

\* A loop is not over when its last instruction has counted, if it is repeated.
LEMMA CountedEnds ==
  ASSUME NEW a \in Addr, NEW lp \in [Loops -> Nat]
  PROVE  (\E k \in Loops : IsLast(k, a) /\ Counted(a, lp)[k] # 0) <=> JumpsBack(a, lp) # {}
<1>1. ASSUME NEW k \in Loops, IsLast(k, a)
      PROVE  Counted(a, lp)[k] # 0 <=> lp[k] > 1
  <2>1. lp[k] \in Nat
    OBVIOUS
  <2>2. Counted(a, lp)[k] = IF lp[k] > 0 THEN lp[k] - 1 ELSE lp[k]
    BY <1>1 DEF Counted
  <2> QED BY <2>1, <2>2
<1> QED BY <1>1 DEF JumpsBack

\* An illegal instruction is flushed for, to raise an exception.
LEMMA IllegalEdge ==
  ASSUME NEW in \in Inputs, NEW o, Edge(in, o, "DECODE"),
         NothingFirst(in), illegal_insn
  PROVE  CoreInv' /\ Hart!HartNext
<1>1. /\ Decodes(in, o) /\ NoPulse(o) /\ o.dec = {} /\ o.haltIf /\ o.pc = "none"
      /\ o.jumpDone = jump_done_q /\ o.illegalN = TRUE
      /\ o.ns = (IF IdReady(in) THEN "FLUSH_EX" ELSE "DECODE")
  BY DecodesIllegal DEF Edge, CoreInv
<1>2. CASE ~IdReady(in)
  BY <1>1, <1>2, HeldEdge
<1>3. CASE IdReady(in)
  <2>1. /\ due = pc_id /\ due \in Addr /\ npc \in Addr /\ insn_id \in Program[due]
        /\ left # 0 /\ loopTo = NoAddr
    BY DueInId DEF Edge, NothingFirst
  <2>2. /\ ctrl_fsm_cs' = "FLUSH_EX" /\ jump_done_q' = FALSE /\ debug_mode_q' = debug_mode_q
        /\ illegal_insn_q' = TRUE /\ debug_req_entry_q' = FALSE
        /\ debug_force_wakeup_q' = FALSE /\ loopTo' = NoAddr
        /\ npc' = npc /\ pc_id' = pc_id /\ insn_id' = insn_id /\ instr_valid_id' = FALSE
    BY <1>1, <1>3, <2>1, Issued DEF NoPulse
  <2>3. /\ due' = due /\ left' = left /\ ex' = "insn" /\ RestTyped' /\ Hart!HartNext
    BY <1>1, <1>3, IsDeferred DEF history
  <2>4. TypeOK' /\ SetInv' /\ program' \in DOMAIN Programs /\ LeftCounts' /\ ClockInv'
    <3>1. insn_id' \in Kinds /\ left' \in 0 .. 2
      BY <2>2, <2>3 DEF Edge, CoreInv, TypeOK
    <3> QED BY <1>1, <1>3, <2>1, <2>2, <2>3, <3>1, IssuedTyped DEF CtrlStates
  <2>5. StateInv'
    <3>1. Flushing'
      BY <2>1, <2>2, <2>3 DEF Flushing, branch_taken_ex, Edge, Program
    <3>2. illegal_insn'
      BY <2>2 DEF illegal_insn
    <3>3. Flushed'
      BY <2>2, <3>2 DEF Flushed, Raising, Returning, Executed, illegal_insn
    <3>4. InFlushEx'
      BY <2>1, <2>2, <2>3, <3>1, <3>3 DEF InFlushEx
    <3> QED BY <2>2, <3>4 DEF StateInv
  <2> QED BY <2>3, <2>4, <2>5 DEF CoreInv
<1> QED BY <1>2, <1>3

\* In a loop it does not go on to EX, and the flush starts at once.
LEMMA HwloopIllegalEdge ==
  ASSUME NEW in \in Inputs, NEW o, Edge(in, o, "DECODE_HWLOOP"),
         NothingFirst(in), illegal_insn
  PROVE  CoreInv' /\ Hart!HartNext
<1> USE DEF Edge, CoreInv
<1>1. /\ o.haltIf /\ o.haltId /\ ~o.irqAck /\ NoPulse(o) /\ o.dec = {}
      /\ SavesNothing(o) /\ o.busy /\ o.pc = "none" /\ o.ns = "FLUSH_EX"
      /\ o.jumpDone = jump_done_q /\ o.debugN = debug_mode_q
      /\ o.illegalN = TRUE
      /\ o.entryN = debug_req_entry_q /\ o.wakeN = debug_force_wakeup_q
  BY HwloopIllegal
<1>2. /\ fetch_enable_q /\ due = pc_id /\ due \in Addr /\ npc \in Addr
      /\ insn_id \in Program[pc_id] /\ left # 0 /\ ex # "csr" /\ ~branch_taken_ex
      /\ loopTo = NoAddr /\ ~jump_done_q /\ ~debug_req_entry_q /\ ~debug_force_wakeup_q
  BY DueInId DEF ClockRuns, ClockEn, NothingFirst, illegal_insn, Flows
<1>3. ~Issues(in, o) /\ PipelineClock(in, o, Target(o))
  BY <1>1 DEF Issues, GatedClock
<1>4. /\ loopTo' = NoAddr /\ npc' = npc /\ pc_id' = pc_id /\ insn_id' = insn_id
      /\ instr_valid_id' = FALSE
      /\ ex' = (IF in.ready # "stall" THEN "none" ELSE IF ex = "csr" THEN "insn" ELSE ex)
  BY <1>1, <1>2, <1>3, Stands DEF TypeOK, ClearInstrValid, NoPulse
<1>5. UNCHANGED trapCsrVars
  BY <1>1, <1>2, CsrsStand DEF GatedClock
<1>6. UNCHANGED history
  BY <1>1, <1>3 DEF GatedClock, HistoryClock, Raises, Executes
<1>7. /\ ctrl_fsm_cs' = "FLUSH_EX" /\ jump_done_q' = FALSE
      /\ debug_mode_q' = debug_mode_q /\ illegal_insn_q' = TRUE
      /\ debug_req_entry_q' = FALSE /\ debug_force_wakeup_q' = FALSE
  BY <1>1, <1>2 DEF GatedClock, CtrlClock, TypeOK
<1>8. RestTyped' /\ hwlp_counter_q' = hwlp_counter_q
  <2>1. insn_id # "setup"
    BY DEF illegal_insn
  <2> QED BY <1>1, <2>1, RestKept DEF NoPulse
<1>9. ex' # "csr" /\ ~branch_taken_ex' /\ ex' \in {"none", "insn", "mem", "nottaken"}
  BY <1>2, <1>4, ExGoesOn DEF TypeOK
<1>10. TypeOK' /\ SetInv'
  <2>1. SteeredTyped'
    BY <1>4, <1>5, <1>6, <1>7, <1>9
    DEF TypeOK, SteeredTyped, CtrlStates, trapCsrVars, history
  <2> QED BY <2>1, <1>8 DEF TypeOK, RestTyped, SteeredTyped
<1>11. LeftCounts'
  BY <1>5, <1>6, <1>7 DEF LeftCounts, Stepped, trapCsrVars, history
<1>12. ClockInv'
  BY <1>1, <1>2, <1>7, BusyClock
<1>13. StateInv'
  <2>1. Flushing'
    BY <1>2, <1>4, <1>6, <1>7, <1>9 DEF Flushing, Program, history
  <2>2. illegal_insn'
    BY <1>4, <1>7 DEF illegal_insn
  <2>3. Flushed'
    BY <1>4, <1>7, <2>2 DEF Flushed, Raising, Returning, Executed, illegal_insn
  <2>4. InFlushEx'
    BY <1>2, <1>4, <1>6, <1>7, <1>9, <2>1, <2>3 DEF InFlushEx, history
  <2> QED BY <1>4, <1>7, <2>4 DEF StateInv
<1>14. Hart!HartNext
  BY <1>2, <1>5, <1>6, <1>7, <1>8, <1>9, HartSteps DEF HartStands, history
<1> QED BY <1>10, <1>11, <1>12, <1>13, <1>14

\* A jump redirects the fetch once, before or when it leaves ID.
LEMMA JumpEdge ==
  ASSUME NEW in \in Inputs, NEW o, Edge(in, o, "DECODE"),
         NothingFirst(in), insn_id = "jump"
  PROVE  CoreInv' /\ Hart!HartNext
<1>1. /\ Decodes(in, o) /\ NoPulse(o) /\ o.dec = {}
      /\ (o.haltIf <=> Stepped) /\ o.illegalN = FALSE
      /\ IF ~in.jr /\ ~jump_done_q THEN o.pc = "jump" /\ o.jumpDone = TRUE
         ELSE o.pc = "none" /\ o.jumpDone = jump_done_q
      /\ o.ns = (IF IdReady(in) /\ Stepped THEN "DBG_FLUSH" ELSE "DECODE")
  BY DecodesJump DEF Edge, CoreInv
<1>2. CASE ~IdReady(in)
  BY <1>1, <1>2, HeldEdge
<1>3. CASE IdReady(in)
  <2>1. /\ due = pc_id /\ due \in Addr /\ npc \in Addr /\ insn_id \in Program[due]
        /\ left # 0 /\ loopTo = NoAddr
        /\ npc = (IF jump_done_q THEN JumpTo ELSE Sequel(due))
    BY DueInId DEF Edge, NothingFirst
  <2>2. /\ UNCHANGED trapCsrVars
        /\ ctrl_fsm_cs' = o.ns /\ jump_done_q' = FALSE /\ debug_mode_q' = debug_mode_q
        /\ illegal_insn_q' = FALSE /\ debug_req_entry_q' = FALSE
        /\ debug_force_wakeup_q' = FALSE /\ ex' = "insn"
        /\ o.haltIf \/ o.pc # "none" =>
             /\ npc' = (IF o.pc = "none" THEN npc ELSE Target(o)) /\ loopTo' = NoAddr
             /\ pc_id' = pc_id /\ insn_id' = insn_id /\ instr_valid_id' = FALSE
        /\ ~o.haltIf /\ o.pc = "none" =>
             \/ /\ npc' = Sequel(npc) /\ loopTo' = NoAddr /\ pc_id' = npc
                /\ insn_id' \in Program[npc] /\ instr_valid_id' = TRUE
             \/ /\ npc' = npc /\ loopTo' = NoAddr
                /\ pc_id' = pc_id /\ insn_id' = insn_id /\ instr_valid_id' = FALSE
    BY <1>1, <1>3, <2>1, Issued DEF NoPulse
  <2>3. /\ left' = OneLess /\ due' = JumpTo /\ due' \in Addr /\ left' \in 0 .. 2
        /\ RestTyped' /\ Hart!HartNext
    <3>1. Ends = {}
      BY <2>1, NoEnds DEF Edge, CoreInv, BodyKinds
    <3> QED BY <1>1, <1>3, <3>1, IsExecuted
  <2>4. /\ loopTo' = NoAddr
        /\ \/ npc' = JumpTo /\ pc_id' = pc_id /\ insn_id' = insn_id /\ instr_valid_id' = FALSE
           \/ /\ npc' = Sequel(JumpTo) /\ pc_id' = JumpTo
              /\ insn_id' \in Program[JumpTo] /\ instr_valid_id' = TRUE
        /\ Stepped => pc_id' = pc_id /\ npc' = JumpTo /\ instr_valid_id' = FALSE
                      /\ insn_id' = insn_id
    <3>1. ~in.jr
      BY <1>3, InputFacts DEF IdReady, Edge, CoreInv
    <3>2. CASE ~jump_done_q
      <4>1. o.pc = "jump" /\ Target(o) = JumpTo
        BY <1>1, <3>1, <3>2 DEF Target
      <4> QED BY <4>1, <2>2
    <3>3. CASE jump_done_q
      BY <1>1, <2>1, <2>2, <3>3
    <3> QED BY <3>2, <3>3
  <2>5. (left' = 2 <=> left = 2) /\ left' = IF Stepped THEN 0 ELSE 2
    BY <2>1, <2>3, CountsOneLess DEF Edge, CoreInv
  <2>6. TypeOK' /\ SetInv' /\ program' \in DOMAIN Programs /\ LeftCounts' /\ ClockInv'
    <3>1. /\ npc' \in Addr /\ pc_id' \in Addr /\ insn_id' \in Kinds
          /\ instr_valid_id' \in BOOLEAN
      BY <2>1, <2>4, AddrFacts, ProgramKinds DEF Edge, CoreInv, TypeOK
    <3> QED BY <1>1, <1>3, <2>3, <2>4, <2>5, <3>1, IssuedTyped DEF CtrlStates
  <2>7. StateInv'
    <3>1. CASE Stepped
      <4>1. /\ ~debug_mode_q /\ ~trigger_match
        BY <3>1 DEF Stepped, NothingFirst, MustHalt
      <4>2. SteppedOver' /\ ~InsteadOfId'
        BY <3>1, <4>1, <2>2, <2>4, <2>5
        DEF SteppedOver, Stepped, InsteadOfId, ForcedEbreak, trigger_match, trapCsrVars
      <4>3. InDbgFlush'
        BY <3>1, <4>2, <2>2, <2>3, <2>4 DEF InDbgFlush, branch_taken_ex
      <4> QED BY <1>1, <1>3, <3>1, <4>3, <2>2, <2>4 DEF StateInv
    <3>2. CASE ~Stepped
      <4>1. InDecode'
        BY <3>2, <2>2, <2>3, <2>4, <2>5, AddrFacts
        DEF InDecode, branch_taken_ex, Edge, Program
      <4> QED BY <1>1, <3>2, <4>1, <2>2, <2>4 DEF StateInv
    <3> QED BY <3>1, <3>2
  <2> QED BY <2>3, <2>6, <2>7 DEF CoreInv
<1> QED BY <1>2, <1>3

\* ebreak that enters debug mode, or starts it over.
LEMMA ForcedEbreakEdge ==
  ASSUME NEW in \in Inputs, NEW o, NEW s \in {"DECODE", "DECODE_HWLOOP"}, Edge(in, o, s),
         NothingFirst(in), insn_id = "ebreak", debug_mode_q \/ ForcedEbreak
  PROVE  CoreInv' /\ Hart!HartNext
<1> USE DEF Edge, CoreInv
<1>1. /\ Decodes(in, o) /\ NoPulse(o) /\ o.dec = {}
      /\ o.haltIf /\ o.illegalN = FALSE /\ o.pc = "none"
      /\ o.jumpDone = jump_done_q /\ o.ns = "DBG_FLUSH"
  BY DecodesForcedEbreak
<1>2. /\ fetch_enable_q /\ due = pc_id /\ due \in Addr /\ npc \in Addr
      /\ insn_id \in Program[pc_id] /\ left # 0 /\ ex # "csr" /\ ~jump_done_q
      /\ ~branch_taken_ex /\ loopTo = NoAddr /\ ~debug_req_entry_q /\ ~debug_force_wakeup_q
  BY DueInId DEF ClockRuns, ClockEn, NothingFirst, Flows
<1>3. PipelineClock(in, o, Target(o)) /\ ~IfAccepts(in, o)
  BY <1>1 DEF GatedClock, IfAccepts
<1>4. /\ loopTo' = NoAddr /\ npc' = npc /\ pc_id' = pc_id /\ insn_id' = insn_id
      /\ instr_valid_id' \in BOOLEAN
  BY <1>1, <1>2, <1>3 DEF NoPulse, PipelineClock, StreamClock, IfIdClock, TypeOK
<1>5. ex' # "csr" /\ ~branch_taken_ex' /\ ex' \in {"none", "insn", "mem", "nottaken"}
  <2>1. \/ ex' = "insn"
        \/ ex' = (IF in.ready # "stall" THEN "none" ELSE IF ex = "csr" THEN "insn" ELSE ex)
    BY <1>3 DEF PipelineClock, IdExClock
  <2>2. CASE ex' = "insn"
    BY <2>2 DEF branch_taken_ex
  <2> QED BY <2>1, <2>2, <1>2, ExGoesOn DEF TypeOK
<1>6. UNCHANGED trapCsrVars
  BY <1>1, <1>2, CsrsStand DEF GatedClock, Decodes
<1>7. UNCHANGED history
  BY <1>1 DEF GatedClock, HistoryClock, Decodes, Raises, Executes
<1>8. /\ ctrl_fsm_cs' = "DBG_FLUSH" /\ jump_done_q' \in BOOLEAN
      /\ debug_mode_q' = debug_mode_q /\ illegal_insn_q' = FALSE
      /\ debug_req_entry_q' = FALSE /\ debug_force_wakeup_q' = FALSE
  BY <1>1, <1>2 DEF GatedClock, CtrlClock, TypeOK, Decodes
<1>9. RestTyped' /\ hwlp_counter_q' = hwlp_counter_q
  BY <1>1, RestKept DEF Decodes
<1>10. TypeOK' /\ SetInv'
  <2>1. SteeredTyped'
    BY <1>2, <1>4, <1>5, <1>6, <1>7, <1>8
    DEF TypeOK, SteeredTyped, CtrlStates, trapCsrVars, history
  <2> QED BY <2>1, <1>9 DEF TypeOK, RestTyped, SteeredTyped
<1>11. LeftCounts'
  BY <1>6, <1>7, <1>8 DEF LeftCounts, Stepped, trapCsrVars, history
<1>12. ClockInv'
  BY <1>1, <1>2, <1>8, BusyClock DEF Decodes
<1>13. StateInv'
  <2>1. InsteadOfId'
    BY <1>4, <1>6, <1>8 DEF InsteadOfId, ForcedEbreak, trapCsrVars
  <2>2. EntersForId'
    BY <2>1, <1>2, <1>4, <1>7, <1>8 DEF EntersForId, history, Program
  <2>3. InDbgFlush'
    BY <2>2, <1>2, <1>4, <1>5, <1>7, <1>8 DEF InDbgFlush, history
  <2> QED BY <2>3, <1>4, <1>8 DEF StateInv
<1>14. Hart!HartNext
  BY <1>2, <1>5, <1>6, <1>7, <1>8, <1>9, HartSteps DEF HartStands, history
<1> QED BY <1>10, <1>11, <1>12, <1>13, <1>14

\* What is flushed for leaves ID alone; a stepped one goes on to debug entry.
LEMMA FlushedEdge ==
  ASSUME NEW in \in Inputs, NEW o, NEW s \in {"DECODE", "DECODE_HWLOOP"}, Edge(in, o, s),
         NothingFirst(in), FlushKinds(in), CsrLoopEnds
  PROVE  CoreInv' /\ Hart!HartNext
<1> DEFINE later == insn_id \in {"ecall", "ebreak", "mret", "dret"}
           done == insn_id \in {"csr", "wfi", "fencei"}
           lp == hwlp_counter_q
<1>1. /\ Decodes(in, o) /\ NoPulse(o) /\ o.haltIf /\ o.illegalN = FALSE /\ o.pc = "none"
      /\ o.jumpDone = jump_done_q
      /\ o.dec = (IF insn_id = "csr" /\ IdReady(in)
                  THEN {k \in Loops : AtLast(k, pc_id)} ELSE {})
      /\ o.ns = (IF ~IdReady(in) THEN s
                 ELSE IF Stepped /\ insn_id \in {"fencei", "csr"} THEN "DBG_FLUSH"
                 ELSE "FLUSH_EX")
  BY DecodesFlushed DEF Edge, CoreInv
<1>2. later \/ done
  BY DEF FlushKinds, wfi_active
<1>3. CASE ~IdReady(in)
  BY <1>1, <1>2, <1>3, HeldEdge DEF Flows
<1>4. CASE IdReady(in)
  <2>1. /\ due = pc_id /\ due \in Addr /\ npc \in Addr /\ insn_id \in Program[due]
        /\ left # 0 /\ loopTo = NoAddr /\ npc \in {Sequel(due), After(due, lp)}
    BY <1>2, DueInId DEF Edge, NothingFirst, Flows
  <2>2. /\ UNCHANGED trapCsrVars
        /\ ctrl_fsm_cs' = o.ns /\ jump_done_q' = FALSE /\ debug_mode_q' = debug_mode_q
        /\ illegal_insn_q' = FALSE /\ debug_req_entry_q' = FALSE
        /\ debug_force_wakeup_q' = FALSE /\ loopTo' = NoAddr
        /\ npc' = npc /\ pc_id' = pc_id /\ insn_id' = insn_id /\ instr_valid_id' = FALSE
        /\ ex' = IF insn_id = "csr" THEN "csr" ELSE "insn"
    <3>1. /\ insn_id \in {"mem", "csr"} => ex' = insn_id
          /\ insn_id \notin {"branch", "mem", "csr"} => ex' = "insn"
      BY <1>1, <1>4, Issued
    <3> QED BY <1>1, <1>2, <1>4, <2>1, <3>1, Issued DEF NoPulse
  <2>3. done => o.dec = Ends
    <3>1. CASE insn_id = "csr"
      <4>1. \A k \in Loops : AtLast(k, pc_id) => lp[k] # 0
        BY <3>1 DEF CsrLoopEnds, NothingFirst
      <4> QED BY <1>1, <1>4, <3>1, <4>1 DEF Ends
    <3>2. CASE insn_id \in {"wfi", "fencei"}
      BY <1>1, <2>1, <3>2, NoEnds DEF Edge, CoreInv, BodyKinds
    <3> QED BY <3>1, <3>2
  <2>4. /\ later => UNCHANGED history
        /\ done => left' = OneLess /\ due' = After(due, lp) /\ lp' = Counted(due, lp)
        /\ RestTyped' /\ Hart!HartNext /\ due' \in Addr
    <3>1. CASE later
      BY <1>1, <1>4, <2>1, <3>1, IsDeferred DEF history
    <3>2. CASE done
      BY <1>1, <1>4, <2>3, <3>2, IsExecuted
    <3> QED BY <1>2, <3>1, <3>2
  <2>5. OneLess \in 0 .. 2 /\ (OneLess = 2 <=> left = 2) /\ OneLess = IF Stepped THEN 0 ELSE 2
    BY <2>1, CountsOneLess DEF Edge, CoreInv
  <2>6. left' \in 0 .. 2 /\ (left' = 2 <=> left = 2)
    BY <1>2, <2>4, <2>5 DEF history, Edge, CoreInv, TypeOK
  <2>7. TypeOK' /\ SetInv' /\ program' \in DOMAIN Programs /\ LeftCounts' /\ ClockInv'
    <3>1. npc' \in Addr /\ pc_id' \in Addr /\ insn_id' \in Kinds
      BY <2>1, <2>2 DEF Edge, CoreInv, TypeOK
    <3> QED BY <1>1, <1>4, <2>2, <2>4, <2>6, <3>1, IssuedTyped DEF CtrlStates
  <2>8. JumpsBack(due, lp) = {} => npc = After(due, lp) /\ npc = Sequel(due)
    BY <2>1, AfterLast
  <2>9. StateInv'
    <3>1. CASE Stepped /\ insn_id \in {"fencei", "csr"}
      <4>1. ~debug_mode_q /\ ~trigger_match
        BY <3>1 DEF Stepped, NothingFirst, MustHalt
      <4>2. SteppedOver' /\ ~InsteadOfId'
        BY <3>1, <4>1, <2>2, <2>4, <2>5
        DEF SteppedOver, Stepped, InsteadOfId, ForcedEbreak, trigger_match, trapCsrVars
      <4>3. JumpsBack(due, lp) = {}
        <5>1. CASE insn_id = "csr"
          <6>1. \A k \in Loops : AtLast(k, pc_id) => lp[k] = 1
            BY <3>1, <5>1 DEF CsrLoopEnds, NothingFirst
          <6>2. JumpsBack(due, lp) = {k \in Loops : AtLast(k, pc_id) /\ lp[k] > 1}
            BY <2>1, Comparators DEF Edge, CoreInv
          <6> QED BY <6>1, <6>2
        <5>2. CASE insn_id = "fencei"
          BY <2>1, <5>2, OutsideLoops DEF Edge, CoreInv, BodyKinds
        <5> QED BY <3>1, <5>1, <5>2
      <4>4. InDbgFlush'
        BY <3>1, <4>2, <4>3, <2>1, <2>2, <2>4, <2>8 DEF InDbgFlush, branch_taken_ex
      <4> QED BY <1>1, <1>4, <3>1, <4>4, <2>2 DEF StateInv
    <3>2. CASE ~(Stepped /\ insn_id \in {"fencei", "csr"})
      <4>1. Flushing'
        BY <2>1, <2>2, <2>4 DEF Flushing, branch_taken_ex, Edge, Program
      <4>2. illegal_insn' = FALSE
        BY <1>1, <2>2 DEF illegal_insn, FlushKinds, wfi_active
      <4>3. done => NextAtIf'
        <5> SUFFICES ASSUME done PROVE NextAtIf'
          OBVIOUS
        <5>1. left' = 2
          <6>1. ~Stepped
            BY <3>2 DEF FlushKinds, wfi_active, Stepped
          <6> QED BY <6>1, <2>4, <2>5
        <5>2. lp \in [Loops -> Nat]
          BY Comparators, <2>1 DEF Edge, CoreInv
        <5>3. (\E k \in Loops : IsLast(k, pc_id) /\ lp'[k] # 0) <=> JumpsBack(due, lp) # {}
          BY <2>1, <2>4, <5>2, CountedEnds
        <5>4. CASE JumpsBack(due, lp) = {}
          BY <5>1, <5>3, <5>4, <2>1, <2>2, <2>4, <2>8 DEF NextAtIf
        <5>5. CASE JumpsBack(due, lp) # {}
          <6>1. PICK j \in Loops : IsLast(j, due) /\ lp[j] > 1
            BY <5>5 DEF JumpsBack
          <6>2. insn_id = "csr"
            BY <2>1, <6>1, OutsideLoops DEF Edge, CoreInv, BodyKinds
          <6>3. \A k \in Loops : IsLast(k, pc_id) => due' = LoopStart[k]
            <7>1. due' = LoopStart[j]
              BY <6>1, <2>1, <2>4, AfterLast
            <7> QED BY <7>1, <6>1, <2>1, LoopEnds
          <6> QED BY <5>1, <5>3, <5>5, <6>2, <6>3, <2>2 DEF NextAtIf
        <5> QED BY <5>4, <5>5
      <4>4. insn_id = "wfi" => WfiDone'
        <5> SUFFICES ASSUME insn_id = "wfi" PROVE WfiDone'
          OBVIOUS
        <5>1. ~debug_mode_q /\ step = "off" /\ ~trigger_match
          BY DEF FlushKinds, wfi_active
        <5>2. JumpsBack(due, lp) = {}
          BY <2>1, OutsideLoops DEF Edge, CoreInv, BodyKinds
        <5>3. left' = 2
          BY <4>3 DEF NextAtIf
        <5> QED BY <5>1, <5>2, <5>3, <2>1, <2>2, <2>4, <2>8
            DEF WfiDone, trigger_match, trapCsrVars
      <4>5. insn_id = "ebreak" => ~debug_mode_q
        BY DEF FlushKinds, wfi_active
      <4>6. later => due' = pc_id /\ left' # 0
        BY <2>1, <2>2, <2>4 DEF history
      <4>7. done => left' # 0
        BY <4>3 DEF NextAtIf
      <4>8. /\ (Raising' <=> insn_id \in {"ecall", "ebreak"})
            /\ (Returning' <=> insn_id \in {"mret", "dret"}) /\ (Executed' <=> done)
        BY <2>2 DEF Raising, Returning, Executed
      <4>9. Flushed'
        BY <1>2, <2>2, <4>2, <4>3, <4>4, <4>5, <4>6, <4>8 DEF Flushed
      <4>10. InFlushEx'
        BY <1>2, <2>2, <4>1, <4>6, <4>7, <4>8, <4>9 DEF InFlushEx
      <4> QED BY <1>1, <1>4, <3>2, <4>10, <2>2 DEF StateInv
    <3> QED BY <3>1, <3>2
  <2> QED BY <2>4, <2>7, <2>9 DEF CoreInv
<1> QED BY <1>3, <1>4

\* A stepped instruction that has left ID to nobody, with the fetch at the one now
\* due, is followed by debug entry.
LEMMA StepEnds ==
  ASSUME TypeOK', Stepped, NEW in, NothingFirst(in), insn_id # "ebreak",
         UNCHANGED trapCsrVars, debug_mode_q' = debug_mode_q, left' = 0,
         ctrl_fsm_cs' = "DBG_FLUSH", ~jump_done_q', ~illegal_insn_q',
         ~debug_req_entry_q', ~debug_force_wakeup_q', ~instr_valid_id', ~branch_taken_ex',
         pc_id' = pc_id, insn_id' = insn_id, due' \in Addr, npc' = due'
  PROVE  StateInv'
<1>1. ~debug_mode_q /\ ~trigger_match
  BY DEF Stepped, NothingFirst, MustHalt
<1>2. SteppedOver' /\ ~InsteadOfId'
  BY <1>1 DEF SteppedOver, Stepped, InsteadOfId, ForcedEbreak, trigger_match, trapCsrVars
<1>3. InDbgFlush'
  BY <1>2 DEF InDbgFlush
<1> QED BY <1>3 DEF StateInv

\* The others leave ID to the next instruction, unless they are stepped: on straight
\* through, back to the start of a loop, or on to DECODE_HWLOOP.
LEMMA FlowingEdge ==
  ASSUME NEW in \in Inputs, NEW o, Edge(in, o, "DECODE"), NothingFirst(in),
         insn_id \in {"alu", "mem", "branch", "wfi", "setup"}, ~wfi_active(in)
  PROVE  CoreInv' /\ Hart!HartNext
<1> DEFINE lp == hwlp_counter_q
           goes == JumpsBack(pc_id, lp) # {}
           into == InHwlpBody(pc_id) /\ ~\E k \in Loops : AtLastButOne(k, pc_id)
<1>1. /\ due = pc_id /\ due \in Addr /\ npc \in Addr /\ insn_id \in Program[due]
      /\ left # 0 /\ ~jump_done_q /\ npc = Sequel(due) /\ loopTo = NoAddr
      /\ program \in DOMAIN Programs /\ program' = program
      /\ TypeOK /\ SetInv /\ lp \in [Loops -> Nat]
  BY DueInId, Comparators DEF Edge, CoreInv, NothingFirst
<1>2. /\ Decodes(in, o) /\ NoPulse(o) /\ (o.haltIf <=> Stepped) /\ o.illegalN = FALSE
      /\ o.dec = Ends /\ o.target = HwlpTarget(pc_id)
      /\ o.pc = (IF goes THEN "hwloop" ELSE "none") /\ o.jumpDone = goes
      /\ o.ns = IF ~IdReady(in) \/ ~Stepped
                THEN (IF into THEN "DECODE_HWLOOP" ELSE "DECODE")
                ELSE IF insn_id = "branch" THEN "DBG_WAIT_BRANCH" ELSE "DBG_FLUSH"
  BY <1>1, DecodesFlowing DEF Edge
<1>3. into => /\ \E k \in Loops : InBody(k, due) /\ lp[k] > 1
              /\ Inside(due, lp) /\ insn_id \in Flows
              /\ BackTo(Sequel(due), lp) = NoAddr
  <2> SUFFICES ASSUME into
      PROVE  /\ \E k \in Loops : InBody(k, due) /\ lp[k] > 1
             /\ Inside(due, lp) /\ insn_id \in Flows
             /\ BackTo(Sequel(due), lp) = NoAddr
    OBVIOUS
  <2>1. \E k \in Loops : InBody(k, due) /\ lp[k] > 1
    BY <1>1, Comparators
  <2>2. Inside(due, lp)
    BY <2>1 DEF Inside
  <2>3. insn_id \in BodyKinds
    BY <1>1, <2>2, InsideKinds
  <2>4. JumpsBack(Sequel(due), lp) = {}
    BY <1>1, Comparators
  <2> QED BY <2>1, <2>2, <2>3, <2>4 DEF BodyKinds, Flows, BackTo
<1>4. goes => into /\ Target(o) = After(due, lp)
  <2> SUFFICES ASSUME goes PROVE into /\ Target(o) = After(due, lp)
    OBVIOUS
  <2>1. PICK k \in Loops : IsLast(k, due) /\ lp[k] > 1
    BY <1>1 DEF JumpsBack
  <2>2. InBody(k, due) /\ \A j \in Loops : ~IsLastButOne(j, due)
    BY <1>1, <2>1, LoopEnds
  <2>3. InHwlpBody(pc_id)
    BY <1>1, <2>1, <2>2, Comparators
  <2>4. HwlpTarget(pc_id) = LoopStart[k] /\ After(due, lp) = LoopStart[k]
    <3>1. lp[k] # 0
      BY <1>1, <2>1
    <3> QED BY <1>1, <2>1, <3>1, Comparators, AfterLast
  <2>5. Target(o) = HwlpTarget(pc_id)
    BY <1>2 DEF Target
  <2> QED BY <1>1, <2>2, <2>3, <2>4, <2>5 DEF AtLastButOne
<1>5. /\ After(due, lp) \in Addr /\ Sequel(due) \in Addr
      /\ ~goes => After(due, lp) = Sequel(due)
  BY <1>1, AfterLast, AddrFacts
<1> HIDE DEF goes, into
<1>6. CASE ~IdReady(in)
  <2>1. /\ TypeOK' /\ SetInv' /\ program' \in DOMAIN Programs /\ LeftCounts' /\ ClockInv'
        /\ Hart!HartNext
        /\ due' = due /\ left' = left /\ lp' = lp
        /\ pc_id' = pc_id /\ insn_id' = insn_id /\ instr_valid_id' = TRUE
        /\ npc' = After(due, lp) /\ loopTo' = NoAddr
        /\ ex' # "csr" /\ ~branch_taken_ex'
        /\ ctrl_fsm_cs' = (IF into THEN "DECODE_HWLOOP" ELSE "DECODE")
        /\ jump_done_q' = goes
        /\ illegal_insn_q' = FALSE /\ debug_req_entry_q' = FALSE
        /\ debug_force_wakeup_q' = FALSE /\ hwlp_end_4_id_q' = FALSE
    <3>1. goes \in BOOLEAN
      BY DEF goes
    <3> QED BY <3>1, <1>1, <1>2, <1>4, <1>5, <1>6, Held DEF NoPulse
  <2>2. CASE into
    <3>1. jump_done_q' => JumpsBack(due, lp) # {} /\ insn_id \in Flows
      BY <1>1, <1>3, <2>1, <2>2 DEF goes
    <3>2. InHwloop'
      BY <1>1, <1>3, <1>5, <2>1, <2>2, <3>1 DEF InHwloop, Program
    <3> QED BY <2>1, <2>2, <3>2 DEF CoreInv, StateInv
  <2>3. CASE ~into
    <3>1. InDecode'
      BY <1>1, <1>4, <1>5, <2>1, <2>3 DEF InDecode, Program
    <3> QED BY <2>1, <2>3, <3>1 DEF CoreInv, StateInv
  <2> QED BY <2>2, <2>3
<1>7. CASE IdReady(in)
  <2>1. /\ UNCHANGED trapCsrVars
        /\ ctrl_fsm_cs' = o.ns /\ jump_done_q' = FALSE /\ debug_mode_q' = debug_mode_q
        /\ illegal_insn_q' = FALSE /\ debug_req_entry_q' = FALSE
        /\ debug_force_wakeup_q' = FALSE /\ hwlp_end_4_id_q' = FALSE
        /\ loopTo' = NoAddr
        /\ goes \/ Stepped => /\ npc' = After(due, lp) /\ pc_id' = pc_id /\ insn_id' = insn_id
                              /\ instr_valid_id' = FALSE
        /\ \/ /\ ~goes /\ npc' = Sequel(npc) /\ pc_id' = npc
              /\ insn_id' \in Program[npc] /\ instr_valid_id' = TRUE
           \/ /\ npc' = After(due, lp) /\ pc_id' = pc_id /\ insn_id' = insn_id
              /\ instr_valid_id' = FALSE
        /\ IF insn_id = "branch" THEN ex' \in {"taken", "nottaken"} ELSE ex' \in {"mem", "insn"}
    <3>1. o.ns # "RESET" /\ ~o.hwlpJump
      BY <1>2 DEF NoPulse
    <3>2. /\ UNCHANGED trapCsrVars
          /\ ctrl_fsm_cs' = o.ns /\ jump_done_q' = FALSE /\ debug_mode_q' = debug_mode_q
          /\ illegal_insn_q' = o.illegalN /\ debug_req_entry_q' = FALSE
          /\ debug_force_wakeup_q' = FALSE /\ hwlp_end_4_id_q' = o.end4
          /\ o.haltIf \/ o.pc # "none" =>
               /\ npc' = (IF o.pc = "none" THEN npc ELSE Target(o)) /\ loopTo' = NoAddr
               /\ pc_id' = pc_id /\ insn_id' = insn_id /\ instr_valid_id' = FALSE
          /\ ~o.haltIf /\ o.pc = "none" =>
               \/ /\ npc' = Sequel(npc) /\ loopTo' = NoAddr /\ pc_id' = npc
                  /\ insn_id' \in Program[npc] /\ instr_valid_id' = TRUE
               \/ /\ npc' = npc /\ loopTo' = NoAddr
                  /\ pc_id' = pc_id /\ insn_id' = insn_id /\ instr_valid_id' = FALSE
          /\ insn_id = "branch" => ex' \in {"taken", "nottaken"}
          /\ insn_id \in {"mem", "csr"} => ex' = insn_id
          /\ insn_id \notin {"branch", "mem", "csr"} => ex' = "insn"
      BY <1>1, <1>2, <1>7, <3>1, Issued
    <3> QED BY <3>2, <1>1, <1>2, <1>4, <1>5 DEF NoPulse
  <2>2. /\ left' = OneLess /\ due' \in Addr /\ left' \in 0 .. 2
        /\ due' = (IF branch_taken_ex' THEN BranchTo ELSE After(due, lp))
        /\ branch_taken_ex' => insn_id = "branch"
        /\ RestTyped' /\ lp' \in [Loops -> Nat]
        /\ \A k \in Loops \ SetUpAt(due) : lp'[k] = Counted(due, lp)[k]
        /\ Hart!HartNext
    <3>1. branch_taken_ex' <=> insn_id = "branch" /\ ex' = "taken"
      BY <2>1 DEF branch_taken_ex
    <3>2. o.ns # "RESET"
      BY <1>2
    <3> QED BY <1>2, <1>7, <3>1, <3>2, IsExecuted
  <2>3. (left' = 2 <=> left = 2) /\ left' = IF Stepped THEN 0 ELSE 2
    BY <1>1, <2>2, CountsOneLess DEF Edge, CoreInv
  <2>4. TypeOK' /\ SetInv' /\ program' \in DOMAIN Programs /\ LeftCounts' /\ ClockInv'
    <3>1. /\ npc' \in Addr /\ pc_id' \in Addr /\ insn_id' \in Kinds
          /\ instr_valid_id' \in BOOLEAN
      BY <1>1, <1>5, <2>1, AddrFacts, ProgramKinds DEF TypeOK
    <3>2. o.ns \in CtrlStates /\ o.ns # "RESET"
      BY <1>2 DEF CtrlStates
    <3> QED BY <1>2, <1>7, <2>1, <2>2, <2>3, <3>1, <3>2, IssuedTyped
  <2>5. StateInv'
    <3>1. CASE Stepped /\ insn_id = "branch"
      <4>1. ~debug_mode_q /\ ~trigger_match
        BY <3>1 DEF Stepped, NothingFirst, MustHalt
      <4>2. SteppedOver'
        BY <3>1, <4>1, <2>1, <2>3 DEF SteppedOver, Stepped, trapCsrVars
      <4>3. InDbgWaitBranch'
        BY <3>1, <4>1, <4>2, <1>5, <2>1, <2>2 DEF InDbgWaitBranch, Idle, trigger_match
      <4> QED BY <1>2, <1>7, <3>1, <4>3, <2>1 DEF StateInv
    <3>2. CASE Stepped /\ insn_id # "branch"
      BY <1>2, <1>7, <3>2, <2>1, <2>2, <2>3, <2>4, StepEnds
    <3>3. CASE ~Stepped /\ into
      <4>1. insn_id # "branch" /\ due' = After(due, lp) /\ ~branch_taken_ex'
        BY <1>3, <3>3, <2>2 DEF Flows
      <4>2. Inside(due', lp')
        BY <1>1, <1>3, <3>3, <4>1, <2>2, Successor
      <4>3. BackTo(due', lp') = NoAddr
        BY <1>1, <1>3, <3>3, <4>1, <2>2, Successor
      <4>4. After(due', lp') = Sequel(due')
        BY <4>3, <2>2, AfterLast
      <4>5. npc' \in Addr /\ ex' # "csr" /\ left' # 0
        BY <1>1, <1>5, <2>1, <2>3, <3>3, <4>1, AddrFacts
      <4>6. InHwloop'
        <5>1. CASE instr_valid_id'
          BY <5>1, <1>1, <1>5, <2>1, <2>2, <4>1, <4>2, <4>4, <4>5 DEF InHwloop, Program
        <5>2. CASE ~instr_valid_id'
          BY <5>2, <2>1, <2>2, <4>1, <4>2, <4>3, <4>5 DEF InHwloop
        <5> QED BY <5>1, <5>2
      <4> QED BY <1>2, <3>3, <4>6, <2>1 DEF StateInv
    <3>4. CASE ~Stepped /\ ~into
      <4>1. InDecode'
        BY <1>1, <1>4, <1>5, <3>4, <2>1, <2>2, <2>3, AddrFacts DEF InDecode, Program
      <4> QED BY <1>2, <3>4, <4>1, <2>1 DEF StateInv
    <3> QED BY <3>1, <3>2, <3>3, <3>4
  <2> QED BY <2>2, <2>4, <2>5 DEF CoreInv
<1> QED BY <1>6, <1>7

\* In a loop the fetch follows the iterations: the last instruction but one tells it
\* to go back, and leaves for DECODE when the loop is about to end.
LEMMA HwloopFlowEdge ==
  ASSUME NEW in \in Inputs, NEW o, Edge(in, o, "DECODE_HWLOOP"), NothingFirst(in),
         insn_id \in Flows
  PROVE  CoreInv' /\ Hart!HartNext
<1> DEFINE lp == hwlp_counter_q
           back == BackTo(Sequel(pc_id), lp)
           leaves == /\ \E k \in Loops : AtLastButOne(k, pc_id)
                     /\ back = NoAddr /\ ~InHwlpBody(pc_id)
           after == IF o.hwlpJump THEN o.target ELSE loopTo
<1>1. /\ due = pc_id /\ due \in Addr /\ npc \in Addr /\ insn_id \in Program[due]
      /\ left # 0 /\ Inside(due, lp) /\ npc = After(due, lp)
      /\ jump_done_q => JumpsBack(due, lp) # {}
      /\ loopTo = (IF hwlp_end_4_id_q THEN back ELSE NoAddr)
      /\ program \in DOMAIN Programs /\ program' = program
      /\ TypeOK /\ SetInv /\ lp \in [Loops -> Nat]
  BY DueInId, Comparators DEF Edge, CoreInv, NothingFirst
<1>2. /\ Decodes(in, o) /\ (o.haltIf <=> Stepped) /\ o.illegalN = FALSE
      /\ o.dec = Ends /\ o.pc = "none" /\ o.jumpDone = jump_done_q
      /\ o.end4 = (back # NoAddr) /\ o.hwlpJump = (back # NoAddr /\ ~hwlp_end_4_id_q)
      /\ back # NoAddr => o.target = back
      /\ o.ns = IF ~IdReady(in) \/ ~Stepped
                THEN (IF leaves THEN "DECODE" ELSE "DECODE_HWLOOP")
                ELSE "DBG_FLUSH"
  <2>1. /\ back = BackTo(Sequel(pc_id), lp)
        /\ leaves = (/\ \E k \in Loops : AtLastButOne(k, pc_id)
                     /\ back = NoAddr /\ ~InHwlpBody(pc_id))
    OBVIOUS
  <2> HIDE DEF back, leaves
  <2>2. ctrl_fsm_cs = "DECODE_HWLOOP" /\ o = Out(in)
    BY DEF Edge
  <2> QED BY <1>1, <2>1, <2>2, HwloopFlows
<1>3. after = back /\ back \in Addr \cup {NoAddr} /\ Sequel(due) \in Addr
  BY <1>1, <1>2, AddrFacts, AfterLast DEF TypeOK
<1>4. leaves => back = NoAddr /\ ~jump_done_q /\ npc = Sequel(due)
  <2> SUFFICES ASSUME leaves PROVE ~jump_done_q /\ npc = Sequel(due)
    OBVIOUS
  <2>1. JumpsBack(due, lp) = {}
    <3>1. ASSUME NEW k \in JumpsBack(due, lp) PROVE FALSE
      <4>1. k \in Loops /\ IsLast(k, due) /\ lp[k] > 1
        BY DEF JumpsBack
      <4>2. InBody(k, due)
        BY <1>1, <4>1, LoopEnds
      <4> QED BY <1>1, <4>1, <4>2, Comparators
    <3> QED BY <3>1
  <2> QED BY <1>1, <2>1, AfterLast
<1>5. ~leaves => \/ \E k \in Loops : InBody(k, due) /\ lp[k] > 1
                 \/ \A k \in Loops : IsLastButOne(k, due) => lp[k] = 0
  <2> SUFFICES ASSUME ~leaves, NEW k \in Loops, IsLastButOne(k, due), lp[k] # 0
      PROVE  \E j \in Loops : InBody(j, due) /\ lp[j] > 1
    OBVIOUS
  <2>1. AtLastButOne(k, pc_id)
    BY <1>1, Comparators
  <2>2. CASE InHwlpBody(pc_id)
    BY <1>1, <2>2, Comparators
  <2>3. CASE back # NoAddr
    <3>1. PICK j \in Loops : IsLast(j, Sequel(due)) /\ lp[j] > 1
      BY <1>1, <2>3 DEF BackTo, JumpsBack
    <3>2. InBody(j, due)
      BY <1>1, <3>1, LoopEnds
    <3> QED BY <3>1, <3>2
  <2> QED BY <2>1, <2>2, <2>3
<1> HIDE DEF back, leaves, after
<1>6. CASE ~IdReady(in)
  <2>1. /\ TypeOK' /\ SetInv' /\ program' \in DOMAIN Programs /\ LeftCounts' /\ ClockInv'
        /\ Hart!HartNext
        /\ due' = due /\ left' = left /\ lp' = lp
        /\ pc_id' = pc_id /\ insn_id' = insn_id /\ instr_valid_id' = TRUE
        /\ npc' = npc /\ loopTo' = back
        /\ ex' # "csr" /\ ~branch_taken_ex'
        /\ ctrl_fsm_cs' = (IF leaves THEN "DECODE" ELSE "DECODE_HWLOOP")
        /\ jump_done_q' = jump_done_q
        /\ illegal_insn_q' = FALSE /\ debug_req_entry_q' = FALSE
        /\ debug_force_wakeup_q' = FALSE /\ hwlp_end_4_id_q' = (back # NoAddr)
    <3>1. jump_done_q \in BOOLEAN
      BY <1>1 DEF TypeOK
    <3> QED BY <3>1, <1>2, <1>3, <1>6, Held DEF after
  <2>2. CASE leaves
    <3>1. InDecode'
      BY <1>1, <1>4, <2>1, <2>2 DEF InDecode, Program
    <3> QED BY <2>1, <2>2, <3>1, <1>4 DEF CoreInv, StateInv
  <2>3. CASE ~leaves
    <3>1. loopTo' = IF hwlp_end_4_id_q' THEN BackTo(Sequel(due'), lp') ELSE NoAddr
      BY <1>1, <2>1 DEF back
    <3>2. InHwloop'
      BY <1>1, <2>1, <3>1 DEF InHwloop, Program
    <3> QED BY <2>1, <2>3, <3>2 DEF CoreInv, StateInv
  <2> QED BY <2>2, <2>3
<1>7. CASE IdReady(in)
  <2>1. /\ UNCHANGED trapCsrVars
        /\ ctrl_fsm_cs' = o.ns /\ jump_done_q' = FALSE /\ debug_mode_q' = debug_mode_q
        /\ illegal_insn_q' = FALSE /\ debug_req_entry_q' = FALSE
        /\ debug_force_wakeup_q' = FALSE /\ hwlp_end_4_id_q' = (back # NoAddr)
        /\ \/ /\ ~Stepped
              /\ npc' = (IF back # NoAddr THEN back ELSE Sequel(npc)) /\ loopTo' = NoAddr
              /\ pc_id' = npc /\ insn_id' \in Program[npc] /\ instr_valid_id' = TRUE
           \/ /\ npc' = npc /\ loopTo' = back
              /\ pc_id' = pc_id /\ insn_id' = insn_id /\ instr_valid_id' = FALSE
        /\ ex' \in {"mem", "insn"}
    <3>1. o.ns # "RESET"
      BY <1>2
    <3>2. /\ UNCHANGED trapCsrVars
          /\ ctrl_fsm_cs' = o.ns /\ jump_done_q' = FALSE /\ debug_mode_q' = debug_mode_q
          /\ illegal_insn_q' = o.illegalN /\ debug_req_entry_q' = FALSE
          /\ debug_force_wakeup_q' = FALSE /\ hwlp_end_4_id_q' = o.end4
          /\ o.haltIf =>
               /\ npc' = npc /\ loopTo' = back
               /\ pc_id' = pc_id /\ insn_id' = insn_id /\ instr_valid_id' = FALSE
          /\ ~o.haltIf =>
               \/ /\ npc' = (IF back # NoAddr THEN back ELSE Sequel(npc)) /\ loopTo' = NoAddr
                  /\ pc_id' = npc /\ insn_id' \in Program[npc] /\ instr_valid_id' = TRUE
               \/ /\ npc' = npc /\ loopTo' = back
                  /\ pc_id' = pc_id /\ insn_id' = insn_id /\ instr_valid_id' = FALSE
          /\ insn_id \in {"mem", "csr"} => ex' = insn_id
          /\ insn_id \notin {"branch", "mem", "csr"} => ex' = "insn"
      <4>1. after = IF o.hwlpJump THEN o.target ELSE loopTo
        BY DEF after
      <4> QED BY <1>2, <1>3, <1>7, <3>1, <4>1, Issued
    <3> QED BY <3>2, <1>2 DEF Flows
  <2>2. /\ left' = OneLess /\ due' \in Addr /\ left' \in 0 .. 2 /\ due' = npc
        /\ ~branch_taken_ex' /\ ex' # "csr"
        /\ RestTyped' /\ lp' \in [Loops -> Nat]
        /\ \A k \in Loops \ SetUpAt(due) : lp'[k] = Counted(due, lp)[k]
        /\ Hart!HartNext
    <3>1. o.ns # "RESET" /\ ~branch_taken_ex' /\ ex' # "csr"
      BY <1>2, <2>1 DEF branch_taken_ex
    <3> QED BY <1>1, <1>2, <1>7, <3>1, IsExecuted DEF Flows
  <2>3. (left' = 2 <=> left = 2) /\ left' = IF Stepped THEN 0 ELSE 2
    BY <1>1, <2>2, CountsOneLess DEF Edge, CoreInv
  <2>4. TypeOK' /\ SetInv' /\ program' \in DOMAIN Programs /\ LeftCounts' /\ ClockInv'
    <3>1. /\ npc' \in Addr /\ loopTo' \in Addr \cup {NoAddr}
          /\ pc_id' \in Addr /\ insn_id' \in Kinds /\ instr_valid_id' \in BOOLEAN
      BY <1>1, <1>3, <2>1, AddrFacts, ProgramKinds DEF TypeOK
    <3>2. o.ns \in CtrlStates /\ o.ns # "RESET"
      BY <1>2 DEF CtrlStates
    <3> QED BY <1>2, <1>7, <2>1, <2>2, <2>3, <3>1, <3>2, IssuedTyped
  <2>5. /\ BackTo(due', lp') = back
        /\ back # NoAddr => BackTo(Sequel(due'), lp') = NoAddr
        /\ ~leaves => Inside(due', lp')
    BY <1>1, <1>5, <2>2, Successor DEF back
  <2>6. After(due', lp') = IF back # NoAddr THEN back ELSE Sequel(due')
    BY <2>2, <2>5, AfterLast
  <2>7. StateInv'
    <3>1. CASE Stepped
      <4>1. insn_id # "ebreak"
        BY DEF Flows
      <4> QED BY <1>2, <1>7, <3>1, <4>1, <2>1, <2>2, <2>3, <2>4, StepEnds
    <3>2. CASE ~Stepped /\ leaves
      <4>1. InDecode'
        BY <1>1, <1>4, <3>2, <2>1, <2>2, <2>3, AddrFacts DEF InDecode, Program
      <4> QED BY <1>2, <1>4, <3>2, <4>1, <2>1 DEF StateInv
    <3>3. CASE ~Stepped /\ ~leaves
      <4>1. npc' \in Addr /\ left' # 0
        BY <1>1, <1>3, <2>1, <2>3, <3>3, AddrFacts
      <4>2. InHwloop'
        <5>1. CASE instr_valid_id'
          <6>1. loopTo' = IF hwlp_end_4_id_q' THEN BackTo(Sequel(due'), lp') ELSE NoAddr
            BY <5>1, <2>1, <2>5
          <6>2. pc_id' = due' /\ npc' = After(due', lp') /\ insn_id' \in Program[due']
            BY <5>1, <2>1, <2>2, <2>6
          <6> QED BY <5>1, <6>1, <6>2, <1>1, <3>3, <2>1, <2>2, <2>5, <4>1
              DEF InHwloop, Program
        <5>2. CASE ~instr_valid_id'
          BY <5>2, <3>3, <2>1, <2>2, <2>5, <4>1 DEF InHwloop
        <5> QED BY <5>1, <5>2
      <4> QED BY <1>2, <3>3, <4>2, <2>1 DEF StateInv
    <3> QED BY <3>1, <3>2, <3>3
  <2> QED BY <2>2, <2>4, <2>7 DEF CoreInv
<1> QED BY <1>6, <1>7

\* The instructions of ID, as the lemmas divide them.
LEMMA InsnCases ==
  ASSUME CoreInv, NEW in, NothingFirst(in)
  PROVE  \/ illegal_insn \/ FlushKinds(in)
         \/ insn_id = "ebreak" /\ (debug_mode_q \/ ForcedEbreak)
         \/ ctrl_fsm_cs = "DECODE" /\ insn_id = "jump"
         \/ /\ ctrl_fsm_cs = "DECODE" /\ ~wfi_active(in)
            /\ insn_id \in {"alu", "mem", "branch", "wfi", "setup"}
         \/ ctrl_fsm_cs = "DECODE_HWLOOP" /\ insn_id \in Flows
<1>1. CASE ctrl_fsm_cs = "DECODE"
  BY <1>1 DEF CoreInv, TypeOK, Kinds, FlushKinds, illegal_insn
<1>2. CASE ctrl_fsm_cs = "DECODE_HWLOOP"
  BY <1>2 DEF NothingFirst, Suits, BodyKinds, Flows, FlushKinds, illegal_insn
<1> QED BY <1>1, <1>2 DEF NothingFirst, Suits

\* All that may happen in DECODE and DECODE_HWLOOP.
LEMMA DecodeEdge ==
  ASSUME NEW in \in Inputs, NEW o, NEW s \in {"DECODE", "DECODE_HWLOOP"}, Edge(in, o, s),
         CsrLoopEnds
  PROVE  CoreInv' /\ Hart!HartNext
<1>1. CASE branch_taken_ex
  <2>1. s = "DECODE"
    BY <1>1 DEF Edge, CoreInv, StateInv, InHwloop
  <2> QED BY <1>1, <2>1, RedirectEdge
<1>2. CASE ~branch_taken_ex /\ ~instr_valid_id
  BY <1>2, EmptyIdEdge
<1>3. CASE ~branch_taken_ex /\ instr_valid_id
  <2>1. /\ Suits /\ ex # "csr" /\ due = pc_id /\ due \in Addr /\ left # 0
        /\ ~debug_req_entry_q /\ ~debug_force_wakeup_q
        /\ illegal_insn_q => s = "DECODE"
    BY <1>3, DueInId DEF Edge
  <2>2. CASE MustHalt(in)
    BY <1>3, <2>2, ServeDebugEdge
  <2>3. CASE ~MustHalt(in) /\ MustTakeIrq(in)
    <3>1. o = Interrupt(in, "id")
      BY <1>3, <2>1, <2>3, DecodeTakesIrq DEF Edge, CoreInv
    <3> QED BY <1>3, <2>1, <2>3, <3>1, InterruptEdge
  <2>4. CASE ~MustHalt(in) /\ ~MustTakeIrq(in)
    <3>1. NothingFirst(in) /\ CoreInv /\ ctrl_fsm_cs = s
      BY <1>3, <2>1, <2>4 DEF NothingFirst, Edge
    <3>2. CASE illegal_insn
      BY <3>1, <3>2, IllegalEdge, HwloopIllegalEdge
    <3>3. CASE FlushKinds(in)
      BY <3>1, <3>3, FlushedEdge
    <3>4. CASE insn_id = "ebreak" /\ (debug_mode_q \/ ForcedEbreak)
      BY <3>1, <3>4, ForcedEbreakEdge
    <3>5. CASE s = "DECODE" /\ insn_id = "jump"
      BY <3>1, <3>5, JumpEdge
    <3>6. CASE /\ s = "DECODE" /\ ~wfi_active(in)
               /\ insn_id \in {"alu", "mem", "branch", "wfi", "setup"}
      BY <3>1, <3>6, FlowingEdge
    <3>7. CASE s = "DECODE_HWLOOP" /\ insn_id \in Flows
      BY <3>1, <3>7, HwloopFlowEdge
    <3> QED BY <3>1, <3>2, <3>3, <3>4, <3>5, <3>6, <3>7, InsnCases
  <2> QED BY <2>2, <2>3, <2>4
<1> QED BY <1>1, <1>2, <1>3

-----------------------------------------------------------------------------
\* With the clock off only the requests move: nothing is lost.
LEMMA ClockOff ==
  ASSUME NEW in \in Inputs, CoreInv, Cycle(in), ~ClockRuns(in)
  PROVE  CoreInv' /\ Hart!HartNext
<1> USE DEF CoreInv
<1>1. PICK o : o = Out(in)
  OBVIOUS
<1>2. /\ UNCHANGED program /\ UNCHANGED gated
      /\ SleepClock(in.fetchEn, Busy(o)) /\ DebugReqClock(in)
  BY <1>1 DEF Cycle
<1>3. /\ UNCHANGED <<pipeVars, trapCsrVars, hwloopVars, ctrlVars>>
      /\ UNCHANGED <<outstanding, history>>
  BY <1>2 DEF gated
<1>4. TypeOK' /\ SetInv'
  <2>1. debug_req_q' \in BOOLEAN /\ fetch_enable_q' \in BOOLEAN /\ core_busy_q' \in BOOLEAN
    BY <1>2 DEF DebugReqClock, SleepClock, Busy, CoreBusy
  <2> QED BY <2>1, <1>3 DEF TypeOK, SetInv, pipeVars, trapCsrVars, hwloopVars, ctrlVars, history
<1>5. LeftCounts'
  BY <1>3 DEF LeftCounts, Stepped, trapCsrVars, ctrlVars, history
<1>6. CASE ctrl_fsm_cs = "RESET"
  <2>1. o.busy
    BY <1>1, <1>6, ResetSays
  <2>2. ClockInv'
    BY <1>2, <1>3, <1>6, <2>1 DEF ClockInv, SleepClock, Busy, CoreBusy, ctrlVars
  <2>3. StateInv'
    BY <1>3, <1>6
    DEF StateInv, InReset, Idle, pipeVars, trapCsrVars, ctrlVars, history
  <2>4. Hart!HartNext
    BY <1>2, <1>3, HartSteps
    DEF HartStands, pipeVars, trapCsrVars, hwloopVars, ctrlVars, history
  <2> QED BY <1>2, <1>4, <1>5, <2>2, <2>3, <2>4
<1>7. CASE ctrl_fsm_cs # "RESET"
  <2>1. /\ ctrl_fsm_cs = "SLEEP" /\ ~outstanding /\ ~wb /\ fetch_enable_q
    BY <1>7 DEF ClockInv, ClockRuns, ClockEn
  <2>2. ClockInv'
    BY <1>2, <1>3, <2>1
    DEF ClockInv, SleepClock, Busy, CoreBusy, ctrlVars, pipeVars
  <2>3. StateInv'
    BY <1>3, <2>1
    DEF StateInv, InSleep, Idle, WfiDone, NextAtIf, trigger_match,
        pipeVars, trapCsrVars, ctrlVars, history
  <2>4. Hart!HartNext
    BY <1>2, <1>3, HartSteps
    DEF HartStands, pipeVars, trapCsrVars, hwloopVars, ctrlVars, history
  <2> QED BY <1>2, <1>4, <1>5, <2>2, <2>3, <2>4
<1> QED BY <1>6, <1>7

\* Every cycle keeps the invariant and is a step, or no step, of HartSpec.
LEMMA CycleKeeps ==
  ASSUME NEW in \in Inputs, CoreInv, CsrLoopEnds, Cycle(in)
  PROVE  CoreInv' /\ Hart!HartNext
<1>1. CASE ~ClockRuns(in)
  BY <1>1, ClockOff
<1>2. CASE ClockRuns(in)
  <2>1. PICK o : o = Out(in)
    OBVIOUS
  <2>2. Edge(in, o, ctrl_fsm_cs)
    BY <1>2, <2>1 DEF Edge, Cycle
  <2>3. ctrl_fsm_cs \in CtrlStates
    BY DEF CoreInv, TypeOK
  <2> QED
    BY <2>2, <2>3, ResetEdge, BootSetEdge, WaitSleepEdge, SleepEdge, FirstFetchEdge,
       DecodeEdge, FlushExEdge, FlushWbEdge, XretJumpEdge, DbgWaitBranchEdge,
       DbgFlushEdge, DbgTakenIdEdge, DbgTakenIfEdge
    DEF CtrlStates
<1> QED BY <1>1, <1>2

\* The core comes out of reset with the invariant, where HartSpec starts.
LEMMA Starts ==
  ASSUME Init
  PROVE  CoreInv /\ Hart!HartInit
<1> USE DEF Init, PipelineInit, TrapCsrsInit, HwloopInit, CtrlInit, SleepInit
<1>1. 0 \in Addr
  BY IsaAssumption DEF Addr
<1>2. TypeOK
  <2>1. hwlp_counter_q \in [Loops -> 0 .. Width - 1] /\ left \in 0 .. 2
    BY WidthAssumption
  <2>2. /\ {jump_done_q, debug_mode_q, illegal_insn_q, debug_req_entry_q, debug_req_q,
            debug_force_wakeup_q, hwlp_end_4_id_q, fetch_enable_q, core_busy_q} \subseteq BOOLEAN
        /\ {outstanding, instr_valid_id, wb, mie, mpie, ebreakm} \subseteq BOOLEAN
    OBVIOUS
  <2>3. /\ ctrl_fsm_cs \in CtrlStates /\ debug_fsm_cs \in {"HAVERESET", "RUNNING", "HALTED"}
        /\ insn_id \in Kinds /\ step \in Stepping
    BY DEF CtrlStates, Kinds, Stepping
  <2>4. /\ {npc, loopTo, due} \subseteq Addr \cup {NoAddr}
        /\ {pc_id, mepc, dpc} \subseteq Addr /\ hwlp_set \subseteq Loops
        /\ cause = "none" /\ ex = "none"
    BY <1>1
  <2> HIDE DEF Init, PipelineInit, TrapCsrsInit, HwloopInit, CtrlInit, SleepInit
  <2> QED BY <2>1, <2>2, <2>3, <2>4 DEF TypeOK
<1>3. StateInv /\ LeftCounts /\ ClockInv /\ SetInv
  BY DEF StateInv, InReset, Idle, LeftCounts, Stepped, ClockInv, SetInv
<1>4. Hart!HartInit
  BY DEF Hart!HartInit
<1> QED BY <1>2, <1>3, <1>4 DEF CoreInv

\* A step of the core keeps the invariant.
LEMMA NextKeeps ==
  ASSUME CoreInv, CsrLoopEnds, [Next]_vars
  PROVE  CoreInv' /\ [Hart!HartNext]_(Hart!hartVars)
<1>1. CASE Next
  BY <1>1, CycleKeeps DEF Next
<1>2. CASE UNCHANGED vars
  <2>1. UNCHANGED <<program, pipeVars, trapCsrVars, hwloopVars, ctrlVars>>
    BY <1>2 DEF vars, gated
  <2>2. UNCHANGED <<outstanding, history, sleepVars, debug_req_q>>
    BY <1>2 DEF vars, gated
  <2>3. /\ UNCHANGED <<npc, loopTo, instr_valid_id, pc_id, insn_id, ex, wb>>
        /\ UNCHANGED <<mepc, mie, mpie, dpc, step, ebreakm, cause>>
        /\ UNCHANGED <<hwlp_set, hwlp_counter_q>>
    BY <2>1 DEF pipeVars, trapCsrVars, hwloopVars
  <2>4. /\ UNCHANGED <<ctrl_fsm_cs, jump_done_q, debug_mode_q, illegal_insn_q>>
        /\ UNCHANGED <<debug_req_entry_q, debug_force_wakeup_q, hwlp_end_4_id_q>>
        /\ UNCHANGED <<debug_fsm_cs, debug_req_q, fetch_enable_q, core_busy_q>>
        /\ UNCHANGED <<outstanding, due, left, program>>
    BY <2>1, <2>2 DEF ctrlVars, history, sleepVars
  <2>5. TypeOK' /\ SetInv' /\ LeftCounts' /\ ClockInv'
    BY <2>3, <2>4 DEF CoreInv, TypeOK, SetInv, LeftCounts, Stepped, ClockInv
  <2>6. StateInv'
    BY <2>3, <2>4
    DEF CoreInv, StateInv, InReset, Idle, InSleep,
        WfiDone, NextAtIf, InFirstFetch, InDecode, InHwloop, InFlushEx, InFlushWb, Flushing,
        Flushed, Raising, Returning, Executed, Handler, InXretJump, InDbgWaitBranch,
        SteppedOver, InDbgFlush, InDbgTakenId, InDbgTakenIf, EntersForId, InsteadOfId,
        ForcedEbreak, trigger_match, illegal_insn, branch_taken_ex, Program, Stepped
  <2>7. UNCHANGED Hart!hartVars
    BY <2>3, <2>4 DEF Hart!hartVars, Hart!hart, Hart!trapCsrs, Hart!dbgCsrs
  <2> QED BY <2>4, <2>5, <2>6, <2>7 DEF CoreInv
<1> QED BY <1>1, <1>2

\* The invariant of the whole core, state by state of the control FSM.
THEOREM CoreInvariant == Spec /\ []CsrLoopEnds => []CoreInv
<1>1. Init => CoreInv
  BY Starts
<1>2. CoreInv /\ CsrLoopEnds /\ [Next]_vars => CoreInv'
  BY NextKeeps
<1> QED BY <1>1, <1>2, PTL DEF Spec

\* cv32e40p_core: pipeline, flushes, speculation and clock gating are invisible;
\* traps and debug entries save the address of the first instruction not executed,
\* and loops run as often as their counters say.
THEOREM CoreImplementsHart == Spec /\ []CsrLoopEnds => ImplementsHart
<1>1. Init => CoreInv /\ Hart!HartInit
  BY Starts
<1>2. CoreInv /\ CsrLoopEnds /\ [Next]_vars => CoreInv' /\ [Hart!HartNext]_(Hart!hartVars)
  BY NextKeeps
<1> QED BY <1>1, <1>2, PTL DEF Spec, ImplementsHart, Hart!HartSpec

\* The programs for which CsrLoopEnds need not be watched: no CSR instruction is the
\* last one of a loop.  Those without loops are among them.
NoCsrLast ==
  \A p \in DOMAIN Programs, k \in Loops : "csr" \notin Programs[p][LoopEnd[k] - 1]

\* What is in ID stands in the program, and is the instruction due unless it is on
\* the wrong path.
LEMMA StandsInId ==
  ASSUME CoreInv, instr_valid_id, ~branch_taken_ex
  PROVE  pc_id = due /\ insn_id \in Program[pc_id]
<1>1. ctrl_fsm_cs \in {"DECODE", "DECODE_HWLOOP", "DBG_FLUSH"}
  BY DEF CoreInv, TypeOK, CtrlStates, StateInv, InReset, Idle, InSleep, InFirstFetch,
     InFlushEx, InFlushWb, Flushing, InXretJump, InDbgWaitBranch, InDbgTakenId,
     InDbgTakenIf
<1> QED BY <1>1 DEF CoreInv, StateInv, InDecode, InHwloop, InDbgFlush, EntersForId

\* cv32e40p_core: for these programs the theorems below hold as they stand.
THEOREM CsrsEndNoLoop ==
  ASSUME NoCsrLast
  PROVE  Spec => []CsrLoopEnds /\ ImplementsHart
<1>1. CoreInv => CsrLoopEnds
  <2> SUFFICES ASSUME CoreInv, NEW k \in Loops, instr_valid_id, ~branch_taken_ex,
                      insn_id = "csr", AtLast(k, pc_id)
      PROVE  FALSE
    BY DEF CsrLoopEnds
  <2>1. insn_id \in Programs[program][pc_id]
    BY StandsInId DEF Program
  <2>2. pc_id = LoopEnd[k] - 1
    <3>1. pc_id \in Nat /\ LoopEnd[k] \in Nat
      BY LoopShape, IsaAssumption DEF CoreInv, TypeOK, Addr
    <3> QED BY <3>1 DEF AtLast, IsLast
  <2> QED BY <2>1, <2>2 DEF NoCsrLast, CoreInv
<1>2. Init => CoreInv
  BY Starts
<1>3. CoreInv /\ [Next]_vars => CoreInv'
  BY <1>1, NextKeeps
<1> QED BY <1>1, <1>2, <1>3, CoreImplementsHart, PTL DEF Spec

-----------------------------------------------------------------------------
\* cv32e40p_controller acts on the instruction in ID only if it is the one due.
THEOREM IdIsDue == Spec /\ []CsrLoopEnds => []IdHoldsDue
<1>1. CoreInv => IdHoldsDue
  BY StandsInId DEF IdHoldsDue
<1> QED BY <1>1, CoreInvariant, PTL

\* Debug mode is entered from the IF stage for a step or a request that came early.
THEOREM TakenIfIsForStep == Spec /\ []CsrLoopEnds => []TakenIfForStep
<1>1. CoreInv => TakenIfForStep
  BY DEF CoreInv, TypeOK, StateInv, InDbgTakenIf, TakenIfForStep
<1> QED BY <1>1, CoreInvariant, PTL

\* corev_hw_loop.rst: the pc a single step saves is that of the instruction due, at the
\* end of a loop too.
THEOREM StepSavesPcDue == Spec /\ []CsrLoopEnds => []SteppedPcIsDue
<1>1. CoreInv => SteppedPcIsDue
  BY DEF CoreInv, StateInv, InDbgTakenIf, SteppedPcIsDue
<1> QED BY <1>1, CoreInvariant, PTL

\* With an instruction in ID the controller is busy, counts loops with iterations left
\* only, and tells the fetch to go back in DECODE_HWLOOP only.
LEMMA IdSays ==
  ASSUME CoreInv, CsrLoopEnds, NEW in \in Inputs, NEW o, o = Out(in),
         ctrl_fsm_cs \in {"DECODE", "DECODE_HWLOOP"}
  PROVE  /\ o.busy /\ (\A k \in o.dec : k \in Loops /\ hwlp_counter_q[k] # 0)
         /\ o.hwlpJump =>
              /\ instr_valid_id /\ ~branch_taken_ex /\ ctrl_fsm_cs = "DECODE_HWLOOP"
              /\ BackTo(Sequel(pc_id), hwlp_counter_q) # NoAddr /\ ~hwlp_end_4_id_q
<1> DEFINE dec == \A k \in o.dec : k \in Loops /\ hwlp_counter_q[k] # 0
<1> USE DEF CoreInv
<1>1. CASE branch_taken_ex
  <2>1. ctrl_fsm_cs = "DECODE"
    BY <1>1 DEF StateInv, InHwloop
  <2> QED BY <1>1, <2>1, DecodeRedirects DEF Silent
<1>2. CASE ~branch_taken_ex /\ ~instr_valid_id
  BY <1>2, DecodeWaits DEF Silent
<1>3. CASE ~branch_taken_ex /\ instr_valid_id
  <2>1. Suits
    BY <1>3, DueInId
  <2>2. CASE MustHalt(in)
    BY <1>3, <2>1, <2>2, DecodeServesDebug
  <2>3. CASE ~MustHalt(in) /\ MustTakeIrq(in)
    BY <1>3, <2>1, <2>3, DecodeTakesIrq, InterruptSays
  <2>4. CASE ~MustHalt(in) /\ ~MustTakeIrq(in)
    <3>1. NothingFirst(in)
      BY <1>3, <2>1, <2>4 DEF NothingFirst
    <3> HIDE DEF CoreInv
    <3>2. CoreInv /\ TypeOK /\ SetInv
      BY DEF CoreInv
    <3>3. CASE illegal_insn
      <4>1. o.busy /\ ~o.hwlpJump /\ o.dec = {}
        <5>1. CASE ctrl_fsm_cs = "DECODE"
          BY <3>1, <3>2, <3>3, <5>1, DecodesIllegal DEF Decodes, NoPulse
        <5>2. CASE ctrl_fsm_cs = "DECODE_HWLOOP"
          BY <3>1, <3>2, <3>3, <5>2, HwloopIllegal DEF NoPulse
        <5> QED BY <5>1, <5>2
      <4> QED BY <4>1
    <3>4. CASE FlushKinds(in)
      <4>1. /\ o.busy /\ ~o.hwlpJump
            /\ o.dec = (IF insn_id = "csr" /\ IdReady(in)
                        THEN {k \in Loops : AtLast(k, pc_id)} ELSE {})
        BY <3>1, <3>2, <3>4, DecodesFlushed DEF Decodes, NoPulse
      <4>2. insn_id = "csr" => \A k \in Loops : AtLast(k, pc_id) => hwlp_counter_q[k] # 0
        BY <1>3 DEF CsrLoopEnds
      <4> QED BY <4>1, <4>2
    <3>5. CASE insn_id = "ebreak" /\ (debug_mode_q \/ ForcedEbreak)
      BY <3>1, <3>2, <3>5, DecodesForcedEbreak DEF Decodes, NoPulse
    <3>6. CASE ctrl_fsm_cs = "DECODE" /\ insn_id = "jump"
      BY <3>1, <3>2, <3>6, DecodesJump DEF Decodes, NoPulse
    <3>7. CASE /\ ctrl_fsm_cs = "DECODE" /\ ~wfi_active(in)
               /\ insn_id \in {"alu", "mem", "branch", "wfi", "setup"}
      <4>1. ~jump_done_q
        BY <1>3, <3>2, <3>7, DueInId
      <4>2. o.busy /\ ~o.hwlpJump /\ o.dec = Ends
        BY <3>1, <3>2, <3>7, <4>1, DecodesFlowing DEF Decodes, NoPulse
      <4> QED BY <4>2 DEF Ends
    <3>8. CASE ctrl_fsm_cs = "DECODE_HWLOOP" /\ insn_id \in Flows
      <4>1. /\ o.busy /\ o.dec = Ends
            /\ o.hwlpJump = (/\ BackTo(Sequel(pc_id), hwlp_counter_q) # NoAddr
                             /\ ~hwlp_end_4_id_q)
        BY <3>1, <3>2, <3>8, HwloopFlows DEF Decodes
      <4> QED BY <1>3, <3>8, <4>1 DEF Ends
    <3> QED BY <3>1, <3>2, <3>3, <3>4, <3>5, <3>6, <3>7, <3>8, InsnCases
  <2> QED BY <2>2, <2>3, <2>4
<1> QED BY <1>1, <1>2, <1>3

\* In all other states it counts none, tells nothing, and is busy but for sleep.
LEMMA BusyAwake ==
  ASSUME CoreInv, NEW in \in Inputs, NEW o, o = Out(in),
         ctrl_fsm_cs \notin {"DECODE", "DECODE_HWLOOP"}
  PROVE  /\ o.dec = {} /\ ~o.hwlpJump
         /\ ctrl_fsm_cs \notin {"WAIT_SLEEP", "SLEEP"} => o.busy
<1>1. CASE ctrl_fsm_cs = "FLUSH_WB"
  <2>1. /\ illegal_insn_q = illegal_insn /\ (insn_id = "ebreak" => ~debug_mode_q)
        /\ Raising \/ Returning \/ Executed
    BY <1>1 DEF CoreInv, StateInv, InFlushWb, Flushed
  <2> QED BY <1>1, <2>1, FlushWbRaises, FlushWbReturns, FlushWbGoesOn DEF CoreInv, Silent
<1>2. CASE ctrl_fsm_cs = "FLUSH_EX"
  <2>1. illegal_insn_q = illegal_insn /\ (insn_id = "ebreak" => ~debug_mode_q)
    BY <1>2 DEF CoreInv, StateInv, InFlushEx, Flushed
  <2> QED BY <1>2, <2>1, FlushExSays DEF CoreInv, Silent
<1>3. CASE ctrl_fsm_cs = "FIRST_FETCH"
  BY <1>3, FirstFetchSays, InterruptSays DEF CoreInv, Silent
<1>4. CASE ctrl_fsm_cs \in {"RESET", "BOOT_SET", "XRET_JUMP", "DBG_WAIT_BRANCH",
                            "DBG_FLUSH", "DBG_TAKEN_ID", "DBG_TAKEN_IF"}
  <2>1. TypeOK
    BY DEF CoreInv
  <2>2. CASE ctrl_fsm_cs = "RESET"
    BY <2>1, <2>2, ResetSays DEF Silent
  <2>3. CASE ctrl_fsm_cs = "BOOT_SET"
    BY <2>1, <2>3, BootSetSays DEF Silent
  <2>4. CASE ctrl_fsm_cs = "XRET_JUMP"
    BY <2>1, <2>4, XretJumpSays DEF Silent
  <2>5. CASE ctrl_fsm_cs = "DBG_WAIT_BRANCH"
    BY <2>1, <2>5, DbgWaitBranchSays DEF Silent
  <2>6. CASE ctrl_fsm_cs = "DBG_FLUSH"
    BY <2>1, <2>6, DbgFlushSays DEF Silent
  <2>7. CASE ctrl_fsm_cs = "DBG_TAKEN_ID"
    BY <2>1, <2>7, DbgTakenIdSays DEF Silent
  <2>8. CASE ctrl_fsm_cs = "DBG_TAKEN_IF"
    BY <2>1, <2>8, DbgTakenIfSays DEF Silent
  <2> QED BY <1>4, <2>2, <2>3, <2>4, <2>5, <2>6, <2>7, <2>8
<1>5. CASE ctrl_fsm_cs \in {"WAIT_SLEEP", "SLEEP"}
  BY <1>5, WaitSleepSays, SleepSays DEF CoreInv, Silent
<1> QED BY <1>1, <1>2, <1>3, <1>4, <1>5 DEF CoreInv, TypeOK, CtrlStates

\* cv32e40p_controller and cv32e40p_if_stage: hwlp_jump_o comes with the last
\* instruction but one in ID, before the last one has left the IF stage, and once.
THEOREM HwlpJumpsOnTime == Spec /\ []CsrLoopEnds => []HwlpJumpOnTime
<1>1. CoreInv /\ CsrLoopEnds => HwlpJumpOnTime
  <2> SUFFICES ASSUME CoreInv, CsrLoopEnds, NEW in \in Inputs, Out(in).hwlpJump
      PROVE  instr_valid_id /\ npc = Sequel(pc_id) /\ loopTo = NoAddr
    BY DEF HwlpJumpOnTime
  <2>1. /\ instr_valid_id /\ ~branch_taken_ex /\ ctrl_fsm_cs = "DECODE_HWLOOP"
        /\ BackTo(Sequel(pc_id), hwlp_counter_q) # NoAddr /\ ~hwlp_end_4_id_q
    BY IdSays, BusyAwake
  <2>2. /\ due = pc_id /\ due \in Addr /\ npc = After(due, hwlp_counter_q)
        /\ loopTo = NoAddr
    BY <2>1, DueInId
  <2>3. PICK k \in Loops : IsLast(k, Sequel(pc_id))
    BY <2>1 DEF BackTo, JumpsBack
  <2>4. \A j \in Loops : ~IsLast(j, due)
    BY <2>2, <2>3, LoopEnds
  <2>5. JumpsBack(due, hwlp_counter_q) = {}
    BY <2>4 DEF JumpsBack
  <2> QED BY <2>1, <2>2, <2>5, AfterLast
<1> QED BY <1>1, CoreInvariant, PTL

\* corev_hw_loop.rst, cv32e40p_hwloop_regs: a loop that has run out stays off until it
\* is set up again.
THEOREM RunOutLoopsStayOff == Spec /\ []CsrLoopEnds => RunOutStaysOff
<1> DEFINE Off == \A k \in Loops :
                    hwlp_counter_q[k] = 0 /\ hwlp_counter_q'[k] # 0 => insn_id = "setup"
<1>1. CoreInv /\ CsrLoopEnds /\ [Next]_vars => [Off]_vars
  <2> SUFFICES ASSUME CoreInv, CsrLoopEnds, Next PROVE Off
    OBVIOUS
  <2>1. PICK in \in Inputs : Cycle(in)
    BY DEF Next
  <2>2. PICK o : o = Out(in)
    OBVIOUS
  <2>3. CASE ~ClockRuns(in)
    BY <2>1, <2>3 DEF Cycle, gated, hwloopVars
  <2>4. CASE ClockRuns(in)
    <3> DEFINE valid == instr_valid_id /\ ClearInstrValid(in, o)
    <3>1. PICK n : hwlp_counter_q' =
            [k \in Loops |-> IF k \in SetsUp(in, o) THEN n ELSE Decremented(k, o.dec, valid)]
      BY <2>1, <2>2, <2>4 DEF Cycle, GatedClock, HwloopClock
    <3>2. \A k \in o.dec : hwlp_counter_q[k] # 0
      BY <2>2, IdSays, BusyAwake
    <3>3. \A k \in Loops :
            hwlp_counter_q[k] = 0 => Decremented(k, o.dec, valid) = hwlp_counter_q[k]
      BY <3>2 DEF Decremented
    <3>4. \A k : k \in SetsUp(in, o) => insn_id = "setup"
      BY DEF SetsUp
    <3> QED BY <3>1, <3>3, <3>4
  <2> QED BY <2>3, <2>4
<1> QED BY <1>1, CoreInvariant, PTL DEF Spec, RunOutStaysOff

\* cv32e40p_sleep_unit: the core sleeps behind an executed wfi only.
THEOREM CoreSleepsForWfi == Spec /\ []CsrLoopEnds => []SleepsForWfi
<1>1. CoreInv /\ CsrLoopEnds => SleepsForWfi
  <2> SUFFICES ASSUME CoreInv, CsrLoopEnds, NEW in \in Inputs
      PROVE  /\ ~Busy(Out(in)) => ctrl_fsm_cs \in {"WAIT_SLEEP", "SLEEP"}
             /\ CoreSleep(Wake(in)) =>
                  /\ insn_id = "wfi" /\ due = Sequel(pc_id)
                  /\ ~debug_mode_q /\ step = "off" /\ pc_id # TriggerAddr
    BY DEF SleepsForWfi
  <2>1. ~Busy(Out(in)) => ctrl_fsm_cs \in {"WAIT_SLEEP", "SLEEP"}
    BY IdSays, BusyAwake DEF Busy, CoreBusy
  <2>2. CoreSleep(Wake(in)) => ctrl_fsm_cs = "SLEEP"
    BY DEF CoreInv, ClockInv, CoreSleep, ClockEn
  <2>3. ctrl_fsm_cs = "SLEEP" =>
          /\ insn_id = "wfi" /\ due = Sequel(pc_id)
          /\ ~debug_mode_q /\ step = "off" /\ pc_id # TriggerAddr
    BY DEF CoreInv, StateInv, InSleep, WfiDone, trigger_match
  <2> QED BY <2>1, <2>2, <2>3
<1> QED BY <1>1, CoreInvariant, PTL

\* cv32e40p_sleep_unit: no fetch, data access, jump or step of the FSM is cut off.
THEOREM CoreStopsIdle == Spec /\ []CsrLoopEnds => []ClockStopsIdle
<1>1. CoreInv => ClockStopsIdle
  <2> SUFFICES ASSUME CoreInv, NEW in \in Inputs, ~ClockRuns(in)
      PROVE  /\ ctrl_fsm_cs \in {"RESET", "SLEEP"} /\ Out(in).ns = ctrl_fsm_cs
             /\ ~wb /\ ~outstanding /\ ex = "none" /\ ~jump_done_q
    BY DEF ClockStopsIdle
  <2>1. CASE ~fetch_enable_q
    <3>1. ctrl_fsm_cs = "RESET" /\ InReset /\ ~outstanding
      BY <2>1 DEF CoreInv, ClockInv, StateInv
    <3>2. Out(in).ns = "RESET"
      BY <2>1, <3>1, ResetSays, InputFacts DEF CoreInv
    <3> QED BY <3>1, <3>2 DEF InReset, Idle
  <2>2. CASE fetch_enable_q
    <3>1. ctrl_fsm_cs = "SLEEP" /\ InSleep /\ ~outstanding /\ ~wb /\ ~Wake(in)
      BY <2>2 DEF CoreInv, ClockInv, StateInv, ClockRuns, ClockEn
    <3>2. Out(in).ns = "SLEEP"
      BY <3>1, SleepSays DEF CoreInv
    <3> QED BY <3>1, <3>2 DEF InSleep, Idle
  <2> QED BY <2>1, <2>2
<1> QED BY <1>1, CoreInvariant, PTL

=============================================================================
