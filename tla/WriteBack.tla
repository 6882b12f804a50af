----------------------------- MODULE WriteBack -----------------------------
(***************************************************************************)
(* How results reach the register file and the instructions that need      *)
(* them: the ID/EX and EX/WB registers, the two write ports of             *)
(* cv32e40p_ex_stage shared by the execution units, the load-store unit    *)
(* and the FPU, the stalls and forwarding selects of cv32e40p_controller,  *)
(* and the APU dispatcher.  One step is one clock cycle.                   *)
(*                                                                         *)
(* Values are not computed.  newest[r] says where the value that the last  *)
(* instruction (in program order) to write r produces is to be found:      *)
(*   "ex"   in EX, on its way to the ALU port or into the FPU              *)
(*   "mem"  a load in EX     "wb"   a load in WB                           *)
(*   "fpu"  in the FPU or in the result memorisation register              *)
(*   "rf"   the register file     "lost"  nowhere                          *)
(*                                                                         *)
(* An instruction is a record [kind, reads, alu, mem, lat]: the registers  *)
(* it reads, the one it writes through the ALU port (an operation of the   *)
(* FPU, kind "apu": its destination) and the one it loads.  The inputs of  *)
(* a cycle are in = [gnt, rvalid, apuGnt, fpu, kill, unit]:                *)
(*   gnt, rvalid   data_gnt_i, data_rvalid_i                               *)
(*   apuGnt        apu_gnt_i                                               *)
(*   fpu           an operation of long latency finishes (apu_rvalid_i)    *)
(*   kill          "irq" or "debug": the controller drops the instruction  *)
(*                 in ID; "no": it does not                                *)
(*   unit          the divider finishes                                    *)
(***************************************************************************)
EXTENDS ApuDispatcher, InsnShape

CONSTANTS Reg, Zero,    \* registers; x0, written by some and read as 0
          Insn,         \* the instructions of a program
          COREV_PULP, PULP_OBI

ASSUME WriteBackAssumption ==
  /\ None \notin Reg /\ Zero \notin Reg /\ None # Zero
  /\ Insn \subseteq [kind : Kind, reads : SUBSET Reg,
                     alu : Reg \cup {Zero, None}, mem : Reg \cup {Zero, None},
                     lat : 0 .. 3]
  /\ COREV_PULP \in BOOLEAN /\ PULP_OBI \in BOOLEAN
  /\ \A i \in Insn : WellShaped(i, None, Zero, COREV_PULP)

Bubble == [kind |-> "none", reads |-> {}, alu |-> None, mem |-> None, lat |-> 0]

VARIABLES
  instr_valid_id, id, jump_done_q,           \* ID
  ex, regfile_alu_we_ex, data_misaligned_ex, \* ID/EX
  regfile_waddr_ex,
  split, taken,      \* the access in EX crosses a word; the branch is taken
  unit,              \* mulh_CS or the divider's state
  cnt_q,             \* load-store unit: requests not answered
  regfile_we_lsu, regfile_waddr_lsu,         \* EX/WB
  apu_result_q,  \* the register a memorised result is for; None: apu_rvalid_q = 0
  fpu,        \* external FPU: destination of the operation of each latency
  newest,     \* history, see above
  wbWhole,    \* history: the load in WB is not the first part of a split one
  misread     \* history: some operand was not the newest value

idVars == <<instr_valid_id, id, jump_done_q>>
exVars == <<ex, regfile_alu_we_ex, data_misaligned_ex, regfile_waddr_ex,
            split, taken>>
wbVars == <<regfile_we_lsu, regfile_waddr_lsu, wbWhole>>
vars == <<idVars, exVars, unit, cnt_q, wbVars, apu_result_q, fpu,
          newest, misread, apuVars>>

Init ==
  /\ instr_valid_id = FALSE /\ id = Bubble /\ jump_done_q = FALSE
  /\ ex = Bubble /\ regfile_alu_we_ex = FALSE /\ data_misaligned_ex = FALSE
  /\ regfile_waddr_ex = Zero /\ split = FALSE /\ taken = FALSE
  /\ unit = "IDLE" /\ cnt_q = 0
  /\ regfile_we_lsu = FALSE /\ regfile_waddr_lsu = Zero /\ wbWhole = TRUE
  /\ apu_result_q = None /\ fpu = [l \in {2, 3} |-> None]
  /\ newest = [r \in Reg |-> "rf"] /\ misread = FALSE
  /\ ApuInit

branch_taken_ex == ex.kind = "branch" /\ taken

\* is_decoding_o; it stays set for an instruction that makes room for the debug
\* handler in the core without COREV_PULP.
Decoding(in) ==
  /\ instr_valid_id /\ ~branch_taken_ex
  /\ in.kill = "no" \/ (in.kill = "debug" /\ ~COREV_PULP)

\* ---- load-store unit -----------------------------------------------------
data_req_ex == ex.kind \in {"load", "store"}
data_misaligned == data_req_ex /\ split /\ ~data_misaligned_ex
DataReq(in) ==
  data_req_ex /\ cnt_q < 2 /\ (PULP_OBI => cnt_q = 0 \/ in.rvalid)
Accepted(in) == DataReq(in) /\ in.gnt
WbReady(in) == cnt_q = 0 \/ in.rvalid
LsuReadyEx(in) ==
  \/ ~data_req_ex
  \/ cnt_q = 0 /\ Accepted(in)
  \/ cnt_q = 1 /\ in.rvalid /\ Accepted(in)
  \/ cnt_q = 2 /\ in.rvalid

\* ---- multiplier and divider ----------------------------------------------
mulh_active == ex.kind = "mulh" /\ unit # "IDLE"
mult_multicycle == mulh_active /\ unit # "FINISH"
unit_ready == ex.kind \in {"mulh", "div"} => unit = "FINISH"

\* ---- FPU -----------------------------------------------------------------
apu == [en |-> ex.kind = "apu", lat |-> ex.lat, waddr |-> ex.alu]

ApuAccepted(in) == ValidReq(apu) /\ in.apuGnt

\* apu_rvalid_i and whose result it is: an operation of latency 1 returns in
\* the cycle of its grant, one of latency 2 in the next; in.fpu for the others.
FpuResult(in) ==
  IF ApuAccepted(in) /\ apu.lat = 1 THEN apu.waddr
  ELSE IF fpu[2] # None THEN fpu[2]
  ELSE IF in.fpu THEN fpu[3] ELSE None

FpuClock(in) ==
  LET done3 == FpuResult(in) = fpu[3] /\ in.fpu /\ fpu[2] = None
  IN  fpu' = [l \in {2, 3} |->
                IF ApuAccepted(in) /\ apu.lat = l THEN apu.waddr
                ELSE IF l = 2 \/ done3 THEN None ELSE fpu[l]]

FaultyHoldResult(in) ==
  \/ data_misaligned \/ data_misaligned_ex
  \/ (DataReq(in) \/ in.rvalid) /\ regfile_alu_we_ex
  \/ mulh_active

\* When a result that would take the ALU port is memorised instead.  The
\* decoder's jump signal does not depend on the instruction's validity; that of
\* the dependency does (is_decoding).
HoldResult(in) ==
  \/ data_misaligned \/ data_misaligned_ex
  \/ (DataReq(in) \/ in.rvalid) /\ regfile_alu_we_ex
  \/ mulh_active
  \/ /\ id.kind = "jalr" /\ regfile_alu_we_ex
     /\ ~(Decoding(in) /\ JalrDep(apu, id.reads))

ApuValid(in) ==
  /\ ~(Multicycle /\ HoldResult(in))
  /\ FpuResult(in) # None \/ apu_result_q # None

\* The register that the result in apu_result belongs to.
ResultFor(in) == IF apu_result_q # None THEN apu_result_q ELSE FpuResult(in)

ResultClock(in) ==
  apu_result_q' =
    IF FpuResult(in) # None /\ Multicycle /\ HoldResult(in)
    THEN FpuResult(in)
    ELSE IF HoldResult(in) THEN apu_result_q ELSE None

\* ---- write ports ---------------------------------------------------------
\* Results of two-cycle operations use the LSU port, all others the ALU port.
AluPortApu(in) == ApuValid(in) /\ (Singlecycle \/ Multicycle)
LsuPortApu(in) == ApuValid(in) /\ ~Singlecycle /\ ~Multicycle

\* regfile_alu_we_fw_o, its _power_ variant that writes, regfile_alu_waddr_fw_o
AluPort(in) ==
  LET own == regfile_alu_we_ex /\ ~apu.en
  IN  IF AluPortApu(in)
      THEN [fw |-> TRUE, we |-> TRUE, waddr |-> ApuWaddr(apu)]
      ELSE [fw |-> own, waddr |-> ex.alu,
            we |-> own /\ (COREV_PULP => unit_ready /\ LsuReadyEx(in))]

\* regfile_we_wb_o, its _power_ variant, regfile_waddr_wb_o
LsuPort(in) ==
  IF regfile_we_lsu
  THEN [fw |-> TRUE, waddr |-> regfile_waddr_lsu,
        we |-> COREV_PULP => ~data_misaligned_ex /\ WbReady(in)]
  ELSE [fw |-> LsuPortApu(in), we |-> LsuPortApu(in),
        waddr |-> IF LsuPortApu(in) THEN ApuWaddr(apu)
                  ELSE regfile_waddr_lsu]

FaultyWbContention(in) == FALSE

WbContention(in) == AluPortApu(in) /\ regfile_alu_we_ex /\ ~apu.en

ExReady(in) ==
  \/ /\ ~ApuStall(apu, in.apuGnt) /\ unit_ready /\ LsuReadyEx(in)
     /\ WbReady(in) /\ ~WbContention(in)
  \/ ex.kind = "branch"

\* An empty EX counts as valid; where alu_en_ex_o is 0 it does not, which makes
\* no difference to EX/WB.
ExValid(in) ==
  /\ ApuValid(in) \/ ~apu.en
  /\ unit_ready /\ LsuReadyEx(in) /\ WbReady(in)

\* ---- stalls --------------------------------------------------------------
regfile_we_ex == ex.kind = "load"

\* regfile_alu_we_dec: the FPU's destination is not written by the instruction
alu_we_id == id.alu # None /\ id.kind # "apu"

LoadStall(in) ==
  /\ \/ data_req_ex /\ regfile_we_ex
     \/ ~WbReady(in) /\ LsuPort(in).fw
  /\ \/ regfile_waddr_ex \in id.reads
     \/ Decoding(in) /\ alu_we_id /\ ~data_misaligned /\ regfile_waddr_ex = id.alu

JrStall(in) ==
  id.kind = "jalr" /\
    \E r \in id.reads :
      \/ LsuPort(in).fw /\ LsuPort(in).waddr = r
      \/ regfile_we_ex /\ regfile_waddr_ex = r
      \/ AluPort(in).fw /\ AluPort(in).waddr = r
      \/ Decoding(in) /\ JalrDep(apu, {r})

\* apu_stall_o: wait for operands, and, unless the FPU executes it too, for
\* the register to be written.
ApuDepStall(in) ==
  LET busy == Outstanding(apu, ApuValid(in))
  IN  /\ Decoding(in)
      /\ \/ id.reads \cap busy # {}
         \/ id.kind # "apu" /\ {id.alu, id.mem} \cap busy # {}

CsrApuStall == id.kind = "csr" /\ (apu_active \/ (apu.en /\ apu.lat > 1))

IdReady(in) ==
  /\ ~data_misaligned /\ ~JrStall(in) /\ ~LoadStall(in)
  /\ ~ApuDepStall(in) /\ ~CsrApuStall
  /\ ExReady(in)

Issues(in) == Decoding(in) /\ in.kill = "no" /\ IdReady(in)
Jumps(in) ==
  /\ Decoding(in) /\ in.kill = "no" /\ id.kind = "jalr"
  /\ ~JrStall(in) /\ ~jump_done_q

\* ---- where the newest values are -----------------------------------------
\* Is the result that the FPU delivers to register r its newest value?
ApuNewest(in, r) ==
  /\ ResultFor(in) = r
  /\ newest[r] = IF ReturnedReq(apu, TRUE) THEN "ex" ELSE "fpu"

AluPortNewest(in, r) ==
  IF AluPortApu(in) THEN ApuNewest(in, r)
  ELSE newest[r] = "ex" /\ ~apu.en /\ unit_ready

LsuPortNewest(in, r) ==
  IF regfile_we_lsu THEN newest[r] = "wb" /\ in.rvalid /\ wbWhole
  ELSE ApuNewest(in, r)

\* The operand r that ID reads: forwarded from EX, from WB, or read from the
\* register file.
OperandNewest(in, r) ==
  IF AluPort(in).fw /\ AluPort(in).waddr = r THEN AluPortNewest(in, r)
  ELSE IF LsuPort(in).fw /\ LsuPort(in).waddr = r THEN LsuPortNewest(in, r)
  ELSE newest[r] = "rf"

\* The register file prefers the ALU port.
WritesAlu(in, r) == AluPort(in).we /\ AluPort(in).waddr = r
WritesLsu(in, r) == LsuPort(in).we /\ LsuPort(in).waddr = r /\ ~WritesAlu(in, r)

Stored(in, r) ==
  \/ WritesAlu(in, r) /\ AluPortNewest(in, r)
  \/ WritesLsu(in, r) /\ LsuPortNewest(in, r)

\* The instruction in EX will not write through the ALU port again.
LeavesEx(in) == ExReady(in) \/ ex.kind = "csr"

\* Where the newest value of r is once the clock edge has moved everything.
Moved(in, r) ==
  CASE newest[r] = "rf" ->
         IF WritesAlu(in, r) \/ WritesLsu(in, r) THEN "lost" ELSE "rf"
    [] newest[r] = "ex" ->
         IF ~LeavesEx(in) THEN "ex"
         ELSE IF Stored(in, r) THEN "rf"
         ELSE IF ApuAccepted(in) /\ ~ReturnedReq(apu, ApuValid(in)) THEN "fpu"
         ELSE "lost"
    [] newest[r] = "mem" ->
         IF data_misaligned THEN "mem"
         ELSE IF ExValid(in) THEN "wb" ELSE IF ExReady(in) THEN "lost" ELSE "mem"
    [] newest[r] = "wb" ->
         IF Stored(in, r) THEN "rf" ELSE IF WbReady(in) THEN "lost" ELSE "wb"
    [] newest[r] = "fpu" ->
         IF Stored(in, r) THEN "rf"
         ELSE IF ApuValid(in) /\ ResultFor(in) = r THEN "lost" ELSE "fpu"
    [] OTHER -> "lost"

HistoryClock(in) ==
  /\ newest' = [r \in Reg |->
                  IF Issues(in) /\ id.mem = r THEN "mem"
                  ELSE IF Issues(in) /\ id.alu = r THEN "ex"
                  ELSE Moved(in, r)]
  /\ misread' =
       \/ misread
       \/ Issues(in) /\ \E r \in id.reads : ~OperandNewest(in, r)
       \/ Jumps(in) /\ \E r \in id.reads : newest[r] # "rf"
       \/ AluPortApu(in) /\ mult_multicycle
       \/ AluPortApu(in) /\ data_misaligned /\ ExReady(in) /\ ex.alu = None

\* ---- clock ---------------------------------------------------------------
\* The IF stage offers an instruction whenever it can, or later.
IdClock(in) ==
  /\ jump_done_q' = ((jump_done_q \/ Jumps(in)) /\ ~IdReady(in))
  /\ \/ /\ instr_valid_id' = (instr_valid_id /\ ~IdReady(in) /\ in.kill = "no"
                                /\ ~branch_taken_ex)
        /\ UNCHANGED id
     \/ /\ IdReady(in) /\ in.kill = "no" /\ ~branch_taken_ex /\ ~Jumps(in)
        /\ instr_valid_id' = TRUE /\ id' \in Insn

IdExClock(in) ==
  \/ /\ data_misaligned
     /\ regfile_alu_we_ex' = (regfile_alu_we_ex /\ ~ExReady(in))
     /\ data_misaligned_ex' = ExReady(in)
     /\ UNCHANGED <<ex, regfile_waddr_ex, split, taken>>
  \/ /\ mult_multicycle
     /\ UNCHANGED exVars
  \/ /\ ~data_misaligned /\ ~mult_multicycle /\ Issues(in)
     /\ ex' = id /\ regfile_alu_we_ex' = alu_we_id
     /\ data_misaligned_ex' = FALSE
     /\ regfile_waddr_ex' = IF id.mem # None THEN id.mem ELSE regfile_waddr_ex
     /\ split' \in {b \in BOOLEAN : b => id.kind \in {"load", "store"}}
     /\ taken' \in {b \in BOOLEAN : b => id.kind = "branch"}
  \/ /\ ~data_misaligned /\ ~mult_multicycle /\ ~Issues(in) /\ ExReady(in)
     /\ ex' = Bubble /\ regfile_alu_we_ex' = FALSE
     /\ data_misaligned_ex' = FALSE /\ split' = FALSE /\ taken' = FALSE
     /\ UNCHANGED regfile_waddr_ex
  \/ /\ ~data_misaligned /\ ~mult_multicycle /\ ~ExReady(in)
     /\ regfile_alu_we_ex' = (regfile_alu_we_ex /\ ex.kind # "csr")
     /\ UNCHANGED <<ex, data_misaligned_ex, regfile_waddr_ex, split, taken>>

UnitClock(in) ==
  unit' = CASE unit = "FINISH" -> IF ExReady(in) THEN "IDLE" ELSE "FINISH"
            [] ex.kind = "mulh" /\ unit = "IDLE" -> "STEP0"
            [] unit = "STEP0" -> "STEP1"
            [] unit = "STEP1" -> "STEP2"
            [] unit = "STEP2" -> "FINISH"
            [] ex.kind = "div" -> IF in.unit /\ unit = "DIVIDE" THEN "FINISH" ELSE "DIVIDE"
            [] OTHER -> "IDLE"

ExWbClock(in) ==
  /\ regfile_we_lsu' = IF ExValid(in) THEN regfile_we_ex
                       ELSE regfile_we_lsu /\ ~WbReady(in)
  /\ regfile_waddr_lsu' = IF ExValid(in) /\ regfile_we_ex THEN regfile_waddr_ex
                          ELSE regfile_waddr_lsu
  /\ wbWhole' = IF ExValid(in) /\ regfile_we_ex THEN ~data_misaligned ELSE wbWhole

Cycle(in) ==
  /\ HistoryClock(in)
  /\ UnitClock(in) /\ ExWbClock(in)
  /\ cnt_q' = cnt_q + (IF Accepted(in) THEN 1 ELSE 0) - (IF in.rvalid THEN 1 ELSE 0)
  /\ ApuClock(apu, in.apuGnt, ApuValid(in))
  /\ ResultClock(in) /\ FpuClock(in)
  /\ IdExClock(in) /\ IdClock(in)

Input == [gnt : BOOLEAN, rvalid : BOOLEAN, apuGnt : BOOLEAN, fpu : BOOLEAN,
          kill : {"no", "irq", "debug"}, unit : BOOLEAN]

\* Inputs that mean something in this state.
Possible(in) ==
  /\ in.rvalid => cnt_q > 0
  /\ in.gnt => DataReq(in)
  /\ in.apuGnt => ValidReq(apu)
  /\ in.fpu => fpu[3] # None
  /\ in.kill # "no" => instr_valid_id
  /\ in.kill = "debug" => ~COREV_PULP   \* else the same as "irq"
  /\ in.unit => unit = "DIVIDE"

Next == \E in \in Input : Possible(in) /\ Cycle(in)

Spec == Init /\ [][Next]_vars

----------------------------------------------------------------------------
\* Every register an instruction reads, a register jump uses or a unit takes
\* back from the ALU port is the value that its program predecessor wrote.
ReadsNewest == ~misread

\* No result is dropped, and none overwrites a newer one.
NewestNotLost ==
  \A r \in Reg :
    /\ newest[r] # "lost"
    /\ newest[r] = "fpu" => r \in {fpu[2], fpu[3], apu_result_q}

\* The dispatcher's slots hold what the FPU has not delivered, memorised result
\* included, so that no response is taken for another operation's, and the
\* second slot is never needed.
DispatcherAgrees ==
  /\ waiting = None
  /\ {inflight} \ {None} = {fpu[2], fpu[3], apu_result_q} \ {None}
=============================================================================
