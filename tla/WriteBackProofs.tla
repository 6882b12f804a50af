-------------------------- MODULE WriteBackProofs --------------------------
(***************************************************************************)
(* For every program, any number of registers and each setting of          *)
(* COREV_PULP and PULP_OBI: the APU dispatcher agrees with the FPU, every  *)
(* operand is the newest value, and no result is lost.                     *)
(*                                                                         *)
(* The dispatcher: stall_type lets at most one operation be unfinished after *)
(* a clock edge, and apu_lat then tells where it is: 2 for the operation   *)
(* that the FPU returns in the next cycle, 3 for one of long latency, in   *)
(* the FPU or in the memorisation register.  The result of an operation of *)
(* latency 1 is never memorised, for the conditions of the memorisation    *)
(* exclude an operation of the FPU in EX.                                  *)
(*                                                                         *)
(* The values: Located says that something will write the newest value of  *)
(* a register from where it is, Claimed that whatever may write the        *)
(* register holds its newest value or is overtaken in time.  Two facts     *)
(* about the stages make them inductive: the load in WB has a response to  *)
(* come, and regfile_waddr_ex still names its register while the           *)
(* instruction in EX is not a load (WbInv), which is what the load stall   *)
(* compares with.                                                          *)
(***************************************************************************)
EXTENDS WriteBack, TLAPS

Dest == Reg \cup {Zero}

\* What is in ID and EX, as far as the dispatcher is concerned.
ExInv ==
  /\ id \in Insn \cup {Bubble} /\ ex \in Insn \cup {Bubble}
  /\ ex.kind = "apu" => ~regfile_alu_we_ex /\ ~data_misaligned_ex

\* The operation of the FPU that is not finished, if there is one.
Idle == inflight = None /\ fpu[2] = None /\ fpu[3] = None /\ apu_result_q = None
TwoCycle ==
  /\ inflight \in Dest /\ fpu[2] = inflight /\ apu_lat = 2
  /\ fpu[3] = None /\ apu_result_q = None
Long ==
  /\ inflight \in Dest /\ fpu[3] = inflight /\ apu_lat = 3
  /\ fpu[2] = None /\ apu_result_q = None
Memorised ==
  /\ inflight \in Dest /\ apu_result_q = inflight /\ apu_lat = 3
  /\ fpu[2] = None /\ fpu[3] = None

FpuInv ==
  /\ waiting = None /\ DOMAIN fpu = {2, 3}
  /\ Idle \/ TwoCycle \/ Long \/ Memorised

IInv == ExInv /\ FpuInv

----------------------------------------------------------------------------
\* An operation in EX has a destination and one of three latencies.
LEMMA Operation ==
  ASSUME ExInv, ex.kind = "apu"
  PROVE  ex.alu \in Dest /\ ex.lat \in {1, 2, 3}
<1>1. ex \in Insn
  BY DEF ExInv, Bubble
<1>2. ex.alu \in Reg \cup {Zero, None} /\ ex.lat \in 0 .. 3
  BY <1>1, WriteBackAssumption
<1>3. ex.lat # 0 /\ ex.alu # None
  BY <1>1, WriteBackAssumption DEF WellShaped
<1> QED
  BY <1>2, <1>3 DEF Dest

\* The result memorisation is idle while an operation is in EX.
LEMMA NotHeld ==
  ASSUME ExInv, ex.kind = "apu", NEW in
  PROVE  ~HoldResult(in)
  BY DEF ExInv, HoldResult, data_misaligned, data_req_ex, mulh_active

\* A slot that holds an operation is not empty.
LEMMA NoneIsNoDest == None \notin Dest
  BY WriteBackAssumption DEF Dest

----------------------------------------------------------------------------
\* After reset nothing is with the FPU.
LEMMA InitInv == Init => IInv
  BY DEF Init, IInv, ExInv, FpuInv, Idle, ApuInit, Bubble

\* ID/EX hands the dispatcher an operation that does not also write through
\* the ALU port.
LEMMA ExStep ==
  ASSUME ExInv, NEW in \in Input, Cycle(in)
  PROVE  ExInv'
<1>1. id' \in Insn \cup {Bubble}
  BY DEF Cycle, IdClock, ExInv
<1>2. ex' \in Insn \cup {Bubble}
  BY DEF Cycle, IdExClock, ExInv, exVars
<1>3. ex'.kind = "apu" => ~regfile_alu_we_ex' /\ ~data_misaligned_ex'
  <2> USE DEF ExInv
  <2>0. IdExClock(in)
    BY DEF Cycle
  <2>1. CASE data_misaligned
    <3>1. ex.kind # "apu"
      BY <2>1 DEF data_misaligned, data_req_ex
    <3> QED
      BY <2>0, <2>1, <3>1 DEF IdExClock, exVars
  <2>2. CASE ~data_misaligned /\ mult_multicycle
    BY <2>0, <2>2 DEF IdExClock, exVars
  <2>3. CASE ~data_misaligned /\ ~mult_multicycle /\ Issues(in)
    BY <2>0, <2>3 DEF IdExClock, alu_we_id
  <2>4. CASE ~data_misaligned /\ ~mult_multicycle /\ ~Issues(in)
    BY <2>0, <2>4 DEF IdExClock, Bubble
  <2> QED
    BY <2>1, <2>2, <2>3, <2>4
<1> QED
  BY <1>1, <1>2, <1>3 DEF ExInv

----------------------------------------------------------------------------
\* A step in each of the four situations.
LEMMA FromIdle ==
  ASSUME IInv, NEW in \in Input, Possible(in), Cycle(in), Idle
  PROVE  FpuInv'
<1>1. /\ waiting = None /\ inflight = None /\ apu_result_q = None
      /\ fpu[2] = None /\ fpu[3] = None
  BY DEF IInv, FpuInv, Idle
<1>2. ~in.fpu /\ ~apu_active /\ ~StallFull /\ ~StallType(apu)
  BY <1>1 DEF Possible, apu_active, StallFull, StallType
<1>3. ValidReq(apu) = (ex.kind = "apu")
  BY <1>2 DEF ValidReq, apu
<1>4. ApuClock(apu, in.apuGnt, ApuValid(in)) /\ ResultClock(in) /\ FpuClock(in)
  BY DEF Cycle
<1>5. CASE ~ApuAccepted(in)
  <2>1. FpuResult(in) = None /\ ~ApuValid(in)
    BY <1>1, <1>2, <1>5 DEF FpuResult, ApuValid
  <2>2. inflight' = None /\ waiting' = None
    BY <1>1, <1>4, <1>5, <2>1 DEF ApuClock, ApuAccepted, ReturnedInflight, ReturnedWaiting
  <2>3. fpu' = [l \in {2, 3} |-> None]
    BY <1>1, <1>2, <1>4, <1>5 DEF FpuClock
  <2>4. apu_result_q' = None
    BY <1>1, <1>4, <2>1 DEF ResultClock
  <2> QED
    BY <2>2, <2>3, <2>4 DEF FpuInv, Idle
<1>6. CASE ApuAccepted(in)
  <2>0. ex.kind = "apu" /\ ExInv /\ in.apuGnt
    BY <1>3, <1>6 DEF ApuAccepted, IInv
  <2>1. ex.alu \in Dest /\ ex.lat \in {1, 2, 3} /\ ex.alu # None
    BY <2>0, Operation, NoneIsNoDest
  <2>2. ~HoldResult(in)
    BY <2>0, NotHeld
  <2>3. apu.lat = ex.lat /\ apu.waddr = ex.alu
    BY DEF apu
  <2>4. apu_result_q' = None
    BY <1>4, <2>2 DEF ResultClock
  <2>5. apu_lat' = ex.lat
    BY <1>3, <1>4, <2>0, <2>3 DEF ApuClock
  <2>6. fpu' = [l \in {2, 3} |-> IF ex.lat = l THEN ex.alu ELSE None]
    BY <1>1, <1>2, <1>4, <1>6, <2>3 DEF FpuClock
  <2>7. CASE ex.lat = 1
    <3>1. ApuValid(in)
      BY <1>6, <2>1, <2>2, <2>3, <2>7 DEF ApuValid, FpuResult
    <3>2. ReturnedReq(apu, ApuValid(in))
      BY <1>2, <1>3, <2>0, <3>1 DEF ReturnedReq
    <3>3. inflight' = None /\ waiting' = None
      BY <1>1, <1>4, <3>1, <3>2 DEF ApuClock, ReturnedInflight, ReturnedWaiting
    <3> QED
      BY <2>4, <2>6, <2>7, <3>3 DEF FpuInv, Idle
  <2>8. CASE ex.lat # 1
    <3>1. ~ApuValid(in)
      BY <1>1, <1>2, <2>3, <2>8 DEF ApuValid, FpuResult
    <3>2. inflight' = ex.alu /\ waiting' = None
      BY <1>1, <1>3, <1>4, <2>0, <2>3, <3>1
      DEF ApuClock, ReturnedReq, ReturnedInflight, ReturnedWaiting
    <3> QED
      BY <2>1, <2>4, <2>5, <2>6, <2>8, <3>2 DEF FpuInv, TwoCycle, Long
  <2> QED
    BY <2>7, <2>8
<1> QED
  BY <1>5, <1>6

\* An operation of two cycles returns now; only another one may follow it.
LEMMA FromTwoCycle ==
  ASSUME IInv, NEW in \in Input, Possible(in), Cycle(in), TwoCycle
  PROVE  FpuInv'
<1>1. /\ waiting = None /\ inflight \in Dest /\ inflight # None
      /\ fpu[2] = inflight /\ fpu[3] = None /\ apu_result_q = None /\ apu_lat = 2
  BY NoneIsNoDest DEF IInv, FpuInv, TwoCycle
<1>2. ApuClock(apu, in.apuGnt, ApuValid(in)) /\ ResultClock(in) /\ FpuClock(in)
  BY DEF Cycle
<1>3. ValidReq(apu) => ex.kind = "apu" /\ apu.lat = 2 /\ apu.waddr \in Dest
  <2>1. apu_active
    BY <1>1 DEF apu_active
  <2>2. SUFFICES ASSUME ValidReq(apu)
                 PROVE  ex.kind = "apu" /\ apu.lat = 2 /\ apu.waddr \in Dest
    OBVIOUS
  <2>3. ex.kind = "apu"
    BY <2>2 DEF ValidReq, apu
  <2>4. ex.alu \in Dest /\ ex.lat \in {1, 2, 3}
    BY <2>3, Operation DEF IInv
  <2> QED
    BY <2>1, <2>2, <2>3, <2>4 DEF ValidReq, StallType, apu
<1>4. FpuResult(in) = inflight /\ ApuValid(in)
  BY <1>1, <1>3 DEF FpuResult, ApuAccepted, ApuValid, Multicycle
<1>5. apu_result_q' = None /\ apu_lat' = 2
  BY <1>1, <1>2, <1>3 DEF ResultClock, ApuClock, Multicycle
<1>6. fpu' = [l \in {2, 3} |-> IF ApuAccepted(in) /\ l = 2 THEN apu.waddr ELSE None]
  BY <1>1, <1>2, <1>3 DEF FpuClock, ApuAccepted
<1>7. /\ inflight' = IF ApuAccepted(in) THEN apu.waddr ELSE None
      /\ waiting' = None
  BY <1>1, <1>2, <1>4
  DEF ApuClock, ApuAccepted, ReturnedReq, ReturnedInflight, ReturnedWaiting, apu_active
<1> QED
  BY <1>3, <1>5, <1>6, <1>7 DEF FpuInv, Idle, TwoCycle, ApuAccepted

\* While an operation of long latency is unfinished no other one starts.
LEMMA NoneStarts ==
  ASSUME IInv, Long \/ Memorised
  PROVE  ~ValidReq(apu)
<1>1. inflight # None /\ apu_lat = 3
  BY NoneIsNoDest DEF Long, Memorised
<1>2. SUFFICES ASSUME ex.kind = "apu"
               PROVE  StallType(apu)
  BY DEF ValidReq, apu
<1>3. apu.lat \in {1, 2, 3} /\ apu.en
  BY <1>2, Operation DEF IInv, apu
<1> QED
  BY <1>1, <1>3 DEF StallType, apu_active

\* An operation of long latency returns in any cycle, or its result is memorised.
LEMMA FromLong ==
  ASSUME IInv, NEW in \in Input, Possible(in), Cycle(in), Long
  PROVE  FpuInv'
<1>1. /\ waiting = None /\ inflight \in Dest /\ inflight # None
      /\ fpu[3] = inflight /\ fpu[2] = None /\ apu_result_q = None /\ apu_lat = 3
  BY NoneIsNoDest DEF IInv, FpuInv, Long
<1>2. ApuClock(apu, in.apuGnt, ApuValid(in)) /\ ResultClock(in) /\ FpuClock(in)
  BY DEF Cycle
<1>3. ~ValidReq(apu) /\ ~ApuAccepted(in)
  BY NoneStarts DEF ApuAccepted
<1>4. FpuResult(in) = IF in.fpu THEN inflight ELSE None
  BY <1>1, <1>3 DEF FpuResult
<1>5. ApuValid(in) = (in.fpu /\ ~HoldResult(in))
  BY <1>1, <1>4 DEF ApuValid, Multicycle, Input
<1>6. apu_lat' = 3 /\ waiting' = None
      /\ inflight' = IF ApuValid(in) THEN None ELSE inflight
  BY <1>1, <1>2, <1>3 DEF ApuClock, ReturnedReq, ReturnedInflight, ReturnedWaiting
<1>7. fpu' = [l \in {2, 3} |-> IF l = 3 /\ ~in.fpu THEN inflight ELSE None]
  BY <1>1, <1>2, <1>3, <1>4 DEF FpuClock
<1>8. apu_result_q' = IF in.fpu /\ HoldResult(in) THEN inflight ELSE None
  BY <1>1, <1>2, <1>4 DEF ResultClock, Multicycle
<1> QED
  BY <1>1, <1>5, <1>6, <1>7, <1>8 DEF FpuInv, Idle, Long, Memorised

\* A memorised result is delivered as soon as the ALU port is free.
LEMMA FromMemorised ==
  ASSUME IInv, NEW in \in Input, Possible(in), Cycle(in), Memorised
  PROVE  FpuInv'
<1>1. /\ waiting = None /\ inflight \in Dest /\ inflight # None
      /\ apu_result_q = inflight /\ fpu[2] = None /\ fpu[3] = None /\ apu_lat = 3
  BY NoneIsNoDest DEF IInv, FpuInv, Memorised
<1>2. ApuClock(apu, in.apuGnt, ApuValid(in)) /\ ResultClock(in) /\ FpuClock(in)
  BY DEF Cycle
<1>3. ~ValidReq(apu) /\ ~ApuAccepted(in)
  BY NoneStarts DEF ApuAccepted
<1>4. ~in.fpu /\ FpuResult(in) = None
  BY <1>1, <1>3 DEF FpuResult, Possible
<1>5. ApuValid(in) = ~HoldResult(in)
  BY <1>1, <1>4 DEF ApuValid, Multicycle
<1>6. apu_lat' = 3 /\ waiting' = None
      /\ inflight' = IF ApuValid(in) THEN None ELSE inflight
  BY <1>1, <1>2, <1>3 DEF ApuClock, ReturnedReq, ReturnedInflight, ReturnedWaiting
<1>7. fpu' = [l \in {2, 3} |-> None]
  BY <1>1, <1>2, <1>3, <1>4 DEF FpuClock
<1>8. apu_result_q' = IF HoldResult(in) THEN inflight ELSE None
  BY <1>1, <1>2, <1>4 DEF ResultClock
<1> QED
  BY <1>1, <1>5, <1>6, <1>7, <1>8 DEF FpuInv, Idle, Memorised

----------------------------------------------------------------------------
\* Every cycle leads from one of the four situations to another.
LEMMA StepInv ==
  ASSUME IInv, [Next]_vars
  PROVE  IInv'
<1>1. CASE UNCHANGED vars
  BY <1>1 DEF IInv, ExInv, FpuInv, Idle, TwoCycle, Long, Memorised, vars, idVars,
              exVars, apuVars
<1>2. CASE Next
  <2>1. PICK in \in Input : Possible(in) /\ Cycle(in)
    BY <1>2 DEF Next
  <2>2. ExInv'
    BY <2>1, ExStep DEF IInv
  <2>3. FpuInv'
    BY <2>1, FromIdle, FromTwoCycle, FromLong, FromMemorised DEF IInv, FpuInv
  <2> QED
    BY <2>2, <2>3 DEF IInv
<1> QED
  BY <1>1, <1>2

\* At most one operation is unfinished, and apu_lat tells where it is.
THEOREM SlotInvariant == Spec => []IInv
<1>1. IInv /\ [Next]_vars => IInv'
  BY StepInv
<1> QED
  BY InitInv, <1>1, PTL DEF Spec

\* The slots of the dispatcher hold exactly what the FPU has not delivered, in
\* every program: the hazards at stall_type and at the result memorisation.
THEOREM DispatcherCorrect == Spec => []DispatcherAgrees
<1>1. IInv => DispatcherAgrees
  BY DEF IInv, FpuInv, Idle, TwoCycle, Long, Memorised, DispatcherAgrees
<1> QED
  BY <1>1, SlotInvariant, PTL

\* The register that a delivered result is written to is that of its operation.
ResultsMatched ==
  \A in \in Input :
    Possible(in) /\ ApuValid(in) => ResultFor(in) = ApuWaddr(apu)

\* The register that a delivered result is written to (apu_waddr_o) is the one
\* its operation names, whether it comes from the FPU or from memorisation.
THEOREM ResultsReachTheirRegister == Spec => []ResultsMatched
<1>1. IInv => ResultsMatched
  <2> SUFFICES ASSUME IInv, NEW in \in Input, Possible(in), ApuValid(in)
               PROVE  ResultFor(in) = ApuWaddr(apu)
    BY DEF ResultsMatched
  <2>1. waiting = None
    BY DEF IInv, FpuInv
  <2>2. CASE Idle
    BY <2>1, <2>2 DEF Idle, ApuValid, FpuResult, ResultFor, ApuWaddr, Possible, apu
  <2>3. CASE TwoCycle
    <3>1. apu_active /\ inflight # None
      BY <2>3, NoneIsNoDest DEF TwoCycle, apu_active
    <3>2. ~(ApuAccepted(in) /\ apu.lat = 1)
      BY <3>1 DEF ApuAccepted, ValidReq, StallType
    <3> QED
      BY <2>1, <2>3, <3>1, <3>2 DEF TwoCycle, FpuResult, ResultFor, ApuWaddr
  <2>4. CASE Long \/ Memorised
    <3>1. ~ApuAccepted(in) /\ inflight # None
      BY <2>4, NoneStarts, NoneIsNoDest DEF ApuAccepted, Long, Memorised
    <3> QED
      BY <2>1, <2>4, <3>1 DEF Long, Memorised, ApuValid, FpuResult, ResultFor, ApuWaddr
  <2> QED
    BY <2>2, <2>3, <2>4 DEF IInv, FpuInv
<1> QED
  BY <1>1, SlotInvariant, PTL

----------------------------------------------------------------------------
\* ---- where the newest values are -------------------------------------------
\* What the stages hold besides values.
Shape ==
  /\ regfile_alu_we_ex \in BOOLEAN /\ regfile_we_lsu \in BOOLEAN /\ wbWhole \in BOOLEAN
  /\ cnt_q \in 0 .. 2
  /\ regfile_alu_we_ex => ex.kind \notin {"none", "branch", "apu"}
  /\ data_misaligned_ex => data_req_ex
  /\ ex.kind = "load" => regfile_waddr_ex = ex.mem
  /\ ex.kind = "csr" => Idle

\* The load in WB is outstanding; while it is the first part of a split one the
\* second part is in EX; and a stall finds its register in regfile_waddr_ex.
WbInv ==
  regfile_we_lsu =>
    /\ cnt_q # 0
    /\ wbWhole => ~data_misaligned_ex
    /\ ~wbWhole => data_misaligned_ex /\ ex.kind = "load" /\ regfile_waddr_lsu = ex.mem
    /\ ex.kind # "load" => regfile_waddr_lsu = regfile_waddr_ex

\* Where a value is said to be there is something that will write it.
Located(r) ==
  \/ newest[r] = "rf"
  \/ newest[r] = "ex" /\ ex.alu = r /\ (ex.kind = "apu" \/ regfile_alu_we_ex)
  \/ newest[r] = "mem" /\ ex.kind = "load" /\ ex.mem = r
  \/ newest[r] = "wb" /\ regfile_we_lsu /\ wbWhole /\ regfile_waddr_lsu = r
  \/ newest[r] = "fpu" /\ inflight = r

\* Whatever will write r is its newest writer, or overtaken before EX is left.
Claimed(r) ==
  /\ ex.kind = "apu" /\ ex.alu = r => newest[r] = "ex"
  /\ regfile_alu_we_ex /\ ex.alu = r => newest[r] \in {"ex", "mem"}
  /\ ex.kind = "load" /\ ex.mem = r => newest[r] = "mem"
  /\ regfile_we_lsu /\ regfile_waddr_lsu = r =>
       newest[r] \in {"wb", "mem"} \/ (newest[r] = "ex" /\ ex.kind = "apu")
  /\ inflight = r => newest[r] = "fpu" \/ (newest[r] = "ex" /\ ex.kind = "apu")
  /\ newest[r] = "fpu" /\ TwoCycle => ~regfile_we_lsu

NewestInv ==
  /\ IInv /\ Shape /\ WbInv /\ misread = FALSE
  /\ newest \in [Reg -> {"rf", "ex", "mem", "wb", "fpu"}]
  /\ \A r \in Reg : Located(r) /\ Claimed(r)

\* A cycle that starts in such a state.
Step(in) == NewestInv /\ in \in Input /\ Possible(in) /\ Cycle(in)

\* No register is None.
LEMMA RegsAreDests ==
  ASSUME NEW r \in Reg
  PROVE  r \in Dest /\ r # None
BY WriteBackAssumption DEF Dest

\* What an instruction in ID or EX names.
LEMMA Fields ==
  ASSUME NEW i \in Insn \cup {Bubble}
  PROVE  /\ i.kind \in Kind \cup {"none"} /\ i.reads \subseteq Reg
         /\ i.kind = "load" <=> i.mem # None
         /\ i.kind = "branch" => i.alu = None
         /\ i.kind = "apu" => i.alu # None
         /\ i.kind = "none" => i.alu = None
         /\ i.kind = "apu" <=> i.lat # 0
<1>1. CASE i \in Insn
  <2>1. WellShaped(i, None, Zero, COREV_PULP) /\ i.reads \subseteq Reg
    BY <1>1, WriteBackAssumption
  <2> QED BY <2>1 DEF WellShaped, Kind
<1>2. CASE i = Bubble
  BY <1>2 DEF Bubble
<1> QED BY <1>1, <1>2

\* Which results the FPU or the memorisation delivers, and through which port.
LEMMA Delivery ==
  ASSUME IInv, NEW in \in Input, Possible(in)
  PROVE  /\ waiting = None /\ ~StallFull
         /\ ~ApuValid(in) => ~AluPortApu(in) /\ ~LsuPortApu(in)
         /\ ApuValid(in) => ResultFor(in) = ApuWaddr(apu)
         /\ ApuValid(in) =>
              \/ /\ inflight = None /\ ex.kind = "apu" /\ ex.lat = 1 /\ ApuAccepted(in)
                 /\ AluPortApu(in) /\ ~LsuPortApu(in) /\ ApuWaddr(apu) = ex.alu
                 /\ ReturnedReq(apu, TRUE)
              \/ /\ TwoCycle /\ inflight # None /\ ~AluPortApu(in) /\ LsuPortApu(in)
                 /\ ApuWaddr(apu) = inflight /\ ~ReturnedReq(apu, TRUE)
              \/ /\ Long \/ Memorised
                 /\ inflight # None /\ AluPortApu(in) /\ ~LsuPortApu(in)
                 /\ ApuWaddr(apu) = inflight /\ ~ReturnedReq(apu, TRUE)
                 /\ ~HoldResult(in) /\ ~ValidReq(apu)
         /\ TwoCycle => ApuValid(in)
<1>1. waiting = None /\ (Idle \/ TwoCycle \/ Long \/ Memorised)
  BY DEF IInv, FpuInv
<1>2. ~StallFull
  BY <1>1 DEF StallFull
<1>3. ~ApuValid(in) => ~AluPortApu(in) /\ ~LsuPortApu(in)
  BY DEF AluPortApu, LsuPortApu
<1>4. CASE Idle
  <2>0. inflight = None /\ fpu[2] = None /\ fpu[3] = None /\ apu_result_q = None /\ ~apu_active
    BY <1>1, <1>4 DEF Idle, apu_active
  <2>1. ASSUME ApuValid(in)
        PROVE  /\ ex.kind = "apu" /\ ex.lat = 1 /\ ApuAccepted(in)
               /\ AluPortApu(in) /\ ~LsuPortApu(in) /\ ApuWaddr(apu) = ex.alu
               /\ ResultFor(in) = ex.alu /\ ReturnedReq(apu, TRUE)
    <3>1. FpuResult(in) # None /\ ~in.fpu
      BY <2>0, <2>1 DEF ApuValid, Possible
    <3>2. ApuAccepted(in) /\ apu.lat = 1 /\ FpuResult(in) = apu.waddr
      BY <2>0, <3>1 DEF FpuResult
    <3>3. ValidReq(apu) /\ ex.kind = "apu"
      BY <3>2 DEF ApuAccepted, ValidReq, apu
    <3> QED BY <1>1, <2>0, <2>1, <3>2, <3>3
            DEF AluPortApu, LsuPortApu, Singlecycle, ApuWaddr, ResultFor, ReturnedReq, apu
  <2>2. ~TwoCycle
    BY <2>0, NoneIsNoDest DEF TwoCycle
  <2> QED BY <1>1, <1>2, <1>3, <2>0, <2>1, <2>2
<1>5. CASE TwoCycle
  <2>1. /\ inflight # None /\ fpu[2] = inflight /\ apu_result_q = None /\ apu_lat = 2
        /\ apu_active
    BY <1>5, NoneIsNoDest DEF TwoCycle, apu_active
  <2>2. ~(ApuAccepted(in) /\ apu.lat = 1)
    BY <2>1 DEF ApuAccepted, ValidReq, StallType
  <2>3. FpuResult(in) = inflight /\ ApuValid(in)
    BY <2>1, <2>2 DEF FpuResult, ApuValid, Multicycle
  <2>4. /\ ~AluPortApu(in) /\ LsuPortApu(in) /\ ApuWaddr(apu) = inflight
        /\ ResultFor(in) = inflight /\ ~ReturnedReq(apu, TRUE)
    BY <1>1, <2>1, <2>3
    DEF AluPortApu, LsuPortApu, Singlecycle, Multicycle, ApuWaddr, ResultFor, ReturnedReq
  <2> QED BY <1>1, <1>2, <1>3, <1>5, <2>1, <2>3, <2>4
<1>6. CASE Long \/ Memorised
  <2>1. inflight # None /\ apu_lat = 3 /\ apu_active /\ ~ValidReq(apu)
    BY <1>6, NoneStarts, NoneIsNoDest DEF Long, Memorised, apu_active
  <2>2. ~TwoCycle
    BY <2>1 DEF TwoCycle
  <2>3. ApuValid(in) => ~HoldResult(in)
    BY <2>1 DEF ApuValid, Multicycle
  <2>4. ApuValid(in) => ResultFor(in) = inflight
    BY <1>6, <2>1 DEF ApuValid, ResultFor, FpuResult, ApuAccepted, Long, Memorised
  <2>5. ApuValid(in) => /\ AluPortApu(in) /\ ~LsuPortApu(in)
                        /\ ApuWaddr(apu) = inflight /\ ~ReturnedReq(apu, TRUE)
    BY <1>1, <2>1 DEF AluPortApu, LsuPortApu, Multicycle, ApuWaddr, ReturnedReq
  <2> QED BY <1>1, <1>2, <1>3, <1>6, <2>1, <2>2, <2>3, <2>4, <2>5
<1> QED BY <1>1, <1>4, <1>5, <1>6

\* An operation that leaves for the FPU is the one in the slot next, and no other.
Sent(in) == ApuAccepted(in) /\ ~ReturnedReq(apu, ApuValid(in))

\* The first slot after the clock edge.
LEMMA Dispatched ==
  ASSUME IInv, NEW in \in Input, Possible(in), Cycle(in)
  PROVE  /\ inflight' = IF Sent(in) THEN ex.alu
                        ELSE IF ApuValid(in) THEN None ELSE inflight
         /\ Sent(in) => ex.kind = "apu" /\ ex.lat # 1
         /\ Sent(in) => inflight = None \/ TwoCycle
         /\ TwoCycle' => Sent(in)
         /\ Idle' <=> inflight' = None
<1>1. waiting = None /\ (Idle \/ TwoCycle \/ Long \/ Memorised)
  BY DEF IInv, FpuInv
<1>2. ApuClock(apu, in.apuGnt, ApuValid(in)) /\ FpuClock(in)
  BY DEF Cycle
<1>3. inflight' = IF Sent(in) THEN ex.alu
                  ELSE IF ApuValid(in) THEN None ELSE inflight
  BY <1>1, <1>2 DEF ApuClock, Sent, ApuAccepted, ReturnedInflight, apu
<1>4. ASSUME Sent(in) PROVE ex.kind = "apu" /\ ex.lat # 1 /\ (inflight = None \/ TwoCycle)
  <2>1. ex.kind = "apu" /\ ValidReq(apu) /\ apu.lat = ex.lat
    BY <1>4 DEF Sent, ApuAccepted, ValidReq, apu
  <2>2. Idle \/ TwoCycle
    BY <1>1, <2>1, NoneStarts
  <2>3. CASE Idle
    <3>1. ~ApuValid(in) \/ ~ReturnedReq(apu, TRUE)
      BY <1>4 DEF Sent, ReturnedReq
    <3>2. inflight = None /\ ~apu_active
      BY <1>1, <2>3 DEF Idle, apu_active
    <3>3. ~ApuValid(in)
      BY <2>1, <3>1, <3>2 DEF ReturnedReq
    <3>4. ex.lat # 1
      <4>1. SUFFICES ASSUME ex.lat = 1 PROVE FALSE
        OBVIOUS
      <4>2. FpuResult(in) = ex.alu /\ ex.alu # None
        BY <1>4, <2>1, <4>1, Operation, NoneIsNoDest DEF Sent, FpuResult, apu, IInv
      <4>3. ~HoldResult(in)
        BY <2>1, NotHeld DEF IInv
      <4> QED BY <3>3, <4>2, <4>3 DEF ApuValid
    <3> QED BY <2>1, <3>2, <3>4
  <2>4. CASE TwoCycle
    <3>1. apu_active
      BY <2>4, NoneIsNoDest DEF TwoCycle, apu_active
    <3>2. ex.lat # 1
      BY <2>1, <3>1 DEF ValidReq, StallType
    <3> QED BY <2>1, <2>4, <3>2
  <2> QED BY <2>2, <2>3, <2>4
<1>5. TwoCycle' => Sent(in)
  <2>1. SUFFICES ASSUME TwoCycle' PROVE Sent(in)
    OBVIOUS
  <2>2. fpu'[2] = inflight' /\ inflight' # None
    BY <2>1, NoneIsNoDest DEF TwoCycle
  <2>3. ApuAccepted(in) /\ apu.lat = 2
    BY <1>2, <2>2 DEF FpuClock
  <2>4. ~ReturnedReq(apu, ApuValid(in))
    <3>1. SUFFICES ASSUME ApuValid(in), ReturnedReq(apu, TRUE) PROVE FALSE
      BY DEF ReturnedReq
    <3>2. ex.lat = 1
      BY <3>1, Delivery
    <3> QED BY <2>3, <3>2 DEF apu
  <2> QED BY <2>3, <2>4 DEF Sent
<1>6. Idle' <=> inflight' = None
  <2>1. FpuInv'
    BY FromIdle, FromTwoCycle, FromLong, FromMemorised, <1>1
  <2>2. Idle' => inflight' = None
    BY DEF Idle
  <2>3. (TwoCycle \/ Long \/ Memorised)' => inflight' # None
    BY NoneIsNoDest DEF TwoCycle, Long, Memorised, Dest
  <2> QED BY <2>1, <2>2, <2>3 DEF FpuInv
<1> QED BY <1>3, <1>4, <1>5, <1>6

\* A result of the FPU takes the ALU port only past an idle EX, an operation of
\* the FPU, or an instruction that has no use for the port.
LEMMA PortTaken ==
  ASSUME NEW in, Step(in), AluPortApu(in), ex.kind # "apu"
  PROVE  ApuValid(in) /\ ~HoldResult(in) /\ (Long \/ Memorised) /\ ex.kind # "csr"
         /\ ~data_misaligned /\ ~mulh_active
<1>1. ApuValid(in)
  BY DEF AluPortApu
<1>2. ~HoldResult(in) /\ (Long \/ Memorised) /\ inflight # None
  BY <1>1, Delivery DEF Step, NewestInv
<1>3. ex.kind # "csr"
  BY <1>2 DEF Step, NewestInv, Shape, Idle
<1> QED BY <1>1, <1>2, <1>3 DEF HoldResult

\* What ex_ready_o comes to.
LEMMA Ready ==
  ASSUME NEW in, Step(in)
  PROVE  /\ ExReady(in) /\ ex.kind # "branch" =>
              WbReady(in) /\ unit_ready /\ LsuReadyEx(in) /\ ~WbContention(in)
         /\ ExReady(in) /\ ex.kind = "apu" => ApuAccepted(in)
         /\ data_req_ex => (ExReady(in) <=> ExValid(in))
         /\ ExReady(in) => ~mult_multicycle
         /\ Issues(in) => ExReady(in) /\ ~data_misaligned
<1>1. ExReady(in) /\ ex.kind # "branch" =>
        /\ WbReady(in) /\ unit_ready /\ LsuReadyEx(in)
        /\ ~WbContention(in) /\ ~ApuStall(apu, in.apuGnt)
  BY DEF ExReady
<1>2. ExReady(in) /\ ex.kind = "apu" => ApuAccepted(in)
  BY <1>1, Delivery DEF ApuStall, ApuAccepted, ValidReq, apu, Step, NewestInv
<1>3. ASSUME data_req_ex PROVE ExReady(in) <=> ExValid(in)
  <2>1. ex.kind # "branch" /\ ex.kind # "apu" /\ unit_ready /\ ~apu.en
    BY <1>3 DEF data_req_ex, unit_ready, apu
  <2>2. ~ApuStall(apu, in.apuGnt)
    BY <2>1, Delivery DEF ApuStall, StallType, ValidReq, Step, NewestInv
  <2>3. LsuReadyEx(in) => ~WbContention(in)
    <3>1. SUFFICES ASSUME LsuReadyEx(in), WbContention(in) PROVE FALSE
      OBVIOUS
    <3>2. regfile_alu_we_ex /\ ~HoldResult(in)
      BY <2>1, <3>1, PortTaken DEF WbContention
    <3>3. DataReq(in) \/ in.rvalid
      BY <1>3, <3>1 DEF LsuReadyEx, Accepted
    <3> QED BY <3>2, <3>3 DEF HoldResult
  <2> QED BY <2>1, <2>2, <2>3 DEF ExReady, ExValid
<1>4. ExReady(in) => ~mult_multicycle
  BY <1>1 DEF mult_multicycle, mulh_active, unit_ready
<1>5. Issues(in) => ExReady(in) /\ ~data_misaligned
  BY DEF Issues, IdReady
<1> QED BY <1>1, <1>2, <1>3, <1>4, <1>5

\* An instruction that leaves EX with a result has the ALU port.
LEMMA OwnPort ==
  ASSUME NEW in, Step(in), regfile_alu_we_ex, LeavesEx(in)
  PROVE  /\ ~AluPortApu(in) /\ unit_ready /\ ~apu.en
         /\ AluPort(in).fw /\ AluPort(in).we /\ AluPort(in).waddr = ex.alu
<1>1. ex.kind \notin {"none", "branch", "apu"}
  BY DEF Step, NewestInv, Shape
<1>2. ~apu.en
  BY <1>1 DEF apu
<1>3. unit_ready /\ LsuReadyEx(in)
  BY <1>1, Ready DEF LeavesEx, unit_ready, LsuReadyEx, data_req_ex
<1>4. ~AluPortApu(in)
  <2>1. SUFFICES ASSUME AluPortApu(in) PROVE FALSE
    OBVIOUS
  <2>2. ex.kind # "csr"
    BY <1>1, <2>1, PortTaken
  <2>3. ~WbContention(in)
    BY <1>1, <2>2, Ready DEF LeavesEx
  <2> QED BY <1>2, <2>1, <2>3 DEF WbContention
<1>5. AluPort(in) = [fw |-> TRUE, waddr |-> ex.alu, we |-> TRUE]
  BY <1>2, <1>3, <1>4 DEF AluPort
<1> QED BY <1>2, <1>3, <1>4, <1>5

\* Whose value a write port or a forwarding path carries.
LEMMA AluClaims ==
  ASSUME NEW in, Step(in), NEW r \in Reg,
         AluPort(in).fw \/ AluPort(in).we, AluPort(in).waddr = r
  PROVE  \/ /\ AluPortApu(in) /\ ApuWaddr(apu) = r /\ inflight = r /\ ~ValidReq(apu)
            /\ ResultFor(in) = r /\ ~ReturnedReq(apu, TRUE)
         \/ /\ AluPortApu(in) /\ ApuWaddr(apu) = r /\ ex.kind = "apu" /\ ex.alu = r
            /\ ResultFor(in) = r /\ ReturnedReq(apu, TRUE) /\ newest[r] = "ex"
         \/ /\ ~AluPortApu(in) /\ regfile_alu_we_ex /\ ~apu.en /\ ex.alu = r
            /\ newest[r] \in {"ex", "mem"}
<1>0. Claimed(r) /\ IInv
  BY DEF Step, NewestInv
<1>1. CASE AluPortApu(in)
  <2>1. ApuWaddr(apu) = r
    BY <1>1 DEF AluPort
  <2>2. ApuValid(in) /\ ResultFor(in) = r
    BY <1>0, <1>1, <2>1, Delivery DEF AluPortApu, Step
  <2>3. CASE ex.kind = "apu" /\ ApuWaddr(apu) = ex.alu /\ ReturnedReq(apu, TRUE)
    BY <1>0, <1>1, <2>1, <2>2, <2>3 DEF Claimed
  <2>4. CASE ApuWaddr(apu) = inflight /\ ~ReturnedReq(apu, TRUE) /\ ~ValidReq(apu)
    BY <1>1, <2>1, <2>2, <2>4
  <2> QED BY <1>0, <1>1, <2>2, <2>3, <2>4, Delivery DEF Step
<1>2. CASE ~AluPortApu(in)
  <2>1. regfile_alu_we_ex /\ ~apu.en /\ ex.alu = r
    BY <1>2 DEF AluPort
  <2> QED BY <1>0, <1>2, <2>1 DEF Claimed
<1> QED BY <1>1, <1>2

\* The same for the port of the load-store unit.
LEMMA LsuClaims ==
  ASSUME NEW in, Step(in), NEW r \in Reg,
         LsuPort(in).fw \/ LsuPort(in).we, LsuPort(in).waddr = r
  PROVE  \/ /\ regfile_we_lsu /\ regfile_waddr_lsu = r
            /\ newest[r] \in {"wb", "mem"} \/ (newest[r] = "ex" /\ ex.kind = "apu")
         \/ /\ ~regfile_we_lsu /\ LsuPortApu(in) /\ TwoCycle /\ inflight = r
            /\ ResultFor(in) = r /\ ~ReturnedReq(apu, TRUE)
            /\ newest[r] = "fpu" \/ (newest[r] = "ex" /\ ex.kind = "apu")
<1>0. Claimed(r) /\ IInv
  BY DEF Step, NewestInv
<1>1. CASE regfile_we_lsu
  <2>1. regfile_waddr_lsu = r
    BY <1>1 DEF LsuPort
  <2> QED BY <1>0, <1>1, <2>1 DEF Claimed
<1>2. CASE ~regfile_we_lsu
  <2>1. LsuPortApu(in) /\ ApuWaddr(apu) = r
    BY <1>2 DEF LsuPort
  <2>2. TwoCycle /\ inflight = r /\ ResultFor(in) = r /\ ~ReturnedReq(apu, TRUE)
    BY <1>0, <2>1, Delivery DEF LsuPortApu, Step
  <2> QED BY <1>0, <1>2, <2>1, <2>2 DEF Claimed
<1> QED BY <1>1, <1>2

----------------------------------------------------------------------------
\* ---- one cycle -------------------------------------------------------------
Stays(in) == data_misaligned \/ ~ExReady(in)

\* What ID/EX holds after the clock edge.
LEMMA ExMoves ==
  ASSUME NEW in, Step(in)
  PROVE  /\ Stays(in) =>
              /\ ~Issues(in) /\ ex' = ex /\ regfile_waddr_ex' = regfile_waddr_ex
              /\ regfile_alu_we_ex' = (regfile_alu_we_ex /\ ~LeavesEx(in))
              /\ data_misaligned_ex' = IF data_misaligned THEN ExReady(in) ELSE data_misaligned_ex
         /\ ~Stays(in) /\ Issues(in) =>
              /\ ex' = id /\ regfile_alu_we_ex' = alu_we_id /\ data_misaligned_ex' = FALSE
              /\ regfile_waddr_ex' = IF id.mem # None THEN id.mem ELSE regfile_waddr_ex
         /\ ~Stays(in) /\ ~Issues(in) =>
              /\ ex' = Bubble /\ regfile_alu_we_ex' = FALSE /\ data_misaligned_ex' = FALSE
              /\ regfile_waddr_ex' = regfile_waddr_ex
<1>0. IdExClock(in)
  BY DEF Step, Cycle
<1>1. /\ ExReady(in) => ~mult_multicycle
      /\ Issues(in) => ExReady(in) /\ ~data_misaligned
  BY Ready
<1>2. CASE data_misaligned
  <2>1. ex.kind # "csr"
    BY <1>2 DEF data_misaligned, data_req_ex
  <2>2. CASE mult_multicycle
    <3>1. FALSE
      BY <1>2, <2>2 DEF data_misaligned, data_req_ex, mult_multicycle, mulh_active
    <3> QED BY <3>1
  <2>3. CASE ~mult_multicycle
    BY <1>0, <1>1, <1>2, <2>1, <2>3 DEF IdExClock, Stays, LeavesEx
  <2> QED BY <2>2, <2>3
<1>3. CASE ~data_misaligned /\ mult_multicycle
  <2>1. ex.kind # "csr" /\ ~ExReady(in) /\ ~Issues(in)
    BY <1>1, <1>3 DEF mult_multicycle, mulh_active
  <2>2. regfile_alu_we_ex \in BOOLEAN
    BY DEF Step, NewestInv, Shape
  <2>3. exVars' = exVars
    BY <1>0, <1>3, <2>1 DEF IdExClock
  <2> QED BY <1>3, <2>1, <2>2, <2>3 DEF exVars, Stays, LeavesEx
<1>4. CASE ~data_misaligned /\ ~mult_multicycle /\ Issues(in)
  BY <1>0, <1>1, <1>4 DEF IdExClock, Stays
<1>5. CASE ~data_misaligned /\ ~mult_multicycle /\ ~Issues(in) /\ ExReady(in)
  BY <1>0, <1>5 DEF IdExClock, Stays
<1>6. CASE ~data_misaligned /\ ~mult_multicycle /\ ~Issues(in) /\ ~ExReady(in)
  BY <1>0, <1>6 DEF IdExClock, Stays, LeavesEx
<1> QED BY <1>2, <1>3, <1>4, <1>5, <1>6

\* The value in the register file is not overwritten.
LEMMA RfMoves ==
  ASSUME NEW in, Step(in), NEW r \in Reg, newest[r] = "rf"
  PROVE  Moved(in, r) = "rf"
<1>0. Claimed(r)
  BY DEF Step, NewestInv
<1>1. ~WritesAlu(in, r)
  <2>1. SUFFICES ASSUME AluPort(in).we, AluPort(in).waddr = r PROVE FALSE
    BY DEF WritesAlu
  <2> QED BY <1>0, <2>1, AluClaims DEF Claimed
<1>2. ~WritesLsu(in, r)
  <2>1. SUFFICES ASSUME LsuPort(in).we, LsuPort(in).waddr = r PROVE FALSE
    BY DEF WritesLsu
  <2> QED BY <2>1, LsuClaims
<1> QED BY <1>1, <1>2 DEF Moved

\* A result leaves EX for the register file or the FPU.
LEMMA ExResultMoves ==
  ASSUME NEW in, Step(in), NEW r \in Reg, newest[r] = "ex"
  PROVE  Moved(in, r) = IF ~LeavesEx(in) THEN "ex" ELSE IF Sent(in) THEN "fpu" ELSE "rf"
<1>1. ex.alu = r /\ (ex.kind = "apu" \/ regfile_alu_we_ex)
  BY DEF Step, NewestInv, Located
<1>2. CASE ~LeavesEx(in)
  BY <1>2 DEF Moved
<1>3. CASE LeavesEx(in) /\ regfile_alu_we_ex
  <2>1. /\ ~AluPortApu(in) /\ unit_ready /\ ~apu.en
        /\ AluPort(in).we /\ AluPort(in).waddr = r
    BY <1>1, <1>3, OwnPort
  <2>2. Stored(in, r)
    BY <2>1 DEF Stored, WritesAlu, AluPortNewest
  <2>3. ~Sent(in)
    BY <2>1 DEF Sent, ApuAccepted, ValidReq
  <2> QED BY <1>3, <2>2, <2>3 DEF Moved
<1>4. CASE LeavesEx(in) /\ ex.kind = "apu"
  <2>1. ApuAccepted(in) /\ apu.en
    BY <1>4, Ready DEF LeavesEx, apu
  <2>2. CASE ReturnedReq(apu, ApuValid(in))
    <3>1. ApuValid(in) /\ ReturnedReq(apu, TRUE) /\ ~Sent(in) /\ inflight = None
      BY <2>2 DEF ReturnedReq, Sent, apu_active
    <3>2. AluPortApu(in) /\ ApuWaddr(apu) = r /\ ResultFor(in) = r
      BY <1>1, <3>1, Delivery DEF Step, NewestInv
    <3>3. AluPort(in).we /\ AluPort(in).waddr = r
      BY <3>2 DEF AluPort
    <3>4. Stored(in, r)
      BY <3>1, <3>2, <3>3 DEF Stored, WritesAlu, AluPortNewest, ApuNewest
    <3> QED BY <1>4, <3>1, <3>4 DEF Moved
  <2>3. CASE ~ReturnedReq(apu, ApuValid(in))
    <3>1. ~(ApuValid(in) /\ ReturnedReq(apu, TRUE))
      BY <2>3 DEF ReturnedReq
    <3>2. ~(WritesAlu(in, r) /\ AluPortNewest(in, r))
      BY <2>1, <3>1 DEF AluPortNewest, AluPortApu, ApuNewest
    <3>3. ~(WritesLsu(in, r) /\ LsuPortNewest(in, r))
      BY <3>1 DEF WritesLsu, LsuPort, LsuPortNewest, LsuPortApu, ApuNewest
    <3>4. Sent(in) /\ ~Stored(in, r)
      BY <2>1, <2>3, <3>2, <3>3 DEF Sent, Stored
    <3> QED BY <1>4, <3>4 DEF Moved, Sent
  <2> QED BY <2>2, <2>3
<1> QED BY <1>1, <1>2, <1>3, <1>4

\* A load leaves EX for WB.
LEMMA LoadMoves ==
  ASSUME NEW in, Step(in), NEW r \in Reg, newest[r] = "mem"
  PROVE  /\ ex.kind = "load" /\ ex.mem = r /\ regfile_waddr_ex = r /\ data_req_ex
         /\ Moved(in, r) = IF Stays(in) THEN "mem" ELSE "wb"
<1>1. ex.kind = "load" /\ ex.mem = r /\ regfile_waddr_ex = r /\ data_req_ex
  BY DEF Step, NewestInv, Located, Shape, data_req_ex
<1>2. ExReady(in) <=> ExValid(in)
  BY <1>1, Ready
<1> QED BY <1>1, <1>2 DEF Moved, Stays

\* The response of a load in WB is stored as it comes.
LEMMA ResponseMoves ==
  ASSUME NEW in, Step(in), NEW r \in Reg, newest[r] = "wb"
  PROVE  /\ regfile_we_lsu /\ wbWhole /\ regfile_waddr_lsu = r
         /\ WbReady(in) <=> in.rvalid
         /\ Moved(in, r) = IF WbReady(in) THEN "rf" ELSE "wb"
<1>0. Claimed(r)
  BY DEF Step, NewestInv
<1>1. regfile_we_lsu /\ wbWhole /\ regfile_waddr_lsu = r
  BY DEF Step, NewestInv, Located
<1>2. WbReady(in) <=> in.rvalid
  BY <1>1 DEF Step, NewestInv, WbInv, WbReady
<1>3. ~WritesAlu(in, r)
  <2>1. SUFFICES ASSUME AluPort(in).we, AluPort(in).waddr = r PROVE FALSE
    BY DEF WritesAlu
  <2> QED BY <1>0, <2>1, AluClaims DEF Claimed
<1>4. ~data_misaligned_ex
  BY <1>1 DEF Step, NewestInv, WbInv
<1>5. ASSUME WbReady(in) PROVE Stored(in, r)
  BY <1>1, <1>2, <1>3, <1>4, <1>5 DEF Stored, WritesLsu, LsuPort, LsuPortNewest
<1>6. ASSUME ~WbReady(in) PROVE ~Stored(in, r)
  BY <1>1, <1>2, <1>3, <1>6 DEF Stored, LsuPortNewest
<1> QED BY <1>1, <1>2, <1>5, <1>6 DEF Moved

\* A result of the FPU is stored when it is delivered.
LEMMA FpuResultMoves ==
  ASSUME NEW in, Step(in), NEW r \in Reg, newest[r] = "fpu"
  PROVE  /\ inflight = r
         /\ Moved(in, r) = IF ApuValid(in) THEN "rf" ELSE "fpu"
<1>0. Claimed(r) /\ IInv /\ in \in Input /\ Possible(in)
  BY DEF Step, NewestInv
<1>1. inflight = r /\ r # None
  BY RegsAreDests DEF Step, NewestInv, Located
<1>2. CASE ApuValid(in)
  <2>0. ResultFor(in) = r
    BY <1>0, <1>1, <1>2, Delivery
  <2>1. CASE TwoCycle /\ ~AluPortApu(in) /\ LsuPortApu(in)
             /\ ApuWaddr(apu) = inflight /\ ~ReturnedReq(apu, TRUE)
    <3>1. ~regfile_we_lsu
      BY <1>0, <2>1 DEF Claimed
    <3>2. ~WritesAlu(in, r)
      <4>1. SUFFICES ASSUME AluPort(in).we, AluPort(in).waddr = r PROVE FALSE
        BY DEF WritesAlu
      <4> QED BY <2>1, <4>1, AluClaims
    <3>3. LsuPort(in).we /\ LsuPort(in).waddr = r
      BY <1>1, <2>1, <3>1 DEF LsuPort
    <3>4. LsuPortNewest(in, r)
      BY <2>0, <2>1, <3>1 DEF LsuPortNewest, ApuNewest
    <3> QED BY <1>1, <1>2, <3>2, <3>3, <3>4 DEF Moved, Stored, WritesLsu
  <2>2. CASE AluPortApu(in) /\ ApuWaddr(apu) = inflight /\ ~ReturnedReq(apu, TRUE)
    <3>1. AluPort(in).we /\ AluPort(in).waddr = r
      BY <1>1, <2>2 DEF AluPort
    <3>2. AluPortNewest(in, r)
      BY <2>0, <2>2 DEF AluPortNewest, ApuNewest
    <3> QED BY <1>1, <1>2, <3>1, <3>2 DEF Moved, Stored, WritesAlu
  <2> QED BY <1>0, <1>1, <1>2, <2>1, <2>2, Delivery
<1>3. CASE ~ApuValid(in)
  <2>1. ~AluPortApu(in) /\ ~LsuPortApu(in)
    BY <1>3 DEF AluPortApu, LsuPortApu
  <2>2. ~WritesAlu(in, r)
    <3>1. SUFFICES ASSUME AluPort(in).we, AluPort(in).waddr = r PROVE FALSE
      BY DEF WritesAlu
    <3> QED BY <2>1, <3>1, AluClaims
  <2>3. ~WritesLsu(in, r)
    <3>1. SUFFICES ASSUME LsuPort(in).we, LsuPort(in).waddr = r PROVE FALSE
      BY DEF WritesLsu
    <3> QED BY <2>1, <3>1, LsuClaims
  <2> QED BY <1>1, <1>3, <2>2, <2>3 DEF Moved, Stored
<1> QED BY <1>2, <1>3

----------------------------------------------------------------------------
\* ---- the invariant is kept -------------------------------------------------
\* What goes into WB: a load that leaves EX, or the one that waits there.
LEMMA WbMoves ==
  ASSUME NEW in, Step(in), regfile_we_lsu'
  PROVE  \/ /\ ExValid(in) /\ ExReady(in) /\ ex.kind = "load" /\ data_req_ex
            /\ regfile_waddr_lsu' = ex.mem /\ regfile_waddr_ex = ex.mem
            /\ wbWhole' = ~data_misaligned
         \/ /\ ~ExValid(in) /\ regfile_we_lsu /\ ~WbReady(in)
            /\ regfile_waddr_lsu' = regfile_waddr_lsu /\ wbWhole' = wbWhole
            /\ ExReady(in) => ex.kind = "branch"
<1>1. ExWbClock(in)
  BY DEF Step, Cycle
<1>2. CASE ExValid(in)
  <2>1. ex.kind = "load" /\ data_req_ex
    BY <1>1, <1>2 DEF ExWbClock, regfile_we_ex, data_req_ex
  <2>2. ExReady(in)
    BY <1>2, <2>1, Ready
  <2>3. regfile_waddr_ex = ex.mem
    BY <2>1 DEF Step, NewestInv, Shape
  <2> QED BY <1>1, <1>2, <2>1, <2>2, <2>3 DEF ExWbClock, regfile_we_ex
<1>3. CASE ~ExValid(in)
  <2>1. regfile_we_lsu /\ ~WbReady(in)
    BY <1>1, <1>3 DEF ExWbClock
  <2>2. ExReady(in) => ex.kind = "branch"
    BY <2>1, Ready
  <2> QED BY <1>1, <1>3, <2>1, <2>2 DEF ExWbClock
<1> QED BY <1>2, <1>3

\* An instruction enters EX with what its kind asks for.
LEMMA ShapeStep ==
  ASSUME NEW in, Step(in)
  PROVE  Shape'
<1>0. /\ Shape /\ IInv /\ Cycle(in) /\ Possible(in) /\ in \in Input
      /\ id \in Insn \cup {Bubble}
  BY DEF Step, NewestInv, IInv, ExInv
<1>1. regfile_alu_we_ex' \in BOOLEAN /\ regfile_we_lsu' \in BOOLEAN /\ wbWhole' \in BOOLEAN
  <2>1. regfile_alu_we_ex' \in BOOLEAN
    BY <1>0, ExMoves DEF alu_we_id, Shape
  <2>2. regfile_we_lsu' \in BOOLEAN
    BY <1>0 DEF Cycle, ExWbClock, Shape, regfile_we_ex
  <2>3. wbWhole' \in BOOLEAN
    BY <1>0 DEF Cycle, ExWbClock, Shape, data_misaligned
  <2> QED BY <2>1, <2>2, <2>3
<1>2. cnt_q' \in 0 .. 2
  <2>1. Accepted(in) => cnt_q < 2
    BY DEF Accepted, DataReq
  <2>2. in.rvalid => cnt_q > 0
    BY <1>0 DEF Possible
  <2>3. cnt_q' = cnt_q + (IF Accepted(in) THEN 1 ELSE 0) - (IF in.rvalid THEN 1 ELSE 0)
    BY <1>0 DEF Cycle
  <2>4. cnt_q \in 0 .. 2
    BY <1>0 DEF Shape
  <2> QED BY <2>1, <2>2, <2>3, <2>4
<1>3. regfile_alu_we_ex' => ex'.kind \notin {"none", "branch", "apu"}
  <2>1. alu_we_id => id.kind \notin {"none", "branch", "apu"}
    BY <1>0, Fields DEF alu_we_id
  <2> QED BY <1>0, <2>1, ExMoves DEF Shape
<1>4. data_misaligned_ex' => data_req_ex'
  <2>1. CASE Stays(in)
    BY <1>0, <2>1, ExMoves DEF Shape, data_misaligned, data_req_ex
  <2> QED BY <2>1, ExMoves
<1>5. ex'.kind = "load" => regfile_waddr_ex' = ex'.mem
  <2>1. id.kind = "load" => id.mem # None
    BY <1>0, Fields
  <2>2. Bubble.kind # "load"
    BY DEF Bubble
  <2> QED BY <1>0, <2>1, <2>2, ExMoves DEF Shape
<1>6. ex'.kind = "csr" => Idle'
  <2>1. SUFFICES ASSUME ex'.kind = "csr" PROVE Idle'
    OBVIOUS
  <2>2. ~Sent(in) /\ inflight = None
    <3>1. CASE Stays(in)
      <4>1. ex.kind = "csr"
        BY <2>1, <3>1, ExMoves
      <4> QED BY <1>0, <4>1, Dispatched DEF Shape, Idle
    <3>2. CASE ~Stays(in)
      <4>1. Issues(in) /\ id.kind = "csr"
        <5>1. Bubble.kind # "csr"
          BY DEF Bubble
        <5>2. Issues(in)
          BY <2>1, <3>2, <5>1, ExMoves
        <5>3. ex' = id
          BY <3>2, <5>2, ExMoves
        <5> QED BY <2>1, <5>2, <5>3
      <4>2. ~apu_active /\ ~(apu.en /\ apu.lat > 1)
        BY <4>1 DEF Issues, IdReady, CsrApuStall
      <4>3. ~Sent(in)
        <5>1. SUFFICES ASSUME ex.kind = "apu", ex.lat # 1
                       PROVE  ex.lat > 1 /\ apu.en /\ apu.lat = ex.lat
          BY <1>0, <4>2, Dispatched
        <5>2. ex.lat \in {1, 2, 3}
          BY <1>0, <5>1, Operation DEF IInv
        <5>3. ex.lat > 1
          BY <5>1, <5>2
        <5>4. apu.en /\ apu.lat = ex.lat
          BY <5>1 DEF apu
        <5> QED BY <5>3, <5>4
      <4> QED BY <4>2, <4>3 DEF apu_active
    <3> QED BY <3>1, <3>2
  <2>3. inflight' = None
    BY <1>0, <2>2, Dispatched
  <2> QED BY <1>0, <2>3, Dispatched
<1> QED BY <1>1, <1>2, <1>3, <1>4, <1>5, <1>6 DEF Shape

\* A load enters WB with a response to come, the first part of a split one only
\* while the second part is in EX.
LEMMA WbStep ==
  ASSUME NEW in, Step(in)
  PROVE  WbInv'
<1>0. /\ Shape /\ WbInv /\ IInv /\ Cycle(in) /\ Possible(in) /\ in \in Input
      /\ id \in Insn \cup {Bubble}
  BY DEF Step, NewestInv, IInv, ExInv
<1>1. SUFFICES ASSUME regfile_we_lsu'
      PROVE  /\ cnt_q' # 0
             /\ wbWhole' => ~data_misaligned_ex'
             /\ ~wbWhole' =>
                  data_misaligned_ex' /\ ex'.kind = "load" /\ regfile_waddr_lsu' = ex'.mem
             /\ ex'.kind # "load" => regfile_waddr_lsu' = regfile_waddr_ex'
  BY DEF WbInv
<1>2. /\ cnt_q' = cnt_q + (IF Accepted(in) THEN 1 ELSE 0) - (IF in.rvalid THEN 1 ELSE 0)
      /\ cnt_q \in 0 .. 2
      /\ in.rvalid => cnt_q > 0
      /\ Accepted(in) => cnt_q < 2
  BY <1>0 DEF Cycle, Shape, Possible, Accepted, DataReq
<1>3. ~Stays(in) /\ ex'.kind # "load" => regfile_waddr_ex' = regfile_waddr_ex
  BY <1>0, ExMoves, Fields
<1>4. CASE /\ ExValid(in) /\ ExReady(in) /\ ex.kind = "load" /\ data_req_ex
           /\ regfile_waddr_lsu' = ex.mem /\ regfile_waddr_ex = ex.mem
           /\ wbWhole' = ~data_misaligned
  <2>1. LsuReadyEx(in)
    BY <1>4 DEF ExValid
  <2>2. cnt_q' # 0
    BY <1>2, <1>4, <2>1 DEF LsuReadyEx
  <2>3. CASE data_misaligned
    <3>1. ex' = ex /\ data_misaligned_ex'
      BY <1>4, <2>3, ExMoves DEF Stays
    <3> QED BY <1>4, <2>2, <2>3, <3>1
  <2>4. CASE ~data_misaligned
    <3>1. ~Stays(in) /\ ~data_misaligned_ex'
      BY <1>4, <2>4, ExMoves DEF Stays
    <3> QED BY <1>3, <1>4, <2>2, <2>4, <3>1
  <2> QED BY <2>3, <2>4
<1>5. CASE /\ ~ExValid(in) /\ regfile_we_lsu /\ ~WbReady(in)
           /\ regfile_waddr_lsu' = regfile_waddr_lsu /\ wbWhole' = wbWhole
           /\ ExReady(in) => ex.kind = "branch"
  <2>1. cnt_q' # 0
    BY <1>2, <1>5 DEF WbReady
  <2>2. wbWhole' => ~data_misaligned_ex'
    <3>1. CASE data_misaligned
      <4>1. ~ExReady(in)
        BY <1>5, <3>1 DEF data_misaligned, data_req_ex
      <4> QED BY <3>1, <4>1, ExMoves DEF Stays
    <3>2. CASE ~data_misaligned
      BY <1>0, <1>5, <3>2, ExMoves DEF WbInv
    <3> QED BY <3>1, <3>2
  <2>3. ASSUME ~wbWhole'
        PROVE  data_misaligned_ex' /\ ex'.kind = "load" /\ regfile_waddr_lsu' = ex'.mem
    <3>1. data_misaligned_ex /\ ex.kind = "load" /\ regfile_waddr_lsu = ex.mem
      BY <1>0, <1>5, <2>3 DEF WbInv
    <3>2. ~data_misaligned /\ ~ExReady(in)
      BY <1>5, <3>1 DEF data_misaligned
    <3>3. ex' = ex /\ data_misaligned_ex' = data_misaligned_ex
      BY <3>2, ExMoves DEF Stays
    <3> QED BY <1>5, <3>1, <3>3
  <2>4. ASSUME ex'.kind # "load" PROVE regfile_waddr_lsu' = regfile_waddr_ex'
    <3>1. ex.kind # "load"
      BY <1>5, <2>4, ExMoves DEF Stays
    <3>2. regfile_waddr_lsu = regfile_waddr_ex
      BY <1>0, <1>5, <3>1 DEF WbInv
    <3> QED BY <1>3, <1>5, <2>4, <3>2, ExMoves
  <2> QED BY <2>1, <2>2, <2>3, <2>4
<1> QED BY <1>1, <1>4, <1>5, WbMoves

\* The newest value of a register after the clock edge.
LEMMA NewestAfter ==
  ASSUME NEW in, Step(in), NEW r \in Reg
  PROVE  newest'[r] = IF Issues(in) /\ id.mem = r THEN "mem"
                      ELSE IF Issues(in) /\ id.alu = r THEN "ex"
                      ELSE Moved(in, r)
BY DEF Step, Cycle, HistoryClock

\* What an instruction that issues finds: nothing on its way to a register that
\* it writes itself, unless the FPU keeps the order.
LEMMA IssuesInOrder ==
  ASSUME NEW in, Step(in), Issues(in), NEW r \in Reg
  PROVE  /\ Decoding(in) /\ ~data_misaligned /\ ExReady(in) /\ ~Stays(in)
         /\ id.mem = r => id.kind = "load"
         /\ id.mem = r \/ (id.alu = r /\ id.kind # "apu") => inflight' # r
         /\ id.alu = r /\ id.kind # "apu" =>
              ~(regfile_we_lsu' /\ regfile_waddr_lsu' = r)
<1>0. /\ Shape /\ WbInv /\ IInv /\ Cycle(in) /\ Possible(in) /\ in \in Input
      /\ id \in Insn \cup {Bubble} /\ r # None
  BY RegsAreDests DEF Step, NewestInv, IInv, ExInv
<1>1. /\ Decoding(in) /\ ~data_misaligned /\ ExReady(in) /\ ~Stays(in)
      /\ ~LoadStall(in) /\ ~ApuDepStall(in)
  BY DEF Issues, IdReady, Stays
<1>2. id.mem = r => id.kind = "load"
  BY <1>0, Fields
<1>3. ASSUME id.mem = r \/ id.alu = r, id.kind # "apu", inflight' = r
      PROVE  FALSE
  <2>1. r \notin Outstanding(apu, ApuValid(in))
    BY <1>1, <1>3 DEF ApuDepStall
  <2>2. CASE Sent(in)
    <3>1. ex.alu = r
      BY <1>0, <1>3, <2>2, Dispatched
    <3>2. ValidReq(apu) /\ ~ReturnedReq(apu, ApuValid(in)) /\ apu.waddr = ex.alu
      BY <2>2 DEF Sent, ApuAccepted, apu
    <3> QED BY <1>0, <2>1, <3>1, <3>2 DEF Outstanding
  <2>3. CASE ~Sent(in)
    <3>1. ~ApuValid(in) /\ inflight = r
      BY <1>0, <1>3, <2>3, Dispatched
    <3> QED BY <1>0, <2>1, <3>1 DEF Outstanding, Unreturned, ReturnedInflight
  <2> QED BY <2>2, <2>3
<1>4. ASSUME id.alu = r, id.kind # "apu", regfile_we_lsu', regfile_waddr_lsu' = r
      PROVE  FALSE
  <2>1. alu_we_id
    BY <1>0, <1>4 DEF alu_we_id
  <2>2. regfile_waddr_ex = r => ~(data_req_ex /\ regfile_we_ex)
                                  /\ ~(~WbReady(in) /\ LsuPort(in).fw)
    BY <1>1, <1>4, <2>1 DEF LoadStall
  <2>3. CASE ex.kind = "load" /\ data_req_ex /\ regfile_waddr_lsu' = ex.mem
             /\ regfile_waddr_ex = ex.mem
    BY <1>4, <2>2, <2>3 DEF regfile_we_ex
  <2>4. CASE /\ regfile_we_lsu /\ ~WbReady(in)
             /\ regfile_waddr_lsu' = regfile_waddr_lsu
             /\ ExReady(in) => ex.kind = "branch"
    <3>1. regfile_waddr_ex = r
      BY <1>0, <1>1, <1>4, <2>4 DEF WbInv
    <3> QED BY <2>2, <2>4, <3>1 DEF LsuPort
  <2> QED BY <1>4, <2>3, <2>4, WbMoves
<1>5. id.mem = r => id.kind # "apu"
  BY <1>2
<1> QED BY <1>1, <1>2, <1>3, <1>4, <1>5

\* A result moves on only to where something will write it.
LEMMA LocatedStep ==
  ASSUME NEW in, Step(in), NEW r \in Reg
  PROVE  Located(r)'
<1>0. /\ Shape /\ IInv /\ Cycle(in) /\ Possible(in) /\ in \in Input /\ r # None
      /\ Located(r) /\ Claimed(r)
  BY RegsAreDests DEF Step, NewestInv
<1>1. CASE Issues(in) /\ id.mem = r
  <2>1. newest'[r] = "mem" /\ ex' = id /\ id.kind = "load"
    BY <1>1, NewestAfter, IssuesInOrder, ExMoves
  <2> QED BY <1>1, <2>1 DEF Located
<1>2. CASE Issues(in) /\ id.mem # r /\ id.alu = r
  <2>1. newest'[r] = "ex" /\ ex' = id /\ regfile_alu_we_ex' = alu_we_id
    BY <1>2, NewestAfter, IssuesInOrder, ExMoves
  <2>2. id.kind = "apu" \/ alu_we_id
    BY <1>0, <1>2 DEF alu_we_id
  <2> QED BY <1>2, <2>1, <2>2 DEF Located
<1>3. CASE ~(Issues(in) /\ (id.mem = r \/ id.alu = r))
  <2>0. newest'[r] = Moved(in, r)
    BY <1>3, NewestAfter
  <2>1. CASE newest[r] = "rf"
    BY <2>0, <2>1, RfMoves DEF Located
  <2>2. CASE newest[r] = "ex"
    <3>1. CASE ~LeavesEx(in)
      <4>1. Stays(in) /\ newest'[r] = "ex"
        BY <2>0, <2>2, <3>1, ExResultMoves DEF Stays, LeavesEx
      <4>2. ex' = ex /\ regfile_alu_we_ex' = regfile_alu_we_ex
        BY <1>0, <3>1, <4>1, ExMoves DEF Shape
      <4> QED BY <1>0, <2>2, <4>1, <4>2 DEF Located
    <3>2. CASE LeavesEx(in) /\ Sent(in)
      <4>1. newest'[r] = "fpu"
        BY <2>0, <2>2, <3>2, ExResultMoves
      <4>2. inflight' = ex.alu
        BY <1>0, <3>2, Dispatched
      <4> QED BY <1>0, <2>2, <4>1, <4>2 DEF Located
    <3>3. CASE LeavesEx(in) /\ ~Sent(in)
      BY <2>0, <2>2, <3>3, ExResultMoves DEF Located
    <3> QED BY <3>1, <3>2, <3>3
  <2>3. CASE newest[r] = "mem"
    <3>1. ex.kind = "load" /\ ex.mem = r /\ regfile_waddr_ex = r /\ data_req_ex
      BY <2>3, LoadMoves
    <3>2. CASE Stays(in)
      <4>1. newest'[r] = "mem" /\ ex' = ex
        BY <2>0, <2>3, <3>2, LoadMoves, ExMoves
      <4> QED BY <3>1, <4>1 DEF Located
    <3>3. CASE ~Stays(in)
      <4>1. newest'[r] = "wb"
        BY <2>0, <2>3, <3>3, LoadMoves
      <4>2. ExValid(in) /\ ~data_misaligned
        BY <3>1, <3>3, Ready DEF Stays
      <4>3. ExWbClock(in)
        BY <1>0 DEF Cycle
      <4>4. regfile_we_lsu' /\ regfile_waddr_lsu' = r /\ wbWhole'
        BY <3>1, <4>2, <4>3 DEF ExWbClock, regfile_we_ex
      <4> QED BY <4>1, <4>4 DEF Located
    <3> QED BY <3>2, <3>3
  <2>4. CASE newest[r] = "wb"
    <3>1. regfile_we_lsu /\ wbWhole /\ regfile_waddr_lsu = r
      BY <2>4, ResponseMoves
    <3>2. CASE WbReady(in)
      BY <2>0, <2>4, <3>2, ResponseMoves DEF Located
    <3>3. CASE ~WbReady(in)
      <4>1. newest'[r] = "wb"
        BY <2>0, <2>4, <3>3, ResponseMoves
      <4>2. ExWbClock(in) /\ ~ExValid(in)
        BY <1>0, <3>3 DEF Cycle, ExValid
      <4>3. regfile_we_lsu' /\ regfile_waddr_lsu' = r /\ wbWhole'
        BY <3>1, <3>3, <4>2 DEF ExWbClock
      <4> QED BY <4>1, <4>3 DEF Located
    <3> QED BY <3>2, <3>3
  <2>5. CASE newest[r] = "fpu"
    <3>1. inflight = r
      BY <2>5, FpuResultMoves
    <3>2. CASE ApuValid(in)
      BY <2>0, <2>5, <3>2, FpuResultMoves DEF Located
    <3>3. CASE ~ApuValid(in)
      <4>1. newest'[r] = "fpu"
        BY <2>0, <2>5, <3>3, FpuResultMoves
      <4>2. ~Sent(in)
        BY <1>0, <3>1, <3>3, Dispatched, Delivery
      <4>3. inflight' = r
        BY <1>0, <3>1, <3>3, <4>2, Dispatched
      <4> QED BY <4>1, <4>3 DEF Located
    <3> QED BY <3>2, <3>3
  <2> QED BY <1>0, <2>1, <2>2, <2>3, <2>4, <2>5 DEF Located
<1> QED BY <1>1, <1>2, <1>3

\* Whatever may write a register is in program order behind no other writer.
LEMMA ClaimedStep ==
  ASSUME NEW in, Step(in), NEW r \in Reg
  PROVE  Claimed(r)'
<1>0. /\ Shape /\ IInv /\ Cycle(in) /\ Possible(in) /\ in \in Input /\ r # None
      /\ Located(r) /\ Claimed(r) /\ id \in Insn \cup {Bubble}
  BY RegsAreDests DEF Step, NewestInv, IInv, ExInv
<1>1. ~Issues(in) => newest'[r] = Moved(in, r)
  BY NewestAfter
<1>2. ASSUME ex.kind = "apu", ~ExReady(in), newest[r] = "ex"
      PROVE  newest'[r] = "ex" /\ ex' = ex
  <2>1. Stays(in) /\ ~LeavesEx(in)
    BY <1>2 DEF Stays, LeavesEx
  <2> QED BY <1>1, <1>2, <2>1, ExMoves, ExResultMoves
<1>3. ex'.kind = "apu" /\ ex'.alu = r => newest'[r] = "ex"
  <2>1. SUFFICES ASSUME ex'.kind = "apu", ex'.alu = r PROVE newest'[r] = "ex"
    OBVIOUS
  <2>2. CASE Stays(in)
    <3>1. ex.kind = "apu" /\ ex.alu = r
      BY <2>1, <2>2, ExMoves
    <3>2. ~ExReady(in)
      BY <2>2, <3>1 DEF Stays, data_misaligned, data_req_ex
    <3> QED BY <1>0, <1>2, <3>1, <3>2 DEF Claimed
  <2>3. CASE ~Stays(in)
    <3>1. Bubble.kind # "apu"
      BY DEF Bubble
    <3>2. Issues(in)
      BY <2>1, <2>3, <3>1, ExMoves
    <3>3. ex' = id
      BY <2>3, <3>2, ExMoves
    <3>4. id.mem # r
      BY <2>1, <3>2, <3>3, IssuesInOrder
    <3> QED BY <2>1, <3>2, <3>3, <3>4, NewestAfter
  <2> QED BY <2>2, <2>3
<1>4. regfile_alu_we_ex' /\ ex'.alu = r => newest'[r] \in {"ex", "mem"}
  <2>1. SUFFICES ASSUME regfile_alu_we_ex', ex'.alu = r PROVE newest'[r] \in {"ex", "mem"}
    OBVIOUS
  <2>2. CASE Stays(in)
    <3>1. regfile_alu_we_ex /\ ~LeavesEx(in) /\ ex.alu = r /\ ~Issues(in)
      BY <2>1, <2>2, ExMoves
    <3>2. newest[r] \in {"ex", "mem"}
      BY <1>0, <3>1 DEF Claimed
    <3> QED BY <1>1, <2>2, <3>1, <3>2, ExResultMoves, LoadMoves
  <2>3. CASE ~Stays(in)
    <3>1. Issues(in) /\ ex' = id
      BY <2>1, <2>3, ExMoves
    <3> QED BY <2>1, <3>1, NewestAfter
  <2> QED BY <2>2, <2>3
<1>5. ex'.kind = "load" /\ ex'.mem = r => newest'[r] = "mem"
  <2>1. SUFFICES ASSUME ex'.kind = "load", ex'.mem = r PROVE newest'[r] = "mem"
    OBVIOUS
  <2>2. CASE Stays(in)
    <3>1. ex.kind = "load" /\ ex.mem = r /\ ~Issues(in)
      BY <2>1, <2>2, ExMoves
    <3>2. newest[r] = "mem"
      BY <1>0, <3>1 DEF Claimed
    <3> QED BY <1>1, <2>2, <3>1, <3>2, LoadMoves
  <2>3. CASE ~Stays(in)
    <3>1. Bubble.kind # "load"
      BY DEF Bubble
    <3>2. Issues(in)
      BY <2>1, <2>3, <3>1, ExMoves
    <3>3. ex' = id
      BY <2>3, <3>2, ExMoves
    <3> QED BY <2>1, <3>2, <3>3, NewestAfter
  <2> QED BY <2>2, <2>3
<1>6. regfile_we_lsu' /\ regfile_waddr_lsu' = r =>
        newest'[r] \in {"wb", "mem"} \/ (newest'[r] = "ex" /\ ex'.kind = "apu")
  <2>1. SUFFICES ASSUME regfile_we_lsu', regfile_waddr_lsu' = r
                 PROVE  newest'[r] \in {"wb", "mem"} \/ (newest'[r] = "ex" /\ ex'.kind = "apu")
    OBVIOUS
  <2>2. Issues(in) /\ id.alu = r /\ id.mem # r => newest'[r] = "ex" /\ ex'.kind = "apu"
    BY <2>1, NewestAfter, IssuesInOrder, ExMoves
  <2>3. Issues(in) /\ id.mem = r => newest'[r] = "mem"
    BY NewestAfter
  <2>4. CASE ExValid(in) /\ ExReady(in) /\ ex.kind = "load" /\ ex.mem = r
    <3>1. newest[r] = "mem"
      BY <1>0, <2>4 DEF Claimed
    <3>2. Moved(in, r) \in {"wb", "mem"}
      BY <3>1, LoadMoves
    <3> QED BY <2>2, <2>3, <3>2, NewestAfter
  <2>5. CASE /\ ~ExValid(in) /\ regfile_we_lsu /\ ~WbReady(in) /\ regfile_waddr_lsu = r
             /\ ExReady(in) => ex.kind = "branch"
    <3>1. newest[r] \in {"wb", "mem"} \/ (newest[r] = "ex" /\ ex.kind = "apu")
      BY <1>0, <2>5 DEF Claimed
    <3>2. CASE newest[r] = "wb"
      <4>1. Moved(in, r) = "wb"
        BY <2>5, <3>2, ResponseMoves
      <4> QED BY <2>2, <2>3, <4>1, NewestAfter
    <3>3. CASE newest[r] = "mem"
      <4>1. Moved(in, r) \in {"wb", "mem"}
        BY <3>3, LoadMoves
      <4> QED BY <2>2, <2>3, <4>1, NewestAfter
    <3>4. CASE newest[r] = "ex" /\ ex.kind = "apu"
      BY <1>2, <2>5, <3>4
    <3> QED BY <3>1, <3>2, <3>3, <3>4
  <2> QED BY <2>1, <2>4, <2>5, WbMoves
<1>7. inflight' = r => newest'[r] = "fpu" \/ (newest'[r] = "ex" /\ ex'.kind = "apu")
  <2>1. SUFFICES ASSUME inflight' = r
                 PROVE  newest'[r] = "fpu" \/ (newest'[r] = "ex" /\ ex'.kind = "apu")
    OBVIOUS
  <2>2. Issues(in) /\ (id.alu = r \/ id.mem = r) => newest'[r] = "ex" /\ ex'.kind = "apu"
    BY <2>1, NewestAfter, IssuesInOrder, ExMoves
  <2>3. ASSUME Moved(in, r) = "fpu"
        PROVE  newest'[r] = "fpu" \/ (newest'[r] = "ex" /\ ex'.kind = "apu")
    BY <2>2, <2>3, NewestAfter
  <2>4. CASE Sent(in)
    <3>1. ex.kind = "apu" /\ ex.alu = r
      BY <1>0, <2>1, <2>4, Dispatched
    <3>2. newest[r] = "ex"
      BY <1>0, <3>1 DEF Claimed
    <3>3. CASE ExReady(in)
      BY <2>3, <2>4, <3>2, <3>3, ExResultMoves DEF LeavesEx
    <3>4. CASE ~ExReady(in)
      BY <1>2, <3>1, <3>2, <3>4
    <3> QED BY <3>3, <3>4
  <2>5. CASE ~Sent(in)
    <3>1. ~ApuValid(in) /\ inflight = r
      BY <1>0, <2>1, <2>5, Dispatched
    <3>2. newest[r] = "fpu" \/ (newest[r] = "ex" /\ ex.kind = "apu")
      BY <1>0, <3>1 DEF Claimed
    <3>3. CASE newest[r] = "fpu"
      BY <2>3, <3>1, <3>3, FpuResultMoves
    <3>4. CASE newest[r] = "ex" /\ ex.kind = "apu"
      <4>1. ~ExReady(in)
        BY <2>5, <3>1, <3>4, Ready DEF Sent, ReturnedReq
      <4> QED BY <1>2, <3>4, <4>1
    <3> QED BY <3>2, <3>3, <3>4
  <2> QED BY <2>4, <2>5
<1>8. newest'[r] = "fpu" /\ TwoCycle' => ~regfile_we_lsu'
  <2>1. SUFFICES ASSUME newest'[r] = "fpu", TwoCycle', regfile_we_lsu' PROVE FALSE
    BY <1>0 DEF Shape
  <2>2. Sent(in)
    BY <1>0, <2>1, Dispatched
  <2>3. ex.kind = "apu" /\ (inflight = None \/ TwoCycle)
    BY <1>0, <2>2, Dispatched
  <2>4. Moved(in, r) = "fpu"
    BY <2>1, NewestAfter
  <2>5. newest[r] \in {"rf", "ex", "mem", "wb", "fpu"}
    BY DEF Step, NewestInv
  <2>6. newest[r] # "fpu"
    <3>1. SUFFICES ASSUME newest[r] = "fpu" PROVE FALSE
      OBVIOUS
    <3>2. inflight = r /\ ~ApuValid(in)
      BY <2>4, <3>1, FpuResultMoves
    <3> QED BY <1>0, <2>3, <3>2, Delivery
  <2>7. newest[r] = "ex"
    BY <2>4, <2>5, <2>6, RfMoves, LoadMoves, ResponseMoves
  <2>8. ExReady(in)
    BY <2>3, <2>4, <2>7, ExResultMoves DEF LeavesEx
  <2>9. ~ExValid(in) /\ (ExReady(in) => ex.kind = "branch")
    BY <2>1, <2>3, WbMoves
  <2> QED BY <2>3, <2>8, <2>9
<1> QED BY <1>3, <1>4, <1>5, <1>6, <1>7, <1>8 DEF Claimed

----------------------------------------------------------------------------
\* ---- operands --------------------------------------------------------------
\* The newest value of a register that an issuing instruction reads, where it
\* is on its way to the FPU or in it.
LEMMA ReadsFpu ==
  ASSUME NEW in, Step(in), Issues(in), NEW r \in id.reads
  PROVE  /\ r \in Reg
         /\ inflight = r => ApuValid(in)
         /\ ex.kind = "apu" /\ ex.alu = r =>
              ApuAccepted(in) /\ ApuValid(in) /\ ReturnedReq(apu, TRUE) /\ inflight = None
<1>0. /\ IInv /\ Possible(in) /\ in \in Input /\ id \in Insn \cup {Bubble}
  BY DEF Step, NewestInv, IInv, ExInv
<1>1. r \in Reg /\ r # None
  <2>1. id.reads \subseteq Reg
    BY <1>0, Fields
  <2> QED BY <2>1, RegsAreDests
<1>2. r \notin Outstanding(apu, ApuValid(in)) /\ ExReady(in)
  BY DEF Issues, IdReady, ApuDepStall
<1>3. inflight = r => ApuValid(in)
  BY <1>1, <1>2 DEF Outstanding, Unreturned, ReturnedInflight
<1>4. ASSUME ex.kind = "apu", ex.alu = r
      PROVE  ApuAccepted(in) /\ ReturnedReq(apu, ApuValid(in))
  <2>1. ApuAccepted(in) /\ apu.waddr = r
    BY <1>2, <1>4, Ready DEF apu
  <2> QED BY <1>1, <1>2, <2>1 DEF Outstanding, ApuAccepted
<1> QED BY <1>1, <1>3, <1>4 DEF ReturnedReq, apu_active

\* What the forwarding selects of an issuing instruction choose is the newest.
LEMMA OperandsStep ==
  ASSUME NEW in, Step(in), Issues(in), NEW r \in id.reads
  PROVE  OperandNewest(in, r)
<1>0. /\ Shape /\ WbInv /\ IInv /\ Possible(in) /\ in \in Input
  BY DEF Step, NewestInv
<1>1. r \in Reg
  BY ReadsFpu
<1>2. Located(r) /\ Claimed(r) /\ newest[r] \in {"rf", "ex", "mem", "wb", "fpu"}
  BY <1>1 DEF Step, NewestInv
<1>3. /\ ExReady(in) /\ ~data_misaligned /\ ~LoadStall(in)
  BY DEF Issues, IdReady
<1>4. newest[r] # "mem"
  <2>1. newest[r] = "mem" => regfile_waddr_ex = r /\ data_req_ex /\ regfile_we_ex
    BY <1>1, LoadMoves DEF regfile_we_ex
  <2> QED BY <1>3, <2>1 DEF LoadStall
\* An operation of the FPU in EX that writes r returns now, on the ALU port.
<1>5. ex.kind = "apu" /\ ex.alu = r =>
        AluPortApu(in) /\ ApuWaddr(apu) = r /\ AluPort(in).fw /\ AluPort(in).waddr = r
  <2>1. SUFFICES ASSUME ex.kind = "apu", ex.alu = r PROVE AluPortApu(in) /\ ApuWaddr(apu) = r
    BY DEF AluPort
  <2>2. ApuValid(in) /\ inflight = None
    BY <2>1, ReadsFpu
  <2> QED BY <1>0, <2>1, <2>2, Delivery
<1>6. CASE AluPort(in).fw /\ AluPort(in).waddr = r
  <2>1. SUFFICES AluPortNewest(in, r)
    BY <1>6 DEF OperandNewest
  <2>2. CASE /\ AluPortApu(in) /\ inflight = r /\ ~ValidReq(apu)
             /\ ResultFor(in) = r /\ ~ReturnedReq(apu, TRUE)
    <3>1. ~(ex.kind = "apu")
      BY <1>3, <2>2, Ready DEF ApuAccepted
    <3>2. newest[r] = "fpu"
      BY <1>2, <2>2, <3>1 DEF Claimed
    <3> QED BY <2>2, <3>2 DEF AluPortNewest, ApuNewest
  <2>3. CASE AluPortApu(in) /\ ResultFor(in) = r /\ ReturnedReq(apu, TRUE) /\ newest[r] = "ex"
    BY <2>3 DEF AluPortNewest, ApuNewest
  <2>4. CASE ~AluPortApu(in) /\ regfile_alu_we_ex /\ ~apu.en /\ newest[r] \in {"ex", "mem"}
    <3>1. unit_ready
      BY <1>0, <1>3, <2>4, Ready DEF Shape
    <3> QED BY <1>4, <2>4, <3>1 DEF AluPortNewest
  <2> QED BY <1>1, <1>6, <2>2, <2>3, <2>4, AluClaims
<1>7. CASE ~(AluPort(in).fw /\ AluPort(in).waddr = r) /\ LsuPort(in).fw /\ LsuPort(in).waddr = r
  <2>0. ~(ex.kind = "apu" /\ ex.alu = r)
    BY <1>5, <1>7
  <2>1. SUFFICES LsuPortNewest(in, r)
    BY <1>7 DEF OperandNewest
  <2>2. ~(newest[r] = "ex" /\ ex.kind = "apu")
    BY <1>2, <2>0 DEF Located
  <2>3. CASE regfile_we_lsu /\ regfile_waddr_lsu = r /\ newest[r] \in {"wb", "mem"}
    <3>1. newest[r] = "wb"
      BY <1>4, <2>3
    <3>2. wbWhole /\ (WbReady(in) <=> in.rvalid)
      BY <1>1, <3>1, ResponseMoves
    <3>3. WbReady(in)
      <4>1. SUFFICES ASSUME ~WbReady(in) PROVE FALSE
        OBVIOUS
      <4>2. ex.kind = "branch"
        BY <1>3, <4>1, Ready
      <4>3. regfile_waddr_ex = r
        BY <1>0, <2>3, <4>2 DEF WbInv
      <4> QED BY <1>3, <1>7, <4>1, <4>3 DEF LoadStall
    <3> QED BY <2>3, <3>1, <3>2, <3>3 DEF LsuPortNewest
  <2>4. CASE ~regfile_we_lsu /\ ResultFor(in) = r /\ ~ReturnedReq(apu, TRUE) /\ newest[r] = "fpu"
    BY <2>4 DEF LsuPortNewest, ApuNewest
  <2> QED BY <1>1, <1>7, <2>2, <2>3, <2>4, LsuClaims
<1>8. CASE ~(AluPort(in).fw /\ AluPort(in).waddr = r) /\ ~(LsuPort(in).fw /\ LsuPort(in).waddr = r)
  <2>1. newest[r] # "ex"
    <3>1. SUFFICES ASSUME newest[r] = "ex" PROVE FALSE
      OBVIOUS
    <3>2. ex.alu = r /\ (ex.kind = "apu" \/ regfile_alu_we_ex)
      BY <1>2, <3>1 DEF Located
    <3>3. ~(ex.kind = "apu")
      BY <1>5, <1>8, <3>2
    <3> QED BY <1>3, <1>8, <3>2, <3>3, OwnPort DEF LeavesEx
  <2>2. newest[r] # "wb"
    <3>1. SUFFICES ASSUME newest[r] = "wb" PROVE FALSE
      OBVIOUS
    <3>2. regfile_we_lsu /\ regfile_waddr_lsu = r
      BY <1>1, <3>1, ResponseMoves
    <3> QED BY <1>8, <3>2 DEF LsuPort
  <2>3. newest[r] # "fpu"
    <3>1. SUFFICES ASSUME newest[r] = "fpu" PROVE FALSE
      OBVIOUS
    <3>2. inflight = r
      BY <1>1, <3>1, FpuResultMoves
    <3>3. ApuValid(in)
      BY <3>2, ReadsFpu
    <3>4. r # None
      BY <1>1, RegsAreDests
    <3>5. CASE TwoCycle /\ LsuPortApu(in) /\ ApuWaddr(apu) = inflight
      <4>1. ~regfile_we_lsu
        BY <1>2, <3>1, <3>5 DEF Claimed
      <4> QED BY <1>8, <3>2, <3>5, <4>1 DEF LsuPort
    <3>6. CASE AluPortApu(in) /\ ApuWaddr(apu) = inflight
      BY <1>8, <3>2, <3>6 DEF AluPort
    <3> QED BY <1>0, <3>2, <3>3, <3>4, <3>5, <3>6, Delivery
  <2>4. newest[r] = "rf"
    BY <1>2, <1>4, <2>1, <2>2, <2>3
  <2> QED BY <1>8, <2>4 DEF OperandNewest
<1> QED BY <1>6, <1>7, <1>8

\* A register jump goes by the register file alone, and waits until the newest
\* value is there.
LEMMA JumpsStep ==
  ASSUME NEW in, Step(in), Jumps(in), NEW r \in id.reads
  PROVE  newest[r] = "rf"
<1>0. /\ Shape /\ IInv /\ Possible(in) /\ in \in Input /\ id \in Insn \cup {Bubble}
  BY DEF Step, NewestInv, IInv, ExInv
<1>1. r \in Reg /\ r # None
  <2>1. id.reads \subseteq Reg
    BY <1>0, Fields
  <2> QED BY <2>1, RegsAreDests
<1>2. /\ Located(r) /\ newest[r] \in {"rf", "ex", "mem", "wb", "fpu"}
  BY <1>1 DEF Step, NewestInv
<1>3. Decoding(in) /\ id.kind = "jalr" /\ ~JrStall(in)
  BY DEF Jumps
<1>4. /\ ~(LsuPort(in).fw /\ LsuPort(in).waddr = r)
      /\ ~(regfile_we_ex /\ regfile_waddr_ex = r)
      /\ ~(AluPort(in).fw /\ AluPort(in).waddr = r)
      /\ ~JalrDep(apu, {r})
      /\ ~JalrDep(apu, id.reads)
  BY <1>3 DEF JrStall, JalrDep
<1>5. CASE newest[r] = "ex"
  <2>1. ex.alu = r /\ (ex.kind = "apu" \/ regfile_alu_we_ex)
    BY <1>2, <1>5 DEF Located
  <2>2. ex.kind # "apu"
    BY <1>4, <2>1 DEF JalrDep, apu
  <2>3. CASE AluPortApu(in)
    <3>1. ~HoldResult(in)
      BY <2>2, <2>3, PortTaken
    <3> QED BY <1>3, <1>4, <2>1, <2>2, <3>1 DEF HoldResult
  <2>4. CASE ~AluPortApu(in)
    <3>1. AluPort(in).fw /\ AluPort(in).waddr = r
      BY <2>1, <2>2, <2>4 DEF AluPort, apu
    <3> QED BY <1>4, <3>1
  <2> QED BY <2>3, <2>4
<1>6. CASE newest[r] = "mem"
  BY <1>1, <1>4, <1>6, LoadMoves DEF regfile_we_ex
<1>7. CASE newest[r] = "wb"
  BY <1>1, <1>4, <1>7, ResponseMoves DEF LsuPort
<1>8. CASE newest[r] = "fpu"
  BY <1>1, <1>4, <1>8, FpuResultMoves DEF JalrDep
<1> QED BY <1>2, <1>5, <1>6, <1>7, <1>8

\* No operand, register jump or shared unit takes a stale value in a cycle.
LEMMA ReadStep ==
  ASSUME NEW in, Step(in)
  PROVE  misread' = FALSE
<1>1. misread = FALSE /\ HistoryClock(in)
  BY DEF Step, NewestInv, Cycle
<1>2. ~(Issues(in) /\ \E r \in id.reads : ~OperandNewest(in, r))
  BY OperandsStep
<1>3. ~(Jumps(in) /\ \E r \in id.reads : newest[r] # "rf")
  BY JumpsStep
<1>4. ~(AluPortApu(in) /\ mult_multicycle)
  <2>1. mult_multicycle => ex.kind # "apu" /\ mulh_active
    BY DEF mult_multicycle, mulh_active
  <2> QED BY <2>1, PortTaken
<1>5. ~(AluPortApu(in) /\ data_misaligned)
  <2>1. data_misaligned => ex.kind # "apu"
    BY DEF data_misaligned, data_req_ex
  <2> QED BY <2>1, PortTaken
<1> QED BY <1>1, <1>2, <1>3, <1>4, <1>5 DEF HistoryClock

\* No newest value is lost in a cycle.
LEMMA NewestStep ==
  ASSUME NEW in, Step(in)
  PROVE  newest' \in [Reg -> {"rf", "ex", "mem", "wb", "fpu"}]
<1>1. newest' = [r \in Reg |-> newest'[r]]
  BY DEF Step, Cycle, HistoryClock
<1>2. ASSUME NEW r \in Reg PROVE newest'[r] \in {"rf", "ex", "mem", "wb", "fpu"}
  <2>1. newest[r] \in {"rf", "ex", "mem", "wb", "fpu"}
    BY DEF Step, NewestInv
  <2>2. Moved(in, r) \in {"rf", "ex", "mem", "wb", "fpu"}
    BY <2>1, RfMoves, ExResultMoves, LoadMoves, ResponseMoves, FpuResultMoves
  <2> QED BY <2>2, NewestAfter
<1> QED BY <1>1, <1>2

\* After reset every value is in the register file.
LEMMA NewestInit == Init => NewestInv
<1> SUFFICES ASSUME Init PROVE NewestInv
  OBVIOUS
<1>1. IInv
  BY InitInv
<1>2. Shape
  <2>1. ex.kind = "none" /\ ~data_req_ex
    BY DEF Init, Bubble, data_req_ex
  <2>2. Idle
    BY DEF Init, Idle, ApuInit
  <2>3. regfile_alu_we_ex = FALSE /\ regfile_we_lsu = FALSE /\ wbWhole = TRUE
    BY DEF Init
  <2>4. regfile_alu_we_ex \in BOOLEAN /\ regfile_we_lsu \in BOOLEAN /\ wbWhole \in BOOLEAN
    BY <2>3
  <2>5. ~regfile_alu_we_ex /\ ~data_misaligned_ex /\ cnt_q \in 0 .. 2
    BY DEF Init
  <2>6. ex.kind # "load" /\ ex.kind # "csr"
    BY <2>1
  <2> QED BY <2>4, <2>5, <2>6 DEF Shape
<1>3. WbInv /\ misread = FALSE
  BY DEF Init, WbInv
<1>4. newest \in [Reg -> {"rf", "ex", "mem", "wb", "fpu"}]
  BY DEF Init
<1>5. ASSUME NEW r \in Reg PROVE Located(r) /\ Claimed(r)
  BY <1>5, RegsAreDests DEF Init, Located, Claimed, Bubble, ApuInit
<1> QED BY <1>1, <1>2, <1>3, <1>4, <1>5 DEF NewestInv

\* Every cycle keeps the invariant.
LEMMA NewestKept ==
  ASSUME NewestInv, [Next]_vars
  PROVE  NewestInv'
<1>1. CASE UNCHANGED vars
  <2>1. IInv' /\ Shape' /\ WbInv' /\ misread' = FALSE
        /\ newest' \in [Reg -> {"rf", "ex", "mem", "wb", "fpu"}]
    BY <1>1, StepInv
    DEF NewestInv, Shape, WbInv, Idle, data_req_ex, vars, idVars, exVars, wbVars, apuVars
  <2>2. ASSUME NEW r \in Reg PROVE Located(r)' /\ Claimed(r)'
    BY <1>1, <2>2
    DEF NewestInv, Located, Claimed, TwoCycle, vars, idVars, exVars, wbVars, apuVars
  <2> QED BY <2>1, <2>2 DEF NewestInv
<1>2. CASE Next
  <2>1. PICK in \in Input : Possible(in) /\ Cycle(in)
    BY <1>2 DEF Next
  <2>2. Step(in)
    BY <2>1 DEF Step
  <2>3. IInv'
    BY <1>2, StepInv DEF NewestInv
  <2>4. Shape' /\ WbInv' /\ misread' = FALSE
    BY <2>2, ShapeStep, WbStep, ReadStep
  <2>5. newest' \in [Reg -> {"rf", "ex", "mem", "wb", "fpu"}]
    BY <2>2, NewestStep
  <2>6. ASSUME NEW r \in Reg PROVE Located(r)' /\ Claimed(r)'
    BY <2>2, LocatedStep, ClaimedStep
  <2> QED BY <2>3, <2>4, <2>5, <2>6 DEF NewestInv
<1> QED BY <1>1, <1>2

\* Where the newest value of each register is, and who will write it, in every
\* reachable state of the EX and WB stages.
THEOREM NewestInvariant == Spec => []NewestInv
BY NewestInit, NewestKept, PTL DEF Spec

\* The stalls and forwarding paths give every instruction, every register jump
\* and every shared unit the values that program order says: the hazards at the
\* forwarding selects, the register jumps and the shared ALU port.
THEOREM OperandsCorrect == Spec => []ReadsNewest
<1>1. NewestInv => ReadsNewest
  BY DEF NewestInv, ReadsNewest
<1> QED BY <1>1, NewestInvariant, PTL

\* No result is lost between a unit and the register file, nor stored over a
\* newer one: the hazards at the write ports and at the result memorisation.
THEOREM ResultsKept == Spec => []NewestNotLost
<1>1. NewestInv => NewestNotLost
  <2> SUFFICES ASSUME NewestInv, NEW r \in Reg
               PROVE  newest[r] # "lost"
                      /\ (newest[r] = "fpu" => r \in {fpu[2], fpu[3], apu_result_q})
    BY DEF NewestNotLost
  <2>1. newest[r] # "lost"
    BY DEF NewestInv
  <2>2. newest[r] = "fpu" => inflight = r /\ r # None
    BY RegsAreDests DEF NewestInv, Located
  <2>3. inflight # None => inflight \in {fpu[2], fpu[3], apu_result_q}
    BY DEF NewestInv, IInv, FpuInv, Idle, TwoCycle, Long, Memorised
  <2> QED BY <2>1, <2>2, <2>3
<1> QED BY <1>1, NewestInvariant, PTL
=============================================================================
