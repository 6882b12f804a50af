------------------------------ MODULE FpStatus ------------------------------
(***************************************************************************)
(* The decoder at work: an instruction in ID is decoded with what          *)
(* cv32e40p_cs_registers says of the floating-point state (mstatus.FS and  *)
(* frm) while its predecessors in EX, in WB and in the FPU still change    *)
(* that state.  One step is one clock cycle.                               *)
(*                                                                         *)
(* Only instructions with an effect on that state are followed beyond ID.  *)
(* due is the floating-point state that program order gives the            *)
(* instruction in ID.  The inputs of a cycle are the instruction that IF    *)
(* delivers, if any, and                                                   *)
(*   go, ready  what else ID and EX wait for lets them move                *)
(*   rvalid     the load in WB is answered                                 *)
(*   grant      the FPU takes the operation in EX                          *)
(*   result     the FPU delivers an operation that was in flight           *)
(*   data       mstatus.FS in what a CSR instruction writes, sets, clears  *)
(*   legal      whether the rounding mode it writes is a legal one         *)
(* A CSR instruction that sets or clears part of mstatus.FS is left out.   *)
(***************************************************************************)
EXTENDS Operands, InsnShape

CONSTANTS
  None,
  Start,    \* configurations, with a state that software has set up
  Insn,     \* the instructions, and
  FpuInsn   \* those that follow the first one (a bound)

ASSUME FpStatusAssumption ==
  /\ None \notin Insn /\ FpuInsn \subseteq Insn
  /\ \A i \in Insn :
       /\ i.f3 \in 0 .. 7 /\ i.f7 \in 0 .. 127
       /\ i.rd \in 0 .. 31 /\ i.rs1 \in 0 .. 31 /\ i.rs2 \in 0 .. 31
  /\ \A x \in Start :
       /\ x.fs \in 0 .. 3 /\ x.frm_legal \in BOOLEAN
       /\ x.c.addmul \in Nat /\ x.c.others \in Nat
       /\ x.fs # 0 => x.c.fpu /\ ~x.c.zfinx

\* mstatus.FS
OFF == 0
DIRTY == 3

VARIABLES
  c, debug_mode,   \* the configuration; constant
  fresh,           \* nothing has been fetched yet
  id,              \* the instruction in ID, or None
  flush,           \* controller: "no", "ex" (FLUSH_EX) or "wb" (FLUSH_WB)
  ex,              \* ID/EX
  wb,              \* a load of an FP register is in WB
  fpu,             \* operations in flight in the FPU
  mstatus_fs, frm_legal,
  due              \* history, see above

vars == <<c, debug_mode, fresh, id, flush, ex, wb, fpu, mstatus_fs, frm_legal, due>>

NoEffect == [unit |-> "none", lat |-> 0, csr |-> "none", op |-> "read",
             data |-> 0, legal |-> TRUE]

Init ==
  \E x \in Start :
    /\ c = x.c /\ debug_mode = x.debug_mode
    /\ mstatus_fs = x.fs /\ frm_legal = x.frm_legal
    /\ due = [fs |-> x.fs, frm_legal |-> x.frm_legal]
    /\ fresh = TRUE /\ id = None /\ flush = "no"
    /\ ex = NoEffect /\ wb = FALSE /\ fpu = 0

FsExists == c.fpu /\ ~c.zfinx

\* fs_off_o and frm_o, and what they are to be.
Csrs(fs, frm) ==
  [fs_off |-> FsExists /\ fs = OFF, frm_legal |-> frm, debug_mode |-> debug_mode]

Decoded == Decode(c, id, Csrs(mstatus_fs, frm_legal))
Due == Decode(c, id, Csrs(due.fs, due.frm_legal))

\* ---- CSR writes ----------------------------------------------------------
FpCsrs == {"fflags", "frm", "fcsr"}

\* csr_wdata_int: all of FS is written, set or cleared, or nothing of it.
WrittenFs(x, fs) ==
  CASE x.op = "write" -> x.data
    [] x.op = "set" -> IF x.data = 0 THEN fs ELSE DIRTY
    [] x.op = "clear" -> IF x.data = 0 THEN fs ELSE OFF

\* The illegal rounding modes are the three greatest numbers of three bits:
\* setting bits makes none legal, clearing bits makes none illegal.
WrittenFrm(x, frm) ==
  CASE x.op = "write" -> x.legal
    [] x.op = "set" -> frm /\ x.legal
    [] x.op = "clear" -> frm \/ x.legal

Writes(x, csrs) == x.unit = "csr" /\ x.op # "read" /\ x.csr \in csrs

\* ---- one cycle -----------------------------------------------------------
WbReady(in) == wb => in.rvalid
ExReady(in) ==
  /\ in.ready /\ WbReady(in)
  /\ ex.unit = "fpu" => in.grant

\* apu_valid: an operation of latency one returns in the cycle of its grant.
ApuValid(in) == in.result \/ (ex.unit = "fpu" /\ ex.lat = 1 /\ in.grant)

CsrApuStall ==
  Decoded.csr # "none" /\ (fpu > 0 \/ (ex.unit = "fpu" /\ ex.lat > 1))

Issues(in) ==
  id # None /\ flush = "no" /\ in.go /\ ExReady(in) /\ ~CsrApuStall

\* The effect that instruction i, decoded as d, will have.
Effect(d, i, in) ==
  CASE d.illegal -> NoEffect
    [] d.unit = "apu" -> [NoEffect EXCEPT !.unit = "fpu", !.lat = d.lat]
    [] d.mem_we /\ "d" \in d.fp -> [NoEffect EXCEPT !.unit = "load"]
    [] d.csr # "none" /\ i.imm12 \in FpCsrs \cup {"mstatus"} ->
         [NoEffect EXCEPT !.unit = "csr", !.csr = i.imm12, !.op = d.csr,
                          !.data = in.data, !.legal = in.legal]
    [] OTHER -> NoEffect

\* The fetch is halted while a CSR with side effects is in ID and until it has
\* left EX.
Free(in) == id = None \/ Issues(in)
Halted == flush # "no" \/ (id # None /\ Decoded.status)

Offered(in) ==
  IF Free(in) /\ ~Halted THEN {None} \cup (IF fresh THEN Insn ELSE FpuInsn)
  ELSE {None}

IdClock(in, insn) ==
  /\ id' = IF Free(in) THEN insn ELSE id
  /\ fresh' = (fresh /\ insn = None)
  /\ flush' = CASE flush = "ex" -> IF ExReady(in) THEN "wb" ELSE "ex"
                [] flush = "wb" -> "no"
                [] OTHER -> IF Issues(in) /\ Halted THEN "ex" ELSE "no"

ExClock(in) ==
  /\ ex' = IF Issues(in) THEN Effect(Decoded, id, in)
           ELSE IF ExReady(in) THEN NoEffect ELSE ex
  /\ wb' = IF ExReady(in) THEN ex.unit = "load" ELSE wb /\ ~WbReady(in)
  /\ fpu' = fpu + (IF ex.unit = "fpu" /\ ex.lat > 1 /\ ExReady(in) THEN 1 ELSE 0)
                - (IF in.result THEN 1 ELSE 0)

\* fregs_we_i is set in every cycle that the load is in WB; a result of the FPU
\* comes with flags as well.
CsrClock(in) ==
  LET mstatus_we == FsExists /\ Writes(ex, {"mstatus"})
      fs == IF mstatus_we THEN WrittenFs(ex, mstatus_fs) ELSE mstatus_fs
      dirty == \/ wb /\ ~(mstatus_we /\ fs # DIRTY)
               \/ ApuValid(in)
               \/ Writes(ex, FpCsrs)
  IN  /\ mstatus_fs' = IF FsExists /\ dirty THEN DIRTY ELSE fs
      /\ frm_legal' = IF Writes(ex, {"frm", "fcsr"}) THEN WrittenFrm(ex, frm_legal)
                      ELSE frm_legal

\* The same in program order, as the manual has it: every instruction of the F
\* extension but a store leaves FS dirty.
DueClock(in) ==
  LET x == Effect(Due, id, in)
  IN  due' = IF ~Issues(in) THEN due
             ELSE [fs |-> IF ~FsExists THEN OFF
                          ELSE IF x.unit \in {"fpu", "load"} \/ Writes(x, FpCsrs)
                          THEN DIRTY
                          ELSE IF Writes(x, {"mstatus"}) THEN WrittenFs(x, due.fs)
                          ELSE due.fs,
                   frm_legal |-> IF Writes(x, {"frm", "fcsr"})
                                 THEN WrittenFrm(x, due.frm_legal)
                                 ELSE due.frm_legal]

Input ==
  [go : BOOLEAN, ready : BOOLEAN, rvalid : BOOLEAN, grant : BOOLEAN,
   result : BOOLEAN, data : {0, 1, DIRTY}, legal : BOOLEAN]

\* Inputs that mean something in this state.
Possible(in) ==
  /\ in.go => id # None
  /\ ~in.ready => ex.unit # "none"
  /\ in.rvalid => wb
  /\ in.grant => ex.unit = "fpu" /\ fpu < 2 /\ (ex.lat = 1 => fpu = 0)
  /\ in.result => fpu > 0
  /\ in.data # 0 \/ ~in.legal => in.go /\ Decoded.csr \notin {"none", "read"}
  /\ in.data = 1 => Decoded.csr = "write"

Cycle(in, insn) ==
  /\ IdClock(in, insn) /\ ExClock(in) /\ CsrClock(in) /\ DueClock(in)
  /\ UNCHANGED <<c, debug_mode>>

Next == \E in \in {x \in Input : Possible(x)} : \E insn \in Offered(in) : Cycle(in, insn)

Spec == Init /\ [][Next]_vars
----------------------------------------------------------------------------
\* Every register that the result of an instruction depends on is one that the
\* hazard detection and the forwarding are told of, and one that the APU
\* dispatcher is told of if there is an FPU.
HazardsSeen ==
  LET d == Decoded
  IN  id # None /\ ~d.illegal =>
        \A p \in PortsNeeded(d) :
          Address(d, id)[p] # X0 =>
            /\ p \in d.used
            /\ c.fpu => Address(d, id)[p] \in ApuDependsOn(d, id)

\* What the decoder lets through is what EX and WB count on.
FitsWriteBack ==
  LET d == Decoded
  IN  id # None /\ ~d.illegal => WellShaped(AsInsn(d, id), NoReg, X0, c.pulp)

\* An instruction in ID is decoded with the FS and rounding mode that the
\* instructions before it leave, whatever of them is still on its way.
DecodesCurrent == id # None => Decoded = Due

\* docs/source/control_status_registers.rst: FS "is updated to Dirty when
\* executing any F instructions except for all FSW ones", so it is what program
\* order gives it as soon as nothing is on its way.
FsInOrder ==
  ex.unit = "none" /\ ~wb /\ fpu = 0 => mstatus_fs = due.fs
=============================================================================
