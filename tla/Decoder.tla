------------------------------ MODULE Decoder ------------------------------
(***************************************************************************)
(* cv32e40p_decoder: what an instruction i decodes to in configuration c   *)
(* with the CSR state s, for RV32I, M, F or Zfinx, Zicsr and Zifencei, and *)
(* for the CORE-V opcodes CUSTOM_0 to CUSTOM_3.  The parameters that       *)
(* cv32e40p_core ties down are resolved: no atomics, user mode or PMP,     *)
(* single precision only, the debug trigger present.  An operator returns  *)
(* what its branch of the case statement leaves in the outputs.            *)
(***************************************************************************)
EXTENDS DecodedInsn

\* ---- jumps and branches --------------------------------------------------
Link == [Default EXCEPT !.a = "pc", !.b = "imm", !.oper = "ADD", !.alu_we = TRUE]

DecodeJal(i) == [Link EXCEPT !.transfer = "jal"]

DecodeJalr(i) ==
  LegalIf(i.f3 = 0, [Link EXCEPT !.transfer = "jalr", !.used = {"a"}])

DecodeBranch(i) ==
  LegalIf(i.f3 \notin {2, 3},
          Branch(<<"EQ", "NE", "", "", "LTS", "GES", "LTU", "GEU">>[i.f3 + 1],
                 {"a", "b"}))

\* ---- loads and stores ----------------------------------------------------
DecodeStore(i) == LegalIf(i.f3 \in 0 .. 2, ImmB(Store({"a", "b"})))

DecodeLoad(i) == LegalIf(i.f3 \in {0, 1, 2, 4, 5}, ImmB(Load({"a"})))

\* ---- integer operations --------------------------------------------------
DecodeUpper(i) ==
  [ImmB(Alu("ADD", {})) EXCEPT !.a = IF i.op = "AUIPC" THEN "pc" ELSE "imm"]

ShiftsRight(f7) == IF f7 = 0 THEN "SRL" ELSE "SRA"

DecodeOpImm(i) ==
  LegalIf(/\ i.f3 = 1 => i.f7 = 0
          /\ i.f3 = 5 => i.f7 \in {0, 32},
          AluImm(<<"ADD", "SLL", "SLTS", "SLTU", "XOR", ShiftsRight(i.f7),
                   "OR", "AND">>[i.f3 + 1]))

OpBase(i) ==
  LET oper == <<IF i.f7 = 0 THEN "ADD" ELSE "SUB", "SLL", "SLTS", "SLTU", "XOR",
                ShiftsRight(i.f7), "OR", "AND">>[i.f3 + 1]
  IN  LegalIf(i.f7 = 32 => i.f3 \in {0, 5}, Alu(oper, {"a", "b"}))

\* Operands a and b of the divider are swapped.
OpMulDiv(i) ==
  CASE i.f3 = 0 -> On("mult", Alu("MAC32", {"a", "b"}))
    [] i.f3 \in 1 .. 3 -> On("mult", Alu("H", {"a", "b", "c"}))
    [] OTHER -> [Alu("DIV", {"a", "b"}) EXCEPT !.a = "b", !.b = "a"]

\* Vectorial float operations (bit 31 set) do not exist without the formats.
DecodeOp(i) ==
  CASE i.f7 \in {0, 32} -> OpBase(i)
    [] i.f7 = 1 -> OpMulDiv(i)
    [] OTHER -> Illegal

\* ---- floating point ------------------------------------------------------
FpuOn(c, s) == c.fpu /\ (c.zfinx \/ ~s.fs_off)

RoundingOk(i, s) == i.f3 \in 0 .. 4 \/ (i.f3 = 7 /\ s.frm_legal)

\* The dispatcher knows latencies of one, two and more cycles.
ApuLat(stages) == IF stages < 2 THEN stages + 1 ELSE 3

\* Operation oper; fp: the ports and destination that are FP registers.
Fpu(c, oper, used, fp, lat) ==
  [Default EXCEPT !.unit = "apu", !.oper = oper, !.used = used, !.lat = lat,
                  !.fp = IF c.zfinx THEN {} ELSE fp]

FpFields(i) == [f5 |-> i.f7 \div 4, single |-> i.f7 % 4 = 0]

FpBinary(c, i, s) ==
  LET f5 == FpFields(i).f5
      abd == {"a", "b", "d"}
      Two(oper, lat) == Fpu(c, oper, {"a", "b"}, abd, lat)
      Other(oper, fp) == Fpu(c, oper, {"a", "b"}, fp, ApuLat(c.others))
  IN  CASE f5 \in {0, 1} ->      \* fadd, fsub: rs1 and rs2 are operands b and c
             LegalIf(RoundingOk(i, s),
                     [Two("ADD", ApuLat(c.addmul)) EXCEPT !.b = "a", !.c = "b"])
        [] f5 = 2 -> LegalIf(RoundingOk(i, s), Two("MUL", ApuLat(c.addmul)))
        [] f5 = 3 -> LegalIf(RoundingOk(i, s), Two("DIV", 3))
        [] f5 = 4 -> LegalIf(i.f3 \in 0 .. 2, Other("SGNJ", abd))
        [] f5 = 5 -> LegalIf(i.f3 \in 0 .. 1, Other("MINMAX", abd))
        [] f5 = 20 -> LegalIf(i.f3 \in 0 .. 2, Other("CMP", {"a", "b"}))

\* A move is a sign injection with both operands the same.
FpUnary(c, i, s) ==
  LET f5 == FpFields(i).f5
      One(oper, fp) == Fpu(c, oper, {"a"}, fp, ApuLat(c.others))
      Move(fp) == [One("SGNJ", fp) EXCEPT !.b = "a"]
  IN  CASE f5 = 11 -> LegalIf(i.rs2 = 0 /\ RoundingOk(i, s),
                              Fpu(c, "SQRT", {"a"}, {"a", "b", "d"}, 3))
        [] f5 = 24 -> LegalIf(i.rs2 \in 0 .. 1 /\ RoundingOk(i, s),
                              One("F2I", {"a", "b"}))
        [] f5 = 26 -> LegalIf(i.rs2 \in 0 .. 1 /\ RoundingOk(i, s),
                              One("I2F", {"b", "d"}))
        [] f5 = 28 -> IF i.f3 = 0 /\ ~c.zfinx
                      THEN LegalIf(i.rs2 = 0, Move({"a", "b"}))
                      ELSE LegalIf(i.f3 = 1 /\ i.rs2 = 0, One("CLASSIFY", {"a", "b"}))
        [] f5 = 30 -> LegalIf(i.f3 = 0 /\ ~c.zfinx /\ i.rs2 = 0, Move({"b", "d"}))

DecodeOpFp(c, i, s) ==
  LET f == FpFields(i)
  IN  LegalIf(FpuOn(c, s) /\ f.single,
              CASE f.f5 \in (0 .. 5) \cup {20} -> FpBinary(c, i, s)
                [] f.f5 \in {11, 24, 26, 28, 30} -> FpUnary(c, i, s)
                [] OTHER -> Illegal)

\* FMADD, FMSUB, FNMSUB, FNMADD; rs3 is in the place of f5.
DecodeFused(c, i, s) ==
  LegalIf(FpuOn(c, s) /\ FpFields(i).single /\ RoundingOk(i, s),
          [Fpu(c, "FMADD", {"a", "b", "c"}, {"a", "b", "c", "d"}, ApuLat(c.addmul))
             EXCEPT !.regc = "s4"])

DecodeStoreFp(c, i, s) ==
  LegalIf(FpuOn(c, s) /\ ~c.zfinx /\ i.f3 = 2,
          [ImmB(Store({"a", "b"})) EXCEPT !.fp = {"b"}])

DecodeLoadFp(c, i, s) ==
  LegalIf(FpuOn(c, s) /\ ~c.zfinx /\ i.f3 = 2, [ImmB(Load({"a"})) EXCEPT !.fp = {"d"}])

\* ---- fences, environment and CSRs ----------------------------------------
DecodeFence(i) == LegalIf(i.f3 \in {0, 1}, [Default EXCEPT !.sys = "fencei"])

DecodeEnvironment(i, s) ==
  LegalIf(/\ i.rs1 = 0 /\ i.rd = 0
          /\ i.imm12 \in {"ecall", "ebreak", "mret", "dret", "wfi"}
          /\ i.imm12 = "dret" => s.debug_mode,
          [Default EXCEPT !.sys = i.imm12])

\* Setting or clearing no bits is reading.
CsrOp(i) ==
  IF i.f3 % 4 = 1 THEN "write"
  ELSE IF i.rs1 = 0 THEN "read"
  ELSE IF i.f3 % 4 = 2 THEN "set"
  ELSE "clear"

\* The classes of CSRs, by what an access needs: always allowed, read only, in
\* debug mode only, read only with COREV_PULP.  The rest does not exist.
CsrLegal(c, i, s) ==
  LET reads == CsrOp(i) = "read"
  IN  \/ i.imm12 \in {"mstatus", "mepc", "mtvec", "mcause", "mscratch", "mie",
                      "counter", "trigger"}
      \/ i.imm12 \in {"fflags", "frm", "fcsr"} /\ c.fpu /\ ~s.fs_off
      \/ i.imm12 \in {"mhartid", "usercounter"} /\ reads
      \/ i.imm12 = "dcsr" /\ s.debug_mode
      \/ i.imm12 \in {"lpstart", "uhartid", "privlv"} /\ c.pulp /\ reads
      \/ i.imm12 = "zfinx" /\ c.pulp /\ (c.fpu => c.zfinx) /\ reads

FaultyCsrStatus(i) ==
  i.imm12 \in {"mstatus", "mepc", "mtvec", "mcause", "counter", "usercounter",
               "dcsr", "privlv"}

\* What the controller flushes the pipeline for.
CsrStatus(i) ==
  \/ i.imm12 \in {"mstatus", "mepc", "mtvec", "mcause", "counter", "usercounter",
                  "dcsr", "privlv"}
  \/ i.imm12 \in {"frm", "fcsr"} /\ CsrOp(i) # "read"

DecodeCsr(c, i, s) ==
  LET access == [ImmB(Default) EXCEPT !.alu_we = TRUE, !.csr = CsrOp(i),
                                      !.status = CsrStatus(i)]
  IN  LegalIf(i.f3 # 4 /\ CsrLegal(c, i, s),
              IF i.f3 > 4 THEN [access EXCEPT !.a = "imm"]
              ELSE [access EXCEPT !.used = {"a"}])

DecodeSystem(c, i, s) ==
  IF i.f3 = 0 THEN DecodeEnvironment(i, s) ELSE DecodeCsr(c, i, s)

\* The CORE-V instructions, all of which need COREV_PULP.
\* ---- CUSTOM_0: loads with post-increment, cv.elw, cv.beqimm, cv.bneimm ----
DecodeCustom0(c, i) ==
  CASE i.f3 \in {6, 7} -> ImmB(Branch(IF i.f3 = 6 THEN "EQ" ELSE "NE", {"a"}))
    [] i.f3 = 3 -> LegalIf(c.cluster, ImmB(Load({"a"})))
    [] OTHER -> PostInc(ImmB(Load({"a"})))

\* ---- CUSTOM_1: register offsets, ALU, multiply-accumulate, hardware loops -
Size(i) == i.f7 % 4
Indexed(i) == (i.f7 \div 4) % 2 = 1
MaybePostInc(i, d) == IF Indexed(i) THEN d ELSE PostInc(d)

\* Byte, half and word, the unsigned ones without word.
LoadRegister(i) ==
  LegalIf(Size(i) \in (IF i.f7 >= 8 THEN 0 .. 1 ELSE 0 .. 2),
          MaybePostInc(i, Load({"a", "b"})))

\* The offset is in the register of the rd field.
StoreRegister(i) ==
  LegalIf(Size(i) # 3,
          MaybePostInc(i, [ReadsRd(Store({"a", "b"})) EXCEPT !.b = "c"]))

\* Field width and position come from rs2.
BitsRegister(i) ==
  LET Field(oper) == [Alu(oper, {"a", "b"}) EXCEPT !.bmask_a = "b", !.b = "bmask"]
      Flip(oper) == [ImmB(Field(oper)) EXCEPT !.bmask_b = "b"]
      k == i.f7 % 8
  IN  CASE k \in {0, 1} -> Field("BEXT")
        [] k = 2 -> [ReadsRd(Field("BINS")) EXCEPT !.bmask_b = "b"]
        [] k = 4 -> Flip("BCLR")
        [] k = 5 -> Flip("BSET")
        [] OTHER -> Illegal

GeneralOper ==
  [k \in {0} \cup 9 .. 14 |->
     IF k = 0 THEN "ROR"
     ELSE <<"SLETS", "SLETU", "MIN", "MINU", "MAX", "MAXU">>[k - 8]]
BitCount == [k \in 1 .. 4 |-> <<"FF1", "FL1", "CLB", "CNT">>[k]]
Extend == [k \in 16 .. 19 |-> IF k % 2 = 0 THEN "EXTS" ELSE "EXT"]

FaultyGeneralAlu(i) ==
  LET k == i.f7 % 32
  IN  CASE k \in DOMAIN GeneralOper -> Alu(GeneralOper[k], {"a", "b"})
        [] k \in DOMAIN BitCount -> LegalIf(i.rs2 = 0, Alu(BitCount[k], {"a"}))
        [] k = 8 -> LegalIf(i.rs2 = 0, Alu("ABS", {"a", "b"}))
        [] k \in DOMAIN Extend ->
             LegalIf(i.rs2 = 0, [Alu(Extend[k], {"a"}) EXCEPT !.mode8 = k >= 18])
        [] k \in {24, 25} -> AluImm("CLIP")
        [] k \in {26, 27} -> Alu("CLIP", {"a"})
        [] OTHER -> Illegal

GeneralAlu(i) ==
  LET k == i.f7 % 32
  IN  CASE k \in DOMAIN GeneralOper -> Alu(GeneralOper[k], {"a", "b"})
        [] k \in DOMAIN BitCount -> LegalIf(i.rs2 = 0, Alu(BitCount[k], {"a"}))
        [] k = 8 -> LegalIf(i.rs2 = 0, Alu("ABS", {"a", "b"}))
        [] k \in DOMAIN Extend ->
             LegalIf(i.rs2 = 0, [Alu(Extend[k], {"a"}) EXCEPT !.mode8 = k >= 18])
        [] k \in {24, 25} -> AluImm("CLIP")
        [] k \in {26, 27} -> Alu("CLIP", {"a", "b"})
        [] OTHER -> Illegal

\* rd + rs1, shifted right by rs2.
AddRegister(i) ==
  [ReadsRd(Alu(IF i.f7 % 8 < 4 THEN "ADD" ELSE "SUB", {"a", "b"}))
     EXCEPT !.a = "c", !.b = "a", !.bmask_b = "b"]

PlaneA(i) ==
  CASE i.f7 \in 0 .. 15 -> LoadRegister(i)
    [] i.f7 \in 16 .. 23 -> StoreRegister(i)
    [] i.f7 \in 24 .. 31 -> BitsRegister(i)
    [] i.f7 \in 32 .. 63 -> GeneralAlu(i)
    [] i.f7 \in 64 .. 71 -> AddRegister(i)
    [] i.f7 \in {72, 73} -> On("mult", ReadsRd(Alu("MAC32", {"a", "b"})))
    [] OTHER -> Illegal

\* The rd field selects the instruction and, with bit 0, the loop.
HwlpField == <<"start", "end", "count">>

HwlpSet(k, i) ==
  LET fromReg == k % 2 = 1
      d == [Default EXCEPT !.hwlp = {HwlpField[k \div 2 + 1]}, !.hwlp_reg = fromReg]
  IN  IF fromReg
      THEN LegalIf(i.f7 = 0 /\ i.rs2 = 0, [d EXCEPT !.used = {"a"}])
      ELSE LegalIf(i.rs1 = 0, d)

PlaneB(i) ==
  LET k == i.rd \div 2
      all == {"start", "end", "count"}
  IN  CASE k \in 0 .. 5 -> HwlpSet(k, i)
        [] k = 6 -> [Default EXCEPT !.hwlp = all]
        [] k = 7 -> [Default EXCEPT !.hwlp = all, !.hwlp_reg = TRUE, !.used = {"a"}]
        [] OTHER -> Illegal

DecodeCustom1(i) ==
  CASE i.f3 \in 0 .. 2 -> PostInc(ImmB(Store({"a", "b"})))
    [] i.f3 = 3 -> PlaneA(i)
    [] i.f3 = 4 -> PlaneB(i)
    [] OTHER -> Illegal

\* ---- CUSTOM_2: bit manipulation and multiplications with immediates -------
BitsImmediate(i) ==
  LET top == i.f7 \div 32
      odd == i.f3 % 2 = 1
  IN  CASE ~odd /\ top \in {0, 1} -> AluImm("BEXT")
        [] ~odd /\ top = 2 -> ReadsRd(AluImm("BINS"))
        [] odd /\ top = 0 -> AluImm("BCLR")
        [] odd /\ top = 1 -> AluImm("BSET")
        [] odd /\ top = 3 -> LegalIf((i.f7 \div 4) % 8 = 0, ReadsRd(AluImm("BREV")))
        [] OTHER -> Illegal

DecodeCustom2(i) ==
  LET mul == On("mult", Alu("MUL", {"a", "b"}))
  IN  CASE i.f3 \div 2 = 0 -> BitsImmediate(i)
        [] i.f3 \div 2 = 1 -> Alu(IF i.f3 = 2 THEN "ADD" ELSE "SUB", {"a", "b"})
        [] i.f3 \div 2 = 2 -> mul
        [] i.f3 \div 2 = 3 -> ReadsRd(mul)

\* ---- CUSTOM_3: packed vectors --------------------------------------------
Bit25(i) == i.f7 % 2
Funct6(i) == i.f7 \div 2

\* f3 = 0, 1: two vectors; 4, 5: a vector and a register; 6, 7: a vector and an
\* immediate (of which bit 25 is a part); odd: of bytes.
VectorLegal(i) == i.f3 \notin {2, 3} /\ (i.f3 <= 5 => Bit25(i) = 0)

Vector(oper, i) ==
  LET d == IF i.f3 \in {6, 7} THEN AluImm(oper) ELSE Alu(oper, {"a", "b"})
  IN  [d EXCEPT !.mode8 = i.f3 % 2 = 1]

VectorOper ==
  [k \in {2 * j : j \in 0 .. 13} |->
     <<"ADD", "SUB", "ADD", "ADD", "MIN", "MINU", "MAX", "MAXU", "SRL", "SRA",
       "SLL", "OR", "XOR", "AND">>[k \div 2 + 1]]

ShiftInRange(i) == (i.f3 = 6 => i.rs2 < 8) /\ (i.f3 = 7 => i.rs2 < 4)

VectorAlu(i) ==
  LegalIf(/\ VectorLegal(i)
          /\ Funct6(i) \in {16, 18, 20} => ShiftInRange(i),
          Vector(VectorOper[Funct6(i)], i))

VectorAbs(i) ==
  LegalIf(i.f3 \in {0, 1} /\ Bit25(i) = 0 /\ i.rs2 = 0, Vector("ABS", i))

\* Dot products; those that accumulate read rd.
VectorDot(i) ==
  LET d == On("dot", Vector("DOT", i))
  IN  LegalIf(VectorLegal(i), IF Funct6(i) >= 38 THEN ReadsRd(d) ELSE d)

\* Extraction and insertion of an element; insertion takes rd as operand b.
VectorElement(i) ==
  LegalIf(i.f3 < 6 /\ i.rs2 <= i.f3 % 2,
          IF i.f3 \in {4, 5} THEN [ReadsRd(Vector("INS", i)) EXCEPT !.b = "c"]
          ELSE Vector(IF i.f3 < 2 THEN "EXTS" ELSE "EXT", i))

AlsoReads(port, d) == [d EXCEPT !.used = @ \cup {port}]

VectorShuffle(i) ==
  LET f6 == Funct6(i)
      pack == IF Bit25(i) = 1 THEN "PCKHI" ELSE "PCKLO"
  IN  CASE f6 = 48 -> LegalIf(/\ i.f3 \in {0, 1, 6, 7}
                              /\ i.f3 <= 1 => Bit25(i) = 0
                              /\ i.f3 = 6 => i.rs2 <= 1,
                              AlsoReads("b", Vector("SHUF", i)))
        [] f6 \in {50, 52, 54} -> LegalIf(i.f3 = 7, AlsoReads("b", Vector("SHUF", i)))
        [] f6 = 56 -> LegalIf(i.f3 \in {0, 1} /\ Bit25(i) = 0, ReadsRd(Vector("SHUF2", i)))
        [] f6 = 60 -> LegalIf(i.f3 = 0, Vector(pack, i))
        [] f6 = 62 -> LegalIf(i.f3 = 1, ReadsRd(Vector(pack, i)))

CompareOper ==
  [k \in {2 * j + 1 : j \in 0 .. 9} |->
     <<"EQ", "NE", "GTS", "GES", "LTS", "LES", "GTU", "GEU", "LTU", "LEU">>
       [k \div 2 + 1]]

VectorCompare(i) == LegalIf(VectorLegal(i), Vector(CompareOper[Funct6(i)], i))

\* Complex numbers, in half words, always from registers.
Complex(i) ==
  LET f6 == Funct6(i)
      Registers(oper) == Alu(oper, {"a", "b"})
      even == i.f3 % 2 = 0 /\ Bit25(i) = 0
  IN  CASE f6 = 21 -> LegalIf(i.f3 % 2 = 0, ReadsRd(On("dot", Registers("DOT"))))
        [] f6 = 23 -> LegalIf(i.f3 = 0 /\ Bit25(i) = 0 /\ i.rs2 = 0, Alu("ABS", {"a"}))
        [] f6 = 25 -> LegalIf(even, Registers("SUB"))
        [] f6 = 27 -> LegalIf(even /\ i.f3 # 0, Registers("ADD"))
        [] f6 = 29 -> LegalIf(even /\ i.f3 # 0, Registers("SUB"))

DecodeCustom3(i) ==
  LET f6 == Funct6(i)
  IN  CASE f6 \in DOMAIN VectorOper -> VectorAlu(i)
        [] f6 = 28 -> VectorAbs(i)
        [] f6 \in {32, 34, 36, 38, 40, 42} -> VectorDot(i)
        [] f6 = 46 -> VectorElement(i)
        [] f6 \in {48, 50, 52, 54, 56, 60, 62} -> VectorShuffle(i)
        [] f6 \in DOMAIN CompareOper -> VectorCompare(i)
        [] f6 \in {21, 23, 25, 27, 29} -> Complex(i)
        [] OTHER -> Illegal

\* ---- all opcodes ---------------------------------------------------------
Decode(c, i, s) ==
  CASE i.op = "JAL" -> DecodeJal(i)
    [] i.op = "JALR" -> DecodeJalr(i)
    [] i.op = "BRANCH" -> DecodeBranch(i)
    [] i.op = "STORE" -> DecodeStore(i)
    [] i.op = "LOAD" -> DecodeLoad(i)
    [] i.op \in {"LUI", "AUIPC"} -> DecodeUpper(i)
    [] i.op = "OPIMM" -> DecodeOpImm(i)
    [] i.op = "OP" -> DecodeOp(i)
    [] i.op = "OP_FP" -> DecodeOpFp(c, i, s)
    [] i.op = "OP_FMADD" -> DecodeFused(c, i, s)
    [] i.op = "STORE_FP" -> DecodeStoreFp(c, i, s)
    [] i.op = "LOAD_FP" -> DecodeLoadFp(c, i, s)
    [] i.op = "CUSTOM_0" -> LegalIf(c.pulp, DecodeCustom0(c, i))
    [] i.op = "CUSTOM_1" -> LegalIf(c.pulp, DecodeCustom1(i))
    [] i.op = "CUSTOM_2" -> LegalIf(c.pulp, DecodeCustom2(i))
    [] i.op = "CUSTOM_3" -> LegalIf(c.pulp, DecodeCustom3(i))
    [] i.op = "FENCE" -> DecodeFence(i)
    [] i.op = "SYSTEM" -> DecodeSystem(c, i, s)
    [] OTHER -> Illegal
=============================================================================
