--------------------------- MODULE FpStatusProofs ---------------------------
(***************************************************************************)
(* The decoder, for every instruction word and every configuration: what   *)
(* it reports of dependencies and what EX and WB count on; and that an     *)
(* instruction is decoded with the floating-point state that the ones      *)
(* before it leave, whatever of them is still on its way.                  *)
(***************************************************************************)
EXTENDS FpStatus, TLAPS

Ports == {"a", "b", "c"}

Number == 0 .. 31

\* What is said below of an instruction needs no more of its fields.
IsInsn(i) ==
  /\ i.rd \in Number /\ i.rs1 \in Number /\ i.rs2 \in Number
  /\ i.f3 \in 0 .. 7 /\ i.f7 \in 0 .. 127

IsConfig(cfg) == cfg.addmul \in Nat /\ cfg.others \in Nat

-----------------------------------------------------------------------------
\* The decoder's branches leave one of seven shapes.

\* Neither an access to memory or a CSR nor a branch.
InEx(d) ==
  /\ ~d.illegal /\ ~d.req /\ ~d.store /\ ~d.mem_we /\ ~d.base /\ ~d.hwlp_reg
  /\ d.csr = "none" /\ d.transfer = "none"

\* The operators of the ALU that do not look at operand b.
Unary == {"FF1", "FL1", "CLB", "CNT", "EXT", "EXTS", "INS", "BCLR", "BSET"}

\* The ALU, the multiplier or the dot product unit computes from ports that
\* are reported; a field's width and position are in rs2.
Computes(d, i) ==
  /\ InEx(d) /\ d.unit # "apu" /\ d.lat = 0 /\ d.alu_we /\ d.fp = {}
  /\ d.regc \in {"zero", "rd"} /\ (d.regc = "rd" => "c" \in d.used)
  /\ d.a \in Ports => d.a \in d.used
  /\ d.b \in Ports => \/ d.b \in d.used
                      \/ d.b = "b" /\ (i.rs2 = 0 \/ (d.unit = "alu" /\ d.oper \in Unary))
  /\ d.c = "c" /\ d.bmask_a \in {"imm", "b"} /\ d.bmask_b \in {"imm", "b"}
  /\ d.b = "bmask" => "b" \in d.used
  /\ d.bmask_a = "b" \/ d.bmask_b = "b" =>
       /\ "b" \in d.used
       /\ d.b = "bmask" \/ (d.b = "imm" /\ d.bmask_b = "b") \/ d.a \in {"b", "c"}

\* The FPU is on, and looks at ports that are reported.
UsesFpu(cfg, s, d) ==
  /\ InEx(d) /\ d.unit = "apu" /\ FpuOn(cfg, s) /\ d.lat \in 1 .. 3
  /\ d.a = "a" /\ "a" \in d.used
  /\ CASE d.oper = "ADD" -> d.b = "a" /\ d.c = "b" /\ "b" \in d.used
       [] d.oper \in {"MUL", "DIV", "MINMAX", "CMP"} -> d.b = "b" /\ "b" \in d.used
       [] d.oper = "SGNJ" -> d.b = "a" \/ (d.b = "b" /\ "b" \in d.used)
       [] d.oper = "FMADD" ->
            d.b = "b" /\ d.c = "c" /\ d.regc = "s4" /\ {"b", "c"} \subseteq d.used
       [] OTHER -> d.oper \in {"SQRT", "F2I", "I2F", "CLASSIFY"}

\* A load or a store, at port a plus an immediate or a register.
Accesses(cfg, s, d) ==
  /\ ~d.illegal /\ d.req /\ d.unit = "alu" /\ d.oper = "ADD" /\ d.lat = 0
  /\ d.csr = "none" /\ d.transfer = "none" /\ ~d.hwlp_reg
  /\ d.a = "a" /\ "a" \in d.used /\ "a" \notin d.fp
  /\ d.bmask_a = "imm" /\ d.bmask_b = "imm"
  /\ \/ d.b = "imm"
     \/ d.b = "b" /\ "b" \in d.used
     \/ d.b = "c" /\ "c" \in d.used /\ d.regc = "rd"
  /\ d.store => d.c = "b" /\ "b" \in d.used
  /\ d.mem_we <=> ~d.store
  /\ d.alu_we => d.base /\ cfg.pulp
  /\ "d" \in d.fp => FpuOn(cfg, s) /\ ~cfg.zfinx

\* A branch compares port a with port b or an immediate.
Branches(d) ==
  /\ ~d.illegal /\ ~d.req /\ ~d.mem_we /\ ~d.alu_we /\ ~d.hwlp_reg /\ d.lat = 0
  /\ d.unit = "alu" /\ d.csr = "none" /\ d.transfer = "cond"
  /\ d.a = "a" /\ "a" \in d.used
  /\ d.b = "imm" \/ (d.b = "b" /\ "b" \in d.used)

\* A jump links; one to a register reads port a in ID.
Links(d) ==
  /\ ~d.illegal /\ ~d.req /\ ~d.mem_we /\ d.alu_we /\ ~d.base /\ ~d.hwlp_reg
  /\ d.unit = "alu" /\ d.oper = "ADD" /\ d.lat = 0 /\ d.csr = "none" /\ d.fp = {}
  /\ d.transfer \in {"jal", "jalr"} /\ (d.transfer = "jalr" => "a" \in d.used)
  /\ d.a = "pc" /\ d.b = "imm" /\ d.bmask_a = "imm" /\ d.bmask_b = "imm"

\* Nothing is written but a hardware loop, from port a or an immediate.
Orders(d) ==
  /\ ~d.illegal /\ ~d.req /\ ~d.mem_we /\ ~d.alu_we /\ d.lat = 0 /\ d.fp = {}
  /\ d.unit = "alu" /\ d.csr = "none" /\ d.transfer = "none"
  /\ d.a = "a" /\ (d.hwlp_reg => "a" \in d.used)

\* A CSR access: one that changes FS or frm is flushed for, and those of the
\* FPU need it to be on.
AccessesCsr(cfg, i, s, d) ==
  /\ ~d.illegal /\ ~d.req /\ ~d.mem_we /\ d.alu_we /\ ~d.base /\ ~d.hwlp_reg
  /\ d.unit = "alu" /\ d.lat = 0 /\ d.fp = {} /\ d.transfer = "none"
  /\ d.csr \in {"read", "write", "set", "clear"}
  /\ d.a = "imm" \/ (d.a = "a" /\ "a" \in d.used)
  /\ i.imm12 = "mstatus" => d.status
  /\ i.imm12 \in {"frm", "fcsr"} /\ d.csr # "read" => d.status
  /\ i.imm12 \in FpCsrs => cfg.fpu /\ ~s.fs_off

Shaped(cfg, i, s, d) ==
  \/ d = Illegal
  \/ Computes(d, i)
  \/ UsesFpu(cfg, s, d)
  \/ Accesses(cfg, s, d)
  \/ Branches(d)
  \/ Links(d)
  \/ Orders(d)
  \/ AccessesCsr(cfg, i, s, d)

-----------------------------------------------------------------------------
\* An instruction that is illegal, computes or accesses memory has a shape.
LEMMA IsShaped ==
  ASSUME NEW cfg, NEW i, NEW s
  PROVE  /\ Shaped(cfg, i, s, Illegal)
         /\ \A d : Computes(d, i) \/ Accesses(cfg, s, d) => Shaped(cfg, i, s, d)
  BY DEF Shaped

\* Each opcode, and what it is made of.  The integer instructions:
LEMMA IntegerShapes ==
  ASSUME NEW cfg, NEW i, NEW s
  PROVE  /\ Links(DecodeJal(i))
         /\ Shaped(cfg, i, s, DecodeJalr(i))
         /\ Shaped(cfg, i, s, DecodeBranch(i))
         /\ Shaped(cfg, i, s, DecodeStore(i))
         /\ Shaped(cfg, i, s, DecodeLoad(i))
         /\ Computes(DecodeUpper(i), i)
         /\ Shaped(cfg, i, s, DecodeOpImm(i))
         /\ Shaped(cfg, i, s, DecodeOp(i))
         /\ Shaped(cfg, i, s, DecodeFence(i))
<1> USE DEF Default, LegalIf
<1>1. Links(DecodeJal(i))
  BY DEF DecodeJal, Link, Links
<1>2. Shaped(cfg, i, s, DecodeJalr(i))
  BY DEF DecodeJalr, Link, Links, Shaped
<1>3. Shaped(cfg, i, s, DecodeBranch(i))
  BY DEF DecodeBranch, Branch, Branches, Shaped
<1>4. Shaped(cfg, i, s, DecodeStore(i))
  BY DEF DecodeStore, Store, ImmB, Accesses, Shaped
<1>5. Shaped(cfg, i, s, DecodeLoad(i))
  BY DEF DecodeLoad, Load, ImmB, Accesses, Shaped
<1>6. Computes(DecodeUpper(i), i)
  BY DEF DecodeUpper, Alu, ImmB, Computes, InEx, Ports
<1>7. Shaped(cfg, i, s, DecodeOpImm(i))
  BY DEF DecodeOpImm, AluImm, Alu, ImmB, Computes, InEx, Ports, Shaped
<1>8. Shaped(cfg, i, s, OpBase(i))
  BY DEF OpBase, Alu, Computes, InEx, Ports, Shaped
<1>9. Shaped(cfg, i, s, OpMulDiv(i))
  BY DEF OpMulDiv, On, Alu, Computes, InEx, Ports, Shaped
<1>10. Shaped(cfg, i, s, DecodeOp(i))
  BY <1>8, <1>9, IsShaped DEF DecodeOp
<1>11. Shaped(cfg, i, s, DecodeFence(i))
  BY DEF DecodeFence, Orders, Shaped
<1> QED
  BY <1>1, <1>2, <1>3, <1>4, <1>5, <1>6, <1>7, <1>10, <1>11

\* The F extension: with FS off there is none of it.
LEMMA FloatShapes ==
  ASSUME NEW cfg, IsConfig(cfg), NEW i, NEW s
  PROVE  /\ Shaped(cfg, i, s, DecodeOpFp(cfg, i, s))
         /\ Shaped(cfg, i, s, DecodeFused(cfg, i, s))
         /\ Shaped(cfg, i, s, DecodeStoreFp(cfg, i, s))
         /\ Shaped(cfg, i, s, DecodeLoadFp(cfg, i, s))
<1> USE DEF Default, LegalIf
<1>1. \A stages \in Nat : ApuLat(stages) \in 1 .. 3
  BY DEF ApuLat
<1>2. ApuLat(cfg.addmul) \in 1 .. 3 /\ ApuLat(cfg.others) \in 1 .. 3
  BY <1>1 DEF IsConfig
<1>3. ASSUME FpuOn(cfg, s), FpFields(i).f5 \in (0 .. 5) \cup {20}
      PROVE  Shaped(cfg, i, s, FpBinary(cfg, i, s))
  BY <1>2, <1>3, SMTT(30) DEF FpBinary, Fpu, UsesFpu, InEx, Shaped
<1>4. ASSUME FpuOn(cfg, s), FpFields(i).f5 \in {11, 24, 26, 28, 30}
      PROVE  Shaped(cfg, i, s, FpUnary(cfg, i, s))
  BY <1>2, <1>4, SMTT(30) DEF FpUnary, Fpu, UsesFpu, InEx, Shaped
<1>5. Shaped(cfg, i, s, DecodeOpFp(cfg, i, s))
  BY <1>3, <1>4, IsShaped DEF DecodeOpFp
<1>6. Shaped(cfg, i, s, DecodeFused(cfg, i, s))
  BY <1>2 DEF DecodeFused, Fpu, UsesFpu, InEx, Shaped
<1>7. Shaped(cfg, i, s, DecodeStoreFp(cfg, i, s))
  BY DEF DecodeStoreFp, Store, ImmB, Accesses, Shaped
<1>8. Shaped(cfg, i, s, DecodeLoadFp(cfg, i, s))
  BY DEF DecodeLoadFp, Load, ImmB, Accesses, Shaped
<1> QED BY <1>5, <1>6, <1>7, <1>8

\* CSR instructions, and those of the environment.
LEMMA SystemShapes ==
  ASSUME NEW cfg, NEW i, NEW s
  PROVE  Shaped(cfg, i, s, DecodeSystem(cfg, i, s))
<1> USE DEF Default, LegalIf
<1>1. Shaped(cfg, i, s, DecodeEnvironment(i, s))
  BY DEF DecodeEnvironment, Orders, Shaped
<1>2. Shaped(cfg, i, s, DecodeCsr(cfg, i, s))
  <2>1. CsrOp(i) \in {"read", "write", "set", "clear"}
    BY DEF CsrOp
  <2>2. CsrLegal(cfg, i, s) /\ i.imm12 \in FpCsrs => cfg.fpu /\ ~s.fs_off
    BY DEF CsrLegal, FpCsrs
  <2>3. /\ i.imm12 = "mstatus" => CsrStatus(i)
        /\ i.imm12 \in {"frm", "fcsr"} /\ CsrOp(i) # "read" => CsrStatus(i)
    BY DEF CsrStatus
  <2>4. CASE i.f3 # 4 /\ CsrLegal(cfg, i, s)
    BY <2>1, <2>2, <2>3, <2>4 DEF DecodeCsr, ImmB, AccessesCsr, Shaped
  <2>5. CASE ~(i.f3 # 4 /\ CsrLegal(cfg, i, s))
    BY <2>5 DEF DecodeCsr, Shaped
  <2> QED BY <2>4, <2>5
<1> QED BY <1>1, <1>2 DEF DecodeSystem

\* The CORE-V accesses, branches, loops and scalar operations.
LEMMA PulpShapes ==
  ASSUME NEW cfg, cfg.pulp, NEW i, IsInsn(i), NEW s
  PROVE  /\ Shaped(cfg, i, s, DecodeCustom0(cfg, i))
         /\ Shaped(cfg, i, s, DecodeCustom1(i))
         /\ Shaped(cfg, i, s, DecodeCustom2(i))
<1> USE DEF Default, LegalIf
<1>1. Shaped(cfg, i, s, DecodeCustom0(cfg, i))
  BY DEF DecodeCustom0, Branch, Load, ImmB, PostInc, Branches, Accesses, Shaped
<1>2. Shaped(cfg, i, s, LoadRegister(i))
  BY DEF LoadRegister, MaybePostInc, Load, PostInc, Accesses, Shaped
<1>3. Shaped(cfg, i, s, StoreRegister(i))
  BY DEF StoreRegister, MaybePostInc, ReadsRd, Store, PostInc, Accesses, Shaped
<1>4. Shaped(cfg, i, s, BitsRegister(i))
  BY DEF BitsRegister, Alu, ImmB, ReadsRd, Computes, InEx, Ports, Shaped
<1>5. Shaped(cfg, i, s, GeneralAlu(i))
  <2>1. \A oper : Computes(Alu(oper, {"a", "b"}), i)
    BY DEF Alu, Computes, InEx, Ports
  <2>2. i.rs2 = 0 =>
          \A oper, m : /\ Computes(Alu(oper, {"a"}), i)
                       /\ Computes([Alu(oper, {"a"}) EXCEPT !.mode8 = m], i)
    BY DEF Alu, Computes, InEx, Ports
  <2>3. Computes(AluImm("CLIP"), i)
    BY DEF AluImm, ImmB, Alu, Computes, InEx, Ports
  <2> DEFINE k == i.f7 % 32
  <2>4. CASE i.rs2 = 0
    BY <2>1, <2>2, <2>3, <2>4, IsShaped DEF GeneralAlu
  <2>5. CASE i.rs2 # 0
    BY <2>1, <2>3, <2>5, IsShaped DEF GeneralAlu
  <2> QED BY <2>4, <2>5
<1>6. Shaped(cfg, i, s, AddRegister(i))
  BY DEF AddRegister, ReadsRd, Alu, Computes, InEx, Ports, Shaped
<1>7. Computes(On("mult", ReadsRd(Alu("MAC32", {"a", "b"}))), i)
  BY DEF On, ReadsRd, Alu, Computes, InEx, Ports
<1>8. Shaped(cfg, i, s, PlaneA(i))
  BY <1>2, <1>3, <1>4, <1>5, <1>6, <1>7, IsShaped DEF PlaneA
<1>9. \A k : Shaped(cfg, i, s, HwlpSet(k, i))
  <2>1. \A fields :
          /\ Orders([[Default EXCEPT !.hwlp = fields, !.hwlp_reg = TRUE] EXCEPT !.used = {"a"}])
          /\ Orders([Default EXCEPT !.hwlp = fields, !.hwlp_reg = FALSE])
    BY DEF Orders
  <2>2. \A d : Orders(d) => Shaped(cfg, i, s, d)
    BY DEF Shaped
  <2> TAKE k
  <2> HIDE DEF Default
  <2>3. CASE k % 2 = 1
    BY <2>1, <2>2, <2>3, IsShaped DEF HwlpSet
  <2>4. CASE k % 2 # 1
    BY <2>1, <2>2, <2>4, IsShaped DEF HwlpSet
  <2> QED BY <2>3, <2>4
<1>10. Shaped(cfg, i, s, PlaneB(i))
  <2> DEFINE all == {"start", "end", "count"}
  <2>1. /\ Shaped(cfg, i, s, [Default EXCEPT !.hwlp = all])
        /\ Shaped(cfg, i, s, [Default EXCEPT !.hwlp = all, !.hwlp_reg = TRUE, !.used = {"a"}])
    BY DEF Orders, Shaped
  <2> HIDE DEF Default
  <2> QED BY <1>9, <2>1, IsShaped DEF PlaneB
<1>11. Accesses(cfg, s, PostInc(ImmB(Store({"a", "b"}))))
  BY DEF PostInc, ImmB, Store, Accesses
<1>12. Shaped(cfg, i, s, DecodeCustom1(i))
  BY <1>8, <1>10, <1>11, IsShaped DEF DecodeCustom1
<1>13. Shaped(cfg, i, s, BitsImmediate(i))
  <2>1. \A oper : oper \in {"BEXT", "BCLR", "BSET"} => Computes(AluImm(oper), i)
    BY DEF AluImm, ImmB, Alu, Computes, InEx, Ports
  <2>2. \A oper : Computes(ReadsRd(AluImm(oper)), i)
    BY DEF AluImm, ImmB, Alu, ReadsRd, Computes, InEx, Ports
  <2> DEFINE top == i.f7 \div 32
             odd == i.f3 % 2 = 1
  <2> HIDE DEF Default, top, odd
  <2>3. BitsImmediate(i) \in {AluImm(oper) : oper \in {"BEXT", "BCLR", "BSET"}}
                            \cup {ReadsRd(AluImm(oper)) : oper \in {"BINS", "BREV"}}
                            \cup {Illegal}
    BY DEF BitsImmediate, top, odd
  <2> QED BY <2>1, <2>2, <2>3, IsShaped
<1>14. Shaped(cfg, i, s, DecodeCustom2(i))
  <2> DEFINE mul == On("mult", Alu("MUL", {"a", "b"}))
  <2>1. /\ \A oper : Computes(Alu(oper, {"a", "b"}), i)
        /\ Computes(mul, i) /\ Computes(ReadsRd(mul), i)
    BY DEF On, Alu, ReadsRd, Computes, InEx, Ports
  <2>2. i.f3 \div 2 \in 0 .. 3
    BY DEF IsInsn
  <2> HIDE DEF Default
  <2> HIDE DEF mul
  <2>3. \/ DecodeCustom2(i) = BitsImmediate(i)
        \/ \E oper : DecodeCustom2(i) = Alu(oper, {"a", "b"})
        \/ DecodeCustom2(i) \in {mul, ReadsRd(mul)}
    BY <2>2 DEF DecodeCustom2, mul
  <2> QED BY <1>13, <2>1, <2>3, IsShaped
<1> QED BY <1>1, <1>12, <1>14

\* Packed vectors: the operands are a pair of registers or a register and an
\* immediate.
LEMMA VectorShapes ==
  ASSUME NEW cfg, NEW i, NEW s
  PROVE  Shaped(cfg, i, s, DecodeCustom3(i))
<1> USE DEF Default, LegalIf
<1>1. \A oper : Computes(Vector(oper, i), i)
  BY DEF Vector, AluImm, ImmB, Alu, Computes, InEx, Ports
<1>2. Shaped(cfg, i, s, VectorAlu(i))
  BY <1>1 DEF VectorAlu, Shaped
<1>3. Shaped(cfg, i, s, VectorAbs(i))
  BY <1>1 DEF VectorAbs, Shaped
<1>4. Shaped(cfg, i, s, VectorDot(i))
  BY DEF VectorDot, On, ReadsRd, Vector, AluImm, ImmB, Alu, Computes, InEx, Ports, Shaped
<1>5. Shaped(cfg, i, s, VectorElement(i))
  BY DEF VectorElement, ReadsRd, Vector, AluImm, ImmB, Alu, Computes, InEx, Ports, Shaped
<1>6. ASSUME Funct6(i) \in {48, 50, 52, 54, 56, 60, 62}
      PROVE  Shaped(cfg, i, s, VectorShuffle(i))
  <2>1. \A oper : /\ Computes(AlsoReads("b", Vector(oper, i)), i)
                  /\ Computes(ReadsRd(Vector(oper, i)), i)
    BY DEF AlsoReads, ReadsRd, Vector, AluImm, ImmB, Alu, Computes, InEx, Ports
  <2>2. \A legal, oper :
          /\ Shaped(cfg, i, s, LegalIf(legal, AlsoReads("b", Vector(oper, i))))
          /\ Shaped(cfg, i, s, LegalIf(legal, ReadsRd(Vector(oper, i))))
          /\ Shaped(cfg, i, s, LegalIf(legal, Vector(oper, i)))
    <3> HIDE DEF Default
    <3> QED BY <1>1, <2>1, IsShaped
  <2> HIDE DEF Default, LegalIf
  <2> QED BY <1>6, <2>2 DEF VectorShuffle
<1>7. Shaped(cfg, i, s, VectorCompare(i))
  BY <1>1 DEF VectorCompare, Shaped
<1>8. ASSUME Funct6(i) \in {21, 23, 25, 27, 29}
      PROVE  Shaped(cfg, i, s, Complex(i))
  <2>1. /\ \A oper : Computes(Alu(oper, {"a", "b"}), i)
        /\ i.rs2 = 0 => Computes(Alu("ABS", {"a"}), i)
        /\ Computes(ReadsRd(On("dot", Alu("DOT", {"a", "b"}))), i)
    BY DEF On, ReadsRd, Alu, Computes, InEx, Ports
  <2> HIDE DEF Default
  <2> QED BY <1>8, <2>1, IsShaped DEF Complex
<1> QED
  BY <1>2, <1>3, <1>4, <1>5, <1>6, <1>7, <1>8, IsShaped DEF DecodeCustom3

\* So every instruction word that is let through, in any configuration and state of
\* the CSRs, has one of the seven shapes.
LEMMA DecodeShapes ==
  ASSUME NEW cfg, IsConfig(cfg), NEW i, IsInsn(i), NEW s
  PROVE  Shaped(cfg, i, s, Decode(cfg, i, s))
<1>1. Shaped(cfg, i, s, Illegal)
  BY DEF Illegal, Default, Shaped
<1>2. /\ Shaped(cfg, i, s, LegalIf(cfg.pulp, DecodeCustom0(cfg, i)))
      /\ Shaped(cfg, i, s, LegalIf(cfg.pulp, DecodeCustom1(i)))
      /\ Shaped(cfg, i, s, LegalIf(cfg.pulp, DecodeCustom2(i)))
      /\ Shaped(cfg, i, s, LegalIf(cfg.pulp, DecodeCustom3(i)))
  BY <1>1, PulpShapes, VectorShapes DEF LegalIf
<1>3. Shaped(cfg, i, s, DecodeJal(i)) /\ Shaped(cfg, i, s, DecodeUpper(i))
  BY IntegerShapes DEF Shaped
<1> QED
  BY <1>1, <1>2, <1>3, IntegerShapes, FloatShapes, SystemShapes DEF Decode

-----------------------------------------------------------------------------
\* What HazardsSeen and FitsWriteBack ask of each shape.

Seen(d, i) ==
  \A p \in PortsNeeded(d) :
    Address(d, i)[p] # X0 =>
      p \in d.used /\ Address(d, i)[p] \in ApuDependsOn(d, i)

Fits(cfg, d, i) == WellShaped(AsInsn(d, i), NoReg, X0, cfg.pulp)

\* Operands and masks: what a unit may look at.
Sources == {"a", "b", "c", "bmask_a", "bmask_b"}

\* Which of its operands a unit looks at.
LEMMA UnitsLookAt ==
  ASSUME NEW d
  PROVE  /\ d.unit # "apu" => LooksAt(d) \subseteq Sources
         /\ \A cfg, s : UsesFpu(cfg, s, d) => LooksAt(d) \subseteq Sources
<1>1. AluLooksAt(d) \subseteq Sources
  BY DEF AluLooksAt, Sources
<1>2. d.unit # "apu" => LooksAt(d) \subseteq Sources
  BY <1>1 DEF LooksAt, Sources
<1>3. ASSUME NEW cfg, NEW s, UsesFpu(cfg, s, d)
      PROVE  LooksAt(d) \subseteq Sources
  <2>1. d.oper \in {"ADD", "MUL", "DIV", "MINMAX", "CMP", "SGNJ", "FMADD", "SQRT", "F2I",
                    "I2F", "CLASSIFY"}
    BY <1>3 DEF UsesFpu
  <2>2. FpuLooksAt(d) \subseteq Sources
    BY <2>1 DEF FpuLooksAt, Sources
  <2> QED BY <1>3, <2>2 DEF UsesFpu, InEx, LooksAt
<1> QED BY <1>2, <1>3

\* A port is needed as the source of something that is looked at, or in ID.
LEMMA Needed ==
  ASSUME NEW d, LooksAt(d) \subseteq Sources, NEW p \in PortsNeeded(d)
  PROVE  /\ p \in Ports
         /\ \/ p = "a" /\ (d.transfer = "jalr" \/ d.hwlp_reg)
            \/ p = d.a /\ "a" \in LooksAt(d)
            \/ p = d.b /\ "b" \in LooksAt(d)
            \/ p = "b" /\ d.b = "bmask" /\ "b" \in LooksAt(d)
            \/ p = d.c /\ "c" \in LooksAt(d)
            \/ p = d.bmask_a /\ "bmask_a" \in LooksAt(d)
            \/ p = d.bmask_b /\ "bmask_b" \in LooksAt(d)
<1> DEFINE source == [a |-> d.a, b |-> IF d.b = "bmask" THEN "b" ELSE d.b, c |-> d.c,
                      bmask_a |-> d.bmask_a, bmask_b |-> d.bmask_b]
<1>2. p \in Ports
  BY DEF PortsNeeded, Ports
<1>3. ASSUME NEW x \in LooksAt(d), source[x] = p
      PROVE  \/ x = "a" /\ p = d.a
             \/ x = "b" /\ (p = d.b \/ (p = "b" /\ d.b = "bmask"))
             \/ x = "c" /\ p = d.c
             \/ x = "bmask_a" /\ p = d.bmask_a
             \/ x = "bmask_b" /\ p = d.bmask_b
  <2>1. x \in Sources
    OBVIOUS
  <2> QED BY <1>3, <2>1 DEF Sources
<1>4. \/ p = "a" /\ (d.transfer = "jalr" \/ d.hwlp_reg)
      \/ \E x \in LooksAt(d) : source[x] = p
  BY DEF PortsNeeded
<1> QED BY <1>2, <1>3, <1>4

\* Port c may be wired to x0; the other ports to x0 by their number.
LEMMA Addresses ==
  ASSUME NEW d, NEW i
  PROVE  /\ Address(d, i)["a"] = <<"a" \in d.fp, i.rs1>>
         /\ Address(d, i)["b"] = <<"b" \in d.fp, i.rs2>>
         /\ Address(d, i)["c"] = IF d.regc = "zero" THEN X0
                                 ELSE <<"c" \in d.fp, RegcNumber(d, i)>>
  BY DEF Address

\* Without the FPU's register file a port's address is the number in the word.
LEMMA IntegerAddresses ==
  ASSUME NEW d, NEW i, d.fp = {}
  PROVE  /\ Address(d, i)["b"] = <<FALSE, i.rs2>>
         /\ d.regc = "rd" => Address(d, i)["c"] = Waddr(d, i)
<1>1. ("b" \in d.fp) = FALSE /\ ("c" \in d.fp) = FALSE /\ ("d" \in d.fp) = FALSE
  OBVIOUS
<1>2. Address(d, i)["b"] = <<FALSE, i.rs2>>
  BY <1>1, Addresses
<1>3. d.regc = "rd" => RegcNumber(d, i) = i.rd /\ d.regc # "zero"
  BY DEF RegcNumber
<1>4. Waddr(d, i) = <<FALSE, i.rd>>
  BY <1>1 DEF Waddr
<1> QED BY <1>1, <1>2, <1>3, <1>4, Addresses

\* The ports that the dispatcher is told of are those of operands a and b, and
\* b if the masks come from there.
LEMMA ToldOf ==
  ASSUME NEW d
  PROVE  /\ d.a = "a" => "a" \in ApuReadPorts(d)
         /\ d.a = "pc" /\ d.transfer = "jalr" => "a" \in ApuReadPorts(d)
         /\ d.b \in {"a", "c"} => d.b \in ApuReadPorts(d)
         /\ d.a \in {"b", "c"} \/ d.b \in {"b", "bmask"} \/ d.c = "b" => "b" \in ApuReadPorts(d)
         /\ d.b = "imm" /\ d.bmask_b = "b" => "b" \in ApuReadPorts(d)
         /\ d.c = "c" /\ d.a # "c" /\ d.transfer # "jalr" /\ d.b \notin {"imm", "bmask"} =>
              "c" \in ApuReadPorts(d)
  BY DEF ApuReadPorts

\* In each shape the registers an instruction depends on are seen.
LEMMA ComputesSeen ==
  ASSUME NEW i, NEW d, Computes(d, i)
  PROVE  Seen(d, i)
<1> SUFFICES ASSUME NEW p \in PortsNeeded(d), Address(d, i)[p] # X0
             PROVE  p \in d.used /\ Address(d, i)[p] \in ApuDependsOn(d, i)
  BY DEF Seen
<1>0. LooksAt(d) \subseteq Sources
  BY UnitsLookAt DEF Computes, InEx
<1>1. d.c = "c" /\ d.transfer = "none" /\ ~d.hwlp_reg
  BY DEF Computes, InEx
<1>2. p \in Ports
  BY <1>0, Needed
<1>3. CASE p = "a"
  <2>1. "a" \in {d.a, d.b}
    BY <1>1, <1>3, <1>0, Needed DEF Computes
  <2>2. "a" \in d.used
    BY <2>1 DEF Computes, Ports
  <2>3. "a" \in ApuReadPorts(d)
    BY <2>1, ToldOf
  <2> QED BY <1>3, <2>2, <2>3 DEF ApuDependsOn
<1>4. CASE p = "b"
  <2>1. i.rs2 # 0
    <3>1. Address(d, i)["b"] = <<FALSE, i.rs2>>
      BY IntegerAddresses DEF Computes
    <3> QED BY <1>4, <3>1 DEF X0
  <2>2. \/ d.a = "b"
        \/ d.b = "b" /\ ~(d.unit = "alu" /\ d.oper \in Unary)
        \/ d.b = "bmask" \/ d.bmask_a = "b" \/ d.bmask_b = "b"
    <3>1. "b" \in LooksAt(d) => ~(d.unit = "alu" /\ d.oper \in Unary)
      BY DEF LooksAt, AluLooksAt, Unary, Computes, InEx
    <3> QED BY <1>1, <1>4, <3>1, <1>0, Needed
  <2>3. "b" \in d.used
    BY <2>1, <2>2 DEF Computes, Ports
  <2>4. "b" \in ApuReadPorts(d)
    BY <2>2, ToldOf DEF Computes
  <2> QED BY <1>4, <2>3, <2>4 DEF ApuDependsOn
<1>5. CASE p = "c"
  <2>1. d.regc = "rd"
    BY <1>5, Addresses DEF Computes
  <2>2. Address(d, i)["c"] = Waddr(d, i)
    BY <2>1, IntegerAddresses DEF Computes
  <2>3. Waddr(d, i) \in ApuWrites(d, i)
    BY DEF ApuWrites, AluWaddr, Computes, InEx
  <2> QED BY <1>5, <2>1, <2>2, <2>3 DEF ApuDependsOn, Computes
<1> QED BY <1>2, <1>3, <1>4, <1>5 DEF Ports

\* What an instruction of the FPU reads, the dispatcher looks at.
LEMMA FpuSeen ==
  ASSUME NEW i, NEW cfg, NEW s, NEW d, UsesFpu(cfg, s, d)
  PROVE  Seen(d, i)
<1> SUFFICES ASSUME NEW p \in PortsNeeded(d)
             PROVE  p \in d.used /\ p \in ApuReadPorts(d)
  BY DEF Seen, ApuDependsOn
<1>0. LooksAt(d) \subseteq Sources
  BY UnitsLookAt
<1>1. d.transfer = "none" /\ ~d.hwlp_reg /\ LooksAt(d) = FpuLooksAt(d) /\ d.a = "a" /\ "a" \in d.used
  BY DEF UsesFpu, InEx, LooksAt
<1>2. /\ p \in Ports
      /\ \/ p = d.a /\ "a" \in FpuLooksAt(d)
         \/ p = d.b /\ "b" \in FpuLooksAt(d)
         \/ p = d.c /\ "c" \in FpuLooksAt(d)
         \/ d.b = "bmask"
         \/ "bmask_a" \in FpuLooksAt(d) \/ "bmask_b" \in FpuLooksAt(d)
  BY <1>1, <1>0, Needed
<1>3. CASE d.oper = "ADD"
  BY <1>1, <1>2, <1>3, ToldOf DEF UsesFpu, FpuLooksAt
<1>4. CASE d.oper \in {"MUL", "DIV", "MINMAX", "CMP"}
  BY <1>1, <1>2, <1>4, ToldOf DEF UsesFpu, FpuLooksAt
<1>5. CASE d.oper = "SGNJ"
  BY <1>1, <1>2, <1>5, ToldOf DEF UsesFpu, FpuLooksAt
<1>6. CASE d.oper = "FMADD"
  BY <1>1, <1>2, <1>6, ToldOf DEF UsesFpu, FpuLooksAt
<1>7. CASE d.oper \in {"SQRT", "F2I", "I2F", "CLASSIFY"}
  <2>1. FpuLooksAt(d) = {"a"}
    BY <1>7 DEF FpuLooksAt
  <2>2. p = "a"
    BY <1>1, <2>1, <1>0, Needed
  <2> QED BY <1>1, <2>2, ToldOf
<1> QED BY <1>3, <1>4, <1>5, <1>6, <1>7 DEF UsesFpu

\* The same of a load or a store.
LEMMA AccessSeen ==
  ASSUME NEW i, NEW cfg, NEW s, NEW d, Accesses(cfg, s, d)
  PROVE  Seen(d, i)
<1> SUFFICES ASSUME NEW p \in PortsNeeded(d)
             PROVE  p \in d.used /\ p \in ApuReadPorts(d)
  BY DEF Seen, ApuDependsOn
<1>0. LooksAt(d) \subseteq Sources
  BY UnitsLookAt DEF Accesses
<1>1. "c" \in LooksAt(d) => d.store
  BY DEF Accesses, LooksAt, AluLooksAt
<1>2. /\ p \in Ports
      /\ p = "a" \/ p = d.b \/ (p = "b" /\ d.b = "bmask") \/ (p = d.c /\ d.store)
  BY <1>1, <1>0, Needed DEF Accesses, Ports
<1> QED BY <1>2, ToldOf DEF Accesses, Ports

\* The same of a branch.
LEMMA BranchSeen ==
  ASSUME NEW i, NEW d, Branches(d)
  PROVE  Seen(d, i)
<1> SUFFICES ASSUME NEW p \in PortsNeeded(d)
             PROVE  p \in d.used /\ p \in ApuReadPorts(d)
  BY DEF Seen, ApuDependsOn
<1>0. LooksAt(d) \subseteq Sources
  BY UnitsLookAt DEF Branches
<1>1. LooksAt(d) = {"a", "b"}
  BY DEF Branches, LooksAt
<1>2. p \in Ports /\ (p = "a" \/ p = d.b)
  BY <1>1, <1>0, Needed DEF Branches, Ports
<1> QED BY <1>2, ToldOf DEF Branches, Ports

\* The same of a jump.
LEMMA LinkSeen ==
  ASSUME NEW i, NEW d, Links(d)
  PROVE  Seen(d, i)
<1> SUFFICES ASSUME NEW p \in PortsNeeded(d)
             PROVE  p \in d.used /\ p \in ApuReadPorts(d)
  BY DEF Seen, ApuDependsOn
<1>0. LooksAt(d) \subseteq Sources
  BY UnitsLookAt DEF Links
<1>1. "c" \notin LooksAt(d)
  BY DEF Links, LooksAt, AluLooksAt
<1>2. p = "a" /\ d.transfer = "jalr"
  BY <1>1, <1>0, Needed DEF Links, Ports
<1> QED BY <1>2, ToldOf DEF Links

\* The same of a system instruction, a fence or a hardware loop setup.
LEMMA OrderSeen ==
  ASSUME NEW i, NEW d, Orders(d)
  PROVE  Seen(d, i)
<1> SUFFICES ASSUME NEW p \in PortsNeeded(d)
             PROVE  p \in d.used /\ p \in ApuReadPorts(d)
  BY DEF Seen, ApuDependsOn
<1>0. LooksAt(d) \subseteq Sources
  BY UnitsLookAt DEF Orders
<1>1. LooksAt(d) = {}
  BY DEF Orders, LooksAt
<1>2. p = "a" /\ d.hwlp_reg
  BY <1>1, <1>0, Needed DEF Orders
<1> QED BY <1>2, ToldOf DEF Orders

\* The same of a CSR instruction.
LEMMA CsrSeen ==
  ASSUME NEW i, NEW cfg, NEW s, NEW d, AccessesCsr(cfg, i, s, d)
  PROVE  Seen(d, i)
<1> SUFFICES ASSUME NEW p \in PortsNeeded(d)
             PROVE  p \in d.used /\ p \in ApuReadPorts(d)
  BY DEF Seen, ApuDependsOn
<1>0. LooksAt(d) \subseteq Sources
  BY UnitsLookAt DEF AccessesCsr
<1>1. LooksAt(d) = {"a"}
  BY DEF AccessesCsr, LooksAt
<1>2. p = "a" /\ d.a = "a"
  BY <1>1, <1>0, Needed DEF AccessesCsr, Ports
<1> QED BY <1>2, ToldOf DEF AccessesCsr

\* The same of every instruction that is not illegal.
LEMMA ShapeSeen ==
  ASSUME NEW cfg, NEW i, NEW s, NEW d, Shaped(cfg, i, s, d), d # Illegal
  PROVE  Seen(d, i)
  BY ComputesSeen, FpuSeen, AccessSeen, BranchSeen, LinkSeen, OrderSeen, CsrSeen DEF Shaped

\* In each shape EX and WB get what they expect.
LEMMA ShapeFits ==
  ASSUME NEW cfg, NEW i, IsInsn(i), NEW s, NEW d, Shaped(cfg, i, s, d), d # Illegal
  PROVE  Fits(cfg, d, i)
<1>1. Waddr(d, i) # NoReg /\ Address(d, i).a # NoReg
  <2>1. \A fp, n : n \in Number => <<fp, n>> # <<FALSE, 32>>
    <3> SUFFICES ASSUME NEW fp, NEW n \in Number, <<fp, n>> = <<FALSE, 32>>
                 PROVE  FALSE
      OBVIOUS
    <3>1. <<fp, n>>[2] = <<FALSE, 32>>[2]
      OBVIOUS
    <3> QED BY <3>1 DEF Number
  <2> QED BY <2>1 DEF Waddr, Address, NoReg, IsInsn
<1> USE <1>1 DEF Fits, WellShaped, AsInsn, InsnKind, AluWaddr, Kind
<1>2. CASE Computes(d, i)
  BY <1>2 DEF Computes, InEx
<1>3. CASE UsesFpu(cfg, s, d)
  <2>1. /\ d.unit = "apu" /\ d.lat \in 1 .. 3 /\ ~d.mem_we /\ ~d.base
        /\ ~d.req /\ d.transfer = "none" /\ d.csr = "none"
    BY <1>3 DEF UsesFpu, InEx
  <2>2. /\ AsInsn(d, i).kind = "apu" /\ AsInsn(d, i).lat = d.lat
        /\ AsInsn(d, i).alu = Waddr(d, i) /\ AsInsn(d, i).mem = NoReg
    <3>1. InsnKind(d) = "apu"
      BY <2>1
    <3>2. AluWaddr(d, i) = Waddr(d, i)
      BY <2>1
    <3> QED BY <2>1, <3>1, <3>2
  <2> QED BY <2>1, <2>2
<1>4. CASE Accesses(cfg, s, d)
  <2>1. Address(d, i).a \in Reads(d, i) \cup {X0}
    BY <1>4 DEF Accesses, Reads
  <2> QED BY <1>4, <2>1 DEF Accesses
<1>5. CASE Branches(d)
  BY <1>5 DEF Branches
<1>6. CASE Links(d)
  BY <1>6 DEF Links
<1>7. CASE Orders(d)
  BY <1>7 DEF Orders
<1>8. CASE AccessesCsr(cfg, i, s, d)
  BY <1>8 DEF AccessesCsr
<1> QED BY <1>2, <1>3, <1>4, <1>5, <1>6, <1>7, <1>8 DEF Shaped

-----------------------------------------------------------------------------
\* The floating-point state.

Op == {"read", "write", "set", "clear"}

EffectType ==
  [unit : {"none", "fpu", "load", "csr"}, lat : 0 .. 3,
   csr : FpCsrs \cup {"mstatus", "none"}, op : Op, data : 0 .. 3, legal : BOOLEAN]

TypeOK ==
  /\ IsConfig(c)
  /\ id \in Insn \cup {None} /\ flush \in {"no", "ex", "wb"}
  /\ ex \in EffectType /\ wb \in BOOLEAN /\ fpu \in Nat
  /\ mstatus_fs \in 0 .. 3 /\ frm_legal \in BOOLEAN
  /\ due \in [fs : 0 .. 3, frm_legal : BOOLEAN]

\* The CSR writes that change what the decoder sees, and are flushed for.
Steers(x) == Writes(x, {"mstatus", "frm", "fcsr"})

\* While the pipeline is flushed nothing is in ID.
FlushEmptiesId == flush # "no" => id = None

\* A CSR instruction that steers the decoder has nothing behind it, and nothing
\* of the FPU before it.
SteersAlone == Steers(ex) => flush = "ex" /\ fpu = 0

\* Otherwise the CSRs are as due, but for the difference between the values of
\* FS other than Off.
AsDue ==
  ~Steers(ex) =>
    /\ frm_legal = due.frm_legal
    /\ FsExists => (mstatus_fs = OFF <=> due.fs = OFF)

\* What makes FS dirty does not turn it on.
DirtiesOnly ==
  FsExists /\ ~Steers(ex)
    /\ (wb \/ fpu > 0 \/ ex.unit \in {"fpu", "load"} \/ Writes(ex, FpCsrs)) =>
      mstatus_fs # OFF

\* A CSR instruction in EX may have written already, or not yet.
SteersToDue ==
  Steers(ex) =>
    /\ due.frm_legal = IF ex.csr = "mstatus" THEN frm_legal ELSE WrittenFrm(ex, frm_legal)
    /\ FsExists => (due.fs = OFF <=> ex.csr = "mstatus" /\ WrittenFs(ex, mstatus_fs) = OFF)

FsInv ==
  /\ TypeOK /\ FlushEmptiesId /\ SteersAlone /\ AsDue /\ DirtiesOnly /\ SteersToDue

\* The instruction in ID is an instruction, and has one of the shapes.
LEMMA IdShaped ==
  ASSUME TypeOK, id # None, NEW s
  PROVE  IsInsn(id) /\ Shaped(c, id, s, Decode(c, id, s))
<1>1. IsInsn(id)
  BY FpStatusAssumption DEF TypeOK, IsInsn, Number
<1> QED BY <1>1, DecodeShapes DEF TypeOK

\* What is as due decodes as due.
LEMMA DecodedIsDue ==
  ASSUME FsInv, id # None
  PROVE  Decoded = Due
<1>1. ~Steers(ex)
  BY DEF FsInv, FlushEmptiesId, SteersAlone
<1>2. frm_legal = due.frm_legal /\ (FsExists /\ mstatus_fs = OFF) = (FsExists /\ due.fs = OFF)
  BY <1>1 DEF FsInv, AsDue
<1> QED BY <1>2 DEF Decoded, Due, Csrs

\* The effect of an instruction: with FS off it neither has nor dirties any; if it
\* steers the decoder it is flushed for.
LEMMA EffectIs ==
  ASSUME TypeOK, id # None, NEW in \in Input, NEW x, x = Effect(Decoded, id, in)
  PROVE  /\ x \in EffectType
         /\ FsExists /\ (x.unit \in {"fpu", "load"} \/ Writes(x, FpCsrs)) => mstatus_fs # OFF
         /\ Steers(x) => Decoded.status /\ Decoded.csr # "none"
<1> DEFINE s == Csrs(mstatus_fs, frm_legal)
           d == Decoded
<1>1. Shaped(c, id, s, d)
  BY IdShaped DEF Decoded
<1>2. NoEffect \in EffectType /\ ~Steers(NoEffect) /\ ~Writes(NoEffect, FpCsrs)
  BY DEF NoEffect, EffectType, Op, Steers, Writes
<1>3. s.fs_off = (FsExists /\ mstatus_fs = OFF)
  BY DEF Csrs
<1>4. in.data \in 0 .. 3 /\ in.legal \in BOOLEAN
  BY DEF Input, DIRTY
<1> HIDE DEF s, d
<1>5. ASSUME x = NoEffect
      PROVE  /\ x \in EffectType
             /\ x.unit \notin {"fpu", "load"} /\ ~Writes(x, FpCsrs) /\ ~Steers(x)
  BY <1>2, <1>5 DEF NoEffect
<1>6. CASE d = Illegal
  <2>1. x = NoEffect
    BY <1>6 DEF Illegal, Default, Effect, d
  <2> QED BY <1>5, <2>1
<1>7. CASE UsesFpu(c, s, d)
  <2>1. x = [NoEffect EXCEPT !.unit = "fpu", !.lat = d.lat]
    BY <1>7 DEF UsesFpu, InEx, Effect, d
  <2>2. FpuOn(c, s) /\ d.lat \in 0 .. 3
    BY <1>7 DEF UsesFpu
  <2>3. FsExists => mstatus_fs # OFF
    BY <1>3, <2>2 DEF FpuOn, FsExists
  <2>4. x.unit = "fpu"
    BY <2>1 DEF NoEffect
  <2>5. x \in EffectType
    BY <1>2, <2>1, <2>2 DEF EffectType
  <2> QED BY <2>3, <2>4, <2>5 DEF Steers, Writes
<1>8. CASE Accesses(c, s, d)
  <2>1. CASE d.mem_we /\ "d" \in d.fp
    <3>1. x = [NoEffect EXCEPT !.unit = "load"]
      BY <1>8, <2>1 DEF Accesses, Effect, d
    <3>2. FsExists => mstatus_fs # OFF
      BY <1>3, <1>8, <2>1 DEF Accesses, FpuOn, FsExists
    <3>3. x.unit = "load"
      BY <3>1 DEF NoEffect
    <3>4. x \in EffectType
      BY <1>2, <3>1 DEF EffectType
    <3> QED BY <3>2, <3>3, <3>4 DEF Steers, Writes
  <2>2. CASE ~(d.mem_we /\ "d" \in d.fp)
    <3>1. x = NoEffect
      BY <1>8, <2>2 DEF Accesses, Effect, d
    <3> QED BY <1>5, <3>1
  <2> QED BY <2>1, <2>2
<1>9. CASE AccessesCsr(c, id, s, d)
  <2>1. CASE id.imm12 \in FpCsrs \cup {"mstatus"}
    <3>1. x = [NoEffect EXCEPT !.unit = "csr", !.csr = id.imm12, !.op = d.csr,
                               !.data = in.data, !.legal = in.legal]
      BY <1>9, <2>1 DEF AccessesCsr, Effect, d
    <3>2. x.unit = "csr" /\ x.csr = id.imm12 /\ x.op = d.csr
      BY <3>1 DEF NoEffect
    <3>3. d.csr \in Op
      BY <1>9 DEF AccessesCsr, Op
    <3>4. x \in EffectType
      BY <1>2, <1>4, <2>1, <3>1, <3>3 DEF EffectType
    <3>5. FsExists /\ Writes(x, FpCsrs) => mstatus_fs # OFF
      BY <1>3, <1>9, <3>2 DEF AccessesCsr, Writes
    <3>6. Steers(x) => d.status /\ d.csr # "none"
      BY <1>9, <3>2 DEF AccessesCsr, Steers, Writes
    <3> QED BY <3>2, <3>4, <3>5, <3>6 DEF d
  <2>2. CASE id.imm12 \notin FpCsrs \cup {"mstatus"}
    <3>1. x = NoEffect
      BY <1>9, <2>2 DEF AccessesCsr, Effect, d
    <3> QED BY <1>5, <3>1
  <2> QED BY <2>1, <2>2
<1>10. CASE Computes(d, id) \/ Branches(d) \/ Links(d) \/ Orders(d)
  <2>1. x = NoEffect
    BY <1>10 DEF Computes, InEx, Branches, Links, Orders, Effect, d
  <2> QED BY <1>5, <2>1
<1> QED BY <1>1, <1>6, <1>7, <1>8, <1>9, <1>10 DEF Shaped

-----------------------------------------------------------------------------
\* One cycle.

\* A CSR instruction that steers empties ID behind it; a flush lasts until EX has
\* drained.
LEMMA IdStep ==
  ASSUME FsInv, NEW in, NEW insn \in Offered(in), IdClock(in, insn)
  PROVE  /\ id' \in Insn \cup {None} /\ flush' \in {"no", "ex", "wb"}
         /\ FlushEmptiesId'
         /\ Issues(in) => flush = "no" /\ id # None
         /\ Issues(in) /\ Decoded.status => flush' = "ex"
         /\ flush = "ex" => flush' = IF ExReady(in) THEN "wb" ELSE "ex"
<1>1. insn \in Insn \cup {None}
  BY FpStatusAssumption DEF Offered
<1>2. Halted \/ ~Free(in) => insn = None
  BY DEF Offered
<1>3. id' \in Insn \cup {None} /\ flush' \in {"no", "ex", "wb"}
  BY <1>1 DEF IdClock, FsInv, TypeOK
<1>4. Issues(in) => flush = "no" /\ id # None
  BY DEF Issues
<1>5. Issues(in) /\ Decoded.status => flush' = "ex"
  BY <1>4 DEF IdClock, Halted
<1>6. flush = "ex" => flush' = IF ExReady(in) THEN "wb" ELSE "ex"
  BY DEF IdClock
<1>7. FlushEmptiesId'
  <2>1. CASE flush # "no"
    <3>1. id = None
      BY <2>1 DEF FsInv, FlushEmptiesId
    <3> QED BY <1>2, <2>1, <3>1 DEF IdClock, Halted, FlushEmptiesId
  <2>2. CASE flush = "no"
    BY <1>2, <2>2 DEF IdClock, Free, FlushEmptiesId
  <2> QED BY <2>1, <2>2
<1> QED BY <1>3, <1>4, <1>5, <1>6, <1>7

\* The FPU delivers what it was given.
LEMMA ExStep ==
  ASSUME FsInv, NEW in \in Input, Possible(in), ExClock(in)
  PROVE  /\ ex' \in EffectType /\ wb' \in BOOLEAN /\ fpu' \in Nat
         /\ ex' = IF Issues(in) THEN Effect(Decoded, id, in)
                  ELSE IF ExReady(in) THEN NoEffect ELSE ex
         /\ wb' => wb \/ ex.unit = "load"
         /\ ExReady(in) => wb' = (ex.unit = "load")
         /\ fpu' > 0 => fpu > 0 \/ ex.unit = "fpu"
         /\ Issues(in) => ExReady(in)
<1>1. ex' = IF Issues(in) THEN Effect(Decoded, id, in)
            ELSE IF ExReady(in) THEN NoEffect ELSE ex
  BY DEF ExClock
<1>2. ex' \in EffectType
  <2>1. CASE Issues(in)
    <3>1. id # None
      BY <2>1 DEF Issues
    <3> QED BY <1>1, <2>1, <3>1, EffectIs DEF FsInv
  <2>2. CASE ~Issues(in)
    <3>1. NoEffect \in EffectType
      BY DEF NoEffect, EffectType, Op
    <3> QED BY <1>1, <2>2, <3>1 DEF FsInv, TypeOK
  <2> QED BY <2>1, <2>2
<1>3. wb' = IF ExReady(in) THEN ex.unit = "load" ELSE wb /\ ~WbReady(in)
  BY DEF ExClock
<1>4. fpu \in Nat /\ (in.result => fpu > 0)
  BY DEF FsInv, TypeOK, Possible
<1>5. fpu' = fpu + (IF ex.unit = "fpu" /\ ex.lat > 1 /\ ExReady(in) THEN 1 ELSE 0)
                 - (IF in.result THEN 1 ELSE 0)
  BY DEF ExClock
<1>6. fpu' \in Nat /\ (fpu' > 0 => fpu > 0 \/ ex.unit = "fpu")
  BY <1>4, <1>5
<1>7. wb' \in BOOLEAN /\ (wb' => wb \/ ex.unit = "load")
  BY <1>3
<1> QED BY <1>1, <1>2, <1>3, <1>6, <1>7 DEF Issues

\* Without a CSR instruction that steers, FS may get dirty but is not turned on.
LEMMA CsrsStay ==
  ASSUME FsInv, ~Steers(ex), NEW in, Possible(in), CsrClock(in)
  PROVE  /\ mstatus_fs' \in 0 .. 3 /\ frm_legal' = frm_legal
         /\ FsExists => (mstatus_fs' = OFF <=> mstatus_fs = OFF)
<1>1. ~Writes(ex, {"mstatus"}) /\ ~Writes(ex, {"frm", "fcsr"})
  BY DEF Steers, Writes
<1>2. mstatus_fs \in 0 .. 3
  BY DEF FsInv, TypeOK
<1>3. ApuValid(in) => fpu > 0 \/ ex.unit = "fpu"
  BY DEF ApuValid, Possible
<1>4. frm_legal' = frm_legal
  BY <1>1 DEF CsrClock
<1>5. mstatus_fs' = IF FsExists /\ (wb \/ ApuValid(in) \/ Writes(ex, FpCsrs)) THEN DIRTY
                    ELSE mstatus_fs
  BY <1>1 DEF CsrClock
<1>6. FsExists /\ (wb \/ ApuValid(in) \/ Writes(ex, FpCsrs)) => mstatus_fs # OFF
  BY <1>3 DEF FsInv, DirtiesOnly
<1> QED BY <1>2, <1>4, <1>5, <1>6 DEF DIRTY, OFF

\* A CSR instruction that steers writes FS and frm at once, and as long as it is in
\* EX; nothing else changes them then.
LEMMA CsrsSteered ==
  ASSUME FsInv, Steers(ex), NEW in, Possible(in), CsrClock(in)
  PROVE  /\ ex.csr \in {"mstatus", "frm", "fcsr"} /\ ex.op \in {"write", "set", "clear"}
         /\ mstatus_fs' \in 0 .. 3 /\ frm_legal' \in BOOLEAN
         /\ frm_legal' = IF ex.csr = "mstatus" THEN frm_legal ELSE WrittenFrm(ex, frm_legal)
         /\ FsExists => mstatus_fs' = IF ex.csr = "mstatus" THEN WrittenFs(ex, mstatus_fs)
                                      ELSE DIRTY
<1>1. /\ ex.unit = "csr" /\ ex.csr \in {"mstatus", "frm", "fcsr"}
      /\ ex.op \in {"write", "set", "clear"} /\ ex.data \in 0 .. 3 /\ ex.legal \in BOOLEAN
      /\ mstatus_fs \in 0 .. 3 /\ frm_legal \in BOOLEAN
  BY DEF Steers, Writes, FsInv, TypeOK, EffectType, Op
<1>2. ~ApuValid(in)
  BY <1>1 DEF ApuValid, Possible, FsInv, SteersAlone
<1>3. WrittenFs(ex, mstatus_fs) \in 0 .. 3 /\ WrittenFrm(ex, frm_legal) \in BOOLEAN
  BY <1>1 DEF WrittenFs, WrittenFrm, DIRTY, OFF
<1>4. CASE ex.csr = "mstatus"
  <2>1. Writes(ex, {"mstatus"}) /\ ~Writes(ex, FpCsrs) /\ ~Writes(ex, {"frm", "fcsr"})
    BY <1>1, <1>4 DEF Writes, FpCsrs
  <2>2. frm_legal' = frm_legal
    BY <2>1 DEF CsrClock
  <2>3. FsExists => mstatus_fs' = WrittenFs(ex, mstatus_fs)
    BY <1>2, <2>1 DEF CsrClock
  <2>4. ~FsExists => mstatus_fs' = mstatus_fs
    BY DEF CsrClock
  <2> QED BY <1>1, <1>3, <1>4, <2>2, <2>3, <2>4
<1>5. CASE ex.csr # "mstatus"
  <2>1. ~Writes(ex, {"mstatus"}) /\ Writes(ex, FpCsrs) /\ Writes(ex, {"frm", "fcsr"})
    BY <1>1, <1>5 DEF Writes, FpCsrs
  <2>2. frm_legal' = WrittenFrm(ex, frm_legal)
    BY <2>1 DEF CsrClock
  <2>3. mstatus_fs' = IF FsExists THEN DIRTY ELSE mstatus_fs
    BY <2>1 DEF CsrClock
  <2> QED BY <1>1, <1>3, <1>5, <2>2, <2>3 DEF DIRTY
<1> QED BY <1>4, <1>5

\* Writing twice is writing once, as far as the decoder can tell.
LEMMA WritesOnce ==
  ASSUME NEW x, x.op \in {"write", "set", "clear"}, NEW fs, NEW frm \in BOOLEAN,
         x.legal \in BOOLEAN
  PROVE  /\ WrittenFs(x, WrittenFs(x, fs)) = WrittenFs(x, fs)
         /\ WrittenFrm(x, WrittenFrm(x, frm)) = WrittenFrm(x, frm)
         /\ \A fs2 : (fs = OFF <=> fs2 = OFF) =>
              (WrittenFs(x, fs) = OFF <=> WrittenFs(x, fs2) = OFF)
  BY DEF WrittenFs, WrittenFrm, OFF, DIRTY

\* What is due after an instruction.
LEMMA DueStep ==
  ASSUME FsInv, NEW in \in Input, Possible(in), ExClock(in), DueClock(in)
  PROVE  /\ due' \in [fs : 0 .. 3, frm_legal : BOOLEAN]
         /\ ~Issues(in) => due' = due
         /\ Issues(in) /\ ~Steers(ex') =>
              /\ due'.frm_legal = due.frm_legal
              /\ FsExists => due'.fs = IF ex'.unit \in {"fpu", "load"} \/ Writes(ex', FpCsrs)
                                       THEN DIRTY ELSE due.fs
         /\ Issues(in) /\ Steers(ex') =>
              /\ due'.frm_legal = IF ex'.csr = "mstatus" THEN due.frm_legal
                                  ELSE WrittenFrm(ex', due.frm_legal)
              /\ FsExists => due'.fs = IF ex'.csr = "mstatus" THEN WrittenFs(ex', due.fs)
                                       ELSE DIRTY
<1>1. due.fs \in 0 .. 3 /\ due.frm_legal \in BOOLEAN /\ due \in [fs : 0 .. 3, frm_legal : BOOLEAN]
  BY DEF FsInv, TypeOK
<1>2. CASE ~Issues(in)
  BY <1>1, <1>2 DEF DueClock
<1>3. CASE Issues(in)
  <2> DEFINE x == ex'
  <2>1. x = Effect(Due, id, in) /\ x \in EffectType
    BY <1>3, ExStep, DecodedIsDue DEF Issues
  <2>2. /\ x.unit \in {"none", "fpu", "load", "csr"} /\ x.csr \in FpCsrs \cup {"mstatus", "none"}
        /\ x.op \in {"read", "write", "set", "clear"} /\ x.data \in 0 .. 3 /\ x.legal \in BOOLEAN
    BY <2>1 DEF EffectType, Op
  <2> DEFINE dirty == x.unit \in {"fpu", "load"} \/ Writes(x, FpCsrs)
             fs == IF ~FsExists THEN OFF
                   ELSE IF dirty THEN DIRTY
                   ELSE IF Writes(x, {"mstatus"}) THEN WrittenFs(x, due.fs)
                   ELSE due.fs
             frm == IF Writes(x, {"frm", "fcsr"}) THEN WrittenFrm(x, due.frm_legal)
                    ELSE due.frm_legal
  <2>3. due' = [fs |-> fs, frm_legal |-> frm]
    BY <1>3, <2>1 DEF DueClock
  <2> HIDE DEF x
  <2>4. Writes(x, {"mstatus"}) => WrittenFs(x, due.fs) \in 0 .. 3
    BY <1>1, <2>2 DEF WrittenFs, Writes, OFF, DIRTY
  <2>5. Writes(x, {"frm", "fcsr"}) => WrittenFrm(x, due.frm_legal) \in BOOLEAN
    BY <1>1, <2>2 DEF WrittenFrm, Writes
  <2>6. fs \in 0 .. 3 /\ frm \in BOOLEAN
    BY <1>1, <2>4, <2>5 DEF OFF, DIRTY
  <2>7. ~Steers(x) => ~Writes(x, {"mstatus"}) /\ ~Writes(x, {"frm", "fcsr"})
    BY DEF Steers, Writes
  <2>8. Steers(x) =>
          /\ x.unit = "csr"
          /\ Writes(x, {"mstatus"}) <=> x.csr = "mstatus"
          /\ Writes(x, FpCsrs) <=> x.csr # "mstatus"
          /\ Writes(x, {"frm", "fcsr"}) <=> x.csr # "mstatus"
    BY DEF Steers, Writes, FpCsrs
  <2>9. due'.fs = fs /\ due'.frm_legal = frm /\ due' \in [fs : 0 .. 3, frm_legal : BOOLEAN]
    <3> HIDE DEF fs, frm
    <3> QED BY <2>3, <2>6
  <2>10. ~Steers(x) =>
           /\ due'.frm_legal = due.frm_legal
           /\ FsExists => due'.fs = IF dirty THEN DIRTY ELSE due.fs
    BY <2>7, <2>9
  <2>11. Steers(x) =>
           /\ due'.frm_legal = IF x.csr = "mstatus" THEN due.frm_legal
                               ELSE WrittenFrm(x, due.frm_legal)
           /\ FsExists => due'.fs = IF x.csr = "mstatus" THEN WrittenFs(x, due.fs)
                                    ELSE DIRTY
    BY <2>8, <2>9
  <2> HIDE DEF fs, frm
  <2> QED BY <1>3, <2>9, <2>10, <2>11 DEF x
<1> QED BY <1>2, <1>3

-----------------------------------------------------------------------------
\* The steps of the invariant: no instruction issues, one that does not steer
\* issues, or one that steers.
LEMMA NothingIssues ==
  ASSUME FsInv, NEW in \in Input, Possible(in), NEW insn \in Offered(in),
         Cycle(in, insn), ~Issues(in)
  PROVE  SteersAlone' /\ AsDue' /\ DirtiesOnly' /\ SteersToDue'
<1>1. due' = due /\ FsExists' = FsExists
  BY DueStep DEF Cycle, FsExists
<1>2. ex' = NoEffect \/ (ex' = ex /\ ~ExReady(in))
  BY ExStep DEF Cycle
<1>3. ~Steers(NoEffect) /\ ~Writes(NoEffect, FpCsrs) /\ NoEffect.unit = "none"
  BY DEF NoEffect, Steers, Writes
<1>4. CASE ~Steers(ex)
  <2>1. ~Steers(ex')
    BY <1>2, <1>3, <1>4
  <2>2. frm_legal' = frm_legal /\ (FsExists => (mstatus_fs' = OFF <=> mstatus_fs = OFF))
    BY <1>4, CsrsStay DEF Cycle
  <2>3. AsDue'
    BY <1>1, <1>4, <2>2 DEF FsInv, AsDue
  <2>4. /\ wb' => wb \/ ex.unit = "load"
        /\ fpu' > 0 => fpu > 0 \/ ex.unit = "fpu"
        /\ ex'.unit \in {"fpu", "load"} => ex.unit \in {"fpu", "load"}
        /\ Writes(ex', FpCsrs) => Writes(ex, FpCsrs)
    BY <1>2, <1>3, ExStep DEF Cycle
  <2>5. DirtiesOnly'
    BY <1>1, <1>4, <2>2, <2>4 DEF FsInv, DirtiesOnly
  <2> QED BY <2>1, <2>3, <2>5 DEF SteersAlone, SteersToDue
<1>5. CASE Steers(ex)
  <2>1. flush = "ex" /\ fpu = 0 /\ ex.unit = "csr"
    BY <1>5 DEF FsInv, SteersAlone, Steers, Writes
  <2>2. fpu' = 0
    <3>1. fpu' \in Nat /\ ~(fpu' > 0)
      BY <2>1, ExStep DEF Cycle
    <3> QED BY <3>1
  <2>3. flush' = IF ExReady(in) THEN "wb" ELSE "ex"
    BY <2>1, IdStep DEF Cycle
  <2>4. ex.legal \in BOOLEAN /\ frm_legal \in BOOLEAN
    BY DEF FsInv, TypeOK, EffectType
  <2>5. /\ ex.op \in {"write", "set", "clear"}
        /\ frm_legal' = IF ex.csr = "mstatus" THEN frm_legal ELSE WrittenFrm(ex, frm_legal)
        /\ FsExists => mstatus_fs' = IF ex.csr = "mstatus" THEN WrittenFs(ex, mstatus_fs)
                                     ELSE DIRTY
    BY <1>5, CsrsSteered DEF Cycle
  <2>6. /\ frm_legal' = due.frm_legal
        /\ FsExists => (mstatus_fs' = OFF <=> due.fs = OFF)
    BY <1>5, <2>5 DEF FsInv, SteersToDue, DIRTY, OFF
  <2>7. CASE ex' = NoEffect
    <3>1. ExReady(in) => ~wb'
      BY <2>1, ExStep DEF Cycle
    <3>2. ExReady(in)
      BY <1>2, <1>3, <1>5, <2>7, ExStep DEF Cycle
    <3>3. ~Steers(ex') /\ ex'.unit = "none" /\ ~Writes(ex', FpCsrs)
      BY <1>3, <2>7
    <3> QED
      BY <1>1, <2>2, <2>6, <3>1, <3>2, <3>3
      DEF SteersAlone, AsDue, DirtiesOnly, SteersToDue
  <2>8. CASE ex' = ex /\ ~ExReady(in)
    <3>1. Steers(ex')
      BY <1>5, <2>8
    <3>2. /\ WrittenFs(ex, WrittenFs(ex, mstatus_fs)) = WrittenFs(ex, mstatus_fs)
          /\ WrittenFrm(ex, WrittenFrm(ex, frm_legal)) = WrittenFrm(ex, frm_legal)
      BY <2>4, <2>5, WritesOnce
    <3>3. SteersToDue'
      BY <1>1, <1>5, <2>5, <2>8, <3>2 DEF FsInv, SteersToDue
    <3> QED BY <2>2, <2>3, <2>8, <3>1, <3>3 DEF SteersAlone, AsDue, DirtiesOnly
  <2> QED BY <1>2, <2>7, <2>8
<1> QED BY <1>4, <1>5

\* The cycle in which ID issues an instruction keeps the CSRs as due.
LEMMA OneIssues ==
  ASSUME FsInv, NEW in \in Input, Possible(in), NEW insn \in Offered(in),
         Cycle(in, insn), Issues(in)
  PROVE  SteersAlone' /\ AsDue' /\ DirtiesOnly' /\ SteersToDue'
<1>1. FsExists' = FsExists
  BY DEF Cycle, FsExists
<1>2. id # None /\ ~Steers(ex)
  <2>1. id # None
    BY DEF Issues
  <2> QED BY <2>1 DEF FsInv, FlushEmptiesId, SteersAlone
<1>3. ex' = Effect(Decoded, id, in) /\ ExReady(in)
  BY ExStep DEF Cycle
<1>4. /\ ex' \in EffectType
      /\ FsExists /\ (ex'.unit \in {"fpu", "load"} \/ Writes(ex', FpCsrs)) => mstatus_fs # OFF
      /\ Steers(ex') => Decoded.status /\ Decoded.csr # "none"
  BY <1>2, <1>3, EffectIs DEF FsInv
<1>5. frm_legal' = frm_legal /\ (FsExists => (mstatus_fs' = OFF <=> mstatus_fs = OFF))
  BY <1>2, CsrsStay DEF Cycle
<1>6. frm_legal = due.frm_legal /\ (FsExists => (mstatus_fs = OFF <=> due.fs = OFF))
  BY <1>2 DEF FsInv, AsDue
<1>7. CASE ~Steers(ex')
  <2>1. /\ due'.frm_legal = due.frm_legal
        /\ FsExists => due'.fs = IF ex'.unit \in {"fpu", "load"} \/ Writes(ex', FpCsrs)
                                 THEN DIRTY ELSE due.fs
    BY <1>7, DueStep DEF Cycle
  <2>2. AsDue'
    BY <1>1, <1>4, <1>5, <1>6, <2>1 DEF AsDue, DIRTY, OFF
  <2>3. /\ wb' => ex.unit = "load"
        /\ fpu' > 0 => fpu > 0 \/ ex.unit = "fpu"
    BY <1>3, ExStep DEF Cycle
  <2>4. DirtiesOnly'
    BY <1>1, <1>2, <1>4, <1>5, <2>3 DEF FsInv, DirtiesOnly
  <2> QED BY <1>7, <2>2, <2>4 DEF SteersAlone, SteersToDue
<1>8. CASE Steers(ex')
  <2>1. flush' = "ex"
    BY <1>4, <1>8, IdStep DEF Cycle
  <2>2. fpu = 0 /\ ~(ex.unit = "fpu" /\ ex.lat > 1)
    <3>1. ~CsrApuStall /\ Decoded.csr # "none"
      BY <1>4, <1>8 DEF Issues
    <3>2. fpu \in Nat
      BY DEF FsInv, TypeOK
    <3> QED BY <3>1, <3>2 DEF CsrApuStall
  <2>3. fpu' = 0
    <3>1. ~in.result
      BY <2>2 DEF Possible
    <3> QED BY <2>2, <3>1 DEF Cycle, ExClock
  <2>4. /\ due'.frm_legal = IF ex'.csr = "mstatus" THEN due.frm_legal
                            ELSE WrittenFrm(ex', due.frm_legal)
        /\ FsExists => due'.fs = IF ex'.csr = "mstatus" THEN WrittenFs(ex', due.fs) ELSE DIRTY
    BY <1>8, DueStep DEF Cycle
  <2>5. ex'.op \in {"write", "set", "clear"} /\ ex'.legal \in BOOLEAN /\ frm_legal \in BOOLEAN
    BY <1>4, <1>8 DEF Steers, Writes, EffectType, Op, FsInv, TypeOK
  <2>6. FsExists => (WrittenFs(ex', mstatus_fs') = OFF <=> WrittenFs(ex', due.fs) = OFF)
    <3> DEFINE x == ex'
               fs == mstatus_fs'
    <3>1. x.op \in {"write", "set", "clear"} /\ x.legal \in BOOLEAN
      BY <2>5
    <3>2. FsExists => (fs = OFF <=> due.fs = OFF)
      BY <1>5, <1>6
    <3> HIDE DEF x, fs
    <3>3. FsExists => (WrittenFs(x, fs) = OFF <=> WrittenFs(x, due.fs) = OFF)
      BY <2>5, <3>1, <3>2, WritesOnce
    <3> QED BY <3>3 DEF x, fs
  <2>7. SteersToDue'
    BY <1>1, <1>5, <1>6, <2>4, <2>6 DEF SteersToDue, DIRTY, OFF
  <2> QED BY <1>8, <2>1, <2>3, <2>7 DEF SteersAlone, AsDue, DirtiesOnly
<1> QED BY <1>7, <1>8

\* A cycle keeps the invariant, and it holds from the start.
LEMMA CycleKeeps ==
  ASSUME FsInv, NEW in \in Input, Possible(in), NEW insn \in Offered(in), Cycle(in, insn)
  PROVE  FsInv'
<1>1. id' \in Insn \cup {None} /\ flush' \in {"no", "ex", "wb"} /\ FlushEmptiesId'
  BY IdStep DEF Cycle
<1>2. ex' \in EffectType /\ wb' \in BOOLEAN /\ fpu' \in Nat
  BY ExStep DEF Cycle
<1>3. due' \in [fs : 0 .. 3, frm_legal : BOOLEAN]
  BY DueStep DEF Cycle
<1>4. mstatus_fs' \in 0 .. 3 /\ frm_legal' \in BOOLEAN
  BY CsrsStay, CsrsSteered DEF Cycle, FsInv, TypeOK
<1>5. IsConfig(c)'
  BY DEF Cycle, FsInv, TypeOK, IsConfig
<1>6. TypeOK'
  BY <1>1, <1>2, <1>3, <1>4, <1>5 DEF TypeOK
<1> QED BY <1>1, <1>6, NothingIssues, OneIssues DEF FsInv

\* The invariant holds at first.
LEMMA StartsAsDue == Init => FsInv
<1> SUFFICES ASSUME Init PROVE FsInv
  OBVIOUS
<1>1. PICK x \in Start : /\ c = x.c /\ mstatus_fs = x.fs /\ frm_legal = x.frm_legal
                         /\ due = [fs |-> x.fs, frm_legal |-> x.frm_legal]
  BY DEF Init
<1>2. id = None /\ flush = "no" /\ ex = NoEffect /\ wb = FALSE /\ fpu = 0
  BY DEF Init
<1>3. ~Steers(ex) /\ ~Writes(ex, FpCsrs) /\ ex.unit = "none" /\ ex \in EffectType
  BY <1>2 DEF NoEffect, Steers, Writes, EffectType, Op
<1>4. x.fs \in 0 .. 3 /\ x.frm_legal \in BOOLEAN /\ IsConfig(x.c)
  BY FpStatusAssumption DEF IsConfig
<1>5. TypeOK
  BY <1>1, <1>2, <1>3, <1>4 DEF TypeOK
<1> QED
  BY <1>1, <1>2, <1>3, <1>5
  DEF FsInv, FlushEmptiesId, SteersAlone, AsDue, DirtiesOnly, SteersToDue

\* What is on its way to mstatus.FS and frm, and what it leaves of them.
THEOREM FsInvariant == Spec => []FsInv
<1>1. FsInv /\ [Next]_vars => FsInv'
  <2> SUFFICES ASSUME FsInv, [Next]_vars PROVE FsInv'
    OBVIOUS
  <2>1. CASE Next
    BY <2>1, CycleKeeps DEF Next
  <2>2. CASE UNCHANGED vars
    BY <2>2 DEF vars, FsInv, TypeOK, IsConfig, FlushEmptiesId, SteersAlone, AsDue, DirtiesOnly,
                SteersToDue, FsExists
  <2> QED BY <2>1, <2>2
<1> QED BY <1>1, StartsAsDue, PTL DEF Spec

\* cv32e40p_decoder, cv32e40p_cs_registers: fs_off_i and frm_i are never out of date
\* for the instruction in ID.
THEOREM DecodingIsCurrent == Spec => []DecodesCurrent
<1>1. FsInv => DecodesCurrent
  BY DecodedIsDue DEF DecodesCurrent
<1> QED BY <1>1, FsInvariant, PTL

\* cv32e40p_decoder, cv32e40p_id_stage: every register an instruction depends on is
\* compared by hazard detection and forwarding, and told to the APU dispatcher.
THEOREM DependenciesSeen == Spec => []HazardsSeen
<1>1. FsInv => HazardsSeen
  <2> SUFFICES ASSUME FsInv, id # None, ~Decoded.illegal PROVE Seen(Decoded, id)
    BY DEF HazardsSeen, Seen
  <2>1. Decoded # Illegal
    BY DEF Illegal, Default
  <2>2. Shaped(c, id, Csrs(mstatus_fs, frm_legal), Decoded)
    BY IdShaped DEF FsInv, Decoded
  <2> QED BY <2>1, <2>2, ShapeSeen
<1> QED BY <1>1, FsInvariant, PTL

\* cv32e40p_decoder: what it lets through is what EX and WB count on, as the
\* theorems about WriteBack assume.
THEOREM DecodedFits == Spec => []FitsWriteBack
<1>1. FsInv => FitsWriteBack
  <2> SUFFICES ASSUME FsInv, id # None, ~Decoded.illegal PROVE Fits(c, Decoded, id)
    BY DEF FitsWriteBack, Fits
  <2>1. Decoded # Illegal
    BY DEF Illegal, Default
  <2>2. IsInsn(id) /\ Shaped(c, id, Csrs(mstatus_fs, frm_legal), Decoded)
    BY IdShaped DEF FsInv, Decoded
  <2> QED BY <2>1, <2>2, ShapeFits
<1> QED BY <1>1, FsInvariant, PTL
=============================================================================
