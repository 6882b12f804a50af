------------------------------ MODULE Operands ------------------------------
(***************************************************************************)
(* What cv32e40p_id_stage makes of a decoded instruction: register         *)
(* addresses, the sources of the operands, and the registers that the APU  *)
(* dispatcher is told of; and which operands the units then look at.       *)
(* A register is <<fp, number>>; d is what Decode says of i.               *)
(***************************************************************************)
EXTENDS Decoder

X0 == <<FALSE, 0>>
NoReg == <<FALSE, 32>>

\* ---- register addresses --------------------------------------------------
RegcNumber(d, i) ==
  CASE d.regc = "rd" -> i.rd [] d.regc = "s4" -> i.f7 \div 4

\* regfile_addr_ra_id, _rb_id, _rc_id
Address(d, i) ==
  [a |-> <<"a" \in d.fp, i.rs1>>, b |-> <<"b" \in d.fp, i.rs2>>,
   c |-> IF d.regc = "zero" THEN X0 ELSE <<"c" \in d.fp, RegcNumber(d, i)>>]

Waddr(d, i) == <<"d" \in d.fp, i.rd>>
AluWaddr(d, i) == IF d.base THEN Address(d, i).a ELSE Waddr(d, i)

\* The registers that hazards and forwarding are detected for.
Reads(d, i) == {Address(d, i)[p] : p \in d.used} \ {X0}

\* ---- what the APU dispatcher is told -------------------------------------
\* apu_read_regs, from the operand selects and not from what is used.  With
\* operand a from port c it is port b that is reported.
ApuReadPorts(d) ==
  {p \in {"a"} : d.a = "a" \/ (d.a = "pc" /\ d.transfer = "jalr")}
    \cup {p \in {"b"} : d.a \in {"b", "c"} \/ d.b \in {"b", "bmask"}}
    \cup {p \in {"a", "c"} : d.b = p}
    \cup {p \in {"b"} : d.b = "imm" /\ d.bmask_b = "b"}
    \cup {p \in {"b"} : d.c = "b"}
    \cup {p \in {"c"} : /\ d.c = "c" /\ d.a # "c" /\ d.transfer # "jalr"
                        /\ ~(d.b = "imm" /\ d.bmask_b = "b") /\ d.b # "bmask"}

\* apu_write_regs
ApuWrites(d, i) ==
  {r \in {AluWaddr(d, i)} : d.alu_we} \cup {r \in {Waddr(d, i)} : d.mem_we}

\* The registers whose pending results hold the instruction in ID.
ApuDependsOn(d, i) ==
  {Address(d, i)[p] : p \in ApuReadPorts(d)} \cup ApuWrites(d, i)

\* ---- what is looked at ---------------------------------------------------
Adds == {"ADD", "SUB"}
Fields == {"BEXT", "BINS", "BCLR", "BSET"}

\* cv32e40p_alu: operands a, b, c and the masks that a result depends on.
AluLooksAt(d) ==
  {"a"} \cup {x \in {"b"} : d.oper \notin {"FF1", "FL1", "CLB", "CNT", "EXT", "EXTS",
                                           "INS", "BCLR", "BSET"}}
        \cup {x \in {"c"} : \/ d.oper \in {"SHUF2", "INS", "BINS", "EXT"}
                            \/ d.oper \in {"PCKLO", "PCKHI"} /\ d.mode8}
        \cup {x \in {"bmask_a"} : d.oper \in Adds \cup Fields \cup {"BREV"}}
        \cup {x \in {"bmask_b"} : d.oper \in Adds \cup Fields}

\* A sign injection, comparison, multiplication or division has operands a and
\* b, an addition b and c, a conversion, root or classification a.
FpuLooksAt(d) ==
  CASE d.oper = "ADD" -> {"b", "c"}
    [] d.oper \in {"MUL", "DIV", "SGNJ", "MINMAX", "CMP"} -> {"a", "b"}
    [] d.oper \in {"SQRT", "F2I", "I2F", "CLASSIFY"} -> {"a"}
    [] d.oper = "FMADD" -> {"a", "b", "c"}

LooksAt(d) ==
  CASE d.unit = "apu" -> FpuLooksAt(d)
    [] d.unit \in {"mult", "dot"} -> {"a", "b", "c"}
    [] d.csr # "none" -> {"a"}
    [] d.transfer = "cond" -> {"a", "b"}
    [] d.req -> AluLooksAt(d) \cup {x \in {"c"} : d.store}
    [] OTHER -> IF d.alu_we THEN AluLooksAt(d) ELSE {}

\* The register ports whose content the instruction depends on, with those that
\* are read in ID itself: the base of a register jump and a loop register.
PortsNeeded(d) ==
  LET source == [a |-> d.a, b |-> IF d.b = "bmask" THEN "b" ELSE d.b, c |-> d.c,
                 bmask_a |-> d.bmask_a, bmask_b |-> d.bmask_b]
  IN  {p \in {"a", "b", "c"} : \E x \in LooksAt(d) : source[x] = p}
        \cup {p \in {"a"} : d.transfer = "jalr" \/ d.hwlp_reg}

\* ---- the instruction as the EX and WB stages see it ----------------------
InsnKind(d) ==
  CASE d.unit = "apu" -> "apu"
    [] d.req -> IF d.store THEN "store" ELSE "load"
    [] d.transfer = "cond" -> "branch"
    [] d.transfer = "jalr" -> "jalr"
    [] d.csr # "none" -> "csr"
    [] d.unit = "mult" /\ d.oper = "H" -> "mulh"
    [] d.unit = "alu" /\ d.oper = "DIV" -> "div"
    [] OTHER -> "alu"

AsInsn(d, i) ==
  [kind |-> InsnKind(d), reads |-> Reads(d, i), lat |-> d.lat,
   alu |-> IF d.alu_we \/ d.unit = "apu" THEN AluWaddr(d, i) ELSE NoReg,
   mem |-> IF d.mem_we THEN Waddr(d, i) ELSE NoReg]
=============================================================================
