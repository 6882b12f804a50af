---------------------------- MODULE DecodedInsn ----------------------------
(***************************************************************************)
(* What cv32e40p_decoder says of an instruction, and the ways its branches *)
(* have of saying it.                                                      *)
(*                                                                         *)
(* An instruction is a record                                              *)
(*   op               the opcode, by its name in cv32e40p_pkg              *)
(*   f3, f7           bits 14:12 and 31:25                                 *)
(*   rd, rs1, rs2     bits 11:7, 19:15 and 24:20                           *)
(*   imm12            bits 31:20 of a SYSTEM instruction, by the name of   *)
(*                    the instruction or the class of CSRs they stand for  *)
(* a configuration c                                                       *)
(*   pulp, cluster, fpu, zfinx    COREV_PULP, COREV_CLUSTER, FPU, ZFINX    *)
(*   addmul, others               FPU_ADDMUL_LAT, FPU_OTHERS_LAT           *)
(* and the CSR state that the decoder sees, s                              *)
(*   fs_off, debug_mode           fs_off_i, debug_mode_i                   *)
(*   frm_legal                    frm_i is one of the five rounding modes  *)
(*                                                                         *)
(* A decoded instruction is a record                                       *)
(*   illegal          illegal_insn_o; nothing else matters then, since the *)
(*                    controller deasserts every enable                    *)
(*   unit, oper       the enabled unit: "alu", "mult", "dot" or "apu", and *)
(*                    its operator                                         *)
(*   a, b, c          alu_op_x_mux_sel_o: the register port "a", "b" or    *)
(*                    "c" that operand x comes from, "bmask" (port b, five *)
(*                    bits), "jt", "pc" or "imm"                           *)
(*   regc             regc_mux_o: "zero", "rd" or "s4"                     *)
(*   bmask_a, bmask_b alu_bmask_x_mux_sel_o: "imm" or "b" (port b)         *)
(*   mode8            alu_vec_mode_o = VEC_MODE8                           *)
(*   used             the ports x with regx_used_o                         *)
(*   fp               the ports and the destination "d" with reg_fp_x_o    *)
(*   alu_we, mem_we   regfile_alu_we_o, regfile_mem_we_o                   *)
(*   base             the ALU port writes rs1 (regfile_alu_waddr_sel_o = 0)*)
(*   req, store       data_req_o, data_we_o                                *)
(*   transfer         ctrl_transfer_insn: "none", "jal", "jalr" or "cond"  *)
(*   hwlp             the fields of a hardware loop that are written       *)
(*                    (hwlp_we_o), hwlp_reg: from rs1                      *)
(*   csr              csr_op_o, or "none" without csr_access_o             *)
(*   status           csr_status_o                                         *)
(*   lat              apu_lat_o                                            *)
(*   sys              ecall, ebreak, mret, dret, wfi or fencei (a wfi that *)
(*                    must not sleep is a nop; Core models when)           *)
(***************************************************************************)
EXTENDS Naturals

Default ==
  [illegal |-> FALSE, unit |-> "alu", oper |-> "SLTU", mode8 |-> FALSE,
   a |-> "a", b |-> "b", c |-> "c", regc |-> "zero",
   bmask_a |-> "imm", bmask_b |-> "imm", used |-> {}, fp |-> {},
   alu_we |-> FALSE, mem_we |-> FALSE, base |-> FALSE,
   req |-> FALSE, store |-> FALSE, transfer |-> "none",
   hwlp |-> {}, hwlp_reg |-> FALSE, csr |-> "none", status |-> FALSE,
   lat |-> 0, sys |-> "none"]

Illegal == [Default EXCEPT !.illegal = TRUE]

LegalIf(cond, d) == IF cond THEN d ELSE Illegal

\* An ALU operation of register ports, and of port a and an immediate.
Alu(oper, used) == [Default EXCEPT !.oper = oper, !.used = used, !.alu_we = TRUE]
ImmB(d) == [d EXCEPT !.b = "imm"]
AluImm(oper) == ImmB(Alu(oper, {"a"}))

\* rd is read as well, through port c.
ReadsRd(d) == [d EXCEPT !.regc = "rd", !.used = @ \cup {"c"}]

On(unit, d) == [d EXCEPT !.unit = unit]

\* Address register plus offset; the store's data goes through operand c.
Load(used) ==
  [Default EXCEPT !.oper = "ADD", !.used = used, !.req = TRUE, !.mem_we = TRUE]
Store(used) ==
  [Default EXCEPT !.oper = "ADD", !.used = used, !.req = TRUE, !.store = TRUE,
                  !.c = "b"]

FaultyPostInc(d) == [d EXCEPT !.alu_we = TRUE]

\* The access is at rs1, and rs1 + offset is written to rs1 (prepost_useincr_o
\* = 0).
PostInc(d) == [d EXCEPT !.base = TRUE, !.alu_we = TRUE]

Branch(oper, used) ==
  [Default EXCEPT !.oper = oper, !.used = used, !.transfer = "cond", !.c = "jt"]
=============================================================================
