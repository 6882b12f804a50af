----------------------------- MODULE InsnShape -----------------------------
(***************************************************************************)
(* What the EX and WB stages count on in an instruction that leaves ID,    *)
(* seen as a record [kind, reads, alu, mem, lat]: the registers it reads,  *)
(* the one it writes through the ALU port (an operation of the FPU: its    *)
(* destination) and the one it loads.                                      *)
(***************************************************************************)
EXTENDS Naturals

Kind == {"alu", "div", "mulh", "csr", "branch", "jalr", "load", "store", "apu"}

\* none: no register; zero: x0; pulp: COREV_PULP.
WellShaped(i, none, zero, pulp) ==
  /\ i.kind \in Kind /\ i.lat \in 0 .. 3
  /\ (i.kind = "apu") = (i.lat # 0)
  /\ i.kind = "apu" => i.alu # none
  /\ (i.kind = "load") = (i.mem # none)
  /\ i.kind \in {"load", "store"} /\ i.alu # none =>
       pulp /\ i.alu \in i.reads \cup {zero}
  /\ i.kind = "jalr" => i.alu # none
  /\ i.kind = "branch" => i.alu = none
=============================================================================
