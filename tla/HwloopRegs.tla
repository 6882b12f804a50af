----------------------------- MODULE HwloopRegs -----------------------------
(***************************************************************************)
(* cv32e40p_hwloop_regs.  A loop's start and end addresses are written by  *)
(* the cv.setup that starts it and never change after that; before, they   *)
(* are 0, which no loop of a program has.                                  *)
(***************************************************************************)
EXTENDS Isa

CONSTANT Width              \* counters wrap at Width (2^32)

ASSUME WidthAssumption == Width \in Nat \ {0} /\ \A n \in Counts : n < Width

VARIABLES hwlp_set,         \* loops whose start and end have been written
          hwlp_counter_q

hwloopVars == <<hwlp_set, hwlp_counter_q>>

HwloopInit == hwlp_set = {} /\ hwlp_counter_q = [k \in Loops |-> 0]

\* hwlp_dec_cnt_i && valid_i
Decremented(k, dec, valid) ==
  IF k \in dec /\ valid THEN (hwlp_counter_q[k] - 1) % Width
  ELSE hwlp_counter_q[k]

\* setup: the loops a cv.setup writes in this cycle (hwlp_we_i)
HwloopClock(dec, valid, setup) ==
  /\ hwlp_set' = hwlp_set \cup setup
  /\ \E n \in Counts :
       hwlp_counter_q' =
         [k \in Loops |-> IF k \in setup THEN n ELSE Decremented(k, dec, valid)]

\* Comparators of the controller, on the instruction at address pc.
AtLast(k, pc) == k \in hwlp_set /\ IsLast(k, pc)                \* end_eq_pc
AtLastButOne(k, pc) == k \in hwlp_set /\ IsLastButOne(k, pc)    \* end_eq_pc_plus4
Within(k, pc) == k \in hwlp_set /\ InBody(k, pc)

InHwlpBody(pc) == \E k \in Loops : Within(k, pc) /\ hwlp_counter_q[k] > 1

StartAddr(k) == IF k \in hwlp_set THEN LoopStart[k] ELSE 0

\* hwlp_targ_addr_o
HwlpTarget(pc) ==
  IF Within(1, pc) /\ ~Within(0, pc) THEN StartAddr(1) ELSE StartAddr(0)
=============================================================================
