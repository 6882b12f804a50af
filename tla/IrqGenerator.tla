---------------------------- MODULE IrqGenerator ----------------------------
(***************************************************************************)
(* The testbench's interrupt source: the stall registers 10 to 14 of       *)
(* mm_ram and cv32e40p_random_interrupt_generator, one clock edge a step.  *)
(* A process that has passed @(posedge clk_i) reads registers as they were *)
(* before the edge, a wait() sees what the edge stored.  PC_TRIG and the   *)
(* timer, which nobody uses, are left out.                                 *)
(***************************************************************************)
EXTENDS Integers

CONSTANTS
  Wired,       \* the bits of a word that have a line to the core
  RandomIds    \* of these the ones between IRQ_MIN_ID and IRQ_MAX_ID

ASSUME IdsAssumption == RandomIds \subseteq Wired

STANDARD == 1
RANDOM == 2
SOFTWARE_DEFINED == 4

VARIABLES
  regs,            \* rnd_stall_regs: mode, min, max and lines
  irq_mode_q, irq_lines_q,
  sd,              \* where the software defined process is
  irq_sd_lines,
  rnd,             \* where the random process is, its word and its count
  irq_rnd_lines

genVars == <<regs, irq_mode_q, irq_lines_q, sd, irq_sd_lines, rnd, irq_rnd_lines>>

GenInit ==
  /\ regs = [mode |-> 0, min |-> 0, max |-> 0, lines |-> {}]
  /\ irq_mode_q = 0 /\ irq_lines_q = {}
  /\ sd = "mode" /\ irq_sd_lines = {}
  /\ rnd = [pc |-> "edge", n |-> 0, word |-> {}] /\ irq_rnd_lines = {}

\* A store of the core to one of the registers.
WriteReg(reg, val) == regs' = [regs EXCEPT ![reg] = val]

-----------------------------------------------------------------------------
\* The software defined process samples the lines at every edge while they
\* are not all 0, and looks at the mode again only when they are.
Watch(lines) == IF lines = {} THEN "end" ELSE "sample"

Enter(mode, lines) == IF mode = SOFTWARE_DEFINED THEN Watch(lines) ELSE "mode"

SdSample == sd = "sample" /\ irq_sd_lines' = regs.lines \cap Wired /\ sd' = Watch(regs.lines)

SdIdle ==
  /\ sd # "sample"
  /\ sd' = IF sd = "end" /\ irq_mode_q = SOFTWARE_DEFINED THEN Watch(regs.lines)
           ELSE Enter(regs.mode, regs'.lines)
  /\ UNCHANGED irq_sd_lines

-----------------------------------------------------------------------------
\* The random process draws a word and a delay, counts the delay down, raises
\* the word and holds it until the mode has been STANDARD.
RndWait ==
  /\ rnd.pc \in {"edge", "mode"} /\ ~(rnd.pc = "edge" /\ irq_mode_q = RANDOM)
  /\ regs.mode # RANDOM
  /\ rnd' = [rnd EXCEPT !.pc = "mode"]
  /\ UNCHANGED irq_rnd_lines

RndDraw ==
  /\ rnd.pc \in {"edge", "mode"}
  /\ regs.mode = RANDOM \/ (rnd.pc = "edge" /\ irq_mode_q = RANDOM)
  /\ \E word \in SUBSET RandomIds \ {{}}, n \in regs.min .. regs.max :
       rnd' = [pc |-> "act", n |-> n, word |-> word]
  /\ UNCHANGED irq_rnd_lines

RndCount ==
  /\ rnd.pc = "act" \/ (rnd.pc = "count" /\ rnd.n > 1)
  /\ rnd' = [rnd EXCEPT !.pc = "count", !.n = IF rnd.pc = "act" THEN @ ELSE @ - 1]
  /\ UNCHANGED irq_rnd_lines

RndRaise ==
  /\ rnd.pc = "count" /\ rnd.n <= 1
  /\ IF regs.mode = STANDARD \/ irq_mode_q = STANDARD
     THEN irq_rnd_lines' = {} /\ rnd' = [rnd EXCEPT !.pc = "edge", !.n = 0]
     ELSE irq_rnd_lines' = rnd.word /\ rnd' = [rnd EXCEPT !.pc = "std", !.n = 0]

RndHold ==
  /\ rnd.pc = "std" /\ regs.mode # STANDARD
  /\ UNCHANGED <<rnd, irq_rnd_lines>>

RndClear ==
  /\ rnd.pc = "std" /\ regs.mode = STANDARD
  /\ irq_rnd_lines' = {} /\ rnd' = [rnd EXCEPT !.pc = "edge"]

-----------------------------------------------------------------------------
\* irq_lines_q takes what the mode selects.  A process assigns its lines at the
\* edge itself, so the register gets the old word or the new one.
Selected ==
  CASE irq_mode_q = RANDOM -> {irq_rnd_lines} \cup
         IF rnd.pc = "count" /\ rnd.n <= 1 THEN {rnd.word} ELSE {}
    [] irq_mode_q = SOFTWARE_DEFINED -> {irq_sd_lines} \cup
         IF sd = "sample" THEN {regs.lines \cap Wired} ELSE {}
    [] OTHER -> {{}}

\* The edge, given regs'.
GenEdge ==
  /\ irq_mode_q' = regs.mode
  /\ irq_lines_q' \in Selected
  /\ SdSample \/ SdIdle
  /\ RndWait \/ RndDraw \/ RndCount \/ RndRaise \/ RndHold \/ RndClear
=============================================================================
