------------------------------ MODULE HwlpTest ------------------------------
(***************************************************************************)
(* The programs of example_tb/core/hwlp_test on the hart of the            *)
(* architecture: hwlp_test.c, and the macros of hwlp.h that are meant to   *)
(* run under interrupts.  An address counts instructions.  Exceptions go   *)
(* to sw_irq_handler of vectors.S, which prints a message and returns      *)
(* behind the instruction; puts is taken to leave t2 alone, which the      *)
(* result of HWLP_TEST_INTERRUPT2 needs.  Interrupt handlers save what     *)
(* they use, on the stack, where the programs keep values below sp.        *)
(*                                                                         *)
(* Offsets are bytes from the instruction itself, and the end of a loop is *)
(* the address behind its last instruction: lp.setup and lp.setupi repeat  *)
(* uimmL/4 - 1 instructions, one less than hwlp.h counts on.  The programs *)
(* are indented by what the core repeats.                                  *)
(***************************************************************************)
EXTENDS Integers, Sequences, TLC

CONSTANTS
  Read,          \* what a load from outside the stack may return
  HandlerStack   \* the bytes below sp that an interrupt handler uses

\* Instructions; len and off are offsets from pc, in bytes.
Addi(rd, rs, n) == [op |-> "addi", rd |-> rd, rs |-> rs, n |-> n]
Li(rd, n) == Addi(rd, "x0", n)
Mv(rd, rs) == Addi(rd, rs, 0)
Alu(op, rd, rs1, rs2) == [op |-> op, rd |-> rd, rs |-> rs1, rs2 |-> rs2]
Lw(rd) == [op |-> "lw", rd |-> rd]                 \* base t0, t1 or t2
LwSp(rd, off) == [op |-> "lwsp", rd |-> rd, off |-> off]
SwSp(rs, off) == [op |-> "swsp", rs |-> rs, off |-> off]
Csrrw(r) == [op |-> "csrrw", r |-> r]              \* csrrw r, mcycle, r
Setupi(l, n, len) == [op |-> "setupi", l |-> l, n |-> n, len |-> len]
Setup(l, rs, len) == [op |-> "setup", l |-> l, rs |-> rs, len |-> len]
Starti(l, off) == [op |-> "starti", l |-> l, off |-> off]
Endi(l, off) == [op |-> "endi", l |-> l, off |-> off]
Counti(l, n) == [op |-> "counti", l |-> l, n |-> n]
Count(l, rs) == [op |-> "count", l |-> l, rs |-> rs]
Plain(op) == [op |-> op]

-----------------------------------------------------------------------------
HWLP_TEST0 == <<
  Setupi(1, 10, 16),
    Addi("t1", "t1", 1), Addi("t1", "t1", 2), Addi("t1", "t1", 3),
  Addi("t2", "t2", 4), Alu("mul", "t1", "t1", "t2") >>

\* The body of tests 1 and 2.
Nested(outer, inner) == <<
  Setupi(1, outer, 44),
    Addi("t1", "t1", 1), Addi("t2", "t1", 2), Addi("t1", "t2", 3), Addi("t2", "t2", 4),
    Setupi(0, inner, 12),
      Addi("t1", "t1", 5), Addi("t2", "t1", 6),
    Addi("t1", "t2", 7), Addi("t2", "t2", 8), Addi("t2", "t2", 9),
  Addi("t2", "t2", 10), Alu("mul", "t2", "t1", "t1") >>

HWLP_TEST1 == Nested(10, 20)
HWLP_TEST2 == Nested(100, 200)

HWLP_TEST3 == <<
  Li("t1", 0), Li("t2", 0),
  Setupi(1, 102, 60),
    Li("t1", 4), Li("t2", 8), Lw("t1"), Li("t2", 12), Li("t1", 4),
    Setupi(0, 21, 20),
      Li("t2", 4), Li("t1", 4), Lw("t2"), Li("t2", 4),
    Li("t2", 4), Li("t2", 4), Lw("t1"), SwSp("t2", -4),
  Li("t2", 4), Li("t2", 4), Lw("t2"), Li("t2", 4), Li("t2", 4), SwSp("t2", -12), Li("t2", 8),
  Li("t1", 12), Lw("t2") >>

\* The loop counts 0 times: its body is run through once.
HWLP_TEST4 == <<
  Li("t0", 0),
  Setup(1, "t0", 24),
    Setupi(0, 21, 12),
      Li("t2", 1), Li("t1", 2),
    Lw("t2"), Alu("add", "t1", "x0", "t2"),
  SwSp("t1", -28), Alu("mul", "t0", "t0", "t0") >>

\* Loop 1 is given its count before its end, against corev_hw_loop.rst:134;
\* meanwhile it has the end that HWLP_TEST4 left, and that is behind.
HWLP_TEST5 == <<
  Li("t0", 0), Li("t1", 0), Li("t2", 0),
  Starti(1, 16), Counti(1, 12), Endi(1, 100), Starti(0, 52),
    Li("t0", 100), Count(0, "t0"), Endi(0, 76),
    Li("t0", 1024), Li("t1", 4), Li("t2", 8), Alu("add", "t1", "t2", "t2"),
    Alu("mul", "t2", "t0", "t1"), Lw("t2"), SwSp("t2", -8), Lw("t2"), Li("t2", 4),
      Lw("t1"), Lw("t1"), Lw("t2"), Lw("t1"), Lw("t2"), SwSp("t1", -20),
      SwSp("t2", -24), SwSp("t1", -28), Lw("t1"),
    SwSp("t2", -36), Lw("t1"),
  SwSp("t2", -4), Lw("t2"), Li("t2", 4), Li("t2", 4), SwSp("t2", -12), Li("t1", 28),
  Setup(1, "t0", 24),
    Setupi(0, 21, 12),
      Li("t2", 8), Li("t1", 12),
    SwSp("t2", -24), Li("t1", 12),
  SwSp("t1", -28), Lw("t1"), Li("t2", 8), Li("t1", 12), Lw("t2") >>

HWLP_TEST6 == <<
  Li("t0", 0),
  Setupi(1, 10, 24),
    Setupi(0, 20, 12),
      Li("t2", 1381), Li("t1", 17),
    Alu("div", "t2", "t2", "t1"), Lw("t2"),
  Alu("div", "t1", "t1", "t2"), SwSp("t1", -28), Alu("mul", "t0", "t0", "t0") >>

HwlpTestMain ==
  << Plain("ecall") >> \o HWLP_TEST0 \o << Plain("ebreak") >> \o HWLP_TEST1
  \o << Plain("ecall") >> \o HWLP_TEST2
  \o << Plain("ebreak"), Plain("fence.i"), Plain("ebreak") >> \o HWLP_TEST3
  \o << Plain("ecall"), Plain("ecall") >> \o HWLP_TEST4
  \o << Plain("ecall") >> \o HWLP_TEST5 \o << Plain("fence.i") >> \o HWLP_TEST6

-----------------------------------------------------------------------------
\* The macros for interrupts; the result is t2.
Prologue == << Li("t0", 6), SwSp("t0", -64), Li("t2", 53), SwSp("t2", -68) >>

HWLP_TEST_INTERRUPT0 == Prologue \o <<
  Setupi(1, 40, 24),
    Setupi(0, 40, 12),
      Addi("t2", "t2", 1), Addi("t2", "t2", 2),
    Addi("t2", "t2", 3), Addi("t2", "t2", 13),
  Addi("t2", "t2", 9), SwSp("t2", -80),
  Setupi(1, 40, 24),
    Setupi(0, 40, 12),
      LwSp("t1", -80), Addi("t2", "t1", 1),
    SwSp("t2", -80), Addi("t2", "t2", 15),
  SwSp("t2", -80) >>

\* With the sum passed through mcycle.
HWLP_TEST_INTERRUPT1 == Prologue \o <<
  Li("t0", 7),
  Setupi(1, 40, 40),
    Setupi(0, 40, 28),
      Addi("t2", "t2", 1), Addi("t2", "t2", 2), Addi("t2", "t2", 3),
      Csrrw("t2"), Li("t1", 0), Csrrw("t1"),
    Mv("t2", "t1"), Addi("t2", "t2", 13),
  Addi("t2", "t2", 9), SwSp("t2", -80),
  Setupi(1, 40, 44),
    Setupi(0, 40, 32),
      LwSp("t1", -80), Addi("t2", "t1", 1),
      Csrrw("t2"), Li("t1", 0), Csrrw("t1"), Mv("t2", "t1"), SwSp("t2", -80),
    Csrrw("t1"), Addi("t2", "t2", 15),
  SwSp("t2", -80) >>

\* The second pair of loops of the next two.
SecondLoops(n) == <<
  SwSp("t2", -80),
  Setupi(1, n, 24),
    Setupi(0, n, 12),
      LwSp("t1", -80), Addi("t2", "t1", 1),
    SwSp("t2", -80), Addi("t2", "t2", 15),
  SwSp("t2", -80) >>

\* With an instruction that is illegal outside debug mode as the last one of
\* the inner loop.
HWLP_TEST_INTERRUPT2 == Prologue \o <<
  Li("t1", 7),
  Setupi(1, 10, 28),
    Setupi(0, 10, 16),
      Addi("t2", "t2", 1), Addi("t2", "t2", 2), Plain("dret"),
    Addi("t2", "t2", 3), Addi("t2", "t2", 13),
  Addi("t2", "t2", 9) >> \o SecondLoops(10)

\* With that instruction behind the inner loop.
HWLP_TEST_INTERRUPT3 == Prologue \o <<
  Li("t1", 7),
  Setupi(1, 40, 28),
    Setupi(0, 40, 16),
      Addi("t2", "t2", 1), Addi("t2", "t2", 2), Addi("t2", "t2", 3),
    Plain("dret"), Addi("t2", "t2", 13),
  Addi("t2", "t2", 9) >> \o SecondLoops(40)

\* With divisions.
HWLP_TEST_INTERRUPT4 == <<
  Li("t0", 3), SwSp("t0", -80), Li("t0", 85), SwSp("t0", -84), Li("t2", 53),
  SwSp("t2", -68), Li("t1", 3),
  Setupi(1, 40, 40),
    Setupi(0, 40, 16),
      Addi("t0", "t2", 21), Addi("t0", "t0", 10), Addi("t2", "t0", 75),
    Alu("div", "t2", "t2", "t1"), Li("t1", 5), Addi("t0", "t2", 41),
    Addi("t2", "t0", 171), Alu("div", "t2", "t2", "t1"),
  Li("t1", 3),
  Setupi(1, 40, 44),
    Setupi(0, 40, 20),
      Addi("t2", "t2", 21), LwSp("t1", -84), Alu("add", "t2", "t1", "t1"),
      LwSp("t1", -80),
    Alu("div", "t2", "t2", "t1"), Li("t1", 5), Addi("t0", "t2", 41),
    Addi("t2", "t0", 171), Alu("div", "t2", "t2", "t1"),
  LwSp("t1", -80) >>

Programs == <<
  HwlpTestMain, HWLP_TEST_INTERRUPT0, HWLP_TEST_INTERRUPT1, HWLP_TEST_INTERRUPT2,
  HWLP_TEST_INTERRUPT3, HWLP_TEST_INTERRUPT4 >>

RES_EXPECTED == (2 :> 12733 @@ 3 :> 12733 @@ 4 :> 1123 @@ 6 :> 53)

-----------------------------------------------------------------------------
VARIABLES
  test,      \* the program
  pc, r,     \* program counter and registers
  stack,     \* memory below sp
  mcycle,    \* a register that stands still (mcountinhibit)
  lp,        \* the loop registers: start, end and count of each loop
  mode,      \* the program, or the exception handler
  mepc

vars == <<test, pc, r, stack, mcycle, lp, mode, mepc>>

Abs(n) == IF n < 0 THEN -n ELSE n
Words == 2^15
Low(n) == n % Words
Quotient(a, b) ==
  IF b = 0 THEN -1
  ELSE IF (a < 0) = (b < 0) THEN Abs(a) \div Abs(b) ELSE -(Abs(a) \div Abs(b))

Computed(op, a, b) ==
  CASE op = "add" -> a + b
    [] op = "mul" -> Low(Low(a) * Low(b))     \* no test looks at a product
    [] op = "div" -> Quotient(a, b)

Program == Programs[test]
Ended == pc > Len(Program)
Insn == Program[pc]

\* ---- hardware loops -----------------------------------------------------
AtEnd(k) == lp[k].end = pc + 1
Repeats(k) == AtEnd(k) /\ lp[k].count > 1
NextPc ==
  IF Repeats(0) THEN lp[0].start ELSE IF Repeats(1) THEN lp[1].start ELSE pc + 1

Counted == [k \in {0, 1} |->
  IF AtEnd(k) /\ lp[k].count > 0 THEN [lp[k] EXCEPT !.count = @ - 1] ELSE lp[k]]

\* hwlp_end, and hwlp_start of lp.starti: pc_id_i + imm * 4
Target(off) == pc + off \div 4

\* The end is the last instruction of the body.
FaultyBody(n, len) == [start |-> pc + 1, end |-> Target(len) + 1, count |-> n]

Body(n, len) == [start |-> pc + 1, end |-> Target(len), count |-> n]

LoopInsns == {"setupi", "setup", "starti", "endi", "counti", "count"}

LoopSet(i) == [Counted EXCEPT ![i.l] =
  CASE i.op = "setupi" -> Body(i.n, i.len)
    [] i.op = "setup"  -> Body(r[i.rs], i.len)
    [] i.op = "starti" -> [@ EXCEPT !.start = Target(i.off)]
    [] i.op = "endi"   -> [@ EXCEPT !.end = Target(i.off)]
    [] i.op = "counti" -> [@ EXCEPT !.count = i.n]
    [] i.op = "count"  -> [@ EXCEPT !.count = r[i.rs]]]

\* The offsets below sp of what is kept there; the other stores are not read.
Slots == {-84, -80, -68, -64}

\* ---- instructions -------------------------------------------------------
Write(rd, v) == r' = [r EXCEPT ![rd] = v]

Retire == pc' = NextPc /\ UNCHANGED <<test, mode, mepc>>

Compute(i) ==
  /\ \/ i.op = "addi" /\ Write(i.rd, r[i.rs] + i.n)
     \/ i.op \in {"add", "mul", "div"} /\ Write(i.rd, Computed(i.op, r[i.rs], r[i.rs2]))
     \/ i.op = "fence.i" /\ UNCHANGED r
  /\ lp' = Counted
  /\ Retire /\ UNCHANGED <<stack, mcycle>>

Access(i) ==
  /\ \/ i.op = "lw" /\ (\E v \in Read : Write(i.rd, v)) /\ UNCHANGED stack
     \/ i.op = "lwsp" /\ Write(i.rd, stack[i.off]) /\ UNCHANGED stack
     \/ i.op = "swsp" /\ UNCHANGED r
        /\ stack' = [o \in Slots |-> IF o = i.off THEN r[i.rs] ELSE stack[o]]
  /\ lp' = Counted
  /\ Retire /\ UNCHANGED mcycle

SwapMcycle(i) ==
  /\ i.op = "csrrw"
  /\ mcycle' = r[i.r] /\ Write(i.r, mcycle)
  /\ lp' = Counted
  /\ Retire /\ UNCHANGED stack

SetLoop(i) ==
  /\ i.op \in LoopInsns
  /\ lp' = LoopSet(i)
  /\ Retire /\ UNCHANGED <<r, stack, mcycle>>

\* The instruction is not executed and no loop counted.
Trap(i) ==
  /\ i.op \in {"ecall", "ebreak", "dret"}
  /\ mode' = i.op /\ mepc' = pc
  /\ UNCHANGED <<test, pc, r, stack, mcycle, lp>>

Step ==
  /\ mode = "main" /\ ~Ended
  /\ \/ Compute(Insn) \/ Access(Insn) \/ SwapMcycle(Insn) \/ SetLoop(Insn) \/ Trap(Insn)

Mcause == [dret |-> 2, ebreak |-> 3, ecall |-> 11]

\* What a handler that pushes its registers leaves below sp.
Pushed == [o \in Slots |-> IF o >= -HandlerStack THEN 0 ELSE stack[o]]

\* end_handler adds 4 to mepc.
FaultyBehind == mepc

Behind == mepc + 1

\* sw_irq_handler compares mcause in t0 with t1, prints, and returns.
sw_irq_handler ==
  /\ mode # "main"
  /\ r' = [r EXCEPT !["t0"] = Mcause[mode], !["t1"] = Mcause[mode]]
  /\ stack' = Pushed
  /\ mepc' = Behind /\ mode' = "main" /\ pc' = Behind
  /\ UNCHANGED <<test, mcycle, lp>>

\* An interrupt between any two instructions, as seen by the program.
Interrupt ==
  /\ mode = "main" /\ ~Ended /\ test > 1
  /\ stack' = Pushed
  /\ UNCHANGED <<test, pc, r, mcycle, lp, mode, mepc>>

Finished == Ended /\ UNCHANGED vars

Init ==
  /\ test \in DOMAIN Programs
  /\ pc = 1 /\ r = [x \in {"x0", "t0", "t1", "t2"} |-> 0]
  /\ stack = [o \in Slots |-> 0] /\ mcycle = 0
  /\ lp = [k \in {0, 1} |-> [start |-> 0, end |-> 0, count |-> 0]]
  /\ mode = "main" /\ mepc = 0

Next == Step \/ sw_irq_handler \/ Interrupt \/ Finished

Spec == Init /\ [][Next]_vars /\ WF_vars(Step \/ sw_irq_handler)

-----------------------------------------------------------------------------
\* What the passes of the loops add up to.  Of 4, the inner loop of the first
\* pair is left in its first pass, by the handler of dret, and the outer one is
\* not; of 3 and 6, the last pass of that pair, and of the first or second pair,
\* forgets what the others made.
Sums ==
  (2 :> 53 + (40 * (1 + 2) + 3 + 13) * 40 + 9 + 40 * 1 + 15
   @@ 3 :> (1 + 2 + 3) + 13 + 9 + 40 * 40 * 1 + 15
   @@ 4 :> 53 + ((1 + 2) + 3 + 13) * 10 + 9 + 10 * 1 + 15
   @@ 5 :> 53 + (40 * (1 + 2 + 3) + 13) * 40 + 9 + 40 * 1 + 15
   @@ 6 :> (((85 + 85) \div 3) + 41 + 171) \div 5)

\* A program interrupted anywhere makes every pass of its loops, none twice, with
\* what it keeps in registers and below sp intact: its sum is that of the passes,
\* and no loop is left with passes to go.  (Macros of hwlp.h under interrupts,
\* end_handler of vectors.S for an instruction that traps inside a loop.)
PassesAddUp == Ended =>
  /\ test \in DOMAIN Sums => r["t2"] = Sums[test]
  /\ lp[0].count = 0 /\ lp[1].count = 0

\* The results that hwlp.h expects (RES_EXPECTED0 to RES_EXPECTED4), for bodies
\* of uimmL/4 instructions.
ResultExpected ==
  Ended /\ test \in DOMAIN RES_EXPECTED => r["t2"] = RES_EXPECTED[test]

\* Every program comes to its end: no loop register left over from an earlier
\* loop, nor a return into or out of a loop, makes it run on.
TestsEnd == <>Ended
=============================================================================
