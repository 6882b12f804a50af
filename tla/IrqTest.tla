------------------------------ MODULE IrqTest ------------------------------
(***************************************************************************)
(* example_tb/core/interrupt/interrupt.c on the core: main and the         *)
(* interrupt handlers, which share volatile globals and mstatus, against   *)
(* the interrupt generator and the interrupt controller.  A step is a      *)
(* clock edge; the core executes at most one access to a volatile or to a  *)
(* CSR in it, or takes an interrupt, which has priority over the next      *)
(* instruction.  printf and the statistics are left out.                   *)
(***************************************************************************)
EXTENDS IrqGenerator, IntController, SequencesExt

CONSTANTS
  Lines,         \* the bits of a word that are looked at
  RandomBits,    \* what random_num(31, 0) may return
  MinCycles, MaxCycles, \* RND_IRQ_MIN_CYCLES, RND_IRQ_MAX_CYCLES
  MaxStall,      \* the most cycles the core stalls before a step
  Mat1, Mat2, ResExpected

ASSUME LinesAssumption == Wired = Lines \cap IRQ_MASK
ASSUME BitsAssumption == RandomBits \subseteq Lines /\ RandomBits # {}
ASSUME CyclesAssumption ==
  MinCycles \in Nat \ {0} /\ MaxCycles \in Nat /\ MaxCycles >= MinCycles /\ MaxStall \in Nat

VARIABLES
  pc,          \* the next statement of main
  hpc,         \* the handler's interrupt and its next statement, at 0 when none runs
  g,           \* the volatile globals
  i,           \* main's loop counter
  mstatus, mie, \* mstatus as the set of its bits 3 (MIE) and 7 (MPIE) that are 1
  res,         \* the rows of the product computed so far
  stalled,     \* cycles since the last step
  code         \* what main returned

cpuVars == <<pc, hpc, g, i, mstatus, mie, res, stalled, code>>

vars == <<genVars, irq_q, cpuVars>>

MIE == 3
MPIE == 7
STD_IRQ_MASK == {3, 7, 11} \cup 16 .. 31

IRQ_ID_PRIORITY == SelectSeq(<< 31, 30, 29, 28, 27, 26, 25, 24, 23, 22, 21, 20,
                                19, 18, 17, 16, 11, 3, 7 >>, LAMBDA id : id \in Lines)

IRQ_NUM == Len(IRQ_ID_PRIORITY)

-----------------------------------------------------------------------------
\* The statements of main and of the handlers.
Stmt(op) == [op |-> op]
Set(f, v) == [op |-> "set", f |-> f, v |-> v]
Copy(f, from) == [op |-> "copy", f |-> f, from |-> from]
Writew(reg, v) == [op |-> "writew", reg |-> reg, v |-> v]
Store(reg, f) == [op |-> "store", reg |-> reg, f |-> f]
Random(f) == [op |-> "random", f |-> f]
Check(err) == [op |-> "check", err |-> err]

MstatusEnable == << Stmt("csrr"), Stmt("set MIE"), Stmt("csrw") >>
MstatusDisable == << Stmt("csrr"), Stmt("clear MIE"), Stmt("csrw") >>

FaultyIfRnd(then, else) ==
  << [op |-> "if rnd", skip |-> Len(then) + 1] >> \o then \o else

IfRnd(then, else) ==
  << [op |-> "if rnd", skip |-> Len(then) + 2] >> \o then
  \o << [op |-> "goto", by |-> Len(else) + 1] >> \o else

FaultyAcknowledge == << Store("lines", "pending"), Stmt("served") >>

Acknowledge == << Stmt("served"), Store("lines", "pending") >>

ToggleMode == << Set("irq_mode", STANDARD), Store("mode", "irq_mode"),
                 Set("irq_mode", RANDOM), Store("mode", "irq_mode") >>

FaultyKeepDisabled == << Stmt("csrr"), Stmt("csrw") >>

KeepDisabled == << Stmt("csrr"), Stmt("clear MPIE"), Stmt("csrw") >>

FAST_IRQ_GENERIC(id) ==
  << Set("irq_id", id) >> \o IfRnd(<< Stmt("csrr mip") >>, << >>)
  \o Acknowledge \o IfRnd(ToggleMode, KeepDisabled)

\* A function with the attribute interrupt restores the registers it used and
\* ends with mret.
InterruptFunction(body) == body \o << Stmt("restore"), Stmt("mret") >>

Handler == [id \in Wired |-> InterruptFunction(FAST_IRQ_GENERIC(id))]

Test1 ==
  << Set("ie_mask", Lines), Stmt("csrw mie"), Writew("mode", SOFTWARE_DEFINED) >>
  \o MstatusDisable

FaultyServeOne(err) ==
  MstatusEnable \o << Copy("prev", "pending"), Stmt("wait"), Check(err) >>

\* One turn of the loops of test 2 and test 3: sample, enable, wait, check.
ServeOne(err) ==
  << Copy("prev", "pending") >> \o MstatusEnable \o << Stmt("wait"), Check(err) >>

ForEach(only, err) ==
  << [op |-> "for", only |-> only, skip |-> Len(ServeOne(err)) + 2] >>
  \o ServeOne(err) \o << [op |-> "goto", by |-> -Len(ServeOne(err)) - 1] >>

Test2 ==
  << Set("ie_mask", Lines), Stmt("csrw mie"), Set("pending", Lines) >>
  \o MstatusDisable \o << Store("lines", "pending") >> \o ForEach("all", 2)

Test3 ==
  << Set("irq_id", 0), Set("ie_mask", {}), Set("pending", {}),
     Random("ie_mask"), Stmt("csrw mie"),
     Random("pending"), Copy("first", "pending"), Stmt("select") >>
  \o MstatusDisable \o << Store("lines", "pending") >> \o ForEach("to_test", 3)
  \o << Stmt("check rest") >>

Test5 == MstatusDisable \o
  << Set("ie_mask", Lines), Stmt("csrw mie"), Writew("min", MinCycles),
     Writew("max", MaxCycles), Set("irq_mode", RANDOM), Store("mode", "irq_mode") >>
  \o MstatusEnable \o << Stmt("mat_mult") >> \o MstatusDisable
  \o << Stmt("check result"), Stmt("return") >>

Main == Test1 \o Test2 \o Test3 \o Test5

-----------------------------------------------------------------------------
\* What a statement does.
In == IF hpc.at = 0 THEN Main[pc] ELSE Handler[hpc.id][hpc.at]

Jump(d) ==
  IF hpc.at = 0 THEN pc' = pc + d /\ UNCHANGED hpc
                ELSE hpc' = [hpc EXCEPT !.at = @ + d] /\ UNCHANGED pc

SameCsrs == UNCHANGED <<mstatus, mie>>
Running == UNCHANGED code

Assign ==
  /\ In.op \in {"set", "copy"}
  /\ g' = [g EXCEPT ![In.f] = IF In.op = "set" THEN In.v ELSE g[In.from]]
  /\ Jump(1) /\ UNCHANGED <<regs, i, res>> /\ SameCsrs /\ Running

WriteStall ==
  /\ In.op \in {"writew", "store"}
  /\ WriteReg(In.reg, IF In.op = "writew" THEN In.v ELSE g[In.f])
  /\ Jump(1) /\ UNCHANGED <<g, i, res>> /\ SameCsrs /\ Running

\* Fifty draws can set any non-empty set of the bits that can be drawn.
RandomNum ==
  /\ In.op = "random"
  /\ \E bits \in SUBSET RandomBits \ {{}} : g' = [g EXCEPT ![In.f] = bits \cap STD_IRQ_MASK]
  /\ Jump(1) /\ UNCHANGED <<regs, i, res>> /\ SameCsrs /\ Running

Compute ==
  /\ In.op \in {"select", "served", "csrr mip", "csrr", "set MIE", "clear MIE", "clear MPIE"}
  /\ g' = CASE In.op = "select" -> [g EXCEPT !.to_test = @ \cup (g.first \cap g.ie_mask)]
            [] In.op = "served" -> [g EXCEPT !.pending = @ \ {g.irq_id}]
            [] In.op = "csrr mip" -> [g EXCEPT !.pending = irq_q]
            [] In.op = "csrr" -> [g EXCEPT !.mmstatus = mstatus]
            [] In.op = "set MIE" -> [g EXCEPT !.mmstatus = @ \cup {MIE}]
            [] In.op = "clear MIE" -> [g EXCEPT !.mmstatus = @ \ {MIE}]
            [] In.op = "clear MPIE" -> [g EXCEPT !.mmstatus = @ \ {MPIE}]
  /\ Jump(1) /\ UNCHANGED <<regs, i, res>> /\ SameCsrs /\ Running

CsrWrite ==
  /\ \/ In.op = "csrw" /\ mstatus' = g.mmstatus /\ UNCHANGED mie
     \/ In.op = "csrw mie" /\ mie' = g.ie_mask \cap IRQ_MASK /\ UNCHANGED mstatus
  /\ Jump(1) /\ UNCHANGED <<regs, g, i, res>> /\ Running

\* The loop over IRQ_ID_PRIORITY, which test 3 restricts to the lines it tests.
For ==
  /\ In.op = "for"
  /\ \/ i = IRQ_NUM /\ i' = 0 /\ Jump(In.skip)
     \/ /\ i < IRQ_NUM /\ i' = i + 1
        /\ Jump(IF In.only = "all" \/ IRQ_ID_PRIORITY[i + 1] \in g.to_test THEN 1 ELSE 0)
  /\ UNCHANGED <<regs, g, res>> /\ SameCsrs /\ Running

Branch ==
  /\ \/ In.op = "if rnd" /\ Jump(IF g.irq_mode = RANDOM THEN 1 ELSE In.skip)
     \/ In.op = "goto" /\ Jump(In.by)
     \/ In.op = "wait" /\ Jump(IF g.prev = g.pending THEN 0 ELSE 1)
     \/ In.op = "restore" /\ Jump(1)
  /\ UNCHANGED <<regs, g, i, res>> /\ SameCsrs /\ Running

\* mat_mult, a row a step.
Dim == Len(Mat1)

ProductRow(n) == [col \in 1 .. Dim |->
  FoldFunction(+, 0, [k \in 1 .. Dim |-> Mat1[n][k] * Mat2[k][col]])]

MatMult ==
  /\ In.op = "mat_mult"
  /\ res' = Append(res, ProductRow(Len(res) + 1))
  /\ Jump(IF Len(res') = Dim THEN 1 ELSE 0)
  /\ UNCHANGED <<regs, g, i>> /\ SameCsrs /\ Running

\* The checks of main on itself, and its return.
Verdict(ok, err) ==
  /\ IF ok THEN Jump(1) /\ Running ELSE code' = err /\ UNCHANGED <<pc, hpc>>
  /\ UNCHANGED <<regs, g, i, res>> /\ SameCsrs

SelfCheck ==
  \/ In.op = "check" /\ Verdict(IRQ_ID_PRIORITY[i] = g.irq_id, In.err)
  \/ In.op = "check rest" /\ Verdict(g.pending = g.first \ g.ie_mask, 3)
  \/ In.op = "check result" /\ Verdict(res = ResExpected, 5)
  \/ In.op = "return" /\ Verdict(FALSE, 0)

-----------------------------------------------------------------------------
Taken == IrqReq(mie, MIE \in mstatus)

\* The core takes the interrupt: the handler runs with MIE clear.
TakeIrq ==
  /\ Taken
  /\ hpc' = [id |-> IrqId(Qualified(mie)), at |-> 1]
  /\ mstatus' = IF MIE \in mstatus THEN {MPIE} ELSE {}
  /\ UNCHANGED <<regs, pc, g, i, mie, res, code>>

Mret ==
  /\ ~Taken /\ In.op = "mret"
  /\ hpc' = [id |-> 0, at |-> 0]
  /\ mstatus' = {MPIE} \cup IF MPIE \in mstatus THEN {MIE} ELSE {}
  /\ UNCHANGED <<regs, pc, g, i, mie, res, code>>

Statement ==
  /\ ~Taken
  /\ \/ Assign \/ WriteStall \/ RandomNum \/ Compute \/ CsrWrite \/ For \/ Branch
     \/ MatMult \/ SelfCheck

\* The core waits for memory or for an earlier instruction.
Stall ==
  /\ stalled < MaxStall /\ stalled' = stalled + 1
  /\ UNCHANGED <<regs, pc, hpc, g, i, mstatus, mie, res, code>>

Core == Stall \/ (stalled' = 0 /\ (TakeIrq \/ Mret \/ Statement))

\* A clock edge.
Cycle == code = -1 /\ Core /\ GenEdge /\ Latch(irq_lines_q)

Init ==
  /\ GenInit /\ irq_q = {}
  /\ pc = 1 /\ hpc = [id |-> 0, at |-> 0] /\ i = 0
  /\ g = [irq_id |-> 0, pending |-> {}, to_test |-> {}, prev |-> {}, first |-> {},
          ie_mask |-> {}, mmstatus |-> {}, irq_mode |-> 0]
  /\ mstatus = {} /\ mie = {} /\ res = << >> /\ stalled = 0 /\ code = -1

\* The testbench stops the simulation at the exit register.
Finished == code # -1 /\ UNCHANGED vars

Next == Cycle \/ Finished

\* The clock runs, and the core does not stall for ever (MaxStall).
Spec == Init /\ [][Next]_vars /\ WF_vars(Next)

-----------------------------------------------------------------------------
\* The program's own verdict (main, tests 2, 3 and 5): every interrupt is
\* served in the order of IRQ_ID_PRIORITY, what the mask disables and only
\* that stays pending, and the product computed under random interrupts is the
\* expected one, whatever the masks, the random words and the timing.
NoError == code \in {-1, 0}

\* Between main's sample of irq_pending32_std and its check at most one
\* interrupt has been served: the handler returns with interrupts disabled
\* (it clears MPIE) and main enables them once in a turn.
OneIrqPerEnable ==
  hpc.at = 0 /\ Main[pc].op \in {"wait", "check"} => Cardinality(g.prev \ g.pending) <= 1

\* The core takes an interrupt only while its source still raises it: no
\* handler runs for a line that the program or the generator dropped already
\* and that is still on its way through the registers of generator and core.
NoStaleIrq ==
  [][hpc.at = 0 /\ hpc'.at # 0 =>
       IF g.irq_mode = RANDOM THEN rnd.pc = "std" /\ hpc'.id \in rnd.word
                              ELSE hpc'.id \in g.pending]_vars

\* The read-modify-write of mstatus through the global mmstatus: main and the
\* handlers share it, and no handler changes it between main's csrr and csrw.
MmstatusNotTorn ==
  hpc.at # 0 /\ In.op = "clear MPIE" => Main[pc].op \notin {"set MIE", "clear MIE", "csrw"}

\* main returns: it does not wait for ever for an interrupt that has been
\* served or masked, and the random interrupts leave it time to compute.
TestEnds == <>(code # -1)
=============================================================================
