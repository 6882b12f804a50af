# A TLA+ model of the CV32E40P core and of the programs of its testbench

CV32E40P is a 4-stage in-order RV32 core: it fetches through a prefetch buffer,
decodes 16- and 32-bit instructions, runs two hardware loops, handles
interrupts, exceptions, single stepping and debug requests, and stops its own
clock while it waits for an interrupt.  The core is SystemVerilog, under
`src/rtl`.  `src/example_tb/core` has C programs that run on it in a testbench:
an interrupt test, hardware loop tests, programs with random memory stalls, and
the system calls newlib needs.  This directory holds TLA+ modules translated from
both, configurations that check them with TLC, and theorems about them checked
with TLAPS.

The modules of the core and of the testbench are synchronous: one step of a
specification is one clock cycle.  A cycle of the core has a record `in` of
inputs (what the rest of the core and the memories do in that cycle); combinational
signals are operators on the state and `in`;
`...Clock` operators are the flip-flops.  Of a C program a step is one access that
something else can see (a volatile, a CSR, a register or a memory access); of an
assembly program it is one instruction.  Operators named `Faulty...` are slips one
could make in the definition that follows them; they take no part in any
specification and serve to see that a property can fail.

`tlc -config MCCoreDebug.cfg MCCore` runs a configuration,
`tlapm PrefetchBufferProofs.tla` checks the proofs of a module; those of `IfStageProofs`,
`LoadStoreUnitProofs`, `CoreProofs`, `WriteBackProofs`, `FpStatusProofs`, `IrqTestProofs` and `HelloWorldProofs` likewise.  (`CoreProofs` is
the longest; it takes some minutes.)


## 1. The system and its parts

| part | source (`src/rtl/cv32e40p_...`) | state | what it does in a cycle | status |
|---|---|---|---|---|
| prefetch buffer | `prefetch_controller`, `fifo`, `obi_interface`, `prefetch_buffer` | IDLE / BRANCH_WAIT, transaction counter, two flush counters, FIFO, request held by the bus adapter | requests words ahead on the OBI instruction bus, discards answers of abandoned paths, jumps to loop starts after the last instruction of a loop | modelled |
| IF stage | `if_stage`, `aligner` | alignment state, held halfword, pc, deferred loop target, IF/ID registers | cuts words into instructions, tracks the pc | modelled |
| load-store unit | `load_store_unit` (with its ID/EX and EX/WB registers) | transaction counter, control of the access in WB, `rdata_q` | splits misaligned accesses, aligns and extends, keeps EX and WB in step with the bus | modelled |
| controller | `controller` | 14 control states of the FSM, debug FSM, sticky request and exception flags | stalls, flushes and redirects the pipeline; takes interrupts, exceptions, debug entries; drives the hardware loops | modelled for COREV_CLUSTER = 0 |
| sleep unit | `sleep_unit` | fetch enable, busy, on the ungated clock | gates the core clock | modelled for COREV_CLUSTER = 0 |
| hardware loops | `hwloop_regs` | start, end, counter of two loops | decrements, and is written | modelled |
| trap CSRs | `cs_registers` | mepc, mstatus, dpc, dcsr | trap, mret, debug entry, CSR write | partly |
| floating-point CSRs | `cs_registers` | mstatus.FS, frm, fflags | set by CSR instructions, by loads of FP registers and by the FPU; read by the decoder | FS and whether frm is legal |
| decoder | `decoder`, operand multiplexers of `id_stage` | none | what an instruction is, reads, writes and asks of the units | all but immediates |
| ID, EX stage, register file, core | `id_stage`, `ex_stage`, `register_file_ff`, `core` | ID/EX and EX/WB registers, memorised FPU result | hands instructions on, detects dependencies, forwards operands, shares two write ports among ALU, LSU, CSRs, multiplier, divider and FPU | validity, hazards, write enables; no operand values |
| APU dispatcher | `apu_disp` | in-flight and waiting slots, latency of the last operation | keeps the destinations of unfinished FPU operations, stalls what would overtake or depend on them | modelled |
| divider, multiplier | `alu_div`, `mult` | state machines | take several cycles | their handshakes only |
| interrupt controller | `int_controller` | latched lines | qualifies the lines with mie and MIE, encodes by priority | modelled |
| compressed decoder | | | | not yet, see section 6 |
| ALU, FPU wrapper, vendored FPU, tracer | | | combinational, third-party or not part of the core | not modelled |

The programs and the testbench, in `src/example_tb/core`:

| part | source | state | what it does | status |
|---|---|---|---|---|
| interrupt test | `interrupt/interrupt.c`, `isr.h`, `matrix.h` | volatile globals shared by main and handlers, mstatus, mie | programs the generator, enables interrupts one at a time or for the time of a matrix product, checks what was served | modelled |
| interrupt generator | `cv32e40p_random_interrupt_generator.sv`, stall registers 10 to 14 of `mm_ram.sv` | registered lines, two processes | raises the lines software asks for, or random ones after a random delay | partly |
| data memory and stalls | `mm_ram.sv`, `riscv_gnt_stall.sv`, `riscv_rvalid_stall.sv` | stall registers, RAM, grant count, FIFO of answers | delays grants and answers, prints, ends the simulation | partly |
| memory stall programs | `mem_stall/`, `custom_fp/main.c`, `custom/hello_world.c` | | switch the stalls on while the program runs, and print | modelled |
| system calls | `custom/syscalls.c` | errno, the break | what newlib's printf, malloc and exit call | partly |
| hardware loop programs | `hwlp_test/hwlp_test.c`, `hwlp.h` | registers, loop registers, stack | twelve assembly programs with nested loops, exceptions and interrupts | modelled |
| statistics, matrix product | `firmware/` | | straight-line code | not modelled |

How they interact.  The controller redirects the fetch (`pc_set_o`, a branch) or
announces a loop jump (`hwlp_jump_o`); IF stage and prefetch buffer hand words and
instructions on with valid/ready pairs.  ID, EX and WB advance together on
`id_ready`, `ex_ready` and the data bus.  The controller reads the instruction in
ID, a taken branch in EX and the readiness of EX and WB, and writes trap CSRs and
loop counters.  Prefetch buffer, LSU and controller tell the sleep unit that they
are busy; it gives or withholds the clock of all of them.

What makes it hard.
* The instruction bus answers late, and the answers of an abandoned path must be
  discarded without losing count, while a second branch or a loop jump comes.
* A loop jump is announced one instruction ahead; the loop's last word may be in the
  FIFO, arriving, or still outstanding, and the aligner may be stalled.
* A data access is split in two requests that overlap the answers of the previous
  access, and one register (`rdata_q`) serves for both halves and for the result.
* Interrupts, halt requests, triggers, exceptions, taken branches and single steps
  meet at one instruction, and the way from there takes several cycles in which
  further requests come.  The saved pc must be that of the first instruction not
  executed.
* An interrupt or exception in a loop body returns to an instruction whose loop jump
  has to be made in another way (state DECODE instead of DECODE_HWLOOP).
* Up to four instructions that write one register can be under way, in EX, in WB, in the
  FPU and in the register that memorises an FPU result, and two write ports and three
  forwarding sources must let the newest value win in every mix of latencies.
* The decoder looks at mstatus.FS and frm while older instructions may still change them.
  What it says an instruction reads is written down three times, as flags, as operand selects
  and as what the APU dispatcher is told, for some 300 instructions.
* Two clocks: a request may come while the core's clock stands still.
* The interrupt test and its handlers share volatile globals, the copy of mstatus among them, without
  any lock but MIE.  A line that is dropped stays on its way through three registers for some cycles, in which
  the core may already have enabled interrupts again.
* A program switches the memory stalls on while it is being fetched and its accesses are under way;
  a request is decoded in each cycle it waits, and prints in each.
* `_sbrk` adds the increment twice and never fails, so the break leaves the heap and comes back.
* Interrupts and exceptions inside hardware loops, whose handlers leave registers and stack changed.

`PROJECT.json` lists these, one by one and with source lines, under `hazards`, and the
properties that would catch each going wrong.


## 2. Modules

```
Fifo  ObiInterface                 Isa
   \    /                          /  |  \
PrefetchController       Pipeline  TrapCsrs  HwloopRegs
     |                         \      |      /
PrefetchBuffer --implements--> Controller   SleepUnit
     |            FetchStream        \        /
PrefetchBufferProofs     |             Core  --implements--> HartSpec
                         |               \
                         |           CoreProofs
                      IfStage (Aligner) -- IfStageProofs
                         | implements
                      InstrStream  (the stream Pipeline assumes)

LoadStoreUnit -- LoadStoreUnitProofs
                InsnShape   ApuDispatcher
                   |      \      /
                   |      WriteBack -- WriteBackProofs
                   |
                FpStatus -- Operands -- Decoder -- DecodedInsn
                   |
             FpStatusProofs
```

**Fifo, ObiInterface, PrefetchController, PrefetchBuffer.**  The FIFO has its write and
read pointers and its count, with the FALL_THROUGH and the flush-but-first of the
code.  `ObiInterface` is the adapter with TRANS_STABLE = 0: it holds an ungranted
request stable.  `PrefetchController` has the state machine and all counters.
`PrefetchBuffer` clocks them together and closes them with an instruction memory
(`granted`: requests not yet answered, in order), which grants in any cycle and answers
in any cycle after the grant.  Since the program text does not change, a word is
represented by its address.  The actions are `Straight`, `Branch` and `HwlpJump`.
History variables `word`, `next`, `pend` say which word was delivered last and which are
due; `FetchStream` says of them what the core is promised, and nothing about
buffers: words come in order from the last target, and after a loop jump exactly one
more word of the old path.

**Aligner, IfStage.**  Halfwords are represented by their addresses; the set of
halfwords whose low bits are 11 (`wide`) is chosen freely in the initial state, so all
program texts of the given size are covered.  `IfStage` uses FetchStream, not
PrefetchBuffer, as the fetch side.  It implements `InstrStream`: each instruction is
handed over once, in order, with its own pc and halves.

**LoadStoreUnit.**  All registers of the unit, the ID/EX registers that feed it (among them
the rewriting of operands for the second half of a split access, done in
`cv32e40p_id_stage`) and `regfile_we_lsu` of EX/WB.  Data are followed byte by byte,
symbolically: a byte read from address x is x; a byte of the register stored is its
position; zero, one and sign extensions are further values.

**Isa, Pipeline, TrapCsrs, HwloopRegs, Controller, SleepUnit, Core.**  A program is a map
from addresses to sets of instruction kinds; the instruction met at an address is chosen
each time it is fetched.  `Pipeline` is what the controller sees of the stages: the
instruction in ID, what kind of instruction is in EX, an unanswered access in WB, and the
instruction stream, taken at its specification InstrStream.  `Controller` computes the
outputs of the combinational block, one `Out...` operator per state.  `Core` clocks
everything on two clocks.  Its history variables `due` and `left` say which instruction
would be executed next and how many a single step still allows.

**ApuDispatcher, WriteBack.**  The way of results to the register file and to the instructions
that need them.  `ApuDispatcher` has the registers and stalls of `cv32e40p_apu_disp`.
`WriteBack` adds ID/EX and EX/WB, both write ports, the memorisation of FPU results, the
stalls and forwarding of the controller, the state machine of MULH and the handshakes of divider,
LSU and FPU.  An instruction is a record of its kind, the registers it reads and the
ones it writes.  Values are not computed: the history variable `newest` says for each
register where the value written by the last instruction in program order is (EX, WB, FPU,
register file), and `misread` records that an operand, a jump target or a value that a unit
takes back from the ALU port was another one.  `newest[r] = "lost"` is a value that was
overwritten or never written.  The operation of the FPU with latency 1 returns with its
grant, the one with latency 2 in the next cycle, the others whenever they like: what
`apu_lat_o` of the decoder says of the FPU parameters.

**DecodedInsn, Decoder.**  `Decode(c, i, s)` is what
`cv32e40p_decoder` says of instruction `i` in configuration `c` when the CSRs are in state `s`.
An instruction is a record of the fields the decoder tests; what it says is a record of
legality, unit, operand selects, use flags, write enables and so on, described in DecodedInsn
together with the ways (an ALU operation, a load, post-increment) its branches have of saying it.
There is an operator per branch of the case statement.  Of CSR addresses only the class matters, of immediates nothing.

**Operands.**  What the ID stage makes of it: register addresses, the ports operands come from, what
hazard detection compares and what the APU dispatcher is told (`ApuReadPorts`, read off the operand
selects).  `LooksAt` says, from the ALU's and multiplier's side, which operands a result depends
on, so `PortsNeeded` is what the instruction reads in truth.

**InsnShape** is the interface between the two halves: what WriteBack assumes of an instruction and
what FpStatus checks, and FpStatusProofs proves, of every instruction the decoder lets through.

**FpStatus.**  The decoder at work.  Instructions in ID are decoded with FS and frm as they are; CSR
instructions and loads of FP registers change these from EX and WB, FPU operations when they return; the
flush of the controller for a CSR with side effects and `csr_apu_stall` are what keeps it in order.
The history variable `due` has the state in program order.

**HartSpec** is the promise to the program and the debugger: one instruction after the
other, traps and debug entries between two of them with the address of the first one not
executed and the right cause, one instruction per step, loops that run as their
counters say.  No pipeline and no clock.  `ImplementsHart` is the refinement.

**IntController, IrqGenerator, IrqTest.**  A word of interrupt lines is the set of its bits.  `IrqTest` has
main and the handlers as sequences of statements (`Main`, `Handler`), one access to a volatile, a CSR or the
testbench each, so an interrupt can come between any two; `Stall` lets the core wait anywhere.  Where a
process of the generator and the register behind it are clocked by the same edge, the register gets the old
word or the new one: the code does not fix the order.

**MemStall, Syscalls, HelloWorld.**  `MemStall` is the data port, with the grant and answer generators in front
of the RAM; `Syscalls` what newlib calls, as tables of return values and errno, and `_sbrk` with the history
`blocks` of what it handed out; `HelloWorld` the program: the stores of `activate_random_stall`, the
calls of newlib in any order, the load and store of each character in `_write`, and the exit register.

**HwlpTest.**  The assembly programs as sequences of instructions, with the counts they have, on a hart
without a pipeline.  A loop has the body the core gives it: `Target` is the adder of the ID stage that all forms of
lp.setup, lp.starti and lp.endi share, and the end is the address behind the body.  An interrupt is what it leaves
behind: the stack below sp overwritten as far as `hwlp.h` foresees.

```
IrqGenerator   IntController                 MemStall   Syscalls                HwlpTest
       \          /                              \      /
         IrqTest -- IrqTestProofs                HelloWorld -- HelloWorldProofs
```

Which definition models which lines is in `PROJECT.json` under `map`.


## 3. What is checked

| run | configuration | question | distinct states |
|---|---|---|---|
| `prefetch` | PrefetchBuffer.cfg | counters, room for answers, delayed flush, continuity of the path, refinement of FetchStream, progress | 12,772 |
| `if_stage` | IfStage.cfg | refinement of InstrStream, pc, loop targets, progress, for all program texts | 56,854 |
| `lsu` | MCLoadStoreUnit.cfg | every byte transferred once, loads right, requests stable, progress | 10,288 |
| `core_debug` | MCCoreDebug.cfg | refinement of HartSpec with halt requests, trigger, ebreak, stepping, interrupts; both clocks, wake-up, and that a debug request is served | 41,177 |
| `core_loop` | MCCoreLoop.cfg | refinement of HartSpec with nested loops, interrupted, returned to, stepped and halted at any instruction | 74,499 |
| `write_back` | MCWriteBack.cfg | operands are the newest values, no result lost or overtaken, dispatcher and FPU agree | 229,737 |
| `decode` | MCFpStatus.cfg | dependencies reported are those the instruction has, EX and WB get what they expect, decoding is not out of date | 57,877 |
| `interrupts` | MCIrqTest.cfg | the interrupt test finds no error, one interrupt per enable, none that has been dropped, mstatus not torn, and it returns | 192,079 |
| `hello_world` | MCHelloWorld.cfg | the text is printed once and in order, heap blocks are disjoint, the exit register is reached | 257,210 |
| `hwlp_programs` | HwlpTest.cfg | the loop programs end, their loops have run out, and their sums are what the passes add | 259,044 |
| `core_step_end`, `fs_order` | MCCoreStepEnd.cfg, MCFpStatusFs.cfg | two places where code and documentation disagree (section 4) | |

Every property is stated with a comment in the module it is about; some type invariants and
other definitions of that kind are kept without being checked in a run.  Each property of a passing run
has a mutant, a small change of one mapped definition under which TLC finds it violated.

Bounds, and why they are enough.
* *Prefetch buffer*: Depth = 2 is the depth the core uses (`FIFO_DEPTH` in
  `cv32e40p_prefetch_buffer`); with three word addresses a redirection may go one word on or
  back, two transactions of abandoned paths differ from the current one, and sequential fetch
  wraps.  Grants, answers, branches and stalls are free in every cycle.  PULP_OBI = 0, the
  setting in which two requests can be outstanding and the adapter holds one back.  (The safety
  properties also pass with four addresses, and all of them with PULP_OBI = 1, by changing the
  lines of the configuration.)
* *IF stage*: three words are six halfwords, enough for every sequence of alignment states
  around a misaligned target and a loop.
* *LSU*: an address space of two words has each offset, both halves of a split access, and
  the wrap at the top; the cases are in MCLoadStoreUnit.  PULP_OBI = 0 here too.
* *Core*: programs of 4 to 11 addresses in which each address admits several kinds of
  instructions, so that a run covers all their sequences; trap handler, debugger and loop
  addresses are the parameters of `Isa`.  The programs are commented in MCCore; a configuration
  may have several, each with the requests that come while it runs (`core_loop` has one with
  interrupts and one that is stepped and halted).
  Single stepping is `off`, with interrupts masked, and with interrupts.  Loop counters are
  set to 1 or 2 and wrap at `Width` = 4 instead of 2^32: no behaviour depends on more
  than 0, 1, "more", and wrap-around (section 5 proves it for every width and every count).
* *Write-back*: two registers; every kind of instruction with each of them as source and
  destination, and x0 as destination of jumps and loads and as base of post-increment accesses.  A hazard is between the writers of
  one register and its readers, and the other register stands for the rest.  The instruction
  offered to ID is chosen anew in each cycle, so all programs are covered.  The two registers are
  symmetric.  The run has COREV_PULP = 1 and PULP_OBI = 0, the setting with
  post-increment accesses and the less constrained bus; the other three settings, reached by
  changing the two lines of the configuration, pass as well.
* *Decode*: the first instruction is any of `MCInsn`: every opcode with every value of the
  function fields that the decoder tests, with register numbers chosen so that each register
  field differs from the others and x0 occurs; those that follow it are of `MCFpuInsn`, the
  kinds that change FS or frm or depend on them.  `MCStart` has seven configurations and CSR
  states.  At most two FPU operations are in flight, more than the dispatcher admits.
* *Interrupts*: five lines: one that is not implemented (0), the pair whose encoder order is not that of
  the numbers (3, 7), and two fast ones of which one cannot be drawn (26, 31).  All masks and pending words
  over the lines that can be drawn, all random words, a delay of 12 to 14 cycles (`MinCycles`,
  `MaxCycles`, which bracket the length of a handler and the two registers), at most one stall cycle before a step
  (`MaxStall`).  The matrices are those of `matrix.h`; a row of the product is a step.
* *Hello world*: a text of three characters, a heap of ten bytes and requests of 2 or 6, so that the break can
  pass the end and so that the next block starts behind, on, or before it; three blocks besides the buffer
  (`MaxBlocks`).  Delays up to two cycles (`MaxDelay`) with two accesses outstanding, the most the LSU
  has, give every order of a grant, an answer and a request.  Of the other system calls two that print uses
  no result of (`Called`).
* *Hardware loop programs*: the programs themselves, nothing is scaled down except that products, which no
  program looks at, are kept to 15 bits and a load from memory the programs do not own returns 0 or 1.
* Each step is a cycle and no counter is unbounded, so no state constraint is used.

Fairness, and why the code justifies it.
* `PrefetchBuffer`: the core comes out of reset and is given a first address, the memory
  grants a request in the end and answers what it granted (an OBI requirement), and the IF
  stage takes words in the end.
* `IfStage`: the fetch interface delivers (the progress property of PrefetchBuffer) and ID
  accepts.
* `LoadStoreUnit`: the memory grants and answers.
* `Core`: one weakly fair action, `Proceed`: a cycle in which stalls have ended and the
  memories have answered.  Nothing is assumed about interrupts or about the debugger.
* `IrqTest`: the clock runs (WF of `Next`); what keeps the core from stalling for ever is the bound `MaxStall`.
* `HelloWorld`: the clock runs; the core makes its next step when nothing blocks it for ever; and newlib, which may ask
  for other blocks before, asks for the buffer of stdout in the end.
* `HwlpTest`: the hart executes instructions, its exception handler included.  Interrupts are not fair, and one may
  come before every instruction.
Nothing is assumed strongly fair.  Deadlock checking is on in every run.

Environment.  Interrupts and `debug_req_i` take any value in any cycle.  What the pipeline
can be ready for (`ReadyChoices`): an empty one never stalls, a branch leaves EX at once,
everything waits for an unanswered access in WB, everything else is free; so the register
dependencies, multi-cycle instructions and so on that cause stalls are all allowed.


What `write_back` shows beside its properties, and a reader of the code may not expect:
* An FPU operation in EX is requested again when EX is held by a load in WB that waits for its
  answer (`apu_req_o` does not look at `wb_ready`).  It is then executed twice, with the same
  operands.  The repetition is needed: the first result of a two-cycle operation meets the load at
  the LSU write port and is dropped (`wb_contention_lsu` only feeds a performance counter).
* The second slot of the dispatcher is never used with an FPU of these latencies, since a
  second operation starts only when the first one returns (`waiting = None`, proved).
* Where a post-incremented load writes its address register, the loaded value is the newest;
  `instruction_set_extensions.rst:79` says so, and the model takes it as program order.


What the models of the programs show beside their properties:
* *Interrupt test.*  The testbench answers a read of the random number register with 0 (`mm_ram.sv` decodes
  only the write), so `random_num` gives 0 and test 3 tests nothing there; the model lets it draw any bits.  Test 1
  triggers nothing.  The generator's comment asks for a one-hot word, but the random word may have several
  bits; those not served are dropped with the next toggle of the mode, which `NoStaleIrq` needs the handlers to do
  before they return.
* *Memory stalls.*  `mem_stall.c` says registers 7 and 6 are the fixed grant stalls, while `mm_ram.sv` wires 9 and 8
  to both kinds.  `riscv_rvalid_stall` never looks at `fifo_full`; with eight entries and two accesses
  outstanding it need not.  A read from the range of the registers returns the one addressed before.
* *System calls.*  `_sbrk` adds the increment in the comparison and again in the assignment, so it skips as much as it hands
  out, and it never returns -1: blocks may lie behind the heap.  Those inside are disjoint nevertheless
  (proved, section 5); a negative increment, which no caller here uses, would break that.  `_getcwd` and
  `_gettimeofday` set errno to -ENOSYS, `_close`, `_open`, `_sysconf` and `_times` fail without setting it.
* *Hardware loop programs.*  In the core lpend is the address behind the body, so lp.setupi repeats uimmL/4 - 1
  instructions; `hwlp.h` counts on uimmL/4 (section 4).  `HwlpTest` runs the programs as the core
  does, and its programs are indented by what is repeated: the last instruction of each body that `hwlp.h` meant belongs
  to the code around the loop.  `Sums` says what the passes then add up to, worked out by hand from the listings.  Inner
  bodies with uimmL = 12 have two instructions, fewer than the three `corev_hw_loop.rst:64` asks for; `Core` with such
  a body (`LoopAssumption` relaxed to two) was tried and still implements `HartSpec`.  `HWLP_TEST5` sets the count of loop 1 before its end (`hwlp.h:126`), against
  `corev_hw_loop.rst:134`; the end left over from `HWLP_TEST4` is behind, so nothing jumps.  `HWLP_TEST_INTERRUPT2` relies on
  the exception handler of `vectors.S`, which saves no register, leaving t2 alone.  The interruptible macros
  are not used by `hwlp_test.c`.


## 4. Where code and documentation disagree

The first concerns a CSR instruction with side effects (one for which the controller flushes the
pipeline) as the last instruction of a hardware loop.  `corev_hw_loop.rst` lists the
instructions that may not end a loop; this one is not among them.

1. `core_step_end`.  The jump back to the loop start after such an instruction is made in
   FLUSH_WB.  When it is single-stepped the controller goes to DBG_FLUSH instead
   (`cv32e40p_controller.sv:699`): the loop counter is decremented, the jump is dropped, and
   dpc points behind the loop.  `corev_hw_loop.rst:184` says the design updates PC and counter
   to the correct values.
2. `fs_order`.  A load of an FP register sets mstatus.FS dirty in the cycles it is in WB, unless
   mstatus is written in the same cycle with an FS other than Dirty
   (`cv32e40p_cs_registers.sv:1034`).  The CSR instruction behind the load is in EX then, since
   `csr_apu_stall` waits for FPU operations only; and it counts as writing mstatus also when it
   sets or clears another bit, say MIE.  So after FLW, CSRRS mstatus the register that the
   load changed is not marked: FS stays Initial or Clean.  `control_status_registers.rst:483`
   says that every F instruction but a store leaves FS dirty.  (The same overlap lets a
   CSRR of mstatus behind the load read the FS before it.)  No instruction is decoded wrongly by
   it, as `DecodesCurrent` of run `decode` shows: FS never turns from or to Off this way.

Beside 1: for such an instruction the counter is decremented without a look at its
value (`cv32e40p_controller.sv:604`).  With a counter of 0, that is when the body is run
through as straight code, it wraps to 2^32 - 1 and the loop is repeated, though
`corev_hw_loop.rst:134` says that a loop is enabled while its counter is above 0.  No run of its own
shows it; MCCoreLoop.cfg with `Programs <- CsrEndPrograms`, `Irqs <- Whenever`,
`DebugReqs <- Never` and the property `RunOutStaysOff` does.

A test program and the core disagree too, about the length of a loop body.  `cv32e40p_id_stage.sv:1367` sets the end
of a loop to pc + uimmL, and the controller takes the instruction at end - 4 as the last one
(`cv32e40p_controller.sv:1290`), as `corev_hw_loop.rst:62` says: the body has uimmL/4 - 1 instructions.  `hwlp.h:34` says
uimmL is four times the number of instructions, and its expected results are computed for such bodies
(`hwlp.h:208`: 12733 for HWLP_TEST_INTERRUPT0 and 1, 1123 for 2).  The core comes to 5557, 1643 and 277 (`Sums`);
for HWLP_TEST_INTERRUPT4, where only the last passes matter, to the 53 expected.  It is the test program that is out
of date, not the core.  HwlpTest.cfg with the invariant `ResultExpected` in place of `PassesAddUp` shows it.

The passing loop run uses programs without a CSR instruction in that place of the inner
loop (and, when single-stepped, of the outer one); it is the one restriction of programs
that the documentation does not make.


## 5. What is proved

`PrefetchBufferProofs` proves, for every `Depth`, every size of the address space and both
values of PULP_OBI:

* `TypeCorrect`: `Spec => []TypeOK`, among others that no counter leaves its range and no FIFO
  pointer its array.
* `OutstandingCounted`: `cnt_q` is the number of fetches under way and at most `Depth`.
* `NoAnswerDropped`: every answer of the current path still to come finds a free FIFO slot.
* `LoopEndRequested`: when a loop jump can come, the last word of the loop has been fetched or
  requested and no answer is due to be discarded.
* `DelayedFlushCorrect`: while the flush of a loop jump is delayed, the last word of the loop is the oldest one
  outstanding, so exactly the stale words behind it are discarded.
* `PathContinuous`: `Spec => []PathIsContinuous`, the words buffered, the answers to come that are not stale and
  the next request are consecutive on the current path.
* `PrefetchRefines`: `Spec => ImplementsStream`, what IfStage takes for granted: with FIFO, transactions, bus adapter and
  discarded answers hidden, the buffer delivers the words of the path, one behind the other.

The first five follow from the inductive invariant `CounterInv` (`CounterInvariant`), the conjunction of
the five.  None is inductive alone.  Room in the FIFO needs the
number of stale answers to be right.  After a loop jump that number depends on whether
the loop's last word is buffered, arriving or outstanding, hence on `EndRequested`, which
needs the transaction counter to be exact, and a delayed flush needs to know that nothing
is buffered while it is pending.  All the conjuncts are also invariants of run `prefetch`.

The last two follow from `PathInvariant`.  Its invariant `PathInv` adds to `CounterInv` that the FIFO's pointers agree
with its count (`PointersFit`), that nothing has been requested before the first address is given (`BeforeBoot`), that the target
not yet granted is the very next word, or follows only the last word of a loop (`WaitsAlone`), and that the last word of a loop is ahead of a loop
start not yet requested (`EndBeforePend`).  `PathIsContinuous` is not inductive without them: it says
what address each live word has, and which words are live is what the counters say; a flush that would discard one answer
too many would leave a gap.

Proof outline: `StepIsCycle` reduces the three actions to one cycle with constrained inputs;
`CountStep` and `CntMoves` give the movement of the transaction counter, `DelayedMoves` that of
the delayed flush; a lemma per conjunct of the invariant follows, split on what happens in
the cycle (redirection, acceptance, answer, delivery).  For the path, `OutstandingStep` and `ContentsStep` say what becomes of the
transactions and of the FIFO; `AheadStraight`, `AheadFlushed`, `AheadBranch` and `AheadLoopJump` follow the list of live words
through a cycle of each kind, and `PathStraight`, `PathBranch` and `PathLoopJump` conclude the invariant together with the step of
`FetchStream`.

Assumptions: those of the modules, `Depth >= 1` and the others as `ASSUME`s in
PrefetchController and PrefetchBuffer, and the environment of `Next`: answers come only for granted
requests, and a loop jump only after a word of the current path was delivered and before
another one is pending, which is `HwlpJumpOnTime` of Core (`HwlpJumpsOnTime` below).

`IfStageProofs` proves, for every program text (every mixture of 16- and 32-bit instructions, overlapping
ones too) and every number of words `NWords`:

* `IfStageRefines`: `Spec => ImplementsInstrStream`.  Init maps to `InstrInit`, and each cycle is a step of
  `InstrStream` or a stutter: ID gets each instruction once, in order, with its own pc and bits.
* `PcIfCorrect`: `Spec => []PcIfIsDue`, the pc that exceptions and interrupts save.
* `LoopTargetKept`: `Spec => []LoopTargetApplied`.

They follow from `PositionInvariant`, `Spec => []IInv`.  `PcIfIsDue` is not inductive alone, since the pc follows from
the alignment state and the word due.  `Position` ties the three together: the instruction due starts in the low half of
the word due (ALIGNED32, MISALIGNED16), in its high half (BRANCH_MISALIGNED), or in the high half of the word
before, kept in `r_instr_h` (MISALIGNED32).  `LoopPending` says that aligner, fetch interface and stream hold
the same loop start, and that only with a whole 32-bit instruction in the word due; for the aligner drops the loop start in
every other alignment state.  A loop jump could still find one of those states, were it not for `AfterHeld`: MISALIGNED16
comes only after a compressed instruction, and a loop jump only behind a 32-bit one.  `BeforeBoot` says that
nothing is due before the first branch.

Proof outline: `StepIsCycle` reduces the actions to one cycle with constrained inputs; `PlusWraps` and `NextWord` say how halfword
and word addresses wrap around alike; then one lemma per case: a branch (`BranchStartsOver`), ID not ready (`Waits`), and
ID ready with the instruction in the low half, the held half or the high half (`TakesLowHalf`,
`TakesHeldHalf`, `TakesHighHalf`); `IssuesNext` is what the last three share.

Assumptions: the program text has at least one word, `NoAddr` is no address, the fetch side is `FetchStream` (which
`PrefetchBuffer` implements, `PrefetchRefines`), and the environment of `Next`: a loop jump comes with the instruction before the end of the
loop in ID and the last one due, both 32-bit and word-aligned, as the loop rules of the documentation require.

`LoadStoreUnitProofs` proves, for every set of accesses (word, half and byte, at every offset, with and without post-increment),
every address space of whole words, both values of PULP_OBI and any timing of grants and answers:

* `EveryAccessOnce`: `Spec => []AccessDoneOnce`, the requests of an access touch each of its bytes once.
* `LoadsCorrect`: `Spec => []LoadedRight`, a load leaves the right bytes and extension.
* `RequestsStable`: `Spec => []RequestHeld`, what OBI asks of a request not yet granted.

They follow from `TransferInvariant`, `Spec => []IInv`.  None of the three says anything of the bus, and none but the last
comes near to being inductive.  `IInv` adds what ties the LSU's five registers to two accesses at once: EX holds the access ID
gave it, for the second transfer with its address and 4 as operands (`InEx`); `cnt_q` is 2 only while EX waits with its
request granted (`Ahead`), so each request is made once (`MadeOnce`); the bus holds the transfer in WB, then
the one in EX, nothing else (`OnBus`); the control registers are those of the access in WB
(`Interpreted`), which writes a register only while its answer is outstanding (`WritesWb`); and `rdata_q` keeps the first half of a split
load until the second is answered (`FirstKept`), even if the first comes before the second is granted, or a next access
is requested meanwhile.

Proof outline: `Wraps`, `WordAndLane`, `Lanes`, `BytesOnce` and `TransfersTouch` are about addresses and lanes alone and give `PartsDoIt`, what
`AccessDoneOnce` asks of the one or two transfers, and `LoadsRight`, what `data_rdata_ext` makes of their answers.  `RequestIs` is the request that
EX makes, `Answers` what an answer belongs to.  The step is split into nothing in EX (`NothingInEx`), EX waiting (`Waits`), the first
of two transfers moving on (`FirstMoves`) and the last one (`LastMoves`).

Assumptions: those of the module on its constants, a memory that answers granted requests only and in order, and that with a data request
in EX nothing but the LSU holds EX back (`Allowed`).

`CoreProofs` proves of the core with its hardware loops, for every memory size, every set of programs (each address may hold any kind of
instruction that `LoopAssumption` admits there), every placement of no, one or two loops with every count, every choice of the boot,
handler, target and trigger addresses, and every sequence of interrupts, debug requests, stalls and answers:

* `CoreImplementsHart`: `Spec /\ []CsrLoopEnds => ImplementsHart`, the refinement of `HartSpec`.  Pipeline, flushes, speculation, loop jumps
  announced ahead and clock gating are invisible: the core does what a hart does that executes one instruction at a time, each trap
  and debug entry saves the address of the first instruction not executed, with its cause, and a loop runs as often as its
  counter says, wherever it is interrupted, returned to, stepped or halted.
* `CsrsEndNoLoop`: if no program has a CSR instruction at the end of a loop (`NoCsrLast`; programs without loops are among them),
  `Spec => []CsrLoopEnds /\ ImplementsHart`.
* `HwlpJumpsOnTime`: `HwlpJumpOnTime`, what `PrefetchBuffer` and `IfStage` take for granted of a loop jump.
* `RunOutLoopsStayOff`: `RunOutStaysOff`, a loop whose counter is 0 stays off until it is set up again, for no jump, flush or trap
  counts it below 0.
* `StepSavesPcDue`: `[]SteppedPcIsDue`, the pc a single step saves, at the end of a loop too.
* `IdIsDue`: `[]IdHoldsDue`, the instruction in ID is the one due, unless a branch in EX is about to remove it.
* `TakenIfIsForStep`: `[]TakenIfForStep`, what DBG_TAKEN_IF takes for granted.
* `CoreSleepsForWfi`: `[]SleepsForWfi`, the core sleeps behind an executed wfi and at no other time.
* `CoreStopsIdle`: `[]ClockStopsIdle`, the clock is stopped only when nothing is under way and the FSM would
  stay where it is.

The hypothesis of all but the second is `[]CsrLoopEnds`: a CSR instruction that is acted on as the last one of a loop ends the last
iteration, or ends one that is repeated and is not single-stepped.  The two cases it leaves out are those of section 4: with
a counter of 0 the code decrements it below 0, and in a single step it drops the jump back.  `ImplementsHart`, `RunOutStaysOff` and
`SteppedPcIsDue` are false without it, as run `core_step_end` and the configuration named in section 4 show; the theorems say that
nothing else is wrong with loops.  Every state of run `core_loop` satisfies it, which has a CSR instruction at the end of the outer loop.

All follow from `CoreInvariant`, `[]CoreInv`.  None is inductive alone, and the refinement map (`due`, the
instruction the hart executes next) is no function of the registers: it is found in a different place in each state of the FSM.
`StateInv` names that place, with one clause per state: in ID (`InDecode` and `InHwloop`, unless a taken branch in EX holds it), in pc_id although ID is
empty (`InFlushEx` for a trap or a return), at the IF stage (`InFlushEx` and `InFlushWb` behind an instruction executed, `InDbgTakenIf`,
`InSleep`, `InFirstFetch`), or in a CSR or a handler address (`InFlushWb` after an exception, `InXretJump`).  With the place goes what
the flags of the FSM mean there: `illegal_insn_q`, `jump_done_q`, `debug_req_entry_q` and `debug_force_wakeup_q` are set in one state
and read several states later, and each clause says which may be set, and that the instruction for which one was set is still the
one in `pc_id`.  `LeftCounts` says that instructions are counted only in a single step; `ClockInv` what is left running when
the clock is off; `SetInv` that a loop never set up has a counter of 0.

For loops the hard part is to say how the IF stage is to go on.  In DECODE the next pc is the one behind the instruction in ID even at the end of an
iteration, since the jump back is made by the controller then, as for a register jump, when the instruction leaves ID.  In DECODE_HWLOOP it is
already the start of the loop, because the jump was announced by the last instruction but one; between the two moments
the stream keeps the target (`loopTo`).  `InHwloop` ties the three registers that know of it together: `hwlp_end_4_id_q` says that the last
instruction but one, still in ID, has announced the jump, if there is one; the target is kept exactly until the last instruction has been taken
from the stream; and `jump_done_q` can be set only at the end of an iteration that is repeated.  `Inside`, in an iteration
that is not the last one or not at its end, is what makes DECODE_HWLOOP the right state.  A target may survive into the debug states, where
the jump to the debugger discards it, and nowhere else (the first clause of `StateInv`).  `NextAtIf` says that a CSR
instruction at the end of an iteration leaves ID with the jump still to be made in FLUSH_WB, and its counter already decremented.

Proof outline: the lemmas `...Says` give what the controller's outputs are in each state, and `Decodes...` what they are in DECODE and DECODE_HWLOOP, by
what comes first there (a taken branch, nothing in ID, a debug request, an interrupt, an illegal instruction, a jump, an ebreak for the debugger,
an instruction that is flushed for, one that flows on).  `LoopShape`, `LoopEnds` and `AfterLast` are about addresses and counters alone: an
instruction ends one loop at most, none is both the last one of a loop and the last but one of another, and a loop does not start where one ends.
`Stands`, `Hands`, `Issued` and `RestKept` are what the pipeline does
with the outputs, and `CountedEnds` what the loop counters do.  A lemma `...Edge` for each state (and for each case of DECODE and DECODE_HWLOOP) then shows the
clauses of the next state and the step of `HartSpec` at once; `ClockOff` is the cycle without a clock; `NextKeeps` puts them together.

Assumptions: `IsaAssumption`, `LoopAssumption`, `WidthAssumption` and `CoreAssumption`, the `ASSUME`s of the modules on their constants
(addresses are addresses, programs consist of known kinds, counts fit the counters, loops keep the rules of `corev_hw_loop.rst`:
three instructions at least, the outer one ending two or more behind the inner one, no jump, branch, fence or wfi in a body, and none into it),
`CsrLoopEnds` where it is stated, and those of `Inputs` (section 3).  Two loops may also lie apart, one behind the other.

`WriteBackProofs` proves, for every set of registers, every set of instructions that satisfies
`WriteBackAssumption`, and every setting of COREV_PULP and PULP_OBI:

* `DispatcherCorrect`: `Spec => []DispatcherAgrees`, the slots of the dispatcher hold exactly what the FPU
  has not delivered.
* `ResultsReachTheirRegister`: a result that is delivered is written to the register of its own
  operation, although responses carry no tag.

Both follow from `SlotInvariant`.  Its invariant distinguishes four situations: no operation
unfinished, one of two cycles, one of long latency in the FPU, one memorised; in the last three
`apu_lat` has the one value that lets `stall_type` keep others out.  `DispatcherAgrees` is not inductive
without that: with another `apu_lat` a second operation would be let in, or a result be
memorised and delivered at once.  That a result of latency 1 is never memorised, although
`apu_lat` may still be 3 when it returns, needs the part about ID/EX: the conditions of the
memorisation (split access, second write, MULH, register jump) never hold with an FPU operation
in EX.  `FromIdle`, `FromTwoCycle`, `FromLong` and `FromMemorised` are the step from each situation.

* `OperandsCorrect`: `Spec => []ReadsNewest`, every operand, every register jump and every unit that shares the
  ALU port gets the newest value.
* `ResultsKept`: `Spec => []NewestNotLost`, no result is dropped or stored over a newer one.

Both follow from `NewestInvariant`, on top of `SlotInvariant`.  For each register `Located` says that there is
something that will write its newest value from where `newest` says it is, and `Claimed` that whatever may write the register
(an instruction in EX, a load in EX or WB, the slot of the dispatcher) holds its newest value, or an older one with the
newest still in EX behind it.  Neither is inductive alone: a load in WB could be overtaken by an instruction that does not stall.
`WbInv` rules that out: its response is still to come, and `regfile_waddr_ex`, with which the load stall
compares, still names its register while a branch (which lets ID go on although WB is not ready) is in EX.  An FPU operation
that is granted but cannot leave EX is issued again; `Claimed` has both at once, and the result of the first one is
not taken for the second's.  The lemmas `RfMoves` to `FpuResultMoves` follow a value out of each place,
`IssuesInOrder` is what the stalls keep from issuing, `OperandsStep` and `JumpsStep` are the forwarding.  Both theorems use of an instruction
what `InsnShape` says; `DecodedFits` below proves that of every instruction the decoder lets through.

`FpStatusProofs` proves, for every instruction word (all of the fields the decoder tests, not only those of the run), every
configuration, every state of the CSRs to start from, and every timing of the units and of the flush:

* `DecodingIsCurrent`: `Spec => []DecodesCurrent`, the instruction in ID is decoded as if its predecessors had already
  changed FS and frm.
* `DependenciesSeen`: `Spec => []HazardsSeen`, every register an instruction depends on is compared by the
  stalls and the forwarding, and told to the APU dispatcher.
* `DecodedFits`: `Spec => []FitsWriteBack`, what is let through is what EX and WB count on.

The last two rest on lemmas about the decoder alone.  `DecodeShapes` goes through the branches of its case statement and finds that an
instruction word is illegal or leaves one of seven shapes: it computes, uses the FPU, accesses memory, branches, links,
orders (a fence, a return, a hardware loop) or accesses a CSR.  `ShapeSeen` and `ShapeFits` show of each shape what
the two properties ask.

All three follow from `FsInvariant`, `Spec => []FsInv`.  `DecodesCurrent` is not inductive: FS need not be as due (a load in WB or an
operation in the FPU will make it dirty), and need not stay what it is.  `AsDue` says the part that is true and
suffices: unless an instruction in EX is about to change it, frm is as due, and FS is Off exactly if it is
due to be.  `DirtiesOnly` keeps that so: what makes FS dirty later was decoded with FS not Off, so it
does not turn it on.  `SteersAlone` says that a CSR instruction that writes FS or frm has emptied ID behind it, since it is flushed for, and finds the FPU
drained, since `csr_apu_stall` waited; and `SteersToDue` that it leaves what is due, be it before or after its write,
which takes effect again in every cycle the instruction stays in EX (`WritesOnce`).

The assumption is `FpStatusAssumption`: fields have their width, latencies are numbers, and software
turns FS on only where it exists.

`IrqTestProofs` proves, for every set of lines, mask, random word, delay and stall and whatever the interrupt controller selects,

* `MmstatusIsNotTorn`: `Spec => []MmstatusNotTorn`, no handler comes between main's csrr and csrw of mstatus.
* `OneServedPerEnable`: `Spec => []OneIrqPerEnable`, tests 2 and 3 serve at most one interrupt in a turn.
* `TakesNoStaleIrq`: `Spec => NoStaleIrq`, the core takes no interrupt that its source has dropped.

`Main` and `Handler` are sequences put together from parts.  `MainText` and `HandlerText` say what the statement with each
number is; `MainMoves` and `HandlerMoves` what it does to the program counters, the globals,
mstatus and the registers; from then on a cycle is `CpuStep`, a statement of main or of the handler, an interrupt, its end or nothing.
The invariant (`Invariant`) has these parts.  `MstatusInv`: interrupts are enabled only at main's wait (tests 2 and 3)
and while it computes (test 5), so a handler finds main there.  `ModeInv`: which of its two ways a handler takes.  `ServeInv`: what main sampled
and what is pending differ by the interrupt being served.  `DrainInv` is what `NoStaleIrq` is about in tests 2 and 3: a line passes
four registers from its store to the core (the stall register, the process, irq_lines_q, irq_q), and each statement, and each
stall, frees one more of them of what has been served (`Drained` counts them).  From the handler's store of the lines to main's next enable there are statements enough
for all four.  `RandomInv` and `RaisedInv` are the same for test 5: the handler's stores of STANDARD and RANDOM make the
process withdraw its word and pass by irq_mode_q, which has cleared irq_lines_q by the time the handler reaches mret.

The assumptions are those of `IrqTest` and `IrqGenerator`: which lines have a wire to the core (`LinesAssumption`,
`IdsAssumption`), which bits random numbers have (`BitsAssumption`), and that the cycles are numbers
(`CyclesAssumption`).

`HelloWorldProofs` proves, for every heap and every sequence of calls with non-negative increments,

* `SbrkDisjoint`: `SysSpec => []HeapBlocksDisjoint`, a block of `_sbrk` that lies in the heap overlaps no other block;

and for every text, heap, RAM, size of blocks, stall setting and delay

* `TextPrinted`: `Spec => []PrintsText`, the testbench prints the text, each character once and in order, and all of it
  before the simulation ends, if stdout's buffer lies in the heap;
* `BlocksDisjoint`: the blocks of that program are disjoint.

`HeapBlocksDisjoint` is not inductive: the invariant adds `Passed`, that the break has passed every block or is at the
end of the heap.  The break may be anywhere behind the end and then come back to it, below
blocks already handed out; but then it stays there, and what is handed out from there does not lie in the heap.

`PrintsText` rests on it: `FilledInv` says that the buffer holds the text, with the write that is at the RAM counted
in (`Stored`), and no other block has a byte of it, so its owner does not write there.  `ReadInv` says that the queue of answers has
only those of writes, but for one read at its end while `_write` waits for a character, and where its data is: at the RAM, or in
the queue once a cycle has gone by.  `PrintInv` counts what has been stored to the print register; a store that is at
the decoder is not printed yet, and prints once because registers are granted at once.
If the buffer does not lie in the heap (the heap is used up) nothing is said.

The assumptions are that the heap is not empty (`HeapAssumption`), lies in the RAM (`RamAssumption`), that characters and
sizes are natural numbers (`NewlibAssumption`: no caller gives memory back) and `DelayAssumption`.

Only model-checked: `NoError` and `PassesAddUp`, that the interrupt test finds no error and that the loop programs come to their
sums.  What `NoError` says of the order of service is about `IRQ_ID_PRIORITY` restricted to the lines, which the library's
recursive `SelectSeq` defines, and of the product about data.  And all liveness, which is out of the prover's
reach.


## 6. What is not modelled, and the plan

Configuration: COREV_CLUSTER = 0 (no cv.elw, no sleep under an external event), no PMP
(its errors are tied to 0 in the core), machine mode only.  `Core` is the core with FPU = 0,
`WriteBack` the one with FPU = 1.  In `Core` both COREV_PULP = 0
(no loops) and 1 are checked.  Programs do not write mepc, and the debugger does not write dpc.  A loop's
start and end do not change once set (the documentation requires it while the loop runs).

Programs: products of `HwlpTest` beyond 15 bits, printf and the statistics; test 4 of `interrupt.c`, which is commented
out; `_brk` and `unimplemented_syscall`, which nothing calls; `_write` to anything but stdout.  Of the testbench
the instruction port (the same generators as the data port), timer, signature dump and
test status registers, and the generator's PC_TRIG mode, which no program switches on.
`firmware/stats.c` formats counters (its `stats_print_dec` may read a character before its buffer) and keeps
no state; `firmware/firmware.h` and the assembly start-up code are taken as what they leave behind.

Next, in this order:
1. `WriteBack`: progress (no stall waits for itself) under a responsive memory and FPU.
2. `cv32e40p_alu_div` (iteration, hold, abort) and the products of `cv32e40p_mult` at a
   small width against integer division and multiplication.
3. The rest of the CSRs: performance counters and their inhibition, the trigger; the interrupt test on
   `Core` instead of the one-access-a-step core of `IrqTest`.
4. The compressed decoder as pure operators: expansion against the encoding an instruction
   stands for.

Left out for good: the values the ALU computes, the vendored FPU and its wrapper, clock
gating cells, tracer and the top level of the testbench.
