------------------------------- MODULE MCCore -------------------------------
\* Small programs for Core.
EXTENDS Core, TLC

\* 0 and 1 are the program, 2 has a trigger, 3 is the trap handler, 4 and 5
\* are the debugger.
DebugProgram == [a \in 0 .. 5 |->
  CASE a = 0 -> {"mem", "ebreak", "wfi"}
    [] a = 1 -> {"csr", "jump", "branch", "ecall"}
    [] a = 2 -> {"alu"}
    [] a = 3 -> {"mret"}
    [] a = 4 -> {"csr", "ecall", "dret"}
    [] a = 5 -> {"ebreak", "mret"}]

\* Loop 1 is 2 .. 7 and holds the setup of loop 0, which is 3 .. 5; 9 and 10
\* are the handler.
LoopProgram == [a \in 0 .. 10 |->
  CASE a = 0 -> {"alu", "mem", "wfi", "branch", "fencei", "illegal"}
    [] a = 1 -> {"setup"}
    [] a = 2 -> {"setup", "alu"}
    [] a = 3 -> {"alu", "csr"}
    [] a = 4 -> {"alu", "csr", "ecall"}
    [] a = 5 -> {"alu"}
    [] a = 6 -> {"alu", "csr", "ecall"}
    [] a = 7 -> {"alu", "csr"}
    [] a = 8 -> {"jump"}
    [] a = 9 -> {"csr", "mem"}
    [] a = 10 -> {"mret", "ecall"}]

\* The same with the debugger at 9 and 10.
SteppedLoopProgram == [a \in 0 .. 10 |->
  CASE a \in {1, 2} -> {"setup"}
    [] a = 9 -> {"csr", "dret"}
    [] a = 10 -> {"dret"}
    [] a = 8 -> {"jump"}
    [] OTHER -> {"alu"}]

\* A CSR instruction ends loop 0 (corev_hw_loop.rst does not forbid it), and
\* the loop may also be run through without having been set up again.
CsrAtEnd == [LoopProgram EXCEPT ![5] = {"csr"}]
SteppedCsrAtEnd == [SteppedLoopProgram EXCEPT ![5] = {"csr"}]

\* The programs of each configuration, with the requests that come while they
\* run: a program is interrupted, or stepped and halted, or both.
DebugPrograms == << DebugProgram >>
LoopPrograms == << LoopProgram, SteppedLoopProgram >>
StepEndPrograms == << SteppedCsrAtEnd >>
CsrEndPrograms == << CsrAtEnd >>

Whenever == << BOOLEAN >>
Never == << {FALSE} >>
InFirst == << BOOLEAN, {FALSE} >>
InSecond == << {FALSE}, BOOLEAN >>

Starts == (0 :> 3 @@ 1 :> 2)
Ends == (0 :> 6 @@ 1 :> 8)

None == << >>
=============================================================================
