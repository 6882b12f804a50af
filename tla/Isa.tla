-------------------------------- MODULE Isa --------------------------------
(***************************************************************************)
(* The program as the controller sees it.  Instructions are 32 bits long   *)
(* and an address counts them.  One of Programs is loaded; Program[a] is the   *)
(* set of instructions that may be met at address a, each time anew; an    *)
(* instruction is what the decoder reports of it: "alu" stands for all     *)
(* that only compute, "mem" for loads and stores, "csr" for those on a CSR *)
(* with side effects (csr_status_o), "setup" for cv.setup, which starts    *)
(* the loop whose body follows it.                                         *)
(***************************************************************************)
EXTENDS Integers

CONSTANTS
  NAddr, NoAddr,
  BootAddr, ExcAddr, IrqAddr,       \* boot_addr_i, mtvec
  HaltAddr, DebugExcAddr,           \* dm_halt_addr_i, dm_exception_addr_i
  JumpTo, BranchTo,                 \* targets of jumps and branches
  TriggerAddr,                      \* tdata2 of an enabled trigger, or NoAddr
  Programs,
  Loops,                            \* hardware loops (COREV_PULP), or none
  LoopStart, LoopEnd,               \* lpstart, lpend of each loop
  Counts                            \* iteration counts programs set

VARIABLE program                    \* which of Programs is loaded

Program == Programs[program]

Addr == 0 .. NAddr - 1
Kinds == {"alu", "mem", "jump", "branch", "csr", "ecall", "ebreak", "illegal",
          "mret", "dret", "wfi", "fencei", "setup"}

\* dcsr.step and stepie: off, interrupts masked, interrupts allowed
Stepping == {"off", "noirq", "irq"}

COREV_PULP == Loops # {}

Sequel(a) == (a + 1) % NAddr

InBody(k, a) == LoopStart[k] <= a /\ a < LoopEnd[k]
IsLast(k, a) == LoopEnd[k] = a + 1
IsLastButOne(k, a) == LoopEnd[k] = a + 2

\* The loop a cv.setup at address a starts.
SetUpAt(a) == {k \in Loops : LoopStart[k] = Sequel(a)}

ASSUME IsaAssumption ==
  /\ NAddr \in Nat \ {0} /\ NoAddr \notin Addr
  /\ {BootAddr, ExcAddr, IrqAddr, HaltAddr, DebugExcAddr, JumpTo, BranchTo}
        \subseteq Addr
  /\ TriggerAddr \in Addr \cup {NoAddr}
  /\ \A p \in DOMAIN Programs : \A a \in Addr :
       Programs[p][a] \subseteq Kinds /\ Programs[p][a] # {}
  /\ \A n \in Counts : n \in Nat

\* The rules for hardware loops (docs/source/corev_hw_loop.rst): at least three
\* instructions, two loops are nested (1 around 0, ending two or more later) or
\* apart, no transfer of control in a body or into it.
ASSUME LoopAssumption ==
  /\ Loops \subseteq {0, 1}
  /\ \A k \in Loops :
       /\ LoopStart[k] \in Addr /\ LoopEnd[k] \in Addr
       /\ LoopEnd[k] - LoopStart[k] >= 3
       /\ \A t \in {BootAddr, ExcAddr, IrqAddr, HaltAddr, DebugExcAddr, JumpTo, BranchTo} :
            ~(LoopStart[k] < t /\ t < LoopEnd[k])
       /\ \A p \in DOMAIN Programs, a \in Addr : InBody(k, a) =>
            Programs[p][a] \subseteq
              {"alu", "mem", "csr", "ecall", "ebreak", "illegal", "setup"}
  /\ Loops = {0, 1} =>
       \/ LoopStart[1] <= LoopStart[0] /\ LoopEnd[1] >= LoopEnd[0] + 2
       \/ LoopEnd[0] <= LoopStart[1]
       \/ LoopEnd[1] <= LoopStart[0]
  /\ \A p \in DOMAIN Programs, a \in Addr :
       "setup" \in Programs[p][a] => SetUpAt(a) # {}

\* ---- sequencing with loop counters lp ------------------------------------
\* The inner loop has the lower number and goes first.
JumpsBack(a, lp) == {k \in Loops : IsLast(k, a) /\ lp[k] > 1}

After(a, lp) ==
  IF 0 \in JumpsBack(a, lp) THEN LoopStart[0]
  ELSE IF 1 \in JumpsBack(a, lp) THEN LoopStart[1]
  ELSE Sequel(a)

Counted(a, lp) ==
  [k \in Loops |-> IF IsLast(k, a) /\ lp[k] > 0 THEN lp[k] - 1 ELSE lp[k]]
=============================================================================
