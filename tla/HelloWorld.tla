----------------------------- MODULE HelloWorld -----------------------------
(***************************************************************************)
(* example_tb/core/custom/hello_world.c on the testbench: main switches    *)
(* the memory stalls on (mem_stall.c), printf, which is newlib's, calls    *)
(* the functions of syscalls.c, and every access goes over the data port   *)
(* of MemStall.  The core holds a request until it is granted and has at   *)
(* most Outstanding accesses without an answer.                            *)
(***************************************************************************)
EXTENDS MemStall, Syscalls, SequencesExt

CONSTANTS
  Text,          \* what main prints
  Sizes,         \* the sizes newlib asks for
  MaxBlocks,     \* the most blocks it asks for
  Outstanding    \* of the load-store unit

ASSUME RamAssumption == HeapStart .. HeapEnd - 1 \subseteq RamAddrs   \* the stack follows the heap
ASSUME NewlibAssumption == Text \in Seq(Nat) /\ Sizes \subseteq Nat

VARIABLES
  pc,
  k,         \* the next store of activate_random_stall, or character
  settings,  \* whose stalls it switches on, "off" without RANDOM_MEM_STALL
  buf,       \* the block that buffers stdout
  char,      \* the character loaded, -1 while it is under way
  scribbled  \* the owner of another block has stored to it

progVars == <<pc, k, settings, buf, char, scribbled>>

vars == <<busVars, sysVars, progVars>>

-----------------------------------------------------------------------------
\* activate_random_stall: the stores to the stall registers, in mem_stall.c
\* and in custom_fp/main.c.
Activate(max, fixed) ==
  << <<1, 1>>, <<0, 1>>,
     <<5, max>>, <<7, fixed>>, <<9, fixed>>,
     <<4, max>>, <<6, fixed>>, <<8, fixed>>,
     <<3, RANDOM>>, <<2, RANDOM>> >>

MemStallStores == Activate(10, 0)
CustomFpStores == Activate(5, 5)

Stores == IF settings = "mem_stall" THEN MemStallStores ELSE CustomFpStores

Request(we, to, addr, data) == [we |-> we, to |-> to, addr |-> addr, data |-> data]

\* The load-store unit has room for one more access.
Room == Len(fifo') < Outstanding

Issue(r) == Room /\ req' = r

ActivateRandomStall ==
  /\ pc = "activate"
  /\ Issue(Request(TRUE, "stall", Stores[k][1], Stores[k][2]))
  /\ IF k = Len(Stores) THEN pc' = "newlib" /\ k' = 1
                      ELSE k' = k + 1 /\ UNCHANGED pc
  /\ UNCHANGED <<settings, buf, char, scribbled, sysVars>>

-----------------------------------------------------------------------------
\* printf: newlib allocates blocks, calls anything else, and at last allocates
\* the buffer of stdout, which fstat has called a character device.
Allocate ==
  /\ pc \in {"newlib", "fill"} /\ Cardinality(blocks) < MaxBlocks
  /\ \E incr \in Sizes : Sbrk(incr)
  /\ req' = << >> /\ UNCHANGED progVars

OtherCall == pc = "newlib" /\ Call /\ req' = << >> /\ UNCHANGED progVars

AllocateBuffer ==
  /\ pc = "newlib" /\ Fstat(STDOUT_FILENO).st_mode = S_IFCHR /\ Isatty(STDOUT_FILENO)
  /\ Sbrk(Len(Text)) /\ buf' = [from |-> brk, to |-> brk + Len(Text)]
  /\ pc' = "fill"
  /\ req' = << >> /\ UNCHANGED <<k, settings, char, scribbled>>

FillBuffer ==
  /\ pc = "fill"
  /\ Issue(Request(TRUE, "ram", buf.from + k - 1, Text[k]))
  /\ IF k = Len(Text) THEN pc' = "load" /\ k' = 1 ELSE k' = k + 1 /\ UNCHANGED pc
  /\ UNCHANGED <<settings, buf, char, scribbled, sysVars>>

\* Another block is written by its owner, once.
Scribble ==
  /\ pc \in {"fill", "load"} /\ ~scribbled /\ scribbled' = TRUE
  /\ \E b \in blocks \ {buf} : \E a \in b.from .. b.to - 1 :
       a \in RamAddrs /\ Issue(Request(TRUE, "ram", a, 0))
  /\ UNCHANGED <<pc, k, settings, buf, char, sysVars>>

-----------------------------------------------------------------------------
\* The answer the program waits for comes in this cycle.
Answered == pc = "store" /\ char = -1 /\ RvalidO /\ ~Head(fifo).we

\* _write(1, buf, len): a load of the character and a store of what it got.
WriteLoad ==
  /\ pc = "load" /\ char' = -1
  /\ Issue(Request(FALSE, "ram", buf.from + k - 1, 0))
  /\ pc' = "store"
  /\ UNCHANGED <<k, settings, buf, scribbled, sysVars>>

WriteStore ==
  /\ pc = "store" /\ char # -1
  /\ Issue(Request(TRUE, "stdout", 0, char))
  /\ IF k = Len(Text) THEN pc' = "exit" /\ k' = 1 ELSE pc' = "load" /\ k' = k + 1
  /\ UNCHANGED <<settings, buf, char, scribbled, sysVars>>

\* The answer of the load.
Loaded ==
  /\ Answered /\ char' = RdataO
  /\ req' = << >> /\ UNCHANGED <<pc, k, settings, buf, scribbled, sysVars>>

\* _exit: the testbench ends the simulation, the core executes wfi.
Exit ==
  /\ pc = "exit"
  /\ Issue(Request(TRUE, "exit", 0, 0))
  /\ pc' = "wfi"
  /\ UNCHANGED <<k, settings, buf, char, scribbled, sysVars>>

-----------------------------------------------------------------------------
\* What the core does in a cycle: it holds a request that was not granted and
\* takes the answer it waits for, otherwise it takes the next step or waits.
Blocked == req # << >> /\ ~Granted

Hold == Blocked /\ UNCHANGED <<req, sysVars, progVars>>

Program ==
  \/ ActivateRandomStall \/ Allocate \/ OtherCall \/ AllocateBuffer \/ FillBuffer
  \/ Scribble \/ WriteLoad \/ WriteStore \/ Exit

Step == ~Blocked /\ Program

Idle == ~Blocked /\ ~Answered /\ req' = << >> /\ UNCHANGED <<sysVars, progVars>>

\* A cycle, until the exit register has been written.
Cycle(core) == ~exited /\ BusEdge(core)

Finished == exited /\ UNCHANGED vars

Init ==
  /\ BusInit /\ SysInit
  /\ settings \in {"off", "mem_stall", "custom_fp"}
  /\ pc = (IF settings = "off" THEN "newlib" ELSE "activate")
  /\ k = 1 /\ buf = [from |-> 0, to |-> 0] /\ char = -1 /\ scribbled = FALSE

Next == Cycle(Hold \/ Loaded \/ Step \/ Idle) \/ Finished

\* The clock runs, the core does not wait for ever with a next step at hand,
\* and newlib gets to the buffer.
Fairness ==
  /\ WF_vars(Next)
  /\ WF_vars(Cycle(Step))
  /\ WF_vars(Cycle(~Blocked /\ AllocateBuffer))

Spec == Init /\ [][Next]_vars /\ Fairness

-----------------------------------------------------------------------------
\* The testbench prints the text of main (hello_world.c, _write): each
\* character once and in order whatever the stalls, although the requests are
\* decoded in every cycle they last, and nothing is missing when the exit
\* register ends the simulation.  It depends on the heap too: a buffer that lies
\* in it is not the memory of another block.
PrintsText == InHeap(buf) => IsPrefix(stdout, Text) /\ (exited => stdout = Text)

\* The program gets to the exit register: no grant and no answer is lost when
\* the stalls are switched on under way.
Exits == <>exited
=============================================================================
