------------------------------ MODULE Syscalls ------------------------------
(***************************************************************************)
(* example_tb/core/custom/syscalls.c, what newlib calls below printf,      *)
(* malloc and exit.  A call returns a value and may set errno; _sbrk moves *)
(* the break.  _write and _exit access registers and are in HelloWorld.    *)
(***************************************************************************)
EXTENDS Integers

CONSTANTS
  HeapStart, HeapEnd,   \* __heap_start, __heap_end of link.ld
  Called                \* the calls below that the program makes

ASSUME HeapAssumption == HeapStart \in Nat /\ HeapEnd \in Nat /\ HeapStart < HeapEnd

VARIABLES
  errno,
  brk,
  blocks     \* history: the blocks [from, to) that _sbrk handed out

sysVars == <<errno, brk, blocks>>

SysInit == errno = "0" /\ brk = HeapStart /\ blocks = {}

-----------------------------------------------------------------------------
\* The calls that only return a value, with what they store in errno ("" for
\* nothing).
Ret(r, e) == [ret |-> r, errno |-> e]
Fail(e) == Ret(-1, e)

FileCalls == [
  nanosleep |-> Fail("ENOSYS"), access |-> Fail("ENOSYS"), chdir |-> Fail("ENOSYS"),
  chmod |-> Fail("ENOSYS"), chown |-> Fail("ENOSYS"), close |-> Fail(""),
  execve |-> Fail("ENOMEM")]

ProcessCalls == [faccessat |-> Fail("ENOSYS"), fork |-> Fail("EAGAIN")]

StatCalls == [
  fstatat |-> Fail("ENOSYS"), ftime |-> Fail("ENOSYS"), getcwd |-> Ret(0, "-ENOSYS"),
  getpid |-> Ret(1, ""), gettimeofday |-> Fail("-ENOSYS")]

LinkCalls == [
  kill |-> Fail("EINVAL"), link |-> Fail("EMLINK"), lseek |-> Ret(0, ""),
  lstat |-> Fail("ENOSYS"), open |-> Fail(""), openat |-> Fail("ENOSYS"),
  read |-> Ret(0, "")]

TimeCalls == [
  sysconf |-> Fail(""), times |-> Fail(""), unlink |-> Fail("ENOENT"),
  utime |-> Fail("ENOSYS"), wait |-> Fail("ECHILD")]

Tables == {FileCalls, ProcessCalls, StatCalls, LinkCalls, TimeCalls}

Call ==
  /\ \E t \in Tables : \E c \in Called \cap DOMAIN t :
       errno' = IF t[c].errno = "" THEN errno ELSE t[c].errno
  /\ UNCHANGED <<brk, blocks>>

\* _fstat and _stat call every file a character device, _isatty only stdout a
\* terminal: newlib buffers stdout by the line.
STDOUT_FILENO == 1

S_IFCHR == "S_IFCHR"

Fstat(file) == [ret |-> 0, st_mode |-> S_IFCHR]

Isatty(file) == file = STDOUT_FILENO

-----------------------------------------------------------------------------
FaultySbrkTo(incr) == IF brk + incr < HeapEnd THEN brk ELSE HeapEnd

\* The break after _sbrk(incr): the increment is added by the comparison and
\* once more by the assignment.
SbrkTo(incr) == IF brk + incr < HeapEnd THEN brk + incr + incr ELSE HeapEnd

\* _sbrk returns the old break, whatever is left of the heap.
Sbrk(incr) ==
  /\ brk' = SbrkTo(incr)
  /\ blocks' = blocks \cup {[from |-> brk, to |-> brk + incr]}
  /\ UNCHANGED errno

SysNext == Call \/ \E incr \in Nat : Sbrk(incr)

\* The calls of a program that never gives memory back.
SysSpec == SysInit /\ [][SysNext]_sysVars

-----------------------------------------------------------------------------
\* A block with memory in the heap; _sbrk(0) only asks where the break is.
InHeap(b) == HeapStart <= b.from /\ b.from < b.to /\ b.to <= HeapEnd

\* A block of _sbrk that lies in the heap does not overlap any other block: the
\* break never goes back into it, although it goes past the end of the heap and
\* back to it, and nothing tells the caller that the heap is used up.
HeapBlocksDisjoint ==
  \A a, b \in blocks : InHeap(a) /\ a # b => a.to <= b.from \/ b.to <= a.from
=============================================================================
