----------------------------- MODULE FetchStream -----------------------------
(***************************************************************************)
(* What the core may rely on when it fetches: the words it receives are    *)
(* exactly those of one instruction path.  A branch abandons the path at   *)
(* once; a hardware-loop jump abandons it after one more word (the last    *)
(* word of the loop body, at HWLP_END).  Nothing is said of the bus.       *)
(***************************************************************************)
EXTENDS Integers

CONSTANTS WordAddr, NoAddr

VARIABLES word,     \* the word last handed to the aligner
          next,     \* address of the word the core must receive next
          pend      \* loop start that follows `next', or NoAddr

streamVars == <<word, next, pend>>

StreamInit == word = NoAddr /\ next = NoAddr /\ pend = NoAddr

Succ(a) == IF a + 1 \in WordAddr THEN a + 1 ELSE 0

\* pc_set_o: the next word is the target's.
Redirect(t) == next' = t /\ pend' = NoAddr /\ word' = word

\* The core receives the word it must receive; `after' is the loop start that
\* follows it, if any.
Deliver(after) ==
  /\ next # NoAddr
  /\ word' = next
  /\ next' = IF after # NoAddr THEN after ELSE Succ(next)
  /\ pend' = NoAddr

\* hwlp_jump_o: one more word, then the loop start.  That word may be taken in
\* the very cycle of the jump.
LoopJump(t) ==
  /\ next # NoAddr /\ pend = NoAddr
  /\ \/ pend' = t /\ UNCHANGED <<word, next>>
     \/ Deliver(t)

StreamNext ==
  \/ Deliver(pend)
  \/ \E t \in WordAddr : Redirect(t) \/ LoopJump(t)

StreamSpec == StreamInit /\ [][StreamNext]_streamVars
=============================================================================
