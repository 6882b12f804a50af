----------------------------- MODULE InstrStream -----------------------------
(***************************************************************************)
(* The instruction stream the ID stage may rely on: instructions arrive in *)
(* program order, each with its own address and its own halfwords, from    *)
(* the target of the last redirection on.                                  *)
(***************************************************************************)
EXTENDS Integers

CONSTANTS NHalves, NoAddr

VARIABLES wide,      \* program text: TRUE where a 32-bit instruction may start
          issued,    \* the instruction last handed to ID: [pc, halves]
          npc,       \* address of the instruction due next
          loopTo     \* loop start that follows it, or NoAddr

instrVars == <<wide, issued, npc, loopTo>>

Halves == 0 .. NHalves - 1

Instruction(a) ==
  [pc |-> a, halves |-> IF wide[a] THEN <<a, (a + 1) % NHalves>> ELSE <<a>>]

InstrInit ==
  /\ wide \in [Halves -> BOOLEAN]
  /\ issued = [pc |-> NoAddr, halves |-> <<>>]
  /\ npc = NoAddr /\ loopTo = NoAddr

Issue(after) ==
  /\ npc # NoAddr
  /\ issued' = Instruction(npc)
  /\ npc' = IF after # NoAddr THEN after
            ELSE (npc + (IF wide[npc] THEN 2 ELSE 1)) % NHalves
  /\ loopTo' = NoAddr

GoTo(t) == npc' = t /\ loopTo' = NoAddr /\ issued' = issued

LoopBack(t) ==
  /\ npc # NoAddr /\ loopTo = NoAddr
  /\ \/ loopTo' = t /\ UNCHANGED <<issued, npc>>
     \/ Issue(t)

InstrNext ==
  /\ \/ Issue(loopTo)
     \/ \E t \in Halves : GoTo(t) \/ LoopBack(t)
  /\ UNCHANGED wide

InstrSpec == InstrInit /\ [][InstrNext]_instrVars
=============================================================================
