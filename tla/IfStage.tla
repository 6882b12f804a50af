------------------------------- MODULE IfStage -------------------------------
(***************************************************************************)
(* cv32e40p_if_stage: the aligner between the fetch interface of the       *)
(* prefetch buffer and the IF/ID pipeline registers.  The prefetch buffer  *)
(* is taken at its specification FetchStream, which PrefetchBuffer is      *)
(* shown to implement; it may withhold a word for as long as it likes.     *)
(***************************************************************************)
EXTENDS Aligner, Sequences

CONSTANT NoAddr

ASSUME NoAddrAssumption == NoAddr \notin Half

VARIABLES
  word, next, pend,                        \* fetch interface (FetchStream)
  instr_valid_id, pc_id, instr_rdata_id,   \* IF/ID registers
  issued, npc, loopTo                      \* history: see InstrStream

Fetch == INSTANCE FetchStream WITH WordAddr <- Word

fetchVars == <<word, next, pend>>
idVars == <<instr_valid_id, pc_id, instr_rdata_id>>
history == <<issued, npc, loopTo>>
vars == <<wide, alignerVars, fetchVars, idVars, history>>

TypeOK ==
  /\ AlignerTypeOK
  /\ word \in Word \cup {NoAddr} /\ next \in Word \cup {NoAddr}
  /\ pend \in Word \cup {NoAddr}
  /\ instr_valid_id \in BOOLEAN
  /\ pc_id \in Half /\ instr_rdata_id \in Half \X Half
  /\ npc \in Half \cup {NoAddr} /\ loopTo \in Half \cup {NoAddr}
  /\ issued \in [pc : Half \cup {NoAddr}, halves : Seq(Half)]

Init ==
  /\ wide \in [Half -> BOOLEAN]
  /\ AlignerInit
  /\ Fetch!StreamInit
  /\ instr_valid_id = FALSE /\ pc_id = 0 /\ instr_rdata_id = <<0, 0>>
  /\ issued = [pc |-> NoAddr, halves |-> <<>>]
  /\ npc = NoAddr /\ loopTo = NoAddr

\* fetch_ready of the offset FSM
FetchReady(in) ==
  in.valid /\ in.redirect # "branch" /\ in.take /\ AlignerReady(in)

\* The word after a jump to halfword address t is the one holding t.
FetchClock(in) ==
  \/ in.redirect = "branch" /\ Fetch!Redirect(in.target \div 2)
  \/ in.redirect = "hwlp" /\ Fetch!LoopJump(in.target \div 2)
       /\ (FetchReady(in) <=> pend' = NoAddr)
  \/ in.redirect = "none" /\ FetchReady(in) /\ Fetch!Deliver(pend)
  \/ in.redirect = "none" /\ ~FetchReady(in) /\ UNCHANGED fetchVars

\* if_valid && instr_valid: the instruction enters ID
Issues(in) == in.take /\ InstrValid(in)

IfIdClock(in) ==
  \/ /\ Issues(in)
     /\ instr_valid_id' = TRUE
     /\ pc_id' = pc_q
     /\ instr_rdata_id' = InstrAligned(in)
  \/ /\ ~Issues(in)
     /\ instr_valid_id' = (instr_valid_id /\ ~in.clear)
     /\ UNCHANGED <<pc_id, instr_rdata_id>>

\* What ID got, and what it is due next.
HistoryClock(in) ==
  LET after == IF in.redirect = "hwlp" THEN in.target ELSE loopTo
      got == InstrAligned(in)
  IN  \/ /\ in.redirect = "branch"
         /\ npc' = in.target /\ loopTo' = NoAddr /\ issued' = issued
      \/ /\ in.redirect # "branch" /\ Issues(in)
         /\ issued' = [pc |-> pc_q,
                       halves |-> IF wide[got[1]] THEN got ELSE <<got[1]>>]
         /\ npc' = IF after # NoAddr THEN after
                   ELSE Plus(npc, IF wide[npc] THEN 2 ELSE 1)
         /\ loopTo' = NoAddr
      \/ /\ in.redirect # "branch" /\ ~Issues(in)
         /\ loopTo' = after
         /\ UNCHANGED <<issued, npc>>

Cycle(in) ==
  /\ AlignerClock(in)
  /\ FetchClock(in)
  /\ IfIdClock(in)
  /\ HistoryClock(in)
  /\ UNCHANGED wide

\* if_valid needs fetch_valid (if_ready); fetch_valid is 0 when branching; the
\* data port shows the word due, once there is one.  The ID stage's id_ready
\* both lets an instruction in and clears the one it has (clear_instr_valid);
\* clear may also come alone (halt_id, branch_taken_ex).
Inputs(redirect, target) ==
  [valid : BOOLEAN, take : BOOLEAN, clear : BOOLEAN, redirect : {redirect},
   target : {target}, data : {IF next \in Word THEN next ELSE 0}]

Allowed(in) ==
  /\ in.take => in.valid /\ in.clear
  /\ in.valid => next # NoAddr

Straight == \E in \in Inputs("none", 0) : Allowed(in) /\ Cycle(in)

\* pc_set_o with any halfword-aligned target (p_branch_halfword_aligned)
Branch ==
  \E t \in Half : \E in \in Inputs("branch", t) :
    ~in.valid /\ Allowed(in) /\ Cycle(in)

\* hwlp_jump_o: the instruction before HWLP_END is in ID, HWLP_END is due, and
\* as the loop rules require the loop is made of 32-bit, word-aligned
\* instructions.
HwlpJump ==
  /\ instr_valid_id /\ npc # NoAddr /\ loopTo = NoAddr
  /\ pc_id % 2 = 0 /\ wide[pc_id] /\ npc = Plus(pc_id, 2) /\ wide[npc]
  /\ \E t \in Word : \E in \in Inputs("hwlp", 2 * t) : Allowed(in) /\ Cycle(in)

Next == Straight \/ Branch \/ HwlpJump

\* The prefetch buffer keeps delivering (FetchProgress of PrefetchBuffer) and
\* the ID stage keeps accepting.
Accept == \E in \in Inputs("none", 0) : Allowed(in) /\ in.take /\ Cycle(in)
Boot == next = NoAddr /\ Branch
Fairness == WF_vars(Boot) /\ WF_vars(Accept)

Spec == Init /\ [][Next]_vars
FairSpec == Spec /\ Fairness

-----------------------------------------------------------------------------
\* The IF stage hands ID the program's instructions: each once, in order, with
\* its own pc and its own bits, across every mixture of 16- and 32-bit
\* instructions, misaligned targets, stalls and loop jumps.
Instrs == INSTANCE InstrStream WITH NHalves <- 2 * NWords
ImplementsInstrStream == Instrs!InstrSpec

\* pc_if_o is the address of the instruction being aligned, also while it is
\* incomplete: exceptions and interrupts taken now save it (csr_save_if_o).
PcIfIsDue == npc # NoAddr => pc_q = npc

\* a_hwlp_update_pc: a loop jump never finds an earlier one still unapplied,
\* whose target it would overwrite.
LoopTargetApplied == hwlp_update_pc_q => loopTo = hwlp_addr_q

\* Instructions keep coming: no alignment state waits for a word it will not be
\* given or holds on to a word for ever.
Issued == \E r \in {"none", "hwlp"} : \E t \in Word : \E in \in Inputs(r, 2 * t) :
  Allowed(in) /\ Issues(in) /\ Cycle(in)
InstrProgress == []<><<Issued \/ Branch>>_vars
=============================================================================
