------------------------------ MODULE Aligner ------------------------------
(***************************************************************************)
(* cv32e40p_aligner: cuts the stream of 32-bit words into 16- and 32-bit   *)
(* instructions and keeps their program counter.                           *)
(*                                                                         *)
(* Addresses are halfword addresses.  A halfword of program text is        *)
(* represented by its address; Wide(h) says that its two low bits are 11,  *)
(* i.e. that an instruction starting there is 32 bits long.  A word w is   *)
(* the pair of halfwords 2w, 2w+1.                                         *)
(*                                                                         *)
(* The inputs of one cycle are a record `in':                              *)
(*   valid    fetch_valid_i         data    the word in fetch_rdata_i      *)
(*   take     if_valid_i            redirect, target   branch_i with       *)
(*            branch_addr_i, or hwlp_update_pc_i with hwlp_addr_i          *)
(*                                                                         *)
(* Operators named Faulty... are slips one could make in this code; they   *)
(* take no part in the specification.                                      *)
(***************************************************************************)
EXTENDS Integers

CONSTANT NWords

ASSUME NWordsAssumption == NWords \in Nat \ {0}

Word == 0 .. NWords - 1
Half == 0 .. 2 * NWords - 1

VARIABLES
  wide,               \* the program text: which halfwords end in 11
  state, r_instr_h, pc_q, hwlp_addr_q, hwlp_update_pc_q, aligner_ready_q

alignerVars ==
  <<state, r_instr_h, pc_q, hwlp_addr_q, hwlp_update_pc_q, aligner_ready_q>>

AlignerTypeOK ==
  /\ wide \in [Half -> BOOLEAN]
  /\ state \in {"ALIGNED32", "MISALIGNED32", "MISALIGNED16", "BRANCH_MISALIGNED"}
  /\ r_instr_h \in Half /\ pc_q \in Half /\ hwlp_addr_q \in Half
  /\ hwlp_update_pc_q \in BOOLEAN /\ aligner_ready_q \in BOOLEAN

AlignerInit ==
  /\ state = "ALIGNED32"
  /\ r_instr_h = 0 /\ pc_q = 0 /\ hwlp_addr_q = 0
  /\ hwlp_update_pc_q = FALSE /\ aligner_ready_q = FALSE

Low(in) == 2 * in.data
High(in) == 2 * in.data + 1

Plus(pc, halves) == (pc + halves) % (2 * NWords)

\* Is the instruction now presented 32 bits long?
Is32(in) ==
  CASE state \in {"ALIGNED32", "MISALIGNED16"} -> wide[Low(in)]
    [] state = "MISALIGNED32" -> wide[r_instr_h]
    [] state = "BRANCH_MISALIGNED" -> wide[High(in)]

\* The held halfword is a whole instruction: the fetched word must wait.
HoldsCompressed(in) == state = "MISALIGNED32" /\ ~Is32(in)

FaultyInstrValid(in) ==
  CASE HoldsCompressed(in) -> TRUE
    [] state = "MISALIGNED16" -> ~aligner_ready_q \/ in.valid
    [] OTHER -> in.valid

InstrValid(in) ==
  CASE HoldsCompressed(in) -> TRUE
    [] state = "MISALIGNED16" -> ~aligner_ready_q \/ in.valid
    [] state = "BRANCH_MISALIGNED" /\ Is32(in) -> FALSE
    [] OTHER -> in.valid

AlignerReady(in) == HoldsCompressed(in) => ~in.valid

\* instr_aligned_o: first and second halfword (the second one matters only for
\* a 32-bit instruction)
InstrAligned(in) ==
  CASE state = "MISALIGNED32" -> <<r_instr_h, Low(in)>>
    [] state = "BRANCH_MISALIGNED" -> <<High(in), High(in)>>
    [] OTHER -> <<Low(in), High(in)>>

FaultyUpdateState(in) == in.take /\ in.valid

UpdateState(in) ==
  \/ in.redirect = "branch"
  \/ /\ in.take
     /\ CASE HoldsCompressed(in) -> TRUE
          [] state = "MISALIGNED16" -> ~aligner_ready_q \/ in.valid
          [] OTHER -> in.valid

FaultyNextState(in) ==
  CASE in.redirect = "branch" ->
         IF in.target % 2 = 1 THEN "BRANCH_MISALIGNED" ELSE "ALIGNED32"
    [] in.redirect # "branch" /\ HoldsCompressed(in) -> "MISALIGNED16"
    [] in.redirect # "branch" /\ ~HoldsCompressed(in) ->
         IF state = "BRANCH_MISALIGNED" /\ Is32(in) THEN state
         ELSE IF state = "MISALIGNED32"
                 \/ (state \in {"ALIGNED32", "MISALIGNED16"} /\ ~Is32(in))
         THEN "MISALIGNED32" ELSE "ALIGNED32"

NextState(in) ==
  CASE in.redirect = "branch" ->
         IF in.target % 2 = 1 THEN "BRANCH_MISALIGNED" ELSE "ALIGNED32"
    [] in.redirect # "branch" /\ HoldsCompressed(in) -> "MISALIGNED16"
    [] in.redirect # "branch" /\ ~HoldsCompressed(in) ->
         IF state = "MISALIGNED32" \/ (state = "BRANCH_MISALIGNED" /\ Is32(in))
              \/ (state \in {"ALIGNED32", "MISALIGNED16"} /\ ~Is32(in))
         THEN "MISALIGNED32" ELSE "ALIGNED32"

FaultyNextPc(in) ==
  CASE in.redirect = "branch" -> in.target
    [] in.redirect # "branch" /\ state = "BRANCH_MISALIGNED" /\ Is32(in) -> pc_q
    [] in.redirect = "hwlp" /\ state = "ALIGNED32" /\ Is32(in) -> in.target
    [] OTHER -> Plus(pc_q, IF Is32(in) THEN 2 ELSE 1)

NextPc(in) ==
  CASE in.redirect = "branch" -> in.target
    [] in.redirect # "branch" /\ state = "BRANCH_MISALIGNED" /\ Is32(in) -> pc_q
    [] in.redirect = "hwlp" /\ state = "ALIGNED32" /\ Is32(in) -> in.target
    [] in.redirect = "none" /\ state = "ALIGNED32" /\ Is32(in)
         /\ hwlp_update_pc_q -> hwlp_addr_q
    [] OTHER -> Plus(pc_q, IF Is32(in) THEN 2 ELSE 1)

AlignerClock(in) ==
  \/ /\ UpdateState(in)
     /\ pc_q' = NextPc(in)
     /\ state' = NextState(in)
     /\ r_instr_h' = High(in)
     /\ aligner_ready_q' = AlignerReady(in)
     /\ hwlp_update_pc_q' = FALSE
     /\ UNCHANGED hwlp_addr_q
  \/ /\ ~UpdateState(in)
     /\ hwlp_update_pc_q' = (hwlp_update_pc_q \/ in.redirect = "hwlp")
     /\ hwlp_addr_q' = IF in.redirect = "hwlp" THEN in.target ELSE hwlp_addr_q
     /\ UNCHANGED <<state, r_instr_h, pc_q, aligner_ready_q>>
=============================================================================
