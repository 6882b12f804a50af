--------------------------- MODULE IfStageProofs ---------------------------
(***************************************************************************)
(* The IF stage implements InstrStream, whatever the program text and its  *)
(* size.                                                                   *)
(***************************************************************************)
EXTENDS IfStage, TLAPS

\* Nothing is fetched before the first branch.
BeforeBoot ==
  next = NoAddr => npc = NoAddr /\ state = "ALIGNED32" /\ pend = NoAddr

\* Which halfword the instruction due begins with, given the word due: its low
\* one, its high one, or the one held from the word before.
Position ==
  next # NoAddr =>
    /\ npc = pc_q
    /\ state \in {"ALIGNED32", "MISALIGNED16"} => pc_q = 2 * next
    /\ state = "BRANCH_MISALIGNED" => pc_q = 2 * next + 1
    /\ state = "MISALIGNED32" =>
         pc_q % 2 = 1 /\ r_instr_h = pc_q /\ 2 * next = Plus(pc_q, 1)

\* MISALIGNED16 comes with a compressed instruction from an odd address.
AfterHeld ==
  state = "MISALIGNED16" => ~aligner_ready_q /\ npc = Plus(pc_id, 1)

\* A loop jump that waits for the last instruction of the loop.
LoopPending ==
  IF hwlp_update_pc_q
  THEN /\ pend \in Word /\ hwlp_addr_q = 2 * pend /\ loopTo = hwlp_addr_q
       /\ state = "ALIGNED32" /\ wide[npc]
  ELSE pend = NoAddr /\ loopTo = NoAddr

IInv == TypeOK /\ BeforeBoot /\ Position /\ AfterHeld /\ LoopPending

-----------------------------------------------------------------------------
\* What the rest of the core may do in a cycle: the three actions of Next.
Given(in) ==
  /\ {in.valid, in.take, in.clear} \subseteq BOOLEAN
  /\ in.data = (IF next \in Word THEN next ELSE 0)
  /\ Allowed(in)
  /\ \/ in.redirect = "none"
     \/ in.redirect = "branch" /\ in.target \in Half /\ ~in.valid
     \/ /\ in.redirect = "hwlp" /\ \E t \in Word : in.target = 2 * t
        /\ npc # NoAddr /\ loopTo = NoAddr
        /\ pc_id % 2 = 0 /\ npc = Plus(pc_id, 2) /\ wide[npc]

\* Straight fetching, a branch and a loop jump are all one clock edge of the
\* IF stage with such inputs.
LEMMA StepIsCycle ==
  ASSUME Next
  PROVE  \E in : Given(in) /\ Cycle(in)
<1>1. CASE Straight
  <2>1. PICK in \in Inputs("none", 0) : Allowed(in) /\ Cycle(in)
    BY <1>1 DEF Straight
  <2>2. Given(in)
    BY <2>1 DEF Given, Inputs
  <2> QED BY <2>1, <2>2
<1>2. CASE Branch
  <2>0. PICK t \in Half : \E in \in Inputs("branch", t) : ~in.valid /\ Allowed(in) /\ Cycle(in)
    BY <1>2 DEF Branch
  <2>1. PICK in \in Inputs("branch", t) : ~in.valid /\ Allowed(in) /\ Cycle(in)
    BY <2>0
  <2>2. Given(in)
    BY <2>1 DEF Given, Inputs
  <2> QED BY <2>1, <2>2
<1>3. CASE HwlpJump
  <2>0. PICK t \in Word : \E in \in Inputs("hwlp", 2 * t) : Allowed(in) /\ Cycle(in)
    BY <1>3 DEF HwlpJump
  <2>1. PICK in \in Inputs("hwlp", 2 * t) : Allowed(in) /\ Cycle(in)
    BY <2>0
  <2>2. Given(in)
    BY <2>1, <1>3 DEF Given, Inputs, HwlpJump
  <2> QED BY <2>1, <2>2
<1> QED BY <1>1, <1>2, <1>3 DEF Next

\* Addresses wrap around at the end of the program text.
LEMMA PlusWraps ==
  ASSUME NEW a \in Half, NEW n \in {1, 2}
  PROVE  /\ Plus(a, n) = IF a + n < 2 * NWords THEN a + n ELSE a + n - 2 * NWords
         /\ Plus(a, n) \in Half
<1>1. NWords \in Nat /\ NWords >= 1
  BY NWordsAssumption
<1> DEFINE N == 2 * NWords
<1>2. N \in Nat /\ N >= 2 /\ a \in 0 .. N - 1 /\ a + n \in Nat /\ a + n < 2 * N
  BY <1>1 DEF Half
<1> HIDE DEF N
<1>3. \A x \in Nat : x < N => x % N = x
  BY <1>2
<1>4. \A x \in Nat : N <= x /\ x < 2 * N => x % N = x - N
  BY <1>2
<1>5. Plus(a, n) = (a + n) % N
  BY DEF Plus, N
<1>6. Plus(a, n) = IF a + n < N THEN a + n ELSE a + n - N
  BY <1>2, <1>3, <1>4, <1>5
<1>7. Plus(a, n) \in 0 .. N - 1
  BY <1>2, <1>6
<1> QED BY <1>6, <1>7 DEF N, Half

\* The halfwords of a word.
LEMMA WordsAndHalves ==
  /\ Word \subseteq Half /\ NoAddr \notin Word
  /\ \A w \in Word : 2 * w \in Half /\ 2 * w + 1 \in Half
BY NWordsAssumption, NoAddrAssumption DEF Word, Half

\* The fetch interface and the pc go from one word to the next alike.
LEMMA NextWord ==
  ASSUME NEW w \in Word
  PROVE  /\ Fetch!Succ(w) \in Word
         /\ Plus(2 * w, 1) = 2 * w + 1 /\ Plus(2 * w, 2) = 2 * Fetch!Succ(w)
         /\ Plus(2 * w + 1, 1) = 2 * Fetch!Succ(w)
         /\ Plus(2 * w + 1, 2) = 2 * Fetch!Succ(w) + 1
<1>1. NWords \in Nat /\ NWords >= 1 /\ w \in 0 .. NWords - 1
  BY NWordsAssumption DEF Word
<1>2. 2 * w \in Half /\ 2 * w + 1 \in Half
  BY WordsAndHalves
<1>3. Fetch!Succ(w) = IF w + 1 < NWords THEN w + 1 ELSE 0
  BY <1>1 DEF Fetch!Succ, Word
<1>4. /\ Plus(2 * w, 1) = IF 2 * w + 1 < 2 * NWords THEN 2 * w + 1 ELSE 2 * w + 1 - 2 * NWords
      /\ Plus(2 * w, 2) = IF 2 * w + 2 < 2 * NWords THEN 2 * w + 2 ELSE 2 * w + 2 - 2 * NWords
  BY <1>2, PlusWraps
<1>5. /\ Plus(2 * w + 1, 1) = IF 2 * w + 1 + 1 < 2 * NWords THEN 2 * w + 1 + 1 ELSE 2 * w + 1 + 1 - 2 * NWords
      /\ Plus(2 * w + 1, 2) = IF 2 * w + 1 + 2 < 2 * NWords THEN 2 * w + 1 + 2 ELSE 2 * w + 1 + 2 - 2 * NWords
  BY <1>2, PlusWraps
<1> QED BY <1>1, <1>3, <1>4, <1>5 DEF Word

\* What the handshakes come to when there is no branch.
LEMMA Handshakes ==
  ASSUME TypeOK, NEW in, Given(in), in.redirect # "branch"
  PROVE  /\ UpdateState(in) <=> in.take
         /\ Issues(in) <=> in.take /\ ~(state = "BRANCH_MISALIGNED" /\ wide[High(in)])
         /\ FetchReady(in) <=> in.take /\ ~(state = "MISALIGNED32" /\ ~wide[r_instr_h])
         /\ in.take => next \in Word /\ in.data = next
BY DEF TypeOK, AlignerTypeOK, Given, Allowed, UpdateState, Issues, InstrValid, Is32,
       HoldsCompressed, FetchReady, AlignerReady

-----------------------------------------------------------------------------
\* The flip-flops of aligner, fetch interface and IF/ID registers keep their types.
LEMMA TypeKept ==
  ASSUME IInv, NEW in, Given(in), Cycle(in)
  PROVE  TypeOK'
<1>0. TypeOK
  BY DEF IInv
<1>1. /\ in.data \in Word /\ Low(in) \in Half /\ High(in) \in Half
      /\ in.redirect # "none" => in.target \in Half /\ in.target \div 2 \in Word
  <2>1. NWords \in Nat /\ NWords >= 1
    BY NWordsAssumption
  <2> QED BY <1>0, <2>1 DEF Given, TypeOK, Word, Half, Low, High
<1>2. NextPc(in) \in Half
  <2>1. /\ pc_q \in Half /\ hwlp_addr_q \in Half
    BY <1>0 DEF TypeOK, AlignerTypeOK
  <2>2. Plus(pc_q, IF Is32(in) THEN 2 ELSE 1) \in Half
    BY <2>1, PlusWraps
  <2> QED BY <1>1, <2>1, <2>2 DEF NextPc, Given
<1>3. UpdateState(in) => NextState(in) \in {"ALIGNED32", "MISALIGNED32", "MISALIGNED16", "BRANCH_MISALIGNED"}
  BY DEF NextState
<1>4. AlignerTypeOK'
  BY <1>0, <1>1, <1>2, <1>3 DEF TypeOK, AlignerTypeOK, Cycle, AlignerClock, AlignerReady, Given
<1>5. word' \in Word \cup {NoAddr} /\ next' \in Word \cup {NoAddr} /\ pend' \in Word \cup {NoAddr}
  <2>1. /\ word \in Word \cup {NoAddr} /\ next \in Word \cup {NoAddr}
        /\ pend \in Word \cup {NoAddr}
    BY <1>0 DEF TypeOK
  <2>2. Fetch!Succ(next) \in Word
    BY NWordsAssumption DEF Fetch!Succ, Word
  <2>3. ASSUME NEW after \in Word \cup {NoAddr}, Fetch!Deliver(after)
        PROVE  word' \in Word \cup {NoAddr} /\ next' \in Word \cup {NoAddr} /\ pend' = NoAddr
    BY <2>1, <2>2, <2>3 DEF Fetch!Deliver
  <2>4. CASE in.redirect = "branch"
    BY <1>1, <2>1, <2>4 DEF Cycle, FetchClock, Fetch!Redirect
  <2>5. CASE in.redirect = "hwlp"
    BY <1>1, <2>1, <2>3, <2>5 DEF Cycle, FetchClock, Fetch!LoopJump
  <2>6. CASE in.redirect = "none"
    BY <2>1, <2>3, <2>6 DEF Cycle, FetchClock, fetchVars
  <2> QED BY <2>4, <2>5, <2>6 DEF Given
<1>6. InstrAligned(in) \in Half \X Half
  BY <1>0, <1>1 DEF InstrAligned, TypeOK, AlignerTypeOK
<1>7. instr_valid_id' \in BOOLEAN /\ pc_id' \in Half /\ instr_rdata_id' \in Half \X Half
  BY <1>0, <1>6 DEF TypeOK, AlignerTypeOK, Cycle, IfIdClock, Given
<1>8. npc' \in Half \cup {NoAddr} /\ loopTo' \in Half \cup {NoAddr}
  <2>1. npc \in Half => Plus(npc, IF wide[npc] THEN 2 ELSE 1) \in Half
    BY PlusWraps
  <2>2. Issues(in) => npc \in Half
    BY <1>0, NoAddrAssumption DEF IInv, Position, Issues, Given, Allowed, TypeOK, AlignerTypeOK
  <2> QED BY <1>0, <1>1, <2>1, <2>2 DEF TypeOK, Cycle, HistoryClock, Given
<1>9. issued' \in [pc : Half \cup {NoAddr}, halves : Seq(Half)]
  <2>1. PICK a \in Half, b \in Half : InstrAligned(in) = <<a, b>>
    BY <1>6
  <2>2. <<a>> \in Seq(Half) /\ <<a, b>> \in Seq(Half)
    OBVIOUS
  <2>3. issued' = issued \/ issued' = [pc |-> pc_q, halves |-> <<a, b>>]
          \/ issued' = [pc |-> pc_q, halves |-> <<a>>]
    BY <2>1 DEF Cycle, HistoryClock
  <2>4. issued \in [pc : Half \cup {NoAddr}, halves : Seq(Half)] /\ pc_q \in Half
    BY <1>0 DEF TypeOK, AlignerTypeOK
  <2>5. ASSUME NEW s \in Seq(Half)
        PROVE  [pc |-> pc_q, halves |-> s] \in [pc : Half \cup {NoAddr}, halves : Seq(Half)]
    BY <2>4
  <2>6. CASE issued' = issued
    BY <2>4, <2>6
  <2>7. CASE issued' = [pc |-> pc_q, halves |-> <<a, b>>]
    BY <2>2, <2>5, <2>7, Zenon
  <2>8. CASE issued' = [pc |-> pc_q, halves |-> <<a>>]
    BY <2>2, <2>5, <2>8, Zenon
  <2> QED BY <2>3, <2>6, <2>7, <2>8
<1> QED BY <1>4, <1>5, <1>7, <1>8, <1>9 DEF TypeOK

-----------------------------------------------------------------------------
\* A loop jump comes with a whole 32-bit instruction in the fetched word.
LEMMA LoopJumpAligned ==
  ASSUME IInv, NEW in, Given(in), in.redirect = "hwlp"
  PROVE  /\ state = "ALIGNED32" /\ ~hwlp_update_pc_q /\ next \in Word
         /\ pend = NoAddr /\ wide[pc_q] /\ npc = pc_q
         /\ in.target \div 2 \in Word /\ in.target = 2 * (in.target \div 2)
<1>1. TypeOK /\ BeforeBoot /\ Position /\ AfterHeld /\ LoopPending
  BY DEF IInv
<1>2. PICK t \in Word : in.target = 2 * t
  BY DEF Given
<1>3. NWords \in Nat /\ NWords >= 1
  BY NWordsAssumption
<1>4. in.target \div 2 \in Word /\ in.target = 2 * (in.target \div 2)
  BY <1>2, <1>3 DEF Word
<1>5. next \in Word /\ npc = pc_q /\ pc_q \in Half /\ wide[pc_q] /\ loopTo = NoAddr
  BY <1>1 DEF Given, BeforeBoot, Position, TypeOK, AlignerTypeOK
<1>6. pc_id \in Half /\ pc_id % 2 = 0 /\ npc = Plus(pc_id, 2)
  BY <1>1 DEF Given, TypeOK
<1>7. Plus(pc_id, 2) = IF pc_id + 2 < 2 * NWords THEN pc_id + 2 ELSE pc_id + 2 - 2 * NWords
  BY <1>6, PlusWraps
<1>8. Plus(pc_id, 1) = IF pc_id + 1 < 2 * NWords THEN pc_id + 1 ELSE pc_id + 1 - 2 * NWords
  BY <1>6, PlusWraps
<1>9. pc_q % 2 = 0 /\ npc # Plus(pc_id, 1)
  BY <1>3, <1>5, <1>6, <1>7, <1>8 DEF Half
<1>10. state \in {"ALIGNED32", "MISALIGNED32", "MISALIGNED16", "BRANCH_MISALIGNED"}
  BY <1>1 DEF TypeOK, AlignerTypeOK
<1>11. state # "MISALIGNED16"
  BY <1>1, <1>9 DEF AfterHeld
<1>12. next # NoAddr
  BY <1>1, <1>5 DEF Given, BeforeBoot
<1>13. state # "MISALIGNED32"
  BY <1>1, <1>9, <1>12 DEF Position
<1>14. state # "BRANCH_MISALIGNED"
  <2>1. state = "BRANCH_MISALIGNED" => pc_q = 2 * next + 1
    BY <1>1, <1>12 DEF Position
  <2> QED BY <2>1, <1>3, <1>5, <1>9 DEF Word
<1>15. ~hwlp_update_pc_q
  <2>1. Word \subseteq Half /\ \A w \in Word : 2 * w \in Half
    BY <1>3 DEF Word, Half
  <2> QED BY <1>1, <1>5, <2>1, NoAddrAssumption DEF LoopPending
<1>16. pend = NoAddr
  BY <1>1, <1>15 DEF LoopPending
<1> QED BY <1>4, <1>5, <1>10, <1>11, <1>13, <1>14, <1>15, <1>16

\* A branch starts over.
LEMMA BranchStartsOver ==
  ASSUME IInv, NEW in, Given(in), Cycle(in), in.redirect = "branch"
  PROVE  IInv' /\ Instrs!InstrNext
<1>1. TypeOK' /\ TypeOK
  BY TypeKept DEF IInv
<1>2. in.target \in Half
  BY DEF Given
<1>3. NWords \in Nat /\ NWords >= 1
  BY NWordsAssumption
<1>4. /\ in.target \div 2 \in Word
      /\ in.target % 2 = 1 => in.target = 2 * (in.target \div 2) + 1
      /\ in.target % 2 # 1 => in.target = 2 * (in.target \div 2)
  BY <1>2, <1>3 DEF Half, Word
<1>5. UpdateState(in)
  BY DEF UpdateState
<1>6. pc_q' = in.target /\ ~hwlp_update_pc_q'
  BY <1>5 DEF Cycle, AlignerClock, NextPc
<1>7. state' = IF in.target % 2 = 1 THEN "BRANCH_MISALIGNED" ELSE "ALIGNED32"
  BY <1>5 DEF Cycle, AlignerClock, NextState
<1>8. next' = in.target \div 2 /\ pend' = NoAddr
  BY DEF Cycle, FetchClock, Fetch!Redirect
<1>9. npc' = in.target /\ loopTo' = NoAddr /\ issued' = issued
  BY DEF Cycle, HistoryClock
<1>10. next' # NoAddr
  BY <1>3, <1>4, <1>8, NoAddrAssumption DEF Word, Half
<1>11. BeforeBoot' /\ AfterHeld' /\ LoopPending'
  BY <1>6, <1>7, <1>8, <1>9, <1>10 DEF BeforeBoot, AfterHeld, LoopPending
<1>12. Position'
  BY <1>4, <1>6, <1>7, <1>8, <1>9 DEF Position
<1>13. Instrs!InstrNext
  BY <1>2, <1>9 DEF Instrs!InstrNext, Instrs!GoTo, Instrs!Halves, Half, Cycle
<1> QED BY <1>1, <1>11, <1>12, <1>13 DEF IInv

\* ID takes nothing: only a loop jump is noted.
LEMMA Waits ==
  ASSUME IInv, NEW in, Given(in), Cycle(in), in.redirect # "branch", ~in.take
  PROVE  IInv' /\ [Instrs!InstrNext]_(Instrs!instrVars)
<1>1. TypeOK' /\ TypeOK
  BY TypeKept DEF IInv
<1>2. ~UpdateState(in) /\ ~Issues(in) /\ ~FetchReady(in)
  BY <1>1, Handshakes
<1>3. /\ UNCHANGED <<wide, state, r_instr_h, pc_q, aligner_ready_q, pc_id>>
      /\ hwlp_update_pc_q' = (hwlp_update_pc_q \/ in.redirect = "hwlp")
      /\ hwlp_addr_q' = IF in.redirect = "hwlp" THEN in.target ELSE hwlp_addr_q
  BY <1>2 DEF Cycle, AlignerClock, IfIdClock
<1>4. /\ UNCHANGED <<issued, npc>>
      /\ loopTo' = IF in.redirect = "hwlp" THEN in.target ELSE loopTo
  BY <1>2 DEF Cycle, HistoryClock
<1>5. CASE in.redirect = "none"
  <2>1. UNCHANGED <<next, pend>>
    BY <1>2, <1>5 DEF Cycle, FetchClock, fetchVars
  <2>2. UNCHANGED <<hwlp_update_pc_q, hwlp_addr_q, loopTo>>
    BY <1>1, <1>3, <1>4, <1>5 DEF TypeOK, AlignerTypeOK
  <2>3. BeforeBoot' /\ AfterHeld'
    BY <1>3, <1>4, <2>1 DEF IInv, BeforeBoot, AfterHeld
  <2>4. Position'
    BY <1>3, <1>4, <2>1 DEF IInv, Position
  <2>5. LoopPending'
    BY <1>3, <1>4, <2>1, <2>2 DEF IInv, LoopPending
  <2> QED BY <1>1, <1>3, <1>4, <2>2, <2>3, <2>4, <2>5 DEF IInv, Instrs!instrVars
<1>6. CASE in.redirect = "hwlp"
  <2>1. /\ state = "ALIGNED32" /\ next \in Word /\ wide[pc_q] /\ npc = pc_q
        /\ in.target \div 2 \in Word /\ in.target = 2 * (in.target \div 2)
    BY <1>6, LoopJumpAligned
  <2>2. pend' # NoAddr
    BY <1>2, <1>6 DEF Cycle, FetchClock
  <2>3. pend' = in.target \div 2 /\ UNCHANGED next
    BY <1>6, <2>2 DEF Cycle, FetchClock, Fetch!LoopJump, Fetch!Deliver
  <2>4. BeforeBoot' /\ Position' /\ AfterHeld' /\ LoopPending'
    <3>1. BeforeBoot' /\ AfterHeld'
      BY <1>3, <1>4, <2>1, <2>3, WordsAndHalves DEF IInv, BeforeBoot, AfterHeld
    <3>2. Position'
      BY <1>3, <1>4, <2>1, <2>3 DEF IInv, Position
    <3>3. LoopPending'
      BY <1>3, <1>4, <1>6, <2>1, <2>3 DEF IInv, LoopPending
    <3> QED BY <3>1, <3>2, <3>3
  <2>5. npc # NoAddr /\ loopTo = NoAddr /\ in.target \in Half
    BY <1>1, <1>6, <2>1, NWordsAssumption DEF Given, Half, Word
  <2>6. Instrs!InstrNext
    BY <1>3, <1>4, <1>6, <2>5 DEF Instrs!InstrNext, Instrs!LoopBack, Instrs!Halves, Half
  <2> QED BY <1>1, <2>4, <2>6 DEF IInv
<1> QED BY <1>5, <1>6 DEF Given

-----------------------------------------------------------------------------
\* ID is ready: what the aligner and the fetch interface do.
LEMMA Taken ==
  ASSUME IInv, NEW in, Given(in), Cycle(in), in.redirect # "branch", in.take
  PROVE  /\ next \in Word /\ in.data = next /\ in.valid
         /\ npc = pc_q /\ pc_q \in Half
         /\ pc_q' = NextPc(in) /\ state' = NextState(in)
         /\ r_instr_h' = 2 * next + 1 /\ aligner_ready_q' = AlignerReady(in)
         /\ ~hwlp_update_pc_q' /\ UNCHANGED wide
<1>1. TypeOK
  BY DEF IInv
<1>2. UpdateState(in) /\ next \in Word /\ in.data = next
  BY <1>1, Handshakes
<1>3. in.valid
  BY DEF Given, Allowed
<1>4. npc = pc_q /\ pc_q \in Half
  BY <1>1, <1>2, WordsAndHalves DEF IInv, Position, TypeOK, AlignerTypeOK
<1>5. /\ pc_q' = NextPc(in) /\ state' = NextState(in) /\ r_instr_h' = High(in)
      /\ aligner_ready_q' = AlignerReady(in) /\ ~hwlp_update_pc_q'
  BY <1>2 DEF Cycle, AlignerClock
<1>6. UNCHANGED wide
  BY DEF Cycle
<1> QED BY <1>2, <1>3, <1>4, <1>5, <1>6 DEF High

\* The loop start that follows, as a word.
LoopWord(in) == IF in.redirect = "hwlp" THEN in.target \div 2 ELSE pend

\* The fetch interface moves on to the loop start that waits, or else to the
\* word that follows (FetchReady).
LEMMA TakesWord ==
  ASSUME IInv, NEW in, Given(in), Cycle(in), in.redirect # "branch", FetchReady(in)
  PROVE  /\ next' = IF LoopWord(in) # NoAddr THEN LoopWord(in) ELSE Fetch!Succ(next)
         /\ pend' = NoAddr
<1>1. CASE in.redirect = "none"
  BY <1>1 DEF Cycle, FetchClock, Fetch!Deliver, LoopWord
<1>2. CASE in.redirect = "hwlp"
  <2>1. in.target \div 2 \in Word
    BY <1>2, LoopJumpAligned
  <2>2. pend' = NoAddr
    BY <1>2 DEF Cycle, FetchClock
  <2>3. Fetch!Deliver(in.target \div 2)
    BY <1>2, <2>1, <2>2, WordsAndHalves DEF Cycle, FetchClock, Fetch!LoopJump
  <2> QED BY <1>2, <2>2, <2>3 DEF Fetch!Deliver, LoopWord
<1> QED BY <1>1, <1>2 DEF Given

\* The loop start that follows, as an address.
LoopAddr(in) == IF in.redirect = "hwlp" THEN in.target ELSE loopTo

\* An instruction that enters ID with the right bits is one step of the stream.
LEMMA IssuesNext ==
  ASSUME IInv, NEW in, Given(in), Cycle(in), in.redirect # "branch", Issues(in),
         NEW second, InstrAligned(in) = <<pc_q, second>>,
         wide[pc_q] => second = Plus(pc_q, 1)
  PROVE  /\ npc' = IF LoopAddr(in) # NoAddr THEN LoopAddr(in)
                   ELSE Plus(npc, IF wide[npc] THEN 2 ELSE 1)
         /\ loopTo' = NoAddr /\ pc_id' = pc_q
         /\ Instrs!InstrNext
<1>1. in.take
  BY DEF Issues
<1>2. npc = pc_q /\ pc_q \in Half /\ UNCHANGED wide
  BY <1>1, Taken
<1>3. /\ npc' = IF LoopAddr(in) # NoAddr THEN LoopAddr(in)
                ELSE Plus(npc, IF wide[npc] THEN 2 ELSE 1)
      /\ loopTo' = NoAddr
  BY DEF Cycle, HistoryClock, LoopAddr
<1>4. pc_id' = pc_q
  BY DEF Cycle, IfIdClock
<1>5. issued' = Instrs!Instruction(npc)
  <2>1. issued' = [pc |-> pc_q, halves |-> IF wide[pc_q] THEN <<pc_q, second>> ELSE <<pc_q>>]
    BY DEF Cycle, HistoryClock
  <2>2. CASE wide[pc_q]
    BY <1>2, <2>1, <2>2 DEF Instrs!Instruction, Plus
  <2>3. CASE ~wide[pc_q]
    BY <1>2, <2>1, <2>3 DEF Instrs!Instruction
  <2> QED BY <2>2, <2>3
<1>6. npc # NoAddr
  BY <1>2, NoAddrAssumption
<1>7. Instrs!Issue(LoopAddr(in))
  BY <1>3, <1>5, <1>6 DEF Instrs!Issue, Plus
<1>8. ASSUME in.redirect = "none" PROVE Instrs!InstrNext
  <2>1. LoopAddr(in) = loopTo
    BY <1>8 DEF LoopAddr
  <2>2. Instrs!Issue(loopTo)
    BY <1>7, <2>1
  <2> QED BY <1>2, <2>2 DEF Instrs!InstrNext
<1>9. ASSUME in.redirect = "hwlp" PROVE Instrs!InstrNext
  <2>1. in.target \in Half /\ loopTo = NoAddr
    BY <1>9, WordsAndHalves DEF Given
  <2>2. Instrs!Issue(in.target)
    BY <1>7, <1>9 DEF LoopAddr
  <2>3. Instrs!LoopBack(in.target)
    BY <1>6, <2>1, <2>2 DEF Instrs!LoopBack
  <2> QED BY <1>2, <2>1, <2>3 DEF Instrs!InstrNext, Instrs!Halves, Half
<1> QED BY <1>3, <1>4, <1>8, <1>9 DEF Given

-----------------------------------------------------------------------------
\* The instruction starts with the low half of the word.
LEMMA TakesLowHalf ==
  ASSUME IInv, NEW in, Given(in), Cycle(in), in.redirect # "branch", in.take,
         state \in {"ALIGNED32", "MISALIGNED16"}
  PROVE  IInv' /\ Instrs!InstrNext
<1>1. TypeOK /\ TypeOK' /\ Position /\ LoopPending
  BY TypeKept DEF IInv
<1>2. /\ next \in Word /\ in.data = next /\ npc = pc_q /\ pc_q \in Half /\ pc_q = 2 * next
      /\ r_instr_h' = 2 * next + 1 /\ ~hwlp_update_pc_q' /\ UNCHANGED wide
  BY <1>1, Taken, WordsAndHalves DEF Position
<1>3. Is32(in) = wide[pc_q] /\ ~HoldsCompressed(in)
  BY <1>2 DEF Is32, HoldsCompressed, Low
<1>4. Issues(in) /\ FetchReady(in)
  BY <1>1, Handshakes
<1>5. InstrAligned(in) = <<pc_q, 2 * next + 1>>
  BY <1>2 DEF InstrAligned, Low, High
<1>6. /\ npc' = IF LoopAddr(in) # NoAddr THEN LoopAddr(in)
                ELSE Plus(npc, IF wide[npc] THEN 2 ELSE 1)
      /\ loopTo' = NoAddr /\ Instrs!InstrNext
  BY <1>2, <1>4, <1>5, NextWord, IssuesNext
<1>7. /\ next' = IF LoopWord(in) # NoAddr THEN LoopWord(in) ELSE Fetch!Succ(next)
      /\ pend' = NoAddr
  BY <1>4, TakesWord
<1>8. state' = IF wide[pc_q] THEN "ALIGNED32" ELSE "MISALIGNED32"
  BY <1>3, Taken DEF NextState
<1>9. LoopAddr(in) # NoAddr =>
        /\ state = "ALIGNED32" /\ wide[pc_q]
        /\ LoopWord(in) \in Word /\ LoopAddr(in) = 2 * LoopWord(in)
  <2>1. CASE in.redirect = "hwlp"
    BY <2>1, LoopJumpAligned DEF LoopAddr, LoopWord
  <2>2. CASE in.redirect = "none"
    BY <1>1, <1>2, <2>2 DEF LoopAddr, LoopWord, LoopPending
  <2> QED BY <2>1, <2>2 DEF Given
<1>10. LoopAddr(in) = NoAddr => LoopWord(in) = NoAddr /\ in.redirect = "none" /\ ~hwlp_update_pc_q
  <2>1. CASE in.redirect = "hwlp"
    <3>1. in.target \in Half
      BY <2>1, WordsAndHalves DEF Given
    <3> QED BY <2>1, <3>1, NoAddrAssumption DEF LoopAddr
  <2>2. CASE in.redirect = "none"
    <3>1. loopTo = NoAddr => ~hwlp_update_pc_q /\ pend = NoAddr
      BY <1>1, WordsAndHalves, NoAddrAssumption DEF LoopPending
    <3> QED BY <2>2, <3>1 DEF LoopAddr, LoopWord
  <2> QED BY <2>1, <2>2 DEF Given
<1>11. pc_q' = npc'
  <2>1. pc_q' = NextPc(in)
    BY Taken
  <2>2. CASE in.redirect = "hwlp"
    <3>1. NextPc(in) = in.target
      BY <1>3, <2>2, LoopJumpAligned DEF NextPc
    <3>2. LoopAddr(in) = in.target /\ LoopAddr(in) # NoAddr
      BY <1>10, <2>2 DEF LoopAddr
    <3> QED BY <1>6, <2>1, <3>1, <3>2
  <2>3. CASE in.redirect = "none" /\ hwlp_update_pc_q
    <3>1. LoopAddr(in) # NoAddr /\ LoopAddr(in) = hwlp_addr_q
      BY <1>1, <1>10, <2>3 DEF LoopAddr, LoopPending
    <3>2. NextPc(in) = hwlp_addr_q
      BY <1>3, <1>9, <2>3, <3>1 DEF NextPc
    <3> QED BY <1>6, <2>1, <3>1, <3>2
  <2>4. CASE in.redirect = "none" /\ ~hwlp_update_pc_q
    <3>1. NextPc(in) = Plus(pc_q, IF wide[pc_q] THEN 2 ELSE 1)
      BY <1>3, <2>4 DEF NextPc
    <3>2. LoopAddr(in) = NoAddr
      BY <1>1, <2>4 DEF LoopAddr, LoopPending
    <3> QED BY <1>2, <1>6, <2>1, <3>1, <3>2
  <2> QED BY <2>2, <2>3, <2>4 DEF Given
<1>12. next' \in Word
  BY <1>2, <1>7, <1>9, <1>10, NextWord
<1>13. Position'
  <2>1. wide[pc_q] => pc_q' = 2 * next'
    BY <1>2, <1>6, <1>7, <1>9, <1>10, <1>11, NextWord, WordsAndHalves
  <2>2. ~wide[pc_q] => pc_q' = 2 * next + 1 /\ 2 * next' = Plus(2 * next + 1, 1)
    BY <1>2, <1>6, <1>7, <1>9, <1>10, <1>11, NextWord
  <2>3. (2 * next + 1) % 2 = 1
    BY <1>2 DEF Word
  <2> QED BY <1>2, <1>8, <1>11, <2>1, <2>2, <2>3 DEF Position
<1>14. BeforeBoot' /\ AfterHeld' /\ LoopPending'
  BY <1>2, <1>6, <1>7, <1>8, <1>12, WordsAndHalves DEF BeforeBoot, AfterHeld, LoopPending
<1> QED BY <1>1, <1>6, <1>13, <1>14 DEF IInv

\* Elsewhere no loop jump is on its way.
LEMMA NoLoop ==
  ASSUME IInv, NEW in, Given(in), in.redirect # "branch", state # "ALIGNED32"
  PROVE  /\ in.redirect = "none" /\ LoopAddr(in) = NoAddr /\ LoopWord(in) = NoAddr
         /\ loopTo = NoAddr /\ pend = NoAddr /\ ~hwlp_update_pc_q
<1>1. in.redirect = "none"
  BY LoopJumpAligned DEF Given
<1> QED BY <1>1 DEF IInv, LoopPending, LoopAddr, LoopWord

\* The instruction starts with the halfword held from the word before.
LEMMA TakesHeldHalf ==
  ASSUME IInv, NEW in, Given(in), Cycle(in), in.redirect # "branch", in.take,
         state = "MISALIGNED32"
  PROVE  IInv' /\ Instrs!InstrNext
<1>1. TypeOK /\ TypeOK' /\ Position
  BY TypeKept DEF IInv
<1>2. /\ next \in Word /\ in.data = next /\ npc = pc_q /\ pc_q \in Half /\ in.valid
      /\ pc_q % 2 = 1 /\ r_instr_h = pc_q /\ 2 * next = Plus(pc_q, 1)
      /\ r_instr_h' = 2 * next + 1 /\ ~hwlp_update_pc_q' /\ UNCHANGED wide
  BY <1>1, Taken, WordsAndHalves DEF Position
<1>3. Is32(in) = wide[pc_q] /\ (HoldsCompressed(in) <=> ~wide[pc_q])
  BY <1>2 DEF Is32, HoldsCompressed
<1>4. Issues(in) /\ (FetchReady(in) <=> wide[pc_q])
  BY <1>1, <1>2, Handshakes
<1>5. InstrAligned(in) = <<pc_q, 2 * next>>
  BY <1>2 DEF InstrAligned, Low
<1>6. /\ npc' = Plus(npc, IF wide[npc] THEN 2 ELSE 1)
      /\ loopTo' = NoAddr /\ pc_id' = pc_q /\ Instrs!InstrNext
  BY <1>2, <1>4, <1>5, IssuesNext, NoLoop
<1>7. pc_q' = npc'
  BY <1>2, <1>3, <1>6, Taken, NoLoop DEF NextPc
<1>8. state' = IF wide[pc_q] THEN "MISALIGNED32" ELSE "MISALIGNED16"
  BY <1>3, Taken, NoLoop DEF NextState
<1>9. CASE wide[pc_q]
  <2>1. next' = Fetch!Succ(next) /\ pend' = NoAddr
    BY <1>4, <1>9, TakesWord, NoLoop
  <2>2. Plus(pc_q, 2) = 2 * next + 1
    <3>1. PICK w \in Word : pc_q = 2 * w + 1
      <4>1. NWords \in Nat /\ NWords >= 1
        BY NWordsAssumption
      <4>2. pc_q \div 2 \in Word /\ pc_q = 2 * (pc_q \div 2) + 1
        BY <1>2, <4>1 DEF Half, Word
      <4> QED BY <4>2
    <3> QED BY <1>2, <3>1, NextWord
  <2>3. pc_q' = 2 * next + 1 /\ 2 * next' = Plus(2 * next + 1, 1) /\ next' \in Word
    BY <1>2, <1>6, <1>7, <1>9, <2>1, <2>2, NextWord
  <2>4. (2 * next + 1) % 2 = 1
    BY <1>2 DEF Word
  <2>5. Position'
    BY <1>2, <1>7, <1>8, <1>9, <2>3, <2>4 DEF Position
  <2>6. BeforeBoot' /\ AfterHeld' /\ LoopPending'
    BY <1>2, <1>6, <1>8, <1>9, <2>1, <2>3, WordsAndHalves DEF BeforeBoot, AfterHeld, LoopPending
  <2> QED BY <1>1, <1>6, <2>5, <2>6 DEF IInv
<1>10. CASE ~wide[pc_q]
  <2>1. UNCHANGED <<next, pend>>
    BY <1>4, <1>10, NoLoop DEF Cycle, FetchClock, fetchVars
  <2>2. pc_q' = 2 * next' /\ next' \in Word
    BY <1>2, <1>6, <1>7, <1>10, <2>1
  <2>3. ~aligner_ready_q'
    BY <1>2, <1>3, <1>10, Taken DEF AlignerReady
  <2>4. npc' = Plus(pc_id', 1)
    BY <1>2, <1>6, <1>10
  <2>5. Position' /\ BeforeBoot'
    BY <1>7, <1>8, <1>10, <2>2, WordsAndHalves DEF Position, BeforeBoot
  <2>6. AfterHeld' /\ LoopPending'
    BY <1>2, <1>6, <2>1, <2>3, <2>4, NoLoop DEF AfterHeld, LoopPending
  <2> QED BY <1>1, <1>6, <2>5, <2>6 DEF IInv
<1> QED BY <1>9, <1>10

\* The instruction starts with the high half of the word, after a branch: a
\* 32-bit one is held until the next word comes.
LEMMA TakesHighHalf ==
  ASSUME IInv, NEW in, Given(in), Cycle(in), in.redirect # "branch", in.take,
         state = "BRANCH_MISALIGNED"
  PROVE  IInv' /\ [Instrs!InstrNext]_(Instrs!instrVars)
<1>1. TypeOK /\ TypeOK' /\ Position
  BY TypeKept DEF IInv
<1>2. /\ next \in Word /\ in.data = next /\ npc = pc_q /\ pc_q \in Half /\ pc_q = 2 * next + 1
      /\ r_instr_h' = 2 * next + 1 /\ ~hwlp_update_pc_q' /\ UNCHANGED wide
  BY <1>1, Taken, WordsAndHalves DEF Position
<1>3. Is32(in) = wide[pc_q] /\ ~HoldsCompressed(in) /\ High(in) = pc_q
  BY <1>2 DEF Is32, HoldsCompressed, High
<1>4. (Issues(in) <=> ~wide[pc_q]) /\ FetchReady(in)
  BY <1>1, <1>3, Handshakes
<1>5. next' = Fetch!Succ(next) /\ pend' = NoAddr
  BY <1>4, TakesWord, NoLoop
<1>6. next' \in Word /\ 2 * next' = Plus(pc_q, 1)
  BY <1>2, <1>5, NextWord
<1>7. CASE wide[pc_q]
  <2>1. state' = "MISALIGNED32" /\ pc_q' = pc_q
    BY <1>3, <1>7, Taken, NoLoop DEF NextState, NextPc
  <2>2. UNCHANGED <<issued, npc, loopTo>>
    BY <1>4, <1>7, NoLoop DEF Cycle, HistoryClock
  <2>3. pc_q' % 2 = 1
    BY <1>2, <2>1 DEF Word
  <2>4. Position'
    BY <1>2, <1>6, <2>1, <2>2, <2>3 DEF Position
  <2>5. BeforeBoot' /\ AfterHeld' /\ LoopPending'
    BY <1>2, <1>5, <1>6, <2>1, <2>2, NoLoop, WordsAndHalves DEF BeforeBoot, AfterHeld, LoopPending
  <2> QED BY <1>1, <1>2, <2>2, <2>4, <2>5 DEF IInv, Instrs!instrVars
<1>8. CASE ~wide[pc_q]
  <2>1. state' = "ALIGNED32" /\ pc_q' = Plus(pc_q, 1)
    BY <1>3, <1>8, Taken, NoLoop DEF NextState, NextPc
  <2>2. InstrAligned(in) = <<pc_q, pc_q>>
    BY <1>3 DEF InstrAligned
  <2>3. npc' = Plus(pc_q, 1) /\ loopTo' = NoAddr /\ Instrs!InstrNext
    BY <1>2, <1>4, <1>8, <2>2, IssuesNext, NoLoop
  <2>4. Position'
    BY <1>6, <2>1, <2>3 DEF Position
  <2>5. BeforeBoot' /\ AfterHeld' /\ LoopPending'
    BY <1>2, <1>5, <1>6, <2>1, <2>3, WordsAndHalves DEF BeforeBoot, AfterHeld, LoopPending
  <2> QED BY <1>1, <2>3, <2>4, <2>5 DEF IInv
<1> QED BY <1>7, <1>8

-----------------------------------------------------------------------------
\* Reset leaves aligner, fetch interface and IF/ID registers before boot.
LEMMA InitHolds == Init => IInv /\ Instrs!InstrInit
<1> SUFFICES ASSUME Init PROVE IInv /\ Instrs!InstrInit
  OBVIOUS
<1>1. NWords \in Nat /\ NWords >= 1 /\ 0 \in Half
  BY NWordsAssumption DEF Half
<1>2. TypeOK
  BY <1>1 DEF Init, AlignerInit, Fetch!StreamInit, TypeOK, AlignerTypeOK
<1>3. BeforeBoot /\ Position /\ AfterHeld /\ LoopPending
  BY DEF Init, AlignerInit, Fetch!StreamInit, BeforeBoot, Position, AfterHeld, LoopPending
<1>4. Instrs!InstrInit
  BY DEF Init, Instrs!InstrInit, Instrs!Halves, Half
<1> QED BY <1>2, <1>3, <1>4 DEF IInv

\* Each cycle keeps the invariant and is a step of the instruction stream or
\* none.
LEMMA StepHolds ==
  IInv /\ [Next]_vars => IInv' /\ [Instrs!InstrNext]_(Instrs!instrVars)
<1> SUFFICES ASSUME IInv, [Next]_vars
             PROVE  IInv' /\ [Instrs!InstrNext]_(Instrs!instrVars)
  OBVIOUS
<1>1. CASE UNCHANGED vars
  BY <1>1 DEF vars, alignerVars, fetchVars, idVars, history, IInv, TypeOK, AlignerTypeOK,
     BeforeBoot, Position, AfterHeld, LoopPending, Instrs!instrVars
<1>2. CASE Next
  <2>1. PICK in : Given(in) /\ Cycle(in)
    BY <1>2, StepIsCycle
  <2>2. CASE in.redirect = "branch"
    BY <2>1, <2>2, BranchStartsOver
  <2>3. CASE in.redirect # "branch" /\ ~in.take
    BY <2>1, <2>3, Waits
  <2>4. CASE in.redirect # "branch" /\ in.take
    <3>1. state \in {"ALIGNED32", "MISALIGNED32", "MISALIGNED16", "BRANCH_MISALIGNED"}
      BY DEF IInv, TypeOK, AlignerTypeOK
    <3> QED BY <2>1, <2>4, <3>1, TakesLowHalf, TakesHeldHalf, TakesHighHalf
  <2> QED BY <2>2, <2>3, <2>4
<1> QED BY <1>1, <1>2

\* The position of aligner and fetch interface agree in every alignment state
\* (cv32e40p_aligner), loop jumps included.
THEOREM PositionInvariant == Spec => []IInv
<1>1. Init => IInv
  BY InitHolds
<1>2. IInv /\ [Next]_vars => IInv'
  BY StepHolds
<1> QED BY <1>1, <1>2, PTL DEF Spec

\* The IF stage hands ID the instructions of the program, each once, in order,
\* with its own pc and its own bits.
THEOREM IfStageRefines == Spec => ImplementsInstrStream
<1>1. Init => Instrs!InstrInit
  BY InitHolds
<1>2. IInv /\ [Next]_vars => [Instrs!InstrNext]_(Instrs!instrVars)
  BY StepHolds
<1> QED BY <1>1, <1>2, PositionInvariant, PTL DEF Spec, ImplementsInstrStream, Instrs!InstrSpec

\* pc_if_o, which exceptions and interrupts save, is the address of the
\* instruction due.
THEOREM PcIfCorrect == Spec => []PcIfIsDue
<1>1. IInv => PcIfIsDue
  BY DEF IInv, BeforeBoot, Position, PcIfIsDue
<1> QED BY <1>1, PositionInvariant, PTL

\* A loop target that waits in hwlp_addr_q is never overwritten or applied late.
THEOREM LoopTargetKept == Spec => []LoopTargetApplied
<1>1. IInv => LoopTargetApplied
  BY DEF IInv, LoopPending, LoopTargetApplied
<1> QED BY <1>1, PositionInvariant, PTL
=============================================================================
