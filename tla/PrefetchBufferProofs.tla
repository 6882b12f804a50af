------------------------ MODULE PrefetchBufferProofs ------------------------
(***************************************************************************)
(* Machine-checked proofs about PrefetchBuffer, for every FIFO depth, every *)
(* size of the address space and both values of PULP_OBI.                   *)
(***************************************************************************)
EXTENDS PrefetchBuffer, SequenceTheorems, TLAPS

\* The inductive invariant.  None of the three counter facts is inductive alone:
\* room in the FIFO needs the number of stale answers to be right, which after a
\* loop jump needs HWLP_END to have been requested, which needs the counter.
CounterInv ==
  /\ TypeOK
  /\ CountIsOutstanding
  /\ AnswersHaveRoom
  /\ EndRequested
  /\ DelayedFlushOK

AnyInput ==
  [req : BOOLEAN, redirect : {"none", "branch", "hwlp"}, target : WordAddr,
   take : BOOLEAN, gnt : BOOLEAN, rvalid : BOOLEAN]

\* What the three actions say of a cycle's inputs.
Allowed(in) ==
  /\ in \in AnyInput
  /\ in.rvalid => granted # <<>>
  /\ in.redirect # "none" => in.req
  /\ in.redirect = "hwlp" => inRun /\ pend = NoAddr
  /\ in.redirect = "none" /\ in.req => next # NoAddr

USE DepthAssumption, NWordsAssumption, PulpObiAssumption, AddrAssumption

\* Each of the three actions is a cycle under inputs that Allowed describes.
LEMMA StepIsCycle ==
  ASSUME TypeOK, Next
  PROVE  \E in : Allowed(in) /\ Cycle(in)
<1>1. CASE Straight
  <2>1. PICK in \in Inputs("none", 0) : (in.req => next # NoAddr) /\ Cycle(in)
    BY <1>1 DEF Straight
  <2>2. Allowed(in)
    BY <2>1 DEF Allowed, AnyInput, Inputs, Cycle, MemoryAnswers, WordAddr
  <2> QED BY <2>1, <2>2
<1>2. CASE Branch
  <2>1. PICK t \in WordAddr : \E in \in Inputs("branch", t) : in.req /\ Cycle(in)
    BY <1>2 DEF Branch
  <2>2. PICK in \in Inputs("branch", t) : in.req /\ Cycle(in)
    BY <2>1
  <2>3. Allowed(in)
    BY <2>2 DEF Allowed, AnyInput, Inputs, Cycle, MemoryAnswers
  <2> QED BY <2>2, <2>3
<1>3. CASE HwlpJump
  <2>1. PICK t \in WordAddr : \E in \in Inputs("hwlp", t) : in.req /\ Cycle(in)
    BY <1>3 DEF HwlpJump
  <2>2. PICK in \in Inputs("hwlp", t) : in.req /\ Cycle(in)
    BY <2>1
  <2>3. Allowed(in)
    BY <1>3, <2>2 DEF Allowed, AnyInput, Inputs, Cycle, MemoryAnswers, HwlpJump
  <2> QED BY <2>2, <2>3
<1> QED BY <1>1, <1>2, <1>3 DEF Next

\* An accepted fetch goes to the memory, or to the adapter's register; an
\* answer leaves the memory.
LEMMA CountStep ==
  ASSUME TypeOK, CountIsOutstanding, NEW in, Allowed(in), Cycle(in)
  PROVE  /\ CountIsOutstanding'
         /\ in.rvalid => cnt_q > 0
         /\ ~TransReady => cnt_q > 0
         /\ in.rvalid /\ ~TransReady => cnt_q > 1
<1> DEFINE left == IF in.rvalid THEN Tail(granted) ELSE granted
           bit(b) == IF b THEN 1 ELSE 0
           up == bit(Accepted(in))
           down == bit(in.rvalid)
           held == bit(~TransReady)
           sent == bit(ObiReq(TransValid(in)) /\ in.gnt)
           kept == bit(ObiReq(TransValid(in)) /\ ~in.gnt)
<1>1. granted \in Seq(WordAddr) /\ Len(granted) \in Nat
  BY LenProperties DEF TypeOK
<1>2. in.rvalid => Len(granted) > 0 /\ Tail(granted) \in Seq(WordAddr)
                   /\ Len(Tail(granted)) = Len(granted) - 1
  BY <1>1, HeadTailProperties, EmptySeq DEF Allowed
<1>3. left \in Seq(WordAddr) /\ Len(left) = Len(granted) - down
  <2>1. CASE in.rvalid BY <2>1, <1>1, <1>2
  <2>2. CASE ~in.rvalid BY <2>2, <1>1
  <2> QED BY <2>1, <2>2
<1>4. ObiAddr(TransAddr(in)) \in WordAddr
  BY DEF TransAddr, ObiAddr, NextAddr, TypeOK, CtrlTypeOK, ObiTypeOK, Allowed,
         AnyInput, WordAddr
<1>5. Len(granted') = Len(granted) - down + sent
  <2>1. granted' = IF ObiReq(TransValid(in)) /\ in.gnt
                   THEN Append(left, ObiAddr(TransAddr(in))) ELSE left
    BY DEF Cycle, MemoryClock
  <2>2. Len(Append(left, ObiAddr(TransAddr(in)))) = Len(left) + 1
    BY <1>3, <1>4, AppendProperties
  <2>3. CASE ObiReq(TransValid(in)) /\ in.gnt
    BY <2>1, <2>2, <2>3, <1>3
  <2>4. CASE ~(ObiReq(TransValid(in)) /\ in.gnt)
    <3>1. granted' = left /\ sent = 0 BY <2>1, <2>4
    <3>2. Len(left) \in Int BY <1>3, LenProperties
    <3> HIDE DEF left, down, sent
    <3> QED BY <3>1, <3>2, <1>3
  <2> QED BY <2>3, <2>4
<1>6. cnt_q' = cnt_q + up - down
  BY DEF Cycle, CtrlClock, StateClock
<1>7. (obi_state = "REGISTERED")' <=> ObiReq(TransValid(in)) /\ ~in.gnt
  BY DEF Cycle, ObiClock
<1>8. up + held = sent + kept
  <2>1. TransReady <=> obi_state # "REGISTERED"
    BY DEF TypeOK, ObiTypeOK, TransReady
  <2>2. CASE TransReady
    BY <2>1, <2>2 DEF Accepted, ObiReq
  <2>3. CASE ~TransReady
    BY <2>1, <2>3 DEF Accepted, ObiReq
  <2> QED BY <2>2, <2>3
<1>9. cnt_q \in 0 .. Depth /\ status_cnt_q \in 0 .. Depth
  BY DEF TypeOK, CtrlTypeOK, FifoTypeOK
<1>10. cnt_q = Len(granted) + held
  BY DEF CountIsOutstanding, TypeOK, ObiTypeOK, TransReady
<1>11. /\ up \in {0, 1} /\ down \in {0, 1} /\ held \in {0, 1}
       /\ sent \in {0, 1} /\ kept \in {0, 1}
  OBVIOUS
<1>12. /\ in.rvalid => down = 1 /\ Len(granted) > 0
       /\ ~TransReady => held = 1
       /\ up = 1 => Accepted(in)
       /\ down = 1 => in.rvalid
  BY <1>2
<1>13. CountIsOutstanding'
  <2>1. cnt_q' = Len(granted') + kept
    <3> HIDE DEF up, down, held, sent, kept
    <3> QED BY <1>1, <1>5, <1>6, <1>8, <1>9, <1>10, <1>11
  <2>2. kept = (IF obi_state = "REGISTERED" THEN 1 ELSE 0)'
    BY <1>7
  <2>3. up = 1 => cnt_q < Depth
    BY <1>9, <1>12 DEF Accepted, TransValid, FifoCntMasked
  <2>4. cnt_q' <= Depth
    <3> HIDE DEF up, down, held, sent, kept
    <3> QED BY <2>3, <1>6, <1>9, <1>11
  <2> QED BY <2>1, <2>2, <2>4 DEF CountIsOutstanding
<1>14. /\ in.rvalid => cnt_q > 0
       /\ ~TransReady => cnt_q > 0
       /\ in.rvalid /\ ~TransReady => cnt_q > 1
  <2> HIDE DEF held, down
  <2> QED BY <1>1, <1>10, <1>11, <1>12
<1> QED BY <1>13, <1>14

\* The counters of one cycle, as the rest of the proof uses them.
LEMMA CounterTypes ==
  ASSUME CounterInv
  PROVE  /\ cnt_q \in 0 .. Depth /\ status_cnt_q \in 0 .. Depth
         /\ flush_cnt_q \in 0 .. Depth
         /\ hwlp_flush_cnt_delayed_q \in 0 .. Depth
         /\ hwlp_flush_after_resp \in BOOLEAN
  BY DEF CounterInv, TypeOK, CtrlTypeOK, FifoTypeOK

\* cnt_q, by what is accepted and answered.
LEMMA CntMoves ==
  ASSUME CounterInv, NEW in, Allowed(in), Cycle(in)
  PROVE  /\ Accepted(in) /\ ~in.rvalid => cnt_q' = cnt_q + 1
         /\ ~Accepted(in) /\ ~in.rvalid => cnt_q' = cnt_q
         /\ Accepted(in) /\ in.rvalid => cnt_q' = cnt_q
         /\ ~Accepted(in) /\ in.rvalid => cnt_q' = cnt_q - 1
         /\ in.rvalid => cnt_q > 0
         /\ cnt_q' \in 0 .. Depth
<1>1. cnt_q' = cnt_q + (IF Accepted(in) THEN 1 ELSE 0)
                     - (IF in.rvalid THEN 1 ELSE 0)
  BY DEF Cycle, CtrlClock, StateClock
<1>2. in.rvalid => cnt_q > 0
  BY CountStep DEF CounterInv
<1>3. cnt_q' <= Depth
  BY CountStep DEF CounterInv, CountIsOutstanding
<1>4. cnt_q \in 0 .. Depth
  BY CounterTypes
<1>5. CASE Accepted(in) /\ ~in.rvalid BY <1>1, <1>2, <1>3, <1>4, <1>5
<1>6. CASE ~Accepted(in) /\ ~in.rvalid BY <1>1, <1>2, <1>3, <1>4, <1>6
<1>7. CASE Accepted(in) /\ in.rvalid BY <1>1, <1>2, <1>3, <1>4, <1>7
<1>8. CASE ~Accepted(in) /\ in.rvalid BY <1>1, <1>2, <1>3, <1>4, <1>8
<1> QED BY <1>5, <1>6, <1>7, <1>8

\* A loop jump that has to wait for HWLP_END finds it outstanding.
LEMMA WaitMeansOutstanding ==
  ASSUME CounterInv, NEW in, Allowed(in), HwlpWaitRespFlush(in)
  PROVE  cnt_q > 0 /\ flush_cnt_q = 0 /\ ~hwlp_flush_after_resp
<1>1. inRun /\ pend = NoAddr /\ status_cnt_q = 0
  BY DEF Allowed, HwlpWaitRespFlush, HwlpJumping, Empty
<1>2. cnt_q > 0 /\ flush_cnt_q = 0
  BY <1>1, CounterTypes DEF CounterInv, EndRequested
<1> QED BY <1>1, <1>2 DEF CounterInv, DelayedFlushOK

\* The registers of the delayed flush, by kind of cycle.
LEMMA DelayedMoves ==
  ASSUME NEW in, DelayedFlushClock(in)
  PROVE  /\ HwlpWaitRespFlush(in) =>
              hwlp_flush_after_resp' = TRUE /\ hwlp_flush_cnt_delayed_q' = cnt_q - 1
         /\ ~HwlpWaitRespFlush(in) =>
              \/ hwlp_flush_after_resp' = FALSE /\ hwlp_flush_cnt_delayed_q' = 0
              \/ /\ ~Branching(in) /\ ~HwlpFlushRespDelayed(in)
                 /\ hwlp_flush_after_resp' = hwlp_flush_after_resp
                 /\ hwlp_flush_cnt_delayed_q' = hwlp_flush_cnt_delayed_q
<1>1. HwlpWaitRespFlush(in) => ~Branching(in)
  BY DEF HwlpWaitRespFlush, HwlpJumping, Branching
<1> QED BY <1>1, Zenon DEF DelayedFlushClock

\* A cycle keeps every variable in its type.
LEMMA TypeStep ==
  ASSUME CounterInv, NEW in, Allowed(in), Cycle(in)
  PROVE  TypeOK'
<1>1. TransAddr(in) \in WordAddr
  BY DEF TransAddr, NextAddr, CounterInv, TypeOK, CtrlTypeOK, Allowed,
         AnyInput, WordAddr
<1>2. in.rvalid => Head(granted) \in WordAddr /\ Tail(granted) \in Seq(WordAddr)
  BY HeadTailProperties DEF CounterInv, TypeOK, Allowed
<1>3. ObiTypeOK'
  BY <1>1 DEF ObiTypeOK, Cycle, ObiClock, ObiAddr, CounterInv, TypeOK
<1>4. (granted \in Seq(WordAddr))'
  BY <1>1, <1>2, AppendProperties
     DEF Cycle, MemoryClock, ObiAddr, ObiTypeOK, CounterInv, TypeOK
<1>5. CtrlTypeOK'
  <2>1. (state_q \in {"IDLE", "BRANCH_WAIT"})' /\ (trans_addr_q \in WordAddr)'
    BY <1>1 DEF Cycle, CtrlClock, StateClock, CounterInv, TypeOK, CtrlTypeOK
  <2>2. (flush_cnt_q \in 0 .. Depth)'
    <3>1. flush_cnt_q' = NextFlushCnt(in)
      BY DEF Cycle, CtrlClock
    <3>2. cnt_q > 0 => cnt_q - 1 \in 0 .. Depth
      BY CounterTypes
    <3>3. flush_cnt_q > 0 => flush_cnt_q - 1 \in 0 .. Depth
      BY CounterTypes
    <3> QED BY <3>1, <3>2, <3>3, CounterTypes DEF NextFlushCnt
  <2>3. (hwlp_flush_after_resp \in BOOLEAN)'
        /\ (hwlp_flush_cnt_delayed_q \in 0 .. Depth)'
    <3>1. DelayedFlushClock(in) BY DEF Cycle, CtrlClock
    <3>2. CASE HwlpWaitRespFlush(in)
      <4>1. cnt_q - 1 \in 0 .. Depth
        BY <3>2, WaitMeansOutstanding, CounterTypes
      <4> QED BY <3>1, <3>2, <4>1, DelayedMoves
    <3>3. CASE ~HwlpWaitRespFlush(in)
      <4>1. 0 \in 0 .. Depth OBVIOUS
      <4> QED BY <3>1, <3>3, <4>1, DelayedMoves, CounterTypes
    <3> QED BY <3>2, <3>3
  <2> QED BY <2>1, <2>2, <2>3, CntMoves DEF CtrlTypeOK
<1>6. FifoTypeOK'
  <2>1. Push(in) => Head(granted) \in Word
    BY <1>2 DEF Push
  <2>2. (mem_q \in [Slot -> Word])'
    BY <2>1 DEF Cycle, FifoClock, CounterInv, TypeOK, FifoTypeOK
  <2>3. (read_pointer_q \in Slot)' /\ (write_pointer_q \in Slot)'
    BY DEF Cycle, FifoClock, NextSlot, Slot, CounterInv, TypeOK, FifoTypeOK
  <2>4. (status_cnt_q \in 0 .. Depth)'
    BY CounterTypes DEF Cycle, FifoClock, CountAfter, Full, Empty
  <2> QED BY <2>2, <2>3, <2>4 DEF FifoTypeOK
<1>7. (/\ word \in WordAddr \cup {NoAddr}
       /\ next \in WordAddr \cup {NoAddr}
       /\ pend \in WordAddr \cup {NoAddr}
       /\ inRun \in BOOLEAN)'
  <2>1. FetchReady(in) => FetchData(in) \in WordAddr
    <3>1. read_pointer_q \in Slot /\ mem_q \in [Slot -> WordAddr]
      BY DEF CounterInv, TypeOK, FifoTypeOK
    <3> QED BY <3>1, <1>2 DEF FetchReady, FetchValid, FetchData, FifoData
  <2>2. PendNow(in) \in WordAddr \cup {NoAddr} /\ in.target \in WordAddr
    BY DEF PendNow, Allowed, AnyInput, CounterInv, TypeOK
  <2>3. NextAddr(next) \in WordAddr
    BY DEF NextAddr, WordAddr
  <2>4. HistoryClock(in) BY DEF Cycle
  <2> QED BY <2>1, <2>2, <2>3, <2>4 DEF HistoryClock, CounterInv, TypeOK
<1> QED BY <1>3, <1>4, <1>5, <1>6, <1>7 DEF TypeOK

\* The FIFO's occupancy, by kind of cycle.
LEMMA FifoMoves ==
  ASSUME CounterInv, NEW in, Allowed(in), Cycle(in)
  PROVE  /\ Branching(in) => status_cnt_q' = 0
         /\ HwlpJumping(in) /\ ~Empty => status_cnt_q' \in {0, 1}
         /\ HwlpJumping(in) /\ ~Empty /\ ~Pop(in) => status_cnt_q' = 1
         /\ HwlpJumping(in) /\ Empty =>
              status_cnt_q' = IF Push(in) THEN 1 ELSE 0
         /\ in.redirect = "none" => status_cnt_q' = CountAfter(Push(in), Pop(in))
         /\ status_cnt_q' \in 0 .. Depth
<1>1. FifoClock(FifoFlush(in), FifoFlushButFirst(in), Push(in), Pop(in),
                Head(granted))
  BY DEF Cycle
<1>2. CASE Branching(in)
  BY <1>1, <1>2 DEF FifoClock, FifoFlush, FifoFlushButFirst, HwlpJumping, Branching
<1>3. CASE HwlpJumping(in) /\ ~Empty
  BY <1>1, <1>3 DEF FifoClock, FifoFlush, FifoFlushButFirst, HwlpJumping, Branching
<1>4. CASE HwlpJumping(in) /\ Empty
  <2>1. status_cnt_q' = CountAfter(Push(in), Pop(in))
    BY <1>1, <1>4
       DEF FifoClock, FifoFlush, FifoFlushButFirst, HwlpJumping, Branching
  <2>2. ~Full /\ ~Pop(in) /\ status_cnt_q = 0
    BY <1>4 DEF Full, Empty, Pop
  <2>3. status_cnt_q' = IF Push(in) THEN 1 ELSE 0
    BY <2>1, <2>2 DEF CountAfter
  <2> QED BY <2>3, <1>4 DEF HwlpJumping, Branching
<1>5. in.redirect = "none" => status_cnt_q' = CountAfter(Push(in), Pop(in))
  BY <1>1 DEF FifoClock, FifoFlush, FifoFlushButFirst, HwlpJumping, Branching
<1>6. (status_cnt_q \in 0 .. Depth)'
  BY TypeStep DEF TypeOK, FifoTypeOK
<1> QED BY <1>2, <1>3, <1>4, <1>5, <1>6 DEF Branching, HwlpJumping, Allowed, AnyInput

\* What the next state discards, by kind of cycle.
LEMMA StaleMoves ==
  ASSUME CounterInv, NEW in, Allowed(in), Cycle(in)
  PROVE  /\ Branching(in) \/ HwlpFlushResp(in) =>
              /\ hwlp_flush_after_resp' = FALSE
              /\ in.rvalid => flush_cnt_q' = cnt_q - 1
              /\ ~in.rvalid => flush_cnt_q' = cnt_q
         /\ HwlpWaitRespFlush(in) =>
              /\ hwlp_flush_after_resp' = TRUE
              /\ hwlp_flush_cnt_delayed_q' = cnt_q - 1
              /\ flush_cnt_q' = flush_cnt_q
         /\ in.redirect = "none" /\ HwlpFlushRespDelayed(in) =>
              /\ hwlp_flush_after_resp' = FALSE
              /\ flush_cnt_q' = hwlp_flush_cnt_delayed_q
         /\ in.redirect = "none" /\ ~HwlpFlushRespDelayed(in) =>
              /\ hwlp_flush_after_resp' = hwlp_flush_after_resp
              /\ hwlp_flush_cnt_delayed_q' = hwlp_flush_cnt_delayed_q
              /\ in.rvalid /\ flush_cnt_q > 0 => flush_cnt_q' = flush_cnt_q - 1
              /\ ~(in.rvalid /\ flush_cnt_q > 0) => flush_cnt_q' = flush_cnt_q
<1> DEFINE Delay == DelayedFlushClock(in)
<1>1. Delay /\ flush_cnt_q' = NextFlushCnt(in)
  BY DEF Cycle, CtrlClock
<1>2. in.rvalid => cnt_q > 0
  BY CntMoves
<1>3. HwlpJumping(in) => ~hwlp_flush_after_resp
  BY DEF HwlpJumping, Allowed, CounterInv, DelayedFlushOK
<1>4. CASE Branching(in) \/ HwlpFlushResp(in)
  <2>1. ~HwlpWaitRespFlush(in) /\ in.redirect # "none"
    BY <1>4 DEF HwlpWaitRespFlush, HwlpFlushResp, Branching, HwlpJumping
  <2>2. hwlp_flush_after_resp' = FALSE
    BY <1>1, <1>3, <1>4, <2>1, DelayedMoves, CounterTypes DEF HwlpFlushResp
  <2>3. /\ in.rvalid => flush_cnt_q' = cnt_q - 1
        /\ ~in.rvalid => flush_cnt_q' = cnt_q
    BY <1>1, <1>2, <1>4 DEF NextFlushCnt
  <2> QED BY <2>1, <2>2, <2>3
<1>5. CASE HwlpWaitRespFlush(in)
  <2>1. ~in.rvalid /\ ~Branching(in) /\ ~HwlpFlushResp(in) /\ in.redirect # "none"
    BY <1>5 DEF HwlpWaitRespFlush, HwlpFlushResp, Branching, HwlpJumping
  <2>2. flush_cnt_q' = flush_cnt_q
    BY <1>1, <2>1 DEF NextFlushCnt, HwlpFlushRespDelayed
  <2> QED BY <1>1, <1>5, <2>1, <2>2, DelayedMoves
<1>6. CASE in.redirect = "none"
  <2>1. ~Branching(in) /\ ~HwlpFlushResp(in) /\ ~HwlpWaitRespFlush(in)
    BY <1>6 DEF HwlpWaitRespFlush, HwlpFlushResp, Branching, HwlpJumping
  <2>2. CASE HwlpFlushRespDelayed(in)
    <3>1. flush_cnt_q' = hwlp_flush_cnt_delayed_q
      BY <1>1, <2>1, <2>2 DEF NextFlushCnt
    <3>2. hwlp_flush_after_resp' = FALSE
      BY <1>1, <2>1, <2>2, DelayedMoves
    <3> QED BY <2>1, <2>2, <3>1, <3>2
  <2>3. CASE ~HwlpFlushRespDelayed(in)
    <3>1. /\ hwlp_flush_after_resp' = hwlp_flush_after_resp
          /\ hwlp_flush_cnt_delayed_q' = hwlp_flush_cnt_delayed_q
      BY <1>1, <2>1, <2>3 DEF DelayedFlushClock
    <3>2. /\ in.rvalid /\ flush_cnt_q > 0 => flush_cnt_q' = flush_cnt_q - 1
          /\ ~(in.rvalid /\ flush_cnt_q > 0) => flush_cnt_q' = flush_cnt_q
      BY <1>1, <2>1, <2>3 DEF NextFlushCnt
    <3> QED BY <2>1, <2>3, <3>1, <3>2
  <2> QED BY <2>2, <2>3
<1>7. \/ Branching(in) \/ HwlpFlushResp(in) \/ HwlpWaitRespFlush(in)
      \/ in.redirect = "none"
  BY DEF Allowed, AnyInput, Branching, HwlpFlushResp, HwlpWaitRespFlush, HwlpJumping
<1> QED BY <1>4, <1>5, <1>6, <1>7

\* A redirection that flushes now leaves at most its own fetch outstanding.
LEMMA FlushLeavesOne ==
  ASSUME CounterInv, NEW in, Allowed(in), Cycle(in),
         Branching(in) \/ HwlpFlushResp(in)
  PROVE  /\ Stale' = flush_cnt_q' /\ Stale' \in Nat
         /\ cnt_q' = Stale' \/ cnt_q' = Stale' + 1
<1>1. Stale' = flush_cnt_q'
  BY StaleMoves DEF Stale
<1>2. CASE in.rvalid
  <2>1. flush_cnt_q' = cnt_q - 1 /\ cnt_q > 0
    BY <1>2, StaleMoves, CntMoves
  <2>2. cnt_q' = cnt_q \/ cnt_q' = cnt_q - 1
    BY <1>2, CntMoves
  <2> QED BY <1>1, <2>1, <2>2, CounterTypes
<1>3. CASE ~in.rvalid
  <2>1. flush_cnt_q' = cnt_q
    BY <1>3, StaleMoves
  <2>2. cnt_q' = cnt_q \/ cnt_q' = cnt_q + 1
    BY <1>3, CntMoves
  <2> QED BY <1>1, <2>1, <2>2, CounterTypes
<1> QED BY <1>2, <1>3

\* At most one word is stored a cycle; it was outstanding, or a slot was free.
LEMMA RoomArithmetic ==
  ASSUME NEW d \in Nat, NEW held \in Nat, NEW out \in Nat,
         NEW held1 \in Nat, NEW out1 \in Nat,
         held + out <= d,
         \/ held1 <= held + 1 /\ out1 = out - 1
         \/ held1 <= held + 1 /\ out1 = out /\ held + out < d
         \/ held1 <= held /\ out1 = out
         \/ held1 <= held /\ out1 = out - 1
         \/ held1 <= held /\ out1 = out + 1 /\ held + out < d
  PROVE  held1 + (out1 - 0) <= d /\ 0 <= out1
  OBVIOUS

\* A cycle keeps a free slot for every answer that will be kept.
LEMMA RoomStep ==
  ASSUME CounterInv, NEW in, Allowed(in), Cycle(in)
  PROVE  AnswersHaveRoom'
<1>1. Stale <= cnt_q /\ status_cnt_q + (cnt_q - Stale) <= Depth
  BY DEF CounterInv, AnswersHaveRoom
<1> DEFINE acc == Accepted(in)
           rsp == in.rvalid
<1>2. CASE Branching(in)
  <2>1. status_cnt_q' = 0
    BY <1>2, FifoMoves
  <2> QED BY <1>2, <2>1, FlushLeavesOne, CntMoves DEF AnswersHaveRoom
<1>3. CASE HwlpFlushResp(in)
  <2>1. status_cnt_q' <= 1 /\ status_cnt_q' \in Nat
    <3>1. CASE Empty BY <1>3, <3>1, FifoMoves DEF HwlpFlushResp
    <3>2. CASE ~Empty BY <1>3, <3>2, FifoMoves DEF HwlpFlushResp
    <3> QED BY <3>1, <3>2
  <2> QED BY <1>3, <2>1, FlushLeavesOne, CntMoves DEF AnswersHaveRoom
<1>4. CASE HwlpWaitRespFlush(in)
  <2>1. Stale' = cnt_q - 1 /\ cnt_q > 0
    BY <1>4, StaleMoves, WaitMeansOutstanding DEF Stale
  <2>2. status_cnt_q' = 0
    BY <1>4, FifoMoves DEF HwlpWaitRespFlush, Push
  <2>3. cnt_q' = cnt_q \/ cnt_q' = cnt_q + 1
    BY <1>4, CntMoves DEF HwlpWaitRespFlush
  <2> QED BY <2>1, <2>2, <2>3, CntMoves, CounterTypes DEF AnswersHaveRoom
<1>5. CASE in.redirect = "none" /\ HwlpFlushRespDelayed(in)
  <2>1. Stale' = Stale
    BY <1>5, StaleMoves DEF Stale, HwlpFlushRespDelayed
  <2>2. status_cnt_q = 0 /\ Stale < cnt_q /\ Stale \in Nat
    BY <1>5, CounterTypes DEF CounterInv, DelayedFlushOK, HwlpFlushRespDelayed, Stale
  <2>3. status_cnt_q' \in {0, 1}
    BY <1>5, <2>2, FifoMoves DEF CountAfter, Pop, Empty, Full
  <2>4. acc => cnt_q < Depth
    BY <1>5, <2>2, CounterTypes DEF Accepted, TransValid, FifoCntMasked
  <2>5. cnt_q' = cnt_q - 1 \/ (cnt_q < Depth /\ cnt_q' = cnt_q)
    BY <1>5, <2>4, CntMoves DEF HwlpFlushRespDelayed
  <2>6. Depth \in Nat /\ cnt_q \in 0 .. Depth BY CounterTypes
  <2> QED BY <2>1, <2>2, <2>3, <2>5, <2>6 DEF AnswersHaveRoom
<1>6. CASE in.redirect = "none" /\ ~HwlpFlushRespDelayed(in)
  <2> DEFINE pushed == Push(in)
             popped == Pop(in)
  <2>1. acc => status_cnt_q + cnt_q < Depth
    BY <1>6 DEF Accepted, TransValid, FifoCntMasked
  <2>2. CASE hwlp_flush_after_resp
    \* no answer, nothing buffered
    <3>1. ~rsp /\ status_cnt_q = 0 /\ Stale < cnt_q
      BY <1>6, <2>2 DEF HwlpFlushRespDelayed, CounterInv, DelayedFlushOK, Stale
    <3>2. Stale' = Stale
      BY <1>6, <2>2, StaleMoves DEF Stale
    <3>3. status_cnt_q' = 0
      BY <1>6, <3>1, FifoMoves DEF CountAfter, Push, Pop, Empty
    <3>4. cnt_q' = cnt_q \/ cnt_q' = cnt_q + 1
      BY <3>1, CntMoves
    <3>5. Stale \in Nat BY <2>2, CounterTypes DEF Stale
    <3> QED BY <3>1, <3>2, <3>3, <3>4, <3>5, CntMoves, CounterTypes
            DEF AnswersHaveRoom
  <2>3. CASE ~hwlp_flush_after_resp /\ flush_cnt_q > 0
    \* answers are thrown away and the core gets nothing
    <3>1. Stale = flush_cnt_q /\ Stale' = flush_cnt_q'
      BY <1>6, <2>3, StaleMoves DEF Stale
    <3>2. ~pushed /\ ~popped
      BY <2>3 DEF Push, Pop, FetchReady, FetchValid, Discarding
    <3>3. status_cnt_q' = status_cnt_q
      BY <1>6, <3>2, FifoMoves, CounterTypes DEF CountAfter
    <3>4. \/ rsp /\ flush_cnt_q' = flush_cnt_q - 1
          \/ ~rsp /\ flush_cnt_q' = flush_cnt_q
      BY <1>6, <2>3, StaleMoves
    <3>5. \/ ~rsp /\ cnt_q' = cnt_q
          \/ ~rsp /\ cnt_q' = cnt_q + 1 /\ acc
          \/ rsp /\ cnt_q' = cnt_q - 1
          \/ rsp /\ cnt_q' = cnt_q /\ acc
      BY CntMoves
    <3> HIDE DEF acc, rsp
    <3> QED BY <1>1, <2>1, <2>3, <3>1, <3>3, <3>4, <3>5, CounterTypes
            DEF AnswersHaveRoom
  <2>4. CASE ~hwlp_flush_after_resp /\ ~(flush_cnt_q > 0)
    <3>0. flush_cnt_q = 0 /\ flush_cnt_q' = 0 /\ ~hwlp_flush_after_resp'
      <4>1. flush_cnt_q = 0 BY <2>4, CounterTypes
      <4>2. hwlp_flush_after_resp' = hwlp_flush_after_resp
            /\ flush_cnt_q' = flush_cnt_q
        BY <1>6, <2>4, StaleMoves
      <4> QED BY <4>1, <4>2, <2>4
    <3>1. Stale = 0 /\ Stale' = 0
      BY <2>4, <3>0 DEF Stale
    <3>9. /\ cnt_q \in Nat /\ status_cnt_q \in Nat /\ Depth \in Nat
          /\ status_cnt_q + cnt_q <= Depth
      BY <1>1, <3>1, CounterTypes
    <3>2. status_cnt_q' = status_cnt_q + (IF pushed /\ ~Full THEN 1 ELSE 0)
                                       - (IF popped /\ ~Empty THEN 1 ELSE 0)
      BY <1>6, FifoMoves DEF CountAfter
    <3>3. pushed => rsp BY DEF Push
    <3>4. \/ pushed /\ rsp /\ status_cnt_q' <= status_cnt_q + 1
          \/ ~pushed /\ status_cnt_q' <= status_cnt_q
      BY <3>2, <3>3, CounterTypes
    <3>5. /\ rsp => \/ cnt_q' = cnt_q - 1
                    \/ cnt_q' = cnt_q /\ status_cnt_q + cnt_q < Depth
          /\ ~rsp => \/ cnt_q' = cnt_q
                     \/ cnt_q' = cnt_q + 1 /\ status_cnt_q + cnt_q < Depth
      BY <2>1, CntMoves
    <3>6. status_cnt_q' \in 0 .. Depth /\ cnt_q' \in 0 .. Depth
      BY FifoMoves, CntMoves
    <3>7. \/ status_cnt_q' <= status_cnt_q + 1 /\ cnt_q' = cnt_q - 1
          \/ /\ status_cnt_q' <= status_cnt_q + 1 /\ cnt_q' = cnt_q
             /\ status_cnt_q + cnt_q < Depth
          \/ status_cnt_q' <= status_cnt_q /\ cnt_q' = cnt_q
          \/ status_cnt_q' <= status_cnt_q /\ cnt_q' = cnt_q - 1
          \/ /\ status_cnt_q' <= status_cnt_q /\ cnt_q' = cnt_q + 1
             /\ status_cnt_q + cnt_q < Depth
      BY <3>3, <3>4, <3>5
    <3>8. status_cnt_q' \in Nat /\ cnt_q' \in Nat
      BY <3>6
    <3> QED BY <3>1, <3>7, <3>8, <3>9, RoomArithmetic DEF AnswersHaveRoom
  <2> QED BY <2>2, <2>3, <2>4, CounterTypes
<1>7. \/ Branching(in) \/ HwlpFlushResp(in) \/ HwlpWaitRespFlush(in)
      \/ in.redirect = "none"
  BY DEF Allowed, AnyInput, Branching, HwlpFlushResp, HwlpWaitRespFlush, HwlpJumping
<1> QED BY <1>2, <1>3, <1>4, <1>5, <1>6, <1>7

\* Taking a word leaves another one buffered or on its way: the FIFO has room
\* for two, so the controller asked for the next word in time.
LEMMA NextWordRequested ==
  ASSUME CounterInv, NEW in, Allowed(in), Cycle(in),
         in.redirect = "none", FetchReady(in)
  PROVE  status_cnt_q' > 0 \/ cnt_q' > 0
<1>1. /\ ~Discarding(in) /\ in.req /\ (~Empty \/ in.rvalid)
  BY DEF FetchReady, FetchValid
<1>2. status_cnt_q' = CountAfter(Push(in), Pop(in))
  BY FifoMoves
<1>3. /\ Pop(in) <=> ~Empty
      /\ Push(in) <=> in.rvalid /\ ~Empty
  BY <1>1 DEF Pop, Push
<1>4. FifoCntMasked(in) = status_cnt_q
  BY DEF FifoCntMasked
<1>5. CASE status_cnt_q > 1
  <2>1. status_cnt_q' = status_cnt_q - 1 \/ status_cnt_q' = status_cnt_q
    BY <1>2, <1>3, <1>5, CounterTypes DEF CountAfter, Empty
  <2> QED BY <1>5, <2>1, CounterTypes
<1>6. CASE status_cnt_q = 1
  <2>1. ~Empty /\ ~Full BY <1>6 DEF Empty, Full
  <2>2. CASE in.rvalid
    <3>1. status_cnt_q' = 1
      BY <1>2, <1>3, <1>6, <2>1, <2>2 DEF CountAfter
    <3> QED BY <3>1
  <2>3. CASE ~in.rvalid /\ cnt_q = 0
    <3>1. Accepted(in)
      BY <1>1, <1>4, <1>6, <2>3, CountStep
         DEF Accepted, TransValid, CounterInv
    <3> QED BY <2>3, <3>1, CntMoves
  <2>4. CASE ~in.rvalid /\ cnt_q # 0
    <3>1. cnt_q' = cnt_q \/ cnt_q' = cnt_q + 1
      BY <2>4, CntMoves
    <3> QED BY <2>4, <3>1, CounterTypes
  <2> QED BY <2>2, <2>3, <2>4
<1>7. CASE status_cnt_q = 0
  <2>1. in.rvalid /\ cnt_q > 0
    BY <1>1, <1>7, CntMoves DEF Empty
  <2>2. CASE cnt_q = 1
    <3>1. Accepted(in)
      BY <1>1, <1>4, <1>7, <2>1, <2>2, CountStep
         DEF Accepted, TransValid, CounterInv
    <3> QED BY <2>1, <2>2, <3>1, CntMoves
  <2>3. CASE cnt_q > 1
    <3>1. cnt_q' = cnt_q \/ cnt_q' = cnt_q - 1
      BY <2>1, CntMoves
    <3> QED BY <2>3, <3>1, CounterTypes
  <2> QED BY <2>1, <2>2, <2>3, CounterTypes
<1> QED BY <1>5, <1>6, <1>7, CounterTypes

\* A cycle that leaves the core inside a path leaves its next word requested.
LEMMA EndStep ==
  ASSUME CounterInv, NEW in, Allowed(in), Cycle(in)
  PROVE  EndRequested'
<1>1. HistoryClock(in)
  BY DEF Cycle
<1>2. CASE Branching(in)
  BY <1>1, <1>2 DEF HistoryClock, EndRequested
<1>3. CASE HwlpJumping(in)
  <2>1. PendNow(in) \in WordAddr /\ ~Branching(in)
    BY <1>3 DEF PendNow, HwlpJumping, Branching, Allowed, AnyInput
  <2>2. PendNow(in) # NoAddr BY <2>1
  <2> QED BY <1>1, <2>1, <2>2 DEF HistoryClock, EndRequested
<1>4. CASE in.redirect = "none" /\ FetchReady(in)
  <2>1. ~Branching(in) /\ PendNow(in) = pend
    BY <1>4 DEF Branching, PendNow, HwlpJumping
  <2>2. inRun' = (pend = NoAddr)
    BY <1>1, <1>4, <2>1 DEF HistoryClock
  <2>3. ASSUME pend = NoAddr PROVE flush_cnt_q' = 0
    <3>1. flush_cnt_q = 0 /\ ~hwlp_flush_after_resp
      BY <1>4, <2>3, CounterTypes
         DEF FetchReady, FetchValid, Discarding, CounterInv, DelayedFlushOK
    <3>2. ~HwlpFlushRespDelayed(in) /\ ~(in.rvalid /\ flush_cnt_q > 0)
      BY <3>1 DEF HwlpFlushRespDelayed
    <3>3. flush_cnt_q' = flush_cnt_q
      BY <1>4, <3>2, StaleMoves
    <3> QED BY <3>1, <3>3
  <2>4. status_cnt_q' > 0 \/ cnt_q' > 0
    BY <1>4, NextWordRequested
  <2> QED BY <2>2, <2>3, <2>4 DEF EndRequested
<1>5. CASE in.redirect = "none" /\ ~FetchReady(in)
  <2>1. ~Branching(in) /\ PendNow(in) = pend
    BY <1>5 DEF Branching, PendNow, HwlpJumping
  <2>2. inRun' = inRun /\ pend' = pend
    BY <1>1, <1>5, <2>1 DEF HistoryClock
  <2>3. SUFFICES ASSUME inRun, pend = NoAddr
                 PROVE  flush_cnt_q' = 0 /\ (status_cnt_q' > 0 \/ cnt_q' > 0)
    BY <2>2 DEF EndRequested
  <2>4. /\ flush_cnt_q = 0 /\ ~hwlp_flush_after_resp
        /\ status_cnt_q > 0 \/ cnt_q > 0
    BY <2>3 DEF CounterInv, EndRequested, DelayedFlushOK
  <2>5. flush_cnt_q' = 0
    <3>1. ~HwlpFlushRespDelayed(in) /\ ~(in.rvalid /\ flush_cnt_q > 0)
      BY <2>4 DEF HwlpFlushRespDelayed
    <3>2. flush_cnt_q' = flush_cnt_q
      BY <1>5, <3>1, StaleMoves
    <3> QED BY <2>4, <3>2
  <2>6. ~Pop(in) /\ (Push(in) <=> in.rvalid)
    BY <1>5, <2>1, <2>4 DEF Pop, Push, Discarding
  <2>7. status_cnt_q' = status_cnt_q + (IF Push(in) /\ ~Full THEN 1 ELSE 0)
    BY <1>5, <2>6, FifoMoves, CounterTypes DEF CountAfter
  <2>8. CASE status_cnt_q > 0
    <3>1. status_cnt_q' = status_cnt_q \/ status_cnt_q' = status_cnt_q + 1
      BY <2>7, CounterTypes
    <3> QED BY <2>5, <2>8, <3>1, CounterTypes
  <2>9. CASE status_cnt_q = 0 /\ in.rvalid
    <3>1. ~Full BY <2>9 DEF Full
    <3>2. status_cnt_q' = 1 BY <2>6, <2>7, <2>9, <3>1
    <3> QED BY <2>5, <3>2
  <2>10. CASE status_cnt_q = 0 /\ ~in.rvalid
    <3>1. cnt_q > 0 BY <2>4, <2>10
    <3>2. cnt_q' = cnt_q \/ cnt_q' = cnt_q + 1 BY <2>10, CntMoves
    <3> QED BY <2>5, <3>1, <3>2, CounterTypes
  <2> QED BY <2>8, <2>9, <2>10, CounterTypes
<1> QED BY <1>2, <1>3, <1>4, <1>5
        DEF Allowed, AnyInput, Branching, HwlpJumping

\* A flush that waits for HWLP_END keeps waiting for the oldest answer.
LEMMA DelayedStep ==
  ASSUME CounterInv, NEW in, Allowed(in), Cycle(in)
  PROVE  DelayedFlushOK'
<1>1. HistoryClock(in)
  BY DEF Cycle
<1>2. CASE Branching(in) \/ HwlpFlushResp(in)
  BY <1>2, StaleMoves DEF DelayedFlushOK
<1>3. CASE HwlpWaitRespFlush(in)
  <2>1. hwlp_flush_cnt_delayed_q' = cnt_q - 1 /\ flush_cnt_q' = 0
    BY <1>3, StaleMoves, WaitMeansOutstanding
  <2>2. cnt_q' = cnt_q \/ cnt_q' = cnt_q + 1
    BY <1>3, CntMoves DEF HwlpWaitRespFlush
  <2>3. status_cnt_q' = 0
    BY <1>3, FifoMoves DEF HwlpWaitRespFlush, Push
  <2>4. pend' # NoAddr
    <3>1. ~FetchReady(in)
      BY <1>3 DEF FetchReady, FetchValid, HwlpWaitRespFlush
    <3>2. PendNow(in) \in WordAddr /\ ~Branching(in)
      BY <1>3 DEF PendNow, HwlpJumping, Branching, Allowed, AnyInput,
                  HwlpWaitRespFlush
    <3>3. PendNow(in) # NoAddr BY <3>2
    <3> QED BY <1>1, <3>1, <3>2, <3>3 DEF HistoryClock
  <2>5. hwlp_flush_cnt_delayed_q' < cnt_q'
    BY <2>1, <2>2, CounterTypes
  <2> QED BY <2>1, <2>3, <2>4, <2>5 DEF DelayedFlushOK
<1>4. CASE in.redirect = "none" /\ HwlpFlushRespDelayed(in)
  BY <1>4, StaleMoves DEF DelayedFlushOK
<1>5. CASE in.redirect = "none" /\ ~HwlpFlushRespDelayed(in)
  <2>1. SUFFICES ASSUME hwlp_flush_after_resp
                 PROVE  /\ hwlp_flush_cnt_delayed_q' < cnt_q'
                        /\ flush_cnt_q' = 0
                        /\ status_cnt_q' = 0
                        /\ pend' # NoAddr
    BY <1>5, StaleMoves DEF DelayedFlushOK
  <2>2. /\ ~in.rvalid /\ hwlp_flush_cnt_delayed_q < cnt_q
        /\ flush_cnt_q = 0 /\ status_cnt_q = 0 /\ pend # NoAddr
    BY <1>5, <2>1 DEF HwlpFlushRespDelayed, CounterInv, DelayedFlushOK
  <2>3. cnt_q' = cnt_q \/ cnt_q' = cnt_q + 1
    BY <2>2, CntMoves
  <2>4. hwlp_flush_cnt_delayed_q' = hwlp_flush_cnt_delayed_q /\ flush_cnt_q' = 0
    BY <1>5, <2>2, StaleMoves
  <2>5. hwlp_flush_cnt_delayed_q' < cnt_q'
    BY <2>2, <2>3, <2>4, CounterTypes
  <2>6. status_cnt_q' = 0
    BY <1>5, <2>2, FifoMoves DEF CountAfter, Push, Pop, Empty
  <2>7. pend' # NoAddr
    <3>1. ~FetchReady(in) /\ ~Branching(in) /\ PendNow(in) = pend
      BY <1>5, <2>2
         DEF FetchReady, FetchValid, Empty, PendNow, HwlpJumping, Branching
    <3> QED BY <1>1, <2>2, <3>1 DEF HistoryClock
  <2> QED BY <2>4, <2>5, <2>6, <2>7
<1>6. \/ Branching(in) \/ HwlpFlushResp(in) \/ HwlpWaitRespFlush(in)
      \/ in.redirect = "none"
  BY DEF Allowed, AnyInput, Branching, HwlpFlushResp, HwlpWaitRespFlush, HwlpJumping
<1> QED BY <1>2, <1>3, <1>4, <1>5, <1>6

\* All of the inductive invariant.
LEMMA CounterStep ==
  ASSUME CounterInv, NEW in, Allowed(in), Cycle(in)
  PROVE  CounterInv'
  BY TypeStep, CountStep, RoomStep, EndStep, DelayedStep DEF CounterInv

\* Nothing is buffered or under way at reset.
LEMMA InitCounters == Init => CounterInv
<1> SUFFICES ASSUME Init PROVE CounterInv OBVIOUS
<1>1. TypeOK
  BY EmptySeq
     DEF Init, FifoInit, ObiInit, CtrlInit, TypeOK, FifoTypeOK, ObiTypeOK,
         CtrlTypeOK, Slot, WordAddr
<1>2. Len(granted) = 0
  BY EmptySeq DEF Init
<1> QED BY <1>1, <1>2
  DEF Init, FifoInit, ObiInit, CtrlInit, CounterInv, CountIsOutstanding,
      AnswersHaveRoom, Stale, EndRequested, DelayedFlushOK

-----------------------------------------------------------------------------
\* The prefetch buffer's counters, FIFO occupancy and bus agree in every
\* reachable state, whatever the memory's timing, the core's stalls and the
\* sequence of branches and hardware-loop jumps.
THEOREM CounterInvariant == Spec => []CounterInv
<1>1. Init => CounterInv
  BY InitCounters
<1>2. CounterInv /\ [Next]_vars => CounterInv'
  <2> SUFFICES ASSUME CounterInv, [Next]_vars PROVE CounterInv' OBVIOUS
  <2>1. CASE Next
    <3>1. PICK in : Allowed(in) /\ Cycle(in)
      BY <2>1, StepIsCycle DEF CounterInv
    <3> QED BY <3>1, CounterStep
  <2>2. CASE UNCHANGED vars
    BY <2>2 DEF vars, fifoVars, obiVars, ctrlVars, busVars, history, CounterInv,
       TypeOK, FifoTypeOK, ObiTypeOK, CtrlTypeOK, CountIsOutstanding,
       AnswersHaveRoom, Stale, EndRequested, DelayedFlushOK
  <2> QED BY <2>1, <2>2
<1> QED BY <1>1, <1>2, PTL DEF Spec

\* Every state component stays in its type, in particular no counter wraps.
THEOREM TypeCorrect == Spec => []TypeOK
<1>1. CounterInv => TypeOK BY DEF CounterInv
<1> QED BY <1>1, CounterInvariant, PTL

\* cnt_q is the number of fetches under way and never exceeds the FIFO depth.
THEOREM OutstandingCounted == Spec => []CountIsOutstanding
<1>1. CounterInv => CountIsOutstanding BY DEF CounterInv
<1> QED BY <1>1, CounterInvariant, PTL

\* No answer of the current path can find the FIFO full.
THEOREM NoAnswerDropped == Spec => []AnswersHaveRoom
<1>1. CounterInv => AnswersHaveRoom BY DEF CounterInv
<1> QED BY <1>1, CounterInvariant, PTL

\* Whenever a hardware-loop jump may come, HWLP_END has been requested.
THEOREM LoopEndRequested == Spec => []EndRequested
<1>1. CounterInv => EndRequested BY DEF CounterInv
<1> QED BY <1>1, CounterInvariant, PTL

\* As long as the flush of a loop jump waits for HWLP_END, that word is the oldest
\* one outstanding: nothing is buffered and nothing discarded before it.
THEOREM DelayedFlushCorrect == Spec => []DelayedFlushOK
<1>1. CounterInv => DelayedFlushOK BY DEF CounterInv
<1> QED BY <1>1, CounterInvariant, PTL
-----------------------------------------------------------------------------
\* Outstanding, word by word, of any bus queue g and adapter register a.
LEMMA OutstandingAt ==
  ASSUME NEW g \in Seq(WordAddr), NEW a \in WordAddr, NEW held \in BOOLEAN
  PROVE  LET out == g \o (IF held THEN <<a>> ELSE <<>>)
         IN  \A i \in 1 .. Len(g) + (IF held THEN 1 ELSE 0) :
               out[i] = IF i <= Len(g) THEN g[i] ELSE a
<1>1. Len(g) \in Nat BY LenProperties
<1>2. CASE held
  <2>1. <<a>> \in Seq(WordAddr) /\ Len(<<a>>) = 1 /\ <<a>>[1] = a OBVIOUS
  <2>2. \A i \in 1 .. Len(g) + 1 :
          (g \o <<a>>)[i] = IF i <= Len(g) THEN g[i] ELSE <<a>>[i - Len(g)]
    BY <2>1, ConcatProperties
  <2>3. \A i \in 1 .. Len(g) + 1 : i > Len(g) => i - Len(g) = 1
    BY <1>1
  <2> QED BY <1>1, <1>2, <2>1, <2>2, <2>3
<1>3. CASE ~held
  <2>1. g \o <<>> = g BY ConcatEmptySeq
  <2> QED BY <1>1, <1>3, <2>1
<1> QED BY <1>2, <1>3

\* The queue after a cycle: the oldest is answered, what the controller asked
\* for joins at the end.
LEMMA QueueStep ==
  ASSUME CounterInv, NEW in, Allowed(in), Cycle(in)
  PROVE  LET r == IF in.rvalid THEN 1 ELSE 0
         IN  /\ granted' \in Seq(WordAddr)
             /\ Len(granted') = Len(granted) - r
                  + (IF ObiReq(TransValid(in)) /\ in.gnt THEN 1 ELSE 0)
             /\ \A i \in 1 .. Len(granted') :
                  granted'[i] = IF i <= Len(granted) - r THEN granted[i + r]
                                ELSE ObiAddr(TransAddr(in))
<1> DEFINE r == IF in.rvalid THEN 1 ELSE 0
           left == IF in.rvalid THEN Tail(granted) ELSE granted
           asks == ObiReq(TransValid(in)) /\ in.gnt
           a == ObiAddr(TransAddr(in))
<1>1. granted \in Seq(WordAddr) /\ Len(granted) \in Nat
  BY LenProperties DEF CounterInv, TypeOK
<1>2. /\ left \in Seq(WordAddr) /\ Len(left) = Len(granted) - r
      /\ \A i \in 1 .. Len(left) : left[i] = granted[i + r]
  <2>1. CASE in.rvalid
    <3>1. granted # <<>> BY <2>1 DEF Allowed
    <3>2. /\ Tail(granted) \in Seq(WordAddr)
          /\ Len(Tail(granted)) = Len(granted) - 1
          /\ \A i \in 1 .. Len(Tail(granted)) : Tail(granted)[i] = granted[i + 1]
      BY <1>1, <3>1, HeadTailProperties
    <3> QED BY <2>1, <3>2
  <2>2. CASE ~in.rvalid BY <1>1, <2>2
  <2> QED BY <2>1, <2>2
<1>3. a \in WordAddr
  BY DEF TransAddr, ObiAddr, NextAddr, CounterInv, TypeOK, CtrlTypeOK,
         ObiTypeOK, Allowed, AnyInput, WordAddr
<1>4. granted' = IF asks THEN Append(left, a) ELSE left
  BY DEF Cycle, MemoryClock
<1>5. /\ Append(left, a) \in Seq(WordAddr)
      /\ Len(Append(left, a)) = Len(left) + 1
      /\ \A i \in 1 .. Len(left) : Append(left, a)[i] = left[i]
      /\ Append(left, a)[Len(left) + 1] = a
  BY <1>2, <1>3, AppendProperties
<1>6. r \in {0, 1} OBVIOUS
<1> SUFFICES /\ granted' \in Seq(WordAddr)
             /\ Len(granted') = Len(granted) - r + (IF asks THEN 1 ELSE 0)
             /\ \A i \in 1 .. Len(granted') :
                  granted'[i] = IF i <= Len(granted) - r THEN granted[i + r] ELSE a
  OBVIOUS
<1> HIDE DEF left, a, r, asks
<1>7. CASE asks
  <2>1. /\ granted' \in Seq(WordAddr) /\ Len(granted') = Len(left) + 1
        /\ \A i \in 1 .. Len(left) : granted'[i] = left[i]
        /\ granted'[Len(left) + 1] = a
    BY <1>4, <1>5, <1>7
  <2> QED BY <1>1, <1>2, <1>6, <1>7, <2>1
<1>8. CASE ~asks
  <2>1. granted' = left BY <1>4, <1>8
  <2> QED BY <1>1, <1>2, <1>6, <1>8, <2>1
<1> QED BY <1>7, <1>8

\* The outstanding fetches after a cycle, whether on the bus or in the adapter.
LEMMA OutstandingStep ==
  ASSUME CounterInv, NEW in, Allowed(in), Cycle(in)
  PROVE  LET r == IF in.rvalid THEN 1 ELSE 0
         IN  /\ in.rvalid => Outstanding[1] = Head(granted)
             /\ \A i \in 1 .. cnt_q' :
                  Outstanding'[i] = IF i + r <= cnt_q THEN Outstanding[i + r]
                                    ELSE TransAddr(in)
<1> DEFINE r == IF in.rvalid THEN 1 ELSE 0
           held == obi_state = "REGISTERED"
           n == Len(granted)
           n1 == Len(granted')
           a == TransAddr(in)
<1>1. /\ granted \in Seq(WordAddr) /\ n \in Nat /\ obi_addr_q \in WordAddr
      /\ held \in BOOLEAN
  BY LenProperties DEF CounterInv, TypeOK, ObiTypeOK
<1>2. /\ granted' \in Seq(WordAddr) /\ n1 \in Nat /\ obi_addr_q' \in WordAddr
      /\ held' \in BOOLEAN
  <2>1. ObiTypeOK' /\ (granted \in Seq(WordAddr))'
    BY TypeStep DEF TypeOK
  <2> QED BY <2>1, LenProperties DEF ObiTypeOK
<1>3. /\ cnt_q = n + (IF held THEN 1 ELSE 0)
      /\ cnt_q' = n1 + (IF held' THEN 1 ELSE 0)
  <2>1. CountIsOutstanding' BY CountStep DEF CounterInv
  <2> QED BY <2>1 DEF CounterInv, CountIsOutstanding
<1>4. \A i \in 1 .. cnt_q :
        Outstanding[i] = IF i <= n THEN granted[i] ELSE obi_addr_q
  BY <1>1, <1>3, OutstandingAt DEF Outstanding
<1>5. \A i \in 1 .. cnt_q' :
        Outstanding'[i] = IF i <= n1 THEN granted'[i] ELSE obi_addr_q'
  BY <1>2, <1>3, OutstandingAt DEF Outstanding
<1>6. /\ n1 = n - r + (IF ObiReq(TransValid(in)) /\ in.gnt THEN 1 ELSE 0)
      /\ \A i \in 1 .. n1 :
           granted'[i] = IF i <= n - r THEN granted[i + r] ELSE ObiAddr(a)
  BY QueueStep
<1>7. /\ held' = (ObiReq(TransValid(in)) /\ ~in.gnt)
      /\ held' => obi_addr_q' = ObiAddr(a)
  BY DEF Cycle, ObiClock
<1>8. ObiAddr(a) = IF held THEN obi_addr_q ELSE a
  BY DEF ObiAddr
<1>9. in.rvalid => n > 0 /\ Head(granted) = granted[1]
  BY <1>1, HeadTailProperties, EmptySeq DEF Allowed
<1>10. in.rvalid => Outstanding[1] = Head(granted)
  BY <1>1, <1>3, <1>4, <1>9
<1>11. r \in {0, 1} /\ (r = 1 => n > 0) BY <1>9
<1>12. ObiReq(TransValid(in)) <=> held \/ TransValid(in)
  BY DEF ObiReq
<1>13. ASSUME NEW i \in 1 .. cnt_q'
       PROVE  Outstanding'[i] = IF i + r <= cnt_q THEN Outstanding[i + r] ELSE a
  <2> HIDE DEF held, n, n1, a, r
  <2>1. CASE i <= n - r
    <3>1. i \in 1 .. n1 /\ i <= n1 BY <1>1, <1>6, <1>11, <2>1
    <3>2. Outstanding'[i] = granted[i + r] BY <1>5, <1>6, <2>1, <3>1
    <3>3. i + r \in 1 .. cnt_q /\ i + r <= n BY <1>1, <1>3, <1>11, <2>1
    <3> QED BY <1>4, <3>2, <3>3
  <2>2. CASE i > n - r
    <3>1. Outstanding'[i] = ObiAddr(a)
      BY <1>1, <1>2, <1>5, <1>3, <1>6, <1>7, <2>2, <1>11
    <3>2. i = n - r + 1
      <4>1. cnt_q' <= n - r + 1
        <5>1. CASE in.gnt
          <6>1. ~held' BY <1>7, <5>1
          <6> QED BY <6>1, <1>1, <1>3, <1>6, <1>11
        <5>2. CASE ~in.gnt
          <6>1. n1 = n - r BY <5>2, <1>1, <1>6, <1>11
          <6> QED BY <6>1, <1>1, <1>2, <1>3, <1>11
        <5> QED BY <5>1, <5>2
      <4> QED BY <1>1, <1>2, <1>3, <1>11, <2>2, <4>1
    <3>3. CASE held
      <4>1. i + r = cnt_q /\ i + r > n BY <1>1, <1>3, <1>11, <3>2, <3>3
      <4>2. i + r \in 1 .. cnt_q BY <1>1, <1>3, <1>11, <4>1, <3>3
      <4>3. ~(i + r <= n) BY <1>1, <1>11, <4>1
      <4>4. Outstanding[i + r] = obi_addr_q BY <1>4, <4>2, <4>3
      <4> QED BY <1>8, <3>1, <3>3, <4>1, <4>2, <4>4
    <3>4. CASE ~held
      <4>1. ~(i + r <= cnt_q) BY <1>1, <1>3, <1>11, <3>2, <3>4
      <4> QED BY <1>8, <3>1, <3>4, <4>1
    <3> QED BY <3>3, <3>4
  <2> QED BY <1>1, <1>11, <2>1, <2>2
<1> QED BY <1>10, <1>13

-----------------------------------------------------------------------------
\* The FIFO's slots seen from a read pointer r: the i-th one.
SlotFrom(r, i) == IF r + (i - 1) < Depth THEN r + (i - 1) ELSE (r + (i - 1)) - Depth

\* Slots follow each other, and Depth of them in a row are distinct.
LEMMA SlotArithmetic ==
  ASSUME NEW r \in Slot, NEW i \in 1 .. Depth
  PROVE  /\ SlotFrom(r, i) \in Slot
         /\ SlotFrom(r, i + 1) \in Slot
         /\ SlotFrom(NextSlot(r), i) = SlotFrom(r, i + 1)
         /\ SlotFrom(r, i + 1) = NextSlot(SlotFrom(r, i))
         /\ \A j \in 1 .. Depth : SlotFrom(r, i) = SlotFrom(r, j) => i = j
  BY DEF SlotFrom, NextSlot, Slot

\* After Depth slots comes the first again.
LEMMA SlotWraps ==
  ASSUME NEW r \in Slot
  PROVE  SlotFrom(r, Depth + 1) = r
<1>1. r \in Int /\ Depth \in Int /\ 0 <= r BY DEF Slot
<1>2. r + ((Depth + 1) - 1) = r + Depth BY <1>1
<1>3. ~(r + Depth < Depth) /\ (r + Depth) - Depth = r BY <1>1
<1> QED BY <1>2, <1>3 DEF SlotFrom

\* The write pointer is where the next word goes.
PointersFit == write_pointer_q = SlotAt(status_cnt_q + 1)

\* A pushed word is never dropped.
LEMMA PushHasRoom ==
  ASSUME CounterInv, NEW in, Allowed(in), Cycle(in), Push(in)
  PROVE  status_cnt_q < Depth
<1>1. flush_cnt_q = 0 /\ in.rvalid
  BY CounterTypes DEF Push, Discarding
<1>2. cnt_q > 0 BY <1>1, CntMoves
<1>3. CASE hwlp_flush_after_resp
  BY <1>3 DEF CounterInv, DelayedFlushOK
<1>4. CASE ~hwlp_flush_after_resp
  <2>1. status_cnt_q + (cnt_q - 0) <= Depth
    BY <1>1, <1>4 DEF CounterInv, AnswersHaveRoom, Stale
  <2> QED BY <1>2, <2>1, CounterTypes
<1> QED BY <1>3, <1>4

\* What a cycle leaves in the FIFO: without a redirection the popped word is
\* gone and the pushed one is last; a loop jump keeps HWLP_END alone.
LEMMA ContentsStep ==
  ASSUME CounterInv, PointersFit, NEW in, Allowed(in), Cycle(in)
  PROVE  /\ PointersFit'
         /\ in.redirect = "none" =>
              LET p == IF Pop(in) THEN 1 ELSE 0
              IN  /\ status_cnt_q' = status_cnt_q - p + (IF Push(in) THEN 1 ELSE 0)
                  /\ \A i \in 1 .. status_cnt_q' :
                       Contents'[i] = IF i + p <= status_cnt_q THEN Contents[i + p]
                                      ELSE Head(granted)
         /\ HwlpJumping(in) /\ ~Empty /\ Pop(in) => status_cnt_q' = 0
         /\ HwlpJumping(in) /\ ~Empty /\ ~Pop(in) =>
              status_cnt_q' = 1 /\ Contents'[1] = Contents[1]
         /\ HwlpJumping(in) /\ Empty /\ Push(in) =>
              status_cnt_q' = 1 /\ Contents'[1] = Head(granted)
<1> DEFINE r == read_pointer_q
           w == write_pointer_q
           k == status_cnt_q
           k1 == status_cnt_q'
           p == IF Pop(in) THEN 1 ELSE 0
           q == IF Push(in) THEN 1 ELSE 0
<1>1. /\ r \in Slot /\ w \in Slot /\ mem_q \in [Slot -> Word] /\ k \in 0 .. Depth
      /\ read_pointer_q' \in Slot /\ k1 \in 0 .. Depth
  BY TypeStep DEF TypeOK, FifoTypeOK, CounterInv
<1>2. FifoClock(FifoFlush(in), FifoFlushButFirst(in), Push(in), Pop(in),
                Head(granted))
  BY DEF Cycle
<1>3. /\ \A i \in 1 .. k : Contents[i] = mem_q[SlotFrom(r, i)]
      /\ \A i \in 1 .. k1 : Contents'[i] = mem_q'[SlotFrom(read_pointer_q', i)]
  <2>1. r \in 0 .. Depth - 1 /\ read_pointer_q' \in 0 .. Depth - 1
    BY <1>1 DEF Slot
  <2>2. ASSUME NEW i \in 1 .. k PROVE Contents[i] = mem_q[SlotFrom(r, i)]
    BY <1>1, <2>1 DEF Contents, SlotAt, SlotFrom
  <2>3. ASSUME NEW i \in 1 .. k1
        PROVE  Contents'[i] = mem_q'[SlotFrom(read_pointer_q', i)]
    <3>1. Contents'[i] = mem_q'[SlotAt(i)'] BY DEF Contents
    <3>2. SlotAt(i)' = SlotFrom(read_pointer_q', i)
      BY <1>1, <2>1 DEF SlotAt, SlotFrom
    <3> QED BY <3>1, <3>2
  <2> QED BY <2>2, <2>3
<1>4. w = SlotFrom(r, k + 1)
  BY <1>1 DEF PointersFit, SlotAt, SlotFrom, Slot
<1>5. PointersFit' <=> write_pointer_q' = SlotFrom(read_pointer_q', k1 + 1)
  <2>1. read_pointer_q' \in 0 .. Depth - 1 /\ k1 + 1 \in Int
    BY <1>1 DEF Slot
  <2>2. SlotAt(status_cnt_q + 1)' = SlotFrom(read_pointer_q', k1 + 1)
    BY <2>1 DEF SlotAt, SlotFrom
  <2> QED BY <2>2 DEF PointersFit
<1>6. Push(in) => k < Depth
  BY PushHasRoom
<1>7. mem_q' = IF Push(in) THEN [mem_q EXCEPT ![w] = Head(granted)] ELSE mem_q
  BY <1>1, <1>2, <1>6 DEF FifoClock, Full
<1>8. SlotFrom(0, 1) = 0 /\ 0 \in Slot
  BY DEF SlotFrom, Slot
<1>9. Pop(in) => k > 0
  BY <1>1 DEF Pop, Empty
<1>10. CASE Branching(in) \/ (HwlpJumping(in) /\ ~Empty /\ Pop(in))
  <2>1. read_pointer_q' = 0 /\ write_pointer_q' = 0 /\ k1 = 0
    BY <1>2, <1>10 DEF FifoClock, FifoFlush
  <2>2. PointersFit' BY <1>5, <1>8, <2>1
  <2> QED BY <1>10, <2>1, <2>2 DEF Branching, HwlpJumping
<1>11. CASE HwlpJumping(in) /\ ~Empty /\ ~Pop(in)
  <2>1. read_pointer_q' = r /\ write_pointer_q' = NextSlot(r) /\ k1 = 1
    BY <1>2, <1>11 DEF FifoClock, FifoFlush, FifoFlushButFirst, HwlpJumping, Branching
  <2>2. SlotFrom(r, 1) = r /\ SlotFrom(r, 2) = NextSlot(r)
    BY <1>1 DEF SlotFrom, NextSlot, Slot
  <2>3. PointersFit' BY <1>5, <2>1, <2>2
  <2>4. k > 0 BY <1>1, <1>11 DEF Empty
  <2>5. Push(in) => w # r
    <3>1. SUFFICES ASSUME Push(in), w = r PROVE FALSE OBVIOUS
    <3>2. 1 \in 1 .. Depth /\ k + 1 \in 1 .. Depth BY <1>1, <1>6, <2>4, <3>1
    <3> QED BY <1>1, <1>4, <2>2, <2>4, <3>1, <3>2, SlotArithmetic
  <2>6. mem_q'[r] = mem_q[r] BY <1>1, <1>7, <2>5
  <2>7. Contents'[1] = Contents[1]
    BY <1>1, <1>3, <2>1, <2>2, <2>4, <2>6
  <2> QED BY <1>11, <2>1, <2>3, <2>7 DEF Branching, HwlpJumping
<1>12. CASE in.redirect = "none" \/ (HwlpJumping(in) /\ Empty)
  <2>1. ~FifoFlush(in) /\ ~FifoFlushButFirst(in)
    BY <1>12 DEF FifoFlush, FifoFlushButFirst, HwlpJumping, Branching
  <2>2. /\ read_pointer_q' = IF Pop(in) THEN NextSlot(r) ELSE r
        /\ write_pointer_q' = IF Push(in) THEN NextSlot(w) ELSE w
        /\ k1 = k + q - p
    <3>1. (Pop(in) => ~Empty) /\ (Push(in) => ~Full)
      BY <1>1, <1>6 DEF Pop, Full
    <3>2. /\ read_pointer_q' = IF Pop(in) THEN NextSlot(r) ELSE r
          /\ write_pointer_q' = IF Push(in) THEN NextSlot(w) ELSE w
          /\ k1 = CountAfter(Push(in), Pop(in))
      BY <1>2, <2>1, <3>1 DEF FifoClock
    <3> QED BY <1>1, <3>1, <3>2 DEF CountAfter
  <2>3. \A i \in 1 .. Depth : SlotFrom(read_pointer_q', i) = SlotFrom(r, i + p)
    BY <1>1, <2>2, SlotArithmetic
  <2>4. p \in {0, 1} /\ q \in {0, 1} /\ (p = 1 => k > 0) /\ (q = 1 => k < Depth)
    BY <1>6, <1>9
  <2>5. PointersFit'
    <3>1. CASE k1 < Depth
      <4>1. SlotFrom(read_pointer_q', k1 + 1) = SlotFrom(r, k + q + 1)
        <5>1. k1 + 1 \in 1 .. Depth /\ k1 + 1 + p = k + q + 1
          BY <1>1, <2>2, <2>4, <3>1
        <5> QED BY <2>3, <5>1
      <4>2. SlotFrom(r, k + q + 1) = IF Push(in) THEN NextSlot(w) ELSE w
        <5>1. CASE Push(in)
          <6>1. k + 1 \in 1 .. Depth BY <1>1, <1>6, <5>1
          <6>2. SlotFrom(r, (k + 1) + 1) = NextSlot(SlotFrom(r, k + 1))
            BY <1>1, <6>1, SlotArithmetic
          <6> QED BY <1>1, <1>4, <5>1, <6>2
        <5>2. CASE ~Push(in) BY <1>1, <1>4, <5>2
        <5> QED BY <5>1, <5>2
      <4> QED BY <1>5, <2>2, <4>1, <4>2
    <3>2. CASE k1 = Depth
      <4>1. Depth \in 1 .. Depth BY DepthAssumption
      <4>2. SlotFrom(read_pointer_q', Depth + 1) = read_pointer_q'
        BY <1>1, SlotWraps
      <4>3. CASE Push(in)
        <5>1. k + 1 \in 1 .. Depth BY <1>1, <1>6, <4>3
        <5>2. SlotFrom(r, (k + 1) + 1) = NextSlot(SlotFrom(r, k + 1))
          BY <1>1, <5>1, SlotArithmetic
        <5>3. CASE Pop(in)
          <6>1. k = Depth BY <1>1, <2>2, <3>2, <4>3, <5>3
          <6> QED BY <1>6, <4>3, <6>1
        <5>4. CASE ~Pop(in)
          <6>1. k + 1 = Depth BY <1>1, <2>2, <3>2, <4>3, <5>4
          <6> QED BY <1>1, <1>4, <1>5, <2>2, <3>2, <4>3, <5>2, <5>4, <6>1
        <5> QED BY <5>3, <5>4
      <4>4. CASE ~Push(in)
        <5>1. ~Pop(in) /\ k = Depth BY <1>1, <2>2, <2>4, <3>2, <4>4
        <5> QED BY <1>1, <1>4, <1>5, <2>2, <3>2, <4>4, <5>1
      <4> QED BY <4>3, <4>4
    <3> QED BY <1>1, <3>1, <3>2
  <2>6. ASSUME NEW i \in 1 .. k1
        PROVE  Contents'[i] = IF i + p <= k THEN Contents[i + p] ELSE Head(granted)
    <3>1. i \in 1 .. Depth /\ i + p \in 1 .. Depth /\ i + p <= k + q
      BY <1>1, <2>2, <2>4
    <3>2. Contents'[i] = mem_q'[SlotFrom(r, i + p)]
      BY <1>3, <2>3, <3>1
    <3>3. SlotFrom(r, i + p) \in Slot BY <1>1, <3>1, SlotArithmetic
    <3>4. CASE i + p <= k
      <4>1. Push(in) => w # SlotFrom(r, i + p)
        <5>1. SUFFICES ASSUME Push(in), w = SlotFrom(r, i + p) PROVE FALSE
          OBVIOUS
        <5>2. k + 1 \in 1 .. Depth BY <1>1, <1>6, <5>1
        <5>3. k + 1 = i + p BY <1>1, <1>4, <3>1, <5>1, <5>2, SlotArithmetic
        <5> QED BY <1>1, <2>4, <3>4, <5>3
      <4>2. mem_q'[SlotFrom(r, i + p)] = mem_q[SlotFrom(r, i + p)]
        BY <1>1, <1>7, <3>3, <4>1
      <4>3. Contents[i + p] = mem_q[SlotFrom(r, i + p)]
        BY <1>1, <1>3, <3>1, <3>4
      <4> QED BY <3>2, <3>4, <4>2, <4>3
    <3>5. CASE ~(i + p <= k)
      <4>1. Push(in) /\ i + p = k + 1 BY <1>1, <2>4, <3>1, <3>5
      <4>2. mem_q'[w] = Head(granted) BY <1>1, <1>7, <4>1
      <4> QED BY <1>4, <3>2, <3>5, <4>1, <4>2
    <3> QED BY <3>4, <3>5
  <2>7. HwlpJumping(in) /\ Empty /\ Push(in) =>
          k1 = 1 /\ Contents'[1] = Head(granted)
    <3>1. SUFFICES ASSUME HwlpJumping(in), Empty, Push(in)
                   PROVE  k1 = 1 /\ Contents'[1] = Head(granted)
      OBVIOUS
    <3>2. p = 0 /\ k = 0 /\ k1 = 1 BY <1>9, <2>2, <3>1 DEF Empty
    <3>3. 1 \in 1 .. k1 /\ ~(1 + p <= k) BY <3>2
    <3> QED BY <2>6, <3>2, <3>3
  <2>8. k1 = k - p + q BY <1>1, <2>2, <2>4
  <2>9. ~(HwlpJumping(in) /\ ~Empty)
    BY <1>12 DEF HwlpJumping
  <2>10. in.redirect = "none" =>
          /\ k1 = k - p + q
          /\ \A i \in 1 .. k1 :
               Contents'[i] = IF i + p <= k THEN Contents[i + p] ELSE Head(granted)
    BY <2>6, <2>8
  <2> QED BY <2>5, <2>7, <2>9, <2>10
<1> QED BY <1>10, <1>11, <1>12 DEF Branching, HwlpJumping, Allowed, AnyInput

-----------------------------------------------------------------------------
\* Before the first pc_set_o nothing was asked for.
BeforeBoot ==
  next = NoAddr => cnt_q = 0 /\ status_cnt_q = 0 /\ pend = NoAddr /\ ~inRun

\* A target that waits for the bus is the very next word, or follows HWLP_END.
WaitsAlone ==
  state_q = "BRANCH_WAIT" => LiveCnt = IF pend = NoAddr THEN 0 ELSE 1

\* A loop start that is due comes after HWLP_END, which is buffered or under way.
EndBeforePend == pend # NoAddr => LiveCnt > 0

\* The path is continuous because of where a redirection finds the words: with a
\* target waiting for the bus, a loop jump would have overwritten it.
PathInv ==
  /\ CounterInv
  /\ PointersFit
  /\ BeforeBoot
  /\ WaitsAlone
  /\ EndBeforePend
  /\ PathIsContinuous

\* The bounds of the number of live words.
LEMMA LiveTypes ==
  ASSUME CounterInv
  PROVE  /\ Stale \in 0 .. cnt_q
         /\ LiveCnt = status_cnt_q + (cnt_q - Stale)
         /\ LiveCnt \in status_cnt_q .. Depth
<1>1. Stale \in Nat BY CounterTypes DEF Stale
<1> QED BY <1>1, CounterTypes DEF CounterInv, AnswersHaveRoom, LiveCnt

\* Where the i-th word ahead is: FIFO, bus, or still to be asked for.
LEMMA AheadCases ==
  ASSUME CounterInv, NEW i \in Nat, i > 0
  PROVE  /\ i <= status_cnt_q => Ahead(i) = Contents[i]
         /\ i > LiveCnt => Ahead(i) = Asked
         /\ /\ i > status_cnt_q /\ i <= LiveCnt
            /\ ~(hwlp_flush_after_resp /\ i = 1)
            => Ahead(i) = Outstanding[Stale + i - status_cnt_q]
         /\ hwlp_flush_after_resp /\ i = 1 => Ahead(i) = Outstanding[1]
<1>1. hwlp_flush_after_resp => status_cnt_q = 0 /\ LiveCnt > 0
  <2>1. SUFFICES ASSUME hwlp_flush_after_resp
                 PROVE  status_cnt_q = 0 /\ LiveCnt > 0
    OBVIOUS
  <2>2. Stale < cnt_q /\ status_cnt_q = 0
    BY <2>1 DEF CounterInv, DelayedFlushOK, Stale
  <2> QED BY <2>2, LiveTypes, CounterTypes
<1> QED BY <1>1, LiveTypes, CounterTypes DEF Ahead

\* The word the core takes is the first one ahead.
LEMMA FirstIsDelivered ==
  ASSUME PathInv, NEW in, Allowed(in), Cycle(in), FetchReady(in)
  PROVE  FetchData(in) = Ahead(1) /\ LiveCnt > 0
<1>1. CounterInv /\ flush_cnt_q = 0 /\ (~Empty \/ in.rvalid)
  BY CounterTypes DEF PathInv, FetchReady, FetchValid, Discarding
<1>2. CASE ~Empty
  <2>1. status_cnt_q > 0 BY <1>1, <1>2, CounterTypes DEF Empty
  <2>2. read_pointer_q \in Slot BY <1>1 DEF CounterInv, TypeOK, FifoTypeOK
  <2>3. Contents[1] = FifoData
    BY <1>1, <2>1, <2>2, CounterTypes DEF Contents, SlotAt, FifoData, Slot
  <2>4. LiveCnt > 0 BY <1>1, <2>1, LiveTypes, CounterTypes
  <2> QED BY <1>1, <1>2, <2>1, <2>3, <2>4, AheadCases, CounterTypes DEF FetchData
<1>3. CASE Empty /\ hwlp_flush_after_resp
  <2>1. Stale < cnt_q /\ status_cnt_q = 0
    BY <1>1, <1>3 DEF CounterInv, DelayedFlushOK, Stale
  <2>2. LiveCnt > 0 BY <1>1, <2>1, LiveTypes, CounterTypes
  <2>3. Ahead(1) = Outstanding[1] BY <1>1, <1>3, AheadCases
  <2> QED BY <1>1, <1>3, <2>2, <2>3, OutstandingStep DEF FetchData
<1>4. CASE Empty /\ ~hwlp_flush_after_resp
  <2>1. Stale = 0 /\ status_cnt_q = 0 /\ cnt_q > 0 /\ in.rvalid
    BY <1>1, <1>4, CntMoves DEF Stale, Empty
  <2>2. LiveCnt > 0 BY <1>1, <2>1, LiveTypes, CounterTypes
  <2>3. Ahead(1) = Outstanding[1]
    BY <1>1, <1>4, <2>1, <2>2, AheadCases, LiveTypes
  <2> QED BY <1>1, <1>4, <2>1, <2>2, <2>3, OutstandingStep DEF FetchData
<1> QED BY <1>2, <1>3, <1>4

\* The count of live words, as a number.
LEMMA LiveArithmetic ==
  ASSUME NEW k \in Nat, NEW c \in Nat, NEW s \in 0 .. c
  PROVE  /\ k + (c - s) \in Nat /\ k <= k + (c - s)
         /\ s < c => k + (c - s) > 0
  OBVIOUS

\* LiveTypes and AheadCases in the next state.
LEMMA AheadCasesNext ==
  ASSUME CounterInv, NEW in, Allowed(in), Cycle(in)
  PROVE  /\ Stale' \in 0 .. cnt_q' /\ status_cnt_q' \in Nat /\ cnt_q' \in Nat
         /\ LiveCnt' = status_cnt_q' + (cnt_q' - Stale')
         /\ \A i \in Nat \ {0} :
              /\ i <= status_cnt_q' => Ahead(i)' = Contents'[i]
              /\ i > LiveCnt' => Ahead(i)' = Asked'
              /\ /\ i > status_cnt_q' /\ i <= LiveCnt'
                 /\ ~(hwlp_flush_after_resp' /\ i = 1)
                 => Ahead(i)' = Outstanding'[Stale' + i - status_cnt_q']
              /\ hwlp_flush_after_resp' /\ i = 1 => Ahead(i)' = Outstanding'[1]
<1>1. CounterInv' BY CounterStep
<1>2. /\ cnt_q' \in Nat /\ status_cnt_q' \in Nat /\ flush_cnt_q' \in Nat
      /\ hwlp_flush_cnt_delayed_q' \in Nat /\ hwlp_flush_after_resp' \in BOOLEAN
  BY <1>1 DEF CounterInv, TypeOK, CtrlTypeOK, FifoTypeOK
<1>3. Stale' \in 0 .. cnt_q'
  <2>1. Stale' \in Nat BY <1>2 DEF Stale
  <2>2. Stale' <= cnt_q' BY <1>1 DEF CounterInv, AnswersHaveRoom
  <2> QED BY <1>2, <2>1, <2>2
<1>4. LiveCnt' = status_cnt_q' + (cnt_q' - Stale')
  BY DEF LiveCnt
<1>6. LiveCnt' \in Nat /\ status_cnt_q' <= LiveCnt'
  BY <1>2, <1>3, <1>4, LiveArithmetic
<1>5. hwlp_flush_after_resp' => status_cnt_q' = 0 /\ LiveCnt' > 0
  <2>1. SUFFICES ASSUME hwlp_flush_after_resp'
                 PROVE  status_cnt_q' = 0 /\ LiveCnt' > 0
    OBVIOUS
  <2>2. Stale' < cnt_q' /\ status_cnt_q' = 0
    BY <1>1, <2>1 DEF CounterInv, DelayedFlushOK, Stale
  <2> QED BY <1>2, <1>3, <1>4, <2>2, LiveArithmetic
<1>7. ASSUME NEW i \in Nat \ {0}
      PROVE  /\ i <= status_cnt_q' => Ahead(i)' = Contents'[i]
             /\ i > LiveCnt' => Ahead(i)' = Asked'
             /\ /\ i > status_cnt_q' /\ i <= LiveCnt'
                /\ ~(hwlp_flush_after_resp' /\ i = 1)
                => Ahead(i)' = Outstanding'[Stale' + i - status_cnt_q']
             /\ hwlp_flush_after_resp' /\ i = 1 => Ahead(i)' = Outstanding'[1]
  BY <1>2, <1>5, <1>6 DEF Ahead
<1> QED BY <1>2, <1>3, <1>4, <1>7

\* What the controller asks for next.
LEMMA AskedStep ==
  ASSUME CounterInv, NEW in, Allowed(in), Cycle(in)
  PROVE  /\ Accepted(in) => Asked' = NextAddr(TransAddr(in))
         /\ in.redirect = "none" => TransAddr(in) = Asked
         /\ in.redirect = "none" /\ ~Accepted(in) => Asked' = Asked
         /\ in.redirect # "none" /\ ~Accepted(in) => Asked' = TransAddr(in)
         /\ Accepted(in) => state_q' = "IDLE"
         /\ in.redirect = "none" /\ ~Accepted(in) => state_q' = state_q
<1>1. /\ state_q' = IF Accepted(in) THEN "IDLE"
                    ELSE IF in.redirect # "none" THEN "BRANCH_WAIT" ELSE state_q
      /\ trans_addr_q' = IF in.redirect # "none" \/ Accepted(in)
                         THEN TransAddr(in) ELSE trans_addr_q
  BY DEF Cycle, CtrlClock, StateClock
<1>2. state_q \in {"IDLE", "BRANCH_WAIT"}
  BY DEF CounterInv, TypeOK, CtrlTypeOK
<1>3. in.redirect = "none" => TransAddr(in) = Asked
  BY <1>2 DEF TransAddr, Asked, Branching, HwlpJumping
<1>4. Accepted(in) => Asked' = NextAddr(TransAddr(in))
  <2>1. SUFFICES ASSUME Accepted(in) PROVE Asked' = NextAddr(TransAddr(in))
    OBVIOUS
  <2>2. state_q' = "IDLE" /\ trans_addr_q' = TransAddr(in) BY <1>1, <2>1
  <2>3. Asked' = NextAddr(trans_addr_q)' BY <2>2 DEF Asked
  <2> QED BY <2>2, <2>3 DEF NextAddr
<1>5. in.redirect # "none" /\ ~Accepted(in) => Asked' = TransAddr(in)
  BY <1>1 DEF Asked
<1>6. in.redirect = "none" /\ ~Accepted(in) => Asked' = Asked
  BY <1>1 DEF Asked, NextAddr
<1> QED BY <1>1, <1>3, <1>4, <1>5, <1>6

\* Without a redirection the words ahead move up as they are taken, and the next
\* address joins them when it is accepted.
LEMMA AheadStraight ==
  ASSUME PathInv, NEW in, Allowed(in), Cycle(in), in.redirect = "none"
  PROVE  LET d == IF FetchReady(in) THEN 1 ELSE 0
             acc == IF Accepted(in) THEN 1 ELSE 0
         IN  /\ LiveCnt' = LiveCnt + acc - d
             /\ \A i \in 1 .. LiveCnt' + 1 :
                  Ahead(i)' = IF i + d <= LiveCnt + 1 THEN Ahead(i + d)
                              ELSE NextAddr(Ahead(LiveCnt + 1))
<1> DEFINE d == IF FetchReady(in) THEN 1 ELSE 0
           acc == IF Accepted(in) THEN 1 ELSE 0
           r == IF in.rvalid THEN 1 ELSE 0
           p == IF Pop(in) THEN 1 ELSE 0
           q == IF Push(in) THEN 1 ELSE 0
           K == status_cnt_q
           K1 == status_cnt_q'
           L == LiveCnt
           L1 == LiveCnt'
           S == Stale
           S1 == Stale'
           c == cnt_q
           c1 == cnt_q'
<1>1. CounterInv /\ PointersFit BY DEF PathInv
<1>2. /\ K \in Nat /\ c \in Nat /\ S \in 0 .. c /\ L = K + (c - S)
      /\ K1 \in Nat /\ c1 \in Nat /\ S1 \in 0 .. c1 /\ L1 = K1 + (c1 - S1)
  BY <1>1, LiveTypes, CounterTypes, AheadCasesNext
<1>3. /\ K1 = K - p + q
      /\ \A i \in 1 .. K1 :
           Contents'[i] = IF i + p <= K THEN Contents[i + p] ELSE Head(granted)
  BY <1>1, ContentsStep
<1>4. /\ in.rvalid => Outstanding[1] = Head(granted)
      /\ \A i \in 1 .. c1 :
           Outstanding'[i] = IF i + r <= c THEN Outstanding[i + r] ELSE Asked
  <2>1. TransAddr(in) = Asked BY <1>1, AskedStep
  <2> QED BY <1>1, <2>1, OutstandingStep
<1>5. c1 = c + acc - r /\ (r = 1 => c > 0)
  BY <1>1, CntMoves, CounterTypes
<1>6. /\ d \in {0, 1} /\ acc \in {0, 1} /\ r \in {0, 1} /\ p \in {0, 1}
      /\ q \in {0, 1}
  OBVIOUS
<1>7. /\ Asked' = IF acc = 1 THEN NextAddr(Asked) ELSE Asked
      /\ Ahead(L + 1) = Asked
  <2>1. Asked' = IF acc = 1 THEN NextAddr(Asked) ELSE Asked
    BY <1>1, AskedStep
  <2>2. L + 1 \in Nat /\ L + 1 > L /\ L + 1 > 0 BY <1>2
  <2>3. Ahead(L + 1) = Asked BY <1>1, <2>2, AheadCases
  <2> QED BY <2>1, <2>3
\* What is kept where: the four phases of discarding.
<1>8. \/ /\ ~hwlp_flush_after_resp /\ ~hwlp_flush_after_resp'
         /\ S = 0 /\ S1 = 0 /\ r - q = d - p
         /\ (q = 1 => r = 1) /\ (p = 1 => K > 0) /\ (K > 0 => d = p)
         /\ (K = 0 => p = 0)
      \/ /\ ~hwlp_flush_after_resp /\ ~hwlp_flush_after_resp'
         /\ S > 0 /\ S1 = S - r /\ d = 0 /\ p = 0 /\ q = 0
      \/ /\ hwlp_flush_after_resp /\ hwlp_flush_after_resp'
         /\ K = 0 /\ S < c /\ S1 = S /\ r = 0 /\ d = 0 /\ p = 0 /\ q = 0
      \/ /\ hwlp_flush_after_resp /\ ~hwlp_flush_after_resp'
         /\ K = 0 /\ S < c /\ S1 = S /\ r = 1 /\ p = 0 /\ q = 1 - d
  <2>0. /\ Empty <=> K = 0
        /\ FetchReady(in) => (~Empty \/ in.rvalid)
    BY DEF Empty, FetchReady, FetchValid
  <2>1. CASE ~hwlp_flush_after_resp /\ flush_cnt_q = 0
    <3>1. ~HwlpFlushRespDelayed(in) /\ ~Discarding(in)
      BY <2>1 DEF HwlpFlushRespDelayed, Discarding, Branching
    <3>2. ~hwlp_flush_after_resp' /\ flush_cnt_q' = 0
      <4>1. ~(in.rvalid /\ flush_cnt_q > 0) BY <2>1
      <4>2. /\ hwlp_flush_after_resp' = hwlp_flush_after_resp
            /\ flush_cnt_q' = flush_cnt_q
        BY <1>1, <3>1, <4>1, StaleMoves
      <4> QED BY <2>1, <4>2
    <3>3. S = 0 /\ S1 = 0 BY <2>1, <3>2 DEF Stale
    <3>4. /\ Push(in) <=> in.rvalid /\ (~Empty \/ ~FetchReady(in))
          /\ Pop(in) <=> ~Empty /\ FetchReady(in)
      BY <3>1 DEF Push, Pop
    <3>5. /\ r - q = d - p /\ (q = 1 => r = 1) /\ (p = 1 => K > 0)
          /\ (K > 0 => d = p) /\ (K = 0 => p = 0)
      <4>1. CASE Empty
        <5>1. K = 0 /\ p = 0 BY <2>0, <3>4, <4>1
        <5>2. CASE FetchReady(in)
          <6>1. d = 1 /\ q = 0 /\ r = 1 BY <2>0, <3>4, <4>1, <5>2
          <6> QED BY <5>1, <6>1
        <5>3. CASE ~FetchReady(in)
          <6>1. d = 0 /\ q = r BY <3>4, <5>3
          <6> QED BY <1>6, <5>1, <6>1
        <5> QED BY <5>2, <5>3
      <4>2. CASE ~Empty
        <5>1. K > 0 /\ p = d /\ q = r BY <1>2, <2>0, <3>4, <4>2
        <5> QED BY <1>6, <5>1
      <4> QED BY <4>1, <4>2
    <3> QED BY <2>1, <3>2, <3>3, <3>5
  <2>2. CASE ~hwlp_flush_after_resp /\ flush_cnt_q # 0
    <3>1. flush_cnt_q > 0 BY <1>1, <2>2, CounterTypes
    <3>2. ~FetchReady(in) /\ ~Push(in) /\ ~Pop(in)
      BY <3>1 DEF Push, Pop, FetchReady, FetchValid, Discarding
    <3>3. ~HwlpFlushRespDelayed(in) BY <2>2 DEF HwlpFlushRespDelayed
    <3>4. /\ hwlp_flush_after_resp' = hwlp_flush_after_resp
          /\ flush_cnt_q' = flush_cnt_q - r
      <4>1. /\ hwlp_flush_after_resp' = hwlp_flush_after_resp
            /\ in.rvalid => flush_cnt_q' = flush_cnt_q - 1
            /\ ~in.rvalid => flush_cnt_q' = flush_cnt_q
        BY <1>1, <3>1, <3>3, StaleMoves
      <4> QED BY <1>1, <4>1, CounterTypes
    <3>5. S = flush_cnt_q /\ S1 = flush_cnt_q' BY <2>2, <3>4 DEF Stale
    <3> QED BY <2>2, <3>1, <3>2, <3>4, <3>5
  <2>3. CASE hwlp_flush_after_resp /\ ~in.rvalid
    <3>1. K = 0 /\ S < c
      BY <1>1, <2>3 DEF CounterInv, DelayedFlushOK, Stale
    <3>2. ~FetchReady(in) /\ ~Push(in) /\ ~Pop(in)
      BY <2>0, <2>3, <3>1 DEF Push, Pop
    <3>3. ~HwlpFlushRespDelayed(in) BY <2>3 DEF HwlpFlushRespDelayed
    <3>4. /\ hwlp_flush_after_resp'
          /\ hwlp_flush_cnt_delayed_q' = hwlp_flush_cnt_delayed_q
      BY <1>1, <2>3, <3>3, StaleMoves
    <3>5. S1 = S BY <2>3, <3>4 DEF Stale
    <3> QED BY <2>3, <3>1, <3>2, <3>4, <3>5
  <2>4. CASE hwlp_flush_after_resp /\ in.rvalid
    <3>1. K = 0 /\ S < c /\ flush_cnt_q = 0
      BY <1>1, <2>4 DEF CounterInv, DelayedFlushOK, Stale
    <3>2. ~Discarding(in) BY <3>1 DEF Discarding, Branching
    <3>3. (Push(in) <=> ~FetchReady(in)) /\ ~Pop(in)
      BY <2>0, <2>4, <3>1, <3>2 DEF Push, Pop
    <3>4. HwlpFlushRespDelayed(in) BY <2>4 DEF HwlpFlushRespDelayed
    <3>5. ~hwlp_flush_after_resp' /\ flush_cnt_q' = hwlp_flush_cnt_delayed_q
      BY <1>1, <3>4, StaleMoves
    <3>6. S1 = S BY <2>4, <3>5 DEF Stale
    <3>7. q = 1 - d BY <3>3
    <3> QED BY <2>4, <3>1, <3>3, <3>5, <3>6, <3>7
  <2> QED BY <1>1, <2>1, <2>2, <2>3, <2>4, CounterTypes
<1> SUFFICES /\ L1 = L + acc - d
             /\ \A i \in 1 .. L1 + 1 :
                  Ahead(i)' = IF i + d <= L + 1 THEN Ahead(i + d)
                              ELSE NextAddr(Ahead(L + 1))
  OBVIOUS
<1>9. \A i \in Nat \ {0} :
        /\ i <= K => Ahead(i) = Contents[i]
        /\ i > L => Ahead(i) = Asked
        /\ i > K /\ i <= L /\ ~(hwlp_flush_after_resp /\ i = 1)
           => Ahead(i) = Outstanding[S + i - K]
        /\ hwlp_flush_after_resp /\ i = 1 => Ahead(i) = Outstanding[1]
  BY <1>1, AheadCases
<1>10. \A i \in Nat \ {0} :
        /\ i <= K1 => Ahead(i)' = Contents'[i]
        /\ i > L1 => Ahead(i)' = Asked'
        /\ i > K1 /\ i <= L1 /\ ~(hwlp_flush_after_resp' /\ i = 1)
           => Ahead(i)' = Outstanding'[S1 + i - K1]
        /\ hwlp_flush_after_resp' /\ i = 1 => Ahead(i)' = Outstanding'[1]
  BY <1>1, AheadCasesNext
<1>11. in.rvalid <=> r = 1 OBVIOUS
<1> HIDE DEF d, acc, r, p, q, K, K1, L, L1, S, S1, c, c1
<1>12. L1 = L + acc - d
  BY <1>2, <1>3, <1>5, <1>6, <1>8
<1>13. ASSUME NEW i \in 1 .. L1 + 1
       PROVE  Ahead(i)' = IF i + d <= L + 1 THEN Ahead(i + d)
                          ELSE NextAddr(Ahead(L + 1))
  <2>0. i \in Nat \ {0} /\ i + d \in Nat \ {0} BY <1>2, <1>6
  \* the last one
  <2>1. CASE i = L1 + 1
    <3>1. Ahead(i)' = Asked' BY <1>2, <1>10, <2>0, <2>1
    <3>2. i + d = L + acc + 1 BY <1>2, <1>6, <1>12, <2>1
    <3>3. CASE acc = 1
      BY <1>2, <1>7, <3>1, <3>2, <3>3
    <3>4. CASE acc = 0
      <4>1. i + d = L + 1 BY <1>2, <3>2, <3>4
      <4> QED BY <1>2, <1>7, <3>1, <3>4, <4>1
    <3> QED BY <1>6, <3>3, <3>4
  \* in the FIFO
  <2>2. CASE i <= K1
    <3>1. Ahead(i)' = Contents'[i] /\ i \in 1 .. K1
      BY <1>2, <1>10, <2>0, <2>2
    <3>2. CASE i + p <= K
      <4>1. d = p BY <1>2, <1>6, <1>8, <2>0, <3>2
      <4>2. Ahead(i)' = Contents[i + p] BY <1>3, <3>1, <3>2
      <4>3. i + d <= K /\ i + d <= L + 1 BY <1>2, <1>6, <2>0, <3>2, <4>1
      <4> QED BY <1>9, <2>0, <4>1, <4>2, <4>3
    <3>3. CASE ~(i + p <= K)
      <4>1. Ahead(i)' = Head(granted) BY <1>3, <3>1, <3>3
      <4>2. q = 1 /\ i + p = K + 1 BY <1>2, <1>3, <1>6, <2>0, <2>2, <3>3
      <4>3. in.rvalid /\ Ahead(i)' = Outstanding[1]
        BY <1>4, <1>6, <1>8, <1>11, <4>1, <4>2
      <4>4. i + d = K + 1 /\ d = p /\ K + 1 <= L
        BY <1>2, <1>5, <1>6, <1>8, <4>2
      <4>5. Ahead(K + 1) = Outstanding[1]
        <5>1. CASE hwlp_flush_after_resp
          <6>1. K = 0 BY <1>8, <5>1
          <6> QED BY <1>9, <5>1, <6>1
        <5>2. CASE ~hwlp_flush_after_resp
          <6>1. S = 0 /\ S + (K + 1) - K = 1 BY <1>2, <1>8, <4>2, <5>2
          <6>2. K + 1 \in Nat \ {0} /\ K + 1 > K BY <1>2
          <6> QED BY <1>9, <4>4, <5>2, <6>1, <6>2
        <5> QED BY <5>1, <5>2
      <4> QED BY <1>2, <4>3, <4>4, <4>5
    <3> QED BY <3>2, <3>3
  \* on the bus
  <2>3. CASE i > K1 /\ i <= L1 /\ ~(hwlp_flush_after_resp' /\ i = 1)
    <3> DEFINE j == S1 + i - K1
    <3>1. Ahead(i)' = Outstanding'[j] BY <1>10, <2>0, <2>3
    <3>2. j \in 1 .. c1 BY <1>2, <2>0, <2>3
    <3>3. j + r = S + (i + d) - K /\ i + d > K
      BY <1>2, <1>3, <1>6, <1>8, <2>0, <2>3
    <3>4. ~(hwlp_flush_after_resp /\ i + d = 1)
      BY <1>2, <1>3, <1>6, <1>8, <2>0, <2>3
    <3>5. Ahead(i)' = IF j + r <= c THEN Outstanding[j + r] ELSE Asked
      BY <1>4, <3>1, <3>2
    <3>6. j + r <= c <=> i + d <= L
      BY <1>2, <1>6, <2>0, <3>3
    <3> HIDE DEF j
    <3>7. CASE i + d <= L
      <4>1. Ahead(i + d) = Outstanding[j + r]
        BY <1>9, <2>0, <3>3, <3>4, <3>7
      <4>2. i + d <= L + 1 BY <1>2, <2>0, <3>7
      <4> QED BY <3>5, <3>6, <3>7, <4>1, <4>2
    <3>8. CASE ~(i + d <= L)
      <4>1. i + d = L + 1
        BY <1>2, <1>6, <1>12, <2>0, <2>3, <3>8
      <4> QED BY <1>7, <1>2, <3>5, <3>6, <3>8, <4>1
    <3> QED BY <3>7, <3>8
  <2>4. CASE hwlp_flush_after_resp' /\ i = 1 /\ i > K1
    <3>1. /\ hwlp_flush_after_resp /\ d = 0 /\ r = 0 /\ K = 0 /\ S < c
          /\ K1 = 0
      BY <1>2, <1>3, <1>8, <2>4
    <3>2. Ahead(i)' = Outstanding'[1] BY <1>10, <2>0, <2>4
    <3>3. 1 \in 1 .. c1 /\ 1 + r <= c BY <1>2, <1>5, <1>6, <3>1
    <3>4. Outstanding'[1] = Outstanding[1] BY <1>4, <3>1, <3>3
    <3>5. Ahead(1) = Outstanding[1] BY <1>9, <3>1
    <3>6. i + d = 1 /\ i + d <= L + 1 BY <1>2, <2>4, <3>1
    <3> QED BY <3>2, <3>4, <3>5, <3>6
  <2>5. K1 \in Int /\ L1 \in Int BY <1>2
  <2> QED BY <2>0, <2>1, <2>2, <2>3, <2>4, <2>5
<1> QED BY <1>12, <1>13

\* A redirection that discards at once puts its target behind what the FIFO keeps.
LEMMA AheadFlushed ==
  ASSUME CounterInv, NEW in, Allowed(in), Cycle(in),
         Branching(in) \/ HwlpFlushResp(in)
  PROVE  LET acc == IF Accepted(in) THEN 1 ELSE 0
             K1 == status_cnt_q'
         IN  /\ LiveCnt' = K1 + acc
             /\ \A j \in Nat : j = K1 + 1 => Ahead(j)' = TransAddr(in)
             /\ \A j \in Nat : j = K1 + 2 /\ acc = 1 =>
                  Ahead(j)' = NextAddr(TransAddr(in))
             /\ K1 > 0 => Ahead(1)' = Contents'[1]
<1> DEFINE acc == IF Accepted(in) THEN 1 ELSE 0
           r == IF in.rvalid THEN 1 ELSE 0
           K1 == status_cnt_q'
           L1 == LiveCnt'
           S1 == Stale'
           c == cnt_q
           c1 == cnt_q'
<1>1. in.redirect # "none"
  BY DEF Branching, HwlpFlushResp, HwlpJumping
<1>2. /\ S1 \in 0 .. c1 /\ K1 \in Nat /\ c1 \in Nat /\ c \in Nat
      /\ L1 = K1 + (c1 - S1)
  BY AheadCasesNext, CounterTypes
<1>3. c1 = c + acc - r /\ (r = 1 => c > 0)
  BY CntMoves, CounterTypes
<1>4. ~hwlp_flush_after_resp' /\ S1 = c - r
  <2>1. /\ hwlp_flush_after_resp' = FALSE /\ S1 = flush_cnt_q'
        /\ in.rvalid => flush_cnt_q' = c - 1
        /\ ~in.rvalid => flush_cnt_q' = c
    BY StaleMoves, FlushLeavesOne
  <2> QED BY <1>2, <2>1
<1>5. /\ Accepted(in) => Asked' = NextAddr(TransAddr(in))
      /\ ~Accepted(in) => Asked' = TransAddr(in)
  BY <1>1, AskedStep
<1>6. /\ acc \in {0, 1} /\ r \in {0, 1}
      /\ acc = 1 <=> Accepted(in)
  OBVIOUS
<1>7. \A i \in Nat \ {0} :
        /\ i <= K1 => Ahead(i)' = Contents'[i]
        /\ i > L1 => Ahead(i)' = Asked'
        /\ i > K1 /\ i <= L1 /\ ~(hwlp_flush_after_resp' /\ i = 1)
           => Ahead(i)' = Outstanding'[S1 + i - K1]
  BY AheadCasesNext
<1>8. \A i \in 1 .. c1 :
        Outstanding'[i] = IF i + r <= c THEN Outstanding[i + r] ELSE TransAddr(in)
  BY OutstandingStep
<1> SUFFICES /\ L1 = K1 + acc
             /\ \A j \in Nat : j = K1 + 1 => Ahead(j)' = TransAddr(in)
             /\ \A j \in Nat : j = K1 + 2 /\ acc = 1 =>
                  Ahead(j)' = NextAddr(TransAddr(in))
             /\ K1 > 0 => Ahead(1)' = Contents'[1]
  OBVIOUS
<1> HIDE DEF acc, r, K1, L1, S1, c, c1
<1>9. L1 = K1 + acc BY <1>2, <1>3, <1>4, <1>6
<1>10. ASSUME NEW j \in Nat, j = K1 + 1 PROVE Ahead(j)' = TransAddr(in)
  <2>1. j \in Nat \ {0} /\ j > K1 BY <1>2, <1>10
  <2>2. CASE acc = 1
    <3>1. S1 + j - K1 = c1 /\ c1 \in 1 .. c1 /\ ~(c1 + r <= c)
      BY <1>2, <1>3, <1>4, <1>6, <1>10, <2>2
    <3>2. j <= L1 BY <1>2, <1>9, <1>10, <2>2
    <3>3. Ahead(j)' = Outstanding'[c1] BY <1>4, <1>7, <2>1, <3>1, <3>2
    <3> QED BY <1>8, <3>1, <3>3
  <2>3. CASE acc = 0
    <3>1. j > L1 BY <1>2, <1>9, <1>10, <2>3
    <3> QED BY <1>5, <1>6, <1>7, <2>1, <2>3, <3>1
  <2> QED BY <1>6, <2>2, <2>3
<1>11. ASSUME NEW j \in Nat, j = K1 + 2, acc = 1
       PROVE  Ahead(j)' = NextAddr(TransAddr(in))
  <2>1. j \in Nat \ {0} /\ j > L1 BY <1>2, <1>9, <1>11
  <2> QED BY <1>5, <1>6, <1>7, <1>11, <2>1
<1>12. K1 > 0 => Ahead(1)' = Contents'[1]
  <2>1. 1 \in Nat \ {0} /\ (K1 > 0 => 1 <= K1) BY <1>2
  <2> QED BY <1>7, <2>1
<1> QED BY <1>9, <1>10, <1>11, <1>12

\* A branch leaves its target, and what follows it, ahead.
LEMMA AheadBranch ==
  ASSUME CounterInv, NEW in, Allowed(in), Cycle(in), Branching(in)
  PROVE  /\ LiveCnt' = IF Accepted(in) THEN 1 ELSE 0
         /\ Ahead(1)' = in.target
         /\ Accepted(in) => Ahead(2)' = NextAddr(in.target)
<1>1. status_cnt_q' = 0 BY FifoMoves
<1>2. TransAddr(in) = in.target BY DEF TransAddr
<1> QED BY <1>1, <1>2, AheadFlushed

\* A loop jump keeps the word at HWLP_END, unless it is taken at once, and puts
\* the loop start behind it.
LEMMA AheadLoopJump ==
  ASSUME PathInv, NEW in, Allowed(in), Cycle(in), HwlpJumping(in)
  PROVE  LET d == IF FetchReady(in) THEN 1 ELSE 0
             acc == IF Accepted(in) THEN 1 ELSE 0
         IN  /\ LiveCnt' = (1 - d) + acc
             /\ d = 0 => Ahead(1)' = Ahead(1)
             /\ \A j \in Nat : j = 2 - d => Ahead(j)' = in.target
             /\ \A j \in Nat : j = 3 - d /\ acc = 1 =>
                  Ahead(j)' = NextAddr(in.target)
<1> DEFINE d == IF FetchReady(in) THEN 1 ELSE 0
           acc == IF Accepted(in) THEN 1 ELSE 0
<1>1. CounterInv /\ PointersFit BY DEF PathInv
<1>2. /\ flush_cnt_q = 0 /\ ~hwlp_flush_after_resp /\ pend = NoAddr
      /\ status_cnt_q > 0 \/ cnt_q > 0
  BY <1>1 DEF CounterInv, EndRequested, DelayedFlushOK, Allowed, HwlpJumping
<1>3. Stale = 0 /\ LiveCnt > 0 /\ LiveCnt = status_cnt_q + cnt_q
  <2>1. Stale = 0 BY <1>2 DEF Stale
  <2> QED BY <1>1, <1>2, <2>1, LiveTypes, CounterTypes
<1>4. TransAddr(in) = in.target
  <2>1. state_q # "BRANCH_WAIT" BY <1>2, <1>3 DEF PathInv, WaitsAlone
  <2> QED BY <2>1 DEF TransAddr, HwlpJumping, Branching
<1>5. ~Branching(in) /\ ~Discarding(in) BY <1>2 DEF Branching, HwlpJumping, Discarding
<1>6. /\ Push(in) <=> in.rvalid /\ (~Empty \/ ~FetchReady(in))
      /\ Pop(in) <=> ~Empty /\ FetchReady(in)
      /\ FetchReady(in) => ~Empty \/ in.rvalid
  BY <1>5 DEF Push, Pop, FetchReady, FetchValid
<1>7. Empty <=> status_cnt_q = 0 BY DEF Empty
<1> SUFFICES /\ LiveCnt' = (1 - d) + acc
             /\ d = 0 => Ahead(1)' = Ahead(1)
             /\ \A j \in Nat : j = 2 - d => Ahead(j)' = in.target
             /\ \A j \in Nat : j = 3 - d /\ acc = 1 =>
                  Ahead(j)' = NextAddr(in.target)
  OBVIOUS
<1>8. CASE HwlpFlushResp(in)
  <2>1. /\ status_cnt_q' = 1 - d
        /\ d = 0 => Contents'[1] = Ahead(1)
    <3>1. CASE ~Empty
      <4>1. Ahead(1) = Contents[1]
        BY <1>1, <1>7, <3>1, AheadCases, CounterTypes
      <4>2. CASE FetchReady(in)
        BY <1>1, <1>6, <3>1, <4>2, ContentsStep
      <4>3. CASE ~FetchReady(in)
        BY <1>1, <1>6, <3>1, <4>1, <4>3, ContentsStep
      <4> QED BY <4>2, <4>3
    <3>2. CASE Empty
      <4>1. in.rvalid BY <1>8, <3>2 DEF HwlpFlushResp
      <4>2. Ahead(1) = Outstanding[1]
        BY <1>1, <1>2, <1>3, <1>7, <3>2, AheadCases, CounterTypes
      <4>3. CASE FetchReady(in)
        <5>1. ~Push(in) BY <1>6, <3>2, <4>3
        <5> QED BY <1>1, <3>2, <4>3, <5>1, FifoMoves
      <4>4. CASE ~FetchReady(in)
        <5>1. Push(in) BY <1>6, <4>1, <4>4
        <5>2. status_cnt_q' = 1 /\ Contents'[1] = Head(granted)
          BY <1>1, <3>2, <5>1, ContentsStep
        <5> QED BY <1>1, <4>1, <4>2, <4>4, <5>2, OutstandingStep
      <4> QED BY <4>3, <4>4
    <3> QED BY <3>1, <3>2
  <2>2. /\ LiveCnt' = status_cnt_q' + acc
        /\ \A j \in Nat : j = status_cnt_q' + 1 => Ahead(j)' = in.target
        /\ \A j \in Nat : j = status_cnt_q' + 2 /\ acc = 1 =>
             Ahead(j)' = NextAddr(in.target)
        /\ status_cnt_q' > 0 => Ahead(1)' = Contents'[1]
    BY <1>1, <1>4, <1>8, AheadFlushed
  <2>3. d \in {0, 1} OBVIOUS
  <2> HIDE DEF d, acc
  <2>4. CASE d = 0
    <3>1. status_cnt_q' = 1 BY <2>1, <2>4
    <3>2. acc \in {0, 1} BY DEF acc
    <3> QED BY <2>1, <2>2, <2>4, <3>1, <3>2
  <2>5. CASE d = 1
    <3>1. status_cnt_q' = 0 BY <2>1, <2>5
    <3>2. acc \in {0, 1} BY DEF acc
    <3> QED BY <2>2, <2>5, <3>1, <3>2
  <2> QED BY <2>3, <2>4, <2>5
<1>9. CASE HwlpWaitRespFlush(in)
  <2> DEFINE L1 == LiveCnt'
             c == cnt_q
             c1 == cnt_q'
             S1 == Stale'
  <2>1. Empty /\ ~in.rvalid /\ status_cnt_q = 0 BY <1>7, <1>9 DEF HwlpWaitRespFlush
  <2>2. d = 0 /\ ~Push(in) BY <1>6, <2>1
  <2>3. status_cnt_q' = 0 BY <1>1, <2>1, <2>2, FifoMoves
  <2>4. c > 0 /\ c \in Nat BY <1>1, <1>9, WaitMeansOutstanding, CounterTypes
  <2>5. hwlp_flush_after_resp' /\ S1 = c - 1
    BY <1>1, <1>9, StaleMoves DEF Stale
  <2>6. c1 = c + acc /\ acc \in {0, 1}
    BY <1>1, <2>1, CntMoves, CounterTypes
  <2>7. /\ L1 = 0 + (c1 - S1)
        /\ \A i \in Nat \ {0} :
              /\ i > L1 => Ahead(i)' = Asked'
              /\ i > 0 /\ i <= L1 /\ i # 1
                 => Ahead(i)' = Outstanding'[S1 + i - 0]
              /\ i = 1 => Ahead(i)' = Outstanding'[1]
    BY <1>1, <2>3, <2>5, AheadCasesNext
  <2>8. \A i \in 1 .. c1 :
          Outstanding'[i] = IF i + 0 <= c THEN Outstanding[i + 0] ELSE in.target
    BY <1>1, <1>4, <2>1, OutstandingStep
  <2>9. /\ acc = 1 => Asked' = NextAddr(in.target)
        /\ acc = 0 => Asked' = in.target
    BY <1>1, <1>4, AskedStep DEF HwlpJumping
  <2>10. Ahead(1) = Outstanding[1]
    BY <1>1, <1>2, <1>3, <2>1, AheadCases, CounterTypes
  <2>14. d = 0 BY <2>2
  <2> HIDE DEF L1, c, c1, S1, d, acc
  <2>11. L1 = 1 + acc BY <2>4, <2>5, <2>6, <2>7
  <2>12. Ahead(1)' = Ahead(1)
    <3>1. 1 \in 1 .. c1 /\ 1 + 0 <= c BY <2>4, <2>6
    <3>2. Outstanding'[1] = Outstanding[1] BY <2>8, <3>1
    <3> QED BY <2>7, <2>10, <3>2
  <2>13. Ahead(2)' = in.target
    <3>1. CASE acc = 0
      <4>1. 2 > L1 BY <2>11, <3>1
      <4> QED BY <2>7, <2>9, <3>1, <4>1
    <3>2. CASE acc = 1
      <4>1. S1 + 2 - 0 = c + 1 /\ c + 1 \in 1 .. c1 /\ ~((c + 1) + 0 <= c)
        BY <2>4, <2>5, <2>6, <3>2
      <4>2. 2 \in Nat \ {0} /\ 2 > 0 /\ 2 <= L1 BY <2>11, <3>2
      <4>3. Ahead(2)' = Outstanding'[c + 1] BY <2>7, <4>1, <4>2
      <4> QED BY <2>8, <4>1, <4>3
    <3> QED BY <2>6, <3>1, <3>2
  <2>15. acc = 1 => Ahead(3)' = NextAddr(in.target)
    <3>1. acc = 1 => 3 > L1 BY <2>11
    <3> QED BY <2>7, <2>9, <3>1
  <2> QED BY <2>6, <2>11, <2>12, <2>13, <2>14, <2>15 DEF L1
<1> QED BY <1>8, <1>9 DEF HwlpFlushResp, HwlpWaitRespFlush

\* Without a redirection the path goes on, and a word is delivered or not.
LEMMA PathStraight ==
  ASSUME PathInv, NEW in, Allowed(in), Cycle(in), in.redirect = "none"
  PROVE  /\ BeforeBoot' /\ WaitsAlone' /\ EndBeforePend' /\ PathIsContinuous'
         /\ \/ next' = next /\ pend' = pend /\ word' = word
            \/ /\ next # NoAddr /\ word' = next /\ pend' = NoAddr
               /\ next' = IF pend # NoAddr THEN pend ELSE NextAddr(next)
<1> DEFINE d == IF FetchReady(in) THEN 1 ELSE 0
           acc == IF Accepted(in) THEN 1 ELSE 0
           L == LiveCnt
           L1 == LiveCnt'
<1>1. /\ CounterInv /\ BeforeBoot /\ WaitsAlone /\ EndBeforePend
      /\ PathIsContinuous
  BY DEF PathInv
<1>2. /\ L1 = L + acc - d
      /\ \A i \in 1 .. L1 + 1 :
           Ahead(i)' = IF i + d <= L + 1 THEN Ahead(i + d) ELSE NextAddr(Ahead(L + 1))
  BY AheadStraight
<1>3. L \in Nat /\ L1 \in Nat
  <2>1. L \in Nat BY <1>1, LiveTypes, CounterTypes
  <2>2. LiveCnt' \in Nat BY <1>1, AheadCasesNext, LiveArithmetic
  <2> QED BY <2>1, <2>2
<1>4. d = 1 => word' = Ahead(1) /\ L > 0
  <2>1. SUFFICES ASSUME FetchReady(in) PROVE word' = Ahead(1) /\ L > 0
    OBVIOUS
  <2>2. word' = FetchData(in)
    BY <2>1 DEF Cycle, HistoryClock, Branching
  <2> QED BY <2>1, <2>2, FirstIsDelivered
<1>5. /\ d = 0 => next' = next /\ pend' = pend /\ word' = word /\ inRun' = inRun
      /\ d = 1 => /\ next' = IF pend # NoAddr THEN pend ELSE NextAddr(next)
                  /\ pend' = NoAddr
  <2>1. PendNow(in) = pend /\ ~Branching(in)
    BY DEF PendNow, HwlpJumping, Branching
  <2> QED BY <2>1 DEF Cycle, HistoryClock
<1>6. acc = 1 => in.req
  BY DEF Accepted, TransValid
<1>7. in.req => next # NoAddr
  BY DEF Allowed
<1>8. state_q' = IF acc = 1 THEN "IDLE" ELSE state_q
  BY <1>1, AskedStep
<1>9. d \in {0, 1} /\ acc \in {0, 1} OBVIOUS
<1>10. FetchReady(in) <=> d = 1 OBVIOUS
<1>11. d = 1 => next # NoAddr
  <2>1. FetchReady(in) => in.req BY DEF FetchReady
  <2> QED BY <1>7, <1>10, <2>1
<1>12. next # NoAddr =>
         /\ Ahead(1) = next
         /\ \A i \in 1 .. L : Ahead(i + 1) = IF i = 1 /\ pend # NoAddr THEN pend
                                             ELSE NextAddr(Ahead(i))
  BY <1>1 DEF PathIsContinuous
<1>13. next' # NoAddr => next # NoAddr
  BY <1>5, <1>9, <1>11
<1>14. pend # NoAddr => L > 0
  BY <1>1 DEF EndBeforePend
<1>15. BeforeBoot'
  <2>1. SUFFICES ASSUME next' = NoAddr
                 PROVE  cnt_q' = 0 /\ status_cnt_q' = 0 /\ pend' = NoAddr /\ ~inRun'
    BY DEF BeforeBoot
  <2>2. next = NoAddr
    <3>1. SUFFICES ASSUME next # NoAddr PROVE FALSE OBVIOUS
    <3>2. d = 1 BY <1>5, <1>9, <2>1, <3>1
    <3>3. NextAddr(next) # NoAddr
      <4>1. NextAddr(next) \in WordAddr BY DEF NextAddr, WordAddr
      <4> QED BY <4>1
    <3> QED BY <1>5, <2>1, <3>2, <3>3
  <2>3. /\ cnt_q = 0 /\ status_cnt_q = 0 /\ pend = NoAddr /\ ~inRun
        /\ acc = 0 /\ d = 0
    BY <1>1, <1>6, <1>7, <1>9, <1>11, <2>2 DEF BeforeBoot
  <2>4. cnt_q' = 0
    <3>1. ~Accepted(in) /\ ~in.rvalid BY <1>1, <2>3, CntMoves
    <3> QED BY <1>1, <2>3, <3>1, CntMoves
  <2>5. status_cnt_q' = 0
    <3>1. ~Push(in) /\ ~Pop(in) BY <1>1, <2>3, CntMoves DEF Push, Pop, Empty
    <3>2. CountAfter(Push(in), Pop(in)) = 0 BY <2>3, <3>1 DEF CountAfter
    <3> QED BY <1>1, <3>2, FifoMoves
  <2> QED BY <1>5, <2>3, <2>4, <2>5
<1> HIDE DEF d, acc, L, L1
<1>16. WaitsAlone'
  <2>1. SUFFICES ASSUME state_q' = "BRANCH_WAIT"
                 PROVE  L1 = IF pend' = NoAddr THEN 0 ELSE 1
    BY DEF WaitsAlone, L1
  <2>2. acc = 0 /\ state_q = "BRANCH_WAIT" BY <1>8, <1>9, <2>1
  <2>3. L = IF pend = NoAddr THEN 0 ELSE 1
    BY <1>1, <2>2 DEF WaitsAlone, L
  <2> QED BY <1>2, <1>3, <1>4, <1>5, <1>9, <2>2, <2>3
<1>17. EndBeforePend'
  <2>1. SUFFICES ASSUME pend' # NoAddr PROVE L1 > 0
    BY DEF EndBeforePend, L1
  <2> QED BY <1>2, <1>3, <1>5, <1>9, <1>14, <2>1
<1>18. PathIsContinuous'
  <2>1. SUFFICES ASSUME next' # NoAddr
                 PROVE  /\ Ahead(1)' = next'
                        /\ \A i \in 1 .. L1 :
                             Ahead(i + 1)' = IF i = 1 /\ pend' # NoAddr THEN pend'
                                             ELSE NextAddr(Ahead(i)')
    <3>1. PathIsContinuous' <=>
            (next' # NoAddr =>
               /\ Ahead(1)' = next'
               /\ \A i \in 1 .. L1 :
                    Ahead(i + 1)' = IF i = 1 /\ pend' # NoAddr THEN pend'
                                    ELSE NextAddr(Ahead(i)'))
      BY DEF PathIsContinuous, NextAddr, L1
    <3> QED BY <3>1
  <2>2. /\ Ahead(1) = next
        /\ \A i \in 1 .. L : Ahead(i + 1) = IF i = 1 /\ pend # NoAddr THEN pend
                                            ELSE NextAddr(Ahead(i))
    BY <1>12, <1>13, <2>1
  <2>3. Ahead(1)' = next'
    <3>1. 1 \in 1 .. L1 + 1 BY <1>3
    <3>2. CASE d = 0
      <4>1. 1 + d <= L + 1 /\ 1 + d = 1 BY <1>3, <3>2
      <4> QED BY <1>2, <1>5, <2>2, <3>1, <3>2, <4>1
    <3>3. CASE d = 1
      <4>1. 1 + d <= L + 1 /\ 1 + d = 1 + 1 /\ 1 \in 1 .. L
        BY <1>3, <1>4, <3>3
      <4>2. Ahead(1)' = Ahead(1 + 1) BY <1>2, <3>1, <4>1
      <4> QED BY <1>5, <2>2, <3>3, <4>1, <4>2
    <3> QED BY <1>9, <3>2, <3>3
  <2>4. ASSUME NEW i \in 1 .. L1
        PROVE  Ahead(i + 1)' = IF i = 1 /\ pend' # NoAddr THEN pend'
                               ELSE NextAddr(Ahead(i)')
    <3>1. i \in 1 .. L1 + 1 /\ i + 1 \in 1 .. L1 + 1 BY <1>3
    <3>2. /\ Ahead(i)' = IF i + d <= L + 1 THEN Ahead(i + d)
                         ELSE NextAddr(Ahead(L + 1))
          /\ Ahead(i + 1)' = IF (i + 1) + d <= L + 1 THEN Ahead((i + 1) + d)
                             ELSE NextAddr(Ahead(L + 1))
      BY <1>2, <3>1
    <3>3. CASE (i + 1) + d <= L + 1
      <4>1. i + d \in 1 .. L /\ (i + 1) + d = (i + d) + 1 /\ i + d <= L + 1
        BY <1>3, <1>9, <3>3
      <4>2. Ahead((i + d) + 1) = IF i + d = 1 /\ pend # NoAddr THEN pend
                                 ELSE NextAddr(Ahead(i + d))
        BY <2>2, <4>1
      <4>3. Ahead(i)' = Ahead(i + d) /\ Ahead(i + 1)' = Ahead((i + d) + 1)
        BY <3>2, <3>3, <4>1
      <4>4. CASE d = 0
        <5>1. i + d = i BY <4>4
        <5> QED BY <1>5, <4>2, <4>3, <4>4, <5>1
      <4>5. CASE d = 1
        <5>1. ~(i + d = 1) BY <4>5
        <5> QED BY <1>5, <4>2, <4>3, <4>5, <5>1
      <4> QED BY <1>9, <4>4, <4>5
    <3>4. CASE ~((i + 1) + d <= L + 1)
      <4>1. i + d = L + 1 /\ acc = 1 BY <1>2, <1>3, <1>9, <3>4
      <4>2. Ahead(i)' = Ahead(L + 1) /\ Ahead(i + 1)' = NextAddr(Ahead(L + 1))
        BY <1>3, <3>2, <3>4, <4>1
      <4>3. ~(i = 1 /\ pend' # NoAddr)
        BY <1>3, <1>5, <1>9, <1>14, <4>1
      <4> QED BY <4>2, <4>3
    <3> QED BY <3>3, <3>4
  <2> QED BY <2>3, <2>4
<1>19. \/ next' = next /\ pend' = pend /\ word' = word
       \/ /\ next # NoAddr /\ word' = next /\ pend' = NoAddr
          /\ next' = IF pend # NoAddr THEN pend ELSE NextAddr(next)
  BY <1>4, <1>5, <1>9, <1>11, <1>12
<1> QED BY <1>15, <1>16, <1>17, <1>18, <1>19

\* A branch starts a new path at its target.
LEMMA PathBranch ==
  ASSUME PathInv, NEW in, Allowed(in), Cycle(in), Branching(in)
  PROVE  /\ BeforeBoot' /\ WaitsAlone' /\ EndBeforePend' /\ PathIsContinuous'
         /\ in.target \in WordAddr
         /\ next' = in.target /\ pend' = NoAddr /\ word' = word
<1>1. CounterInv BY DEF PathInv
<1>2. next' = in.target /\ pend' = NoAddr /\ word' = word
  BY DEF Cycle, HistoryClock
<1>3. in.target \in WordAddr /\ in.target # NoAddr
  BY DEF Allowed, AnyInput
<1>4. /\ LiveCnt' = IF Accepted(in) THEN 1 ELSE 0
      /\ Ahead(1)' = in.target
      /\ Accepted(in) => Ahead(2)' = NextAddr(in.target)
  BY <1>1, AheadBranch
<1>5. BeforeBoot' BY <1>2, <1>3 DEF BeforeBoot
<1>6. WaitsAlone'
  BY <1>1, <1>2, <1>4, AskedStep DEF WaitsAlone
<1>7. EndBeforePend' BY <1>2 DEF EndBeforePend
<1>8. PathIsContinuous'
  <2>1. ASSUME NEW i \in 1 .. LiveCnt'
        PROVE  Ahead(i + 1)' = NextAddr(Ahead(i)')
    <3>1. i = 1 /\ Accepted(in) BY <1>4
    <3>2. Ahead(i)' = in.target BY <1>4, <3>1
    <3>3. i + 1 = 2 BY <3>1
    <3>4. Ahead(i + 1)' = Ahead(2)' BY <3>3
    <3> QED BY <1>4, <3>1, <3>2, <3>4
  <2>2. Ahead(1)' = next' BY <1>2, <1>4
  <2> QED BY <1>2, <2>1, <2>2 DEF PathIsContinuous, NextAddr
<1> QED BY <1>2, <1>3, <1>5, <1>6, <1>7, <1>8

\* A loop jump lets one more word through and goes on at the loop start.
LEMMA PathLoopJump ==
  ASSUME PathInv, NEW in, Allowed(in), Cycle(in), HwlpJumping(in)
  PROVE  /\ BeforeBoot' /\ WaitsAlone' /\ EndBeforePend' /\ PathIsContinuous'
         /\ in.target \in WordAddr /\ next # NoAddr /\ pend = NoAddr
         /\ \/ next' = next /\ pend' = in.target /\ word' = word
            \/ word' = next /\ next' = in.target /\ pend' = NoAddr
<1> DEFINE d == IF FetchReady(in) THEN 1 ELSE 0
           acc == IF Accepted(in) THEN 1 ELSE 0
           L1 == LiveCnt'
<1>1. CounterInv /\ inRun /\ pend = NoAddr
  BY DEF PathInv, Allowed, HwlpJumping
<1>2. next # NoAddr /\ Ahead(1) = next
  BY <1>1 DEF PathInv, BeforeBoot, PathIsContinuous
<1>3. in.target \in WordAddr /\ in.target # NoAddr /\ ~Branching(in)
  BY DEF Allowed, AnyInput, Branching, HwlpJumping
<1>4. PendNow(in) = in.target BY DEF PendNow
<1>5. /\ d = 0 => next' = next /\ pend' = in.target /\ word' = word
      /\ d = 1 => word' = next /\ next' = in.target /\ pend' = NoAddr
  <2>1. CASE FetchReady(in)
    <3>1. /\ word' = FetchData(in)
          /\ next' = IF PendNow(in) # NoAddr THEN PendNow(in) ELSE NextAddr(next)
          /\ pend' = NoAddr
      BY <1>3, <2>1 DEF Cycle, HistoryClock
    <3>2. FetchData(in) = Ahead(1) BY <2>1, FirstIsDelivered
    <3> QED BY <1>2, <1>3, <1>4, <2>1, <3>1, <3>2
  <2>2. CASE ~FetchReady(in)
    <3>1. pend' = PendNow(in) /\ next' = next /\ word' = word
      BY <1>3, <2>2 DEF Cycle, HistoryClock
    <3> QED BY <1>4, <2>2, <3>1
  <2> QED BY <2>1, <2>2
<1>6. /\ L1 = (1 - d) + acc
      /\ d = 0 => Ahead(1)' = Ahead(1)
      /\ \A j \in Nat : j = 2 - d => Ahead(j)' = in.target
      /\ \A j \in Nat : j = 3 - d /\ acc = 1 => Ahead(j)' = NextAddr(in.target)
  BY AheadLoopJump
<1>7. d \in {0, 1} /\ acc \in {0, 1} OBVIOUS
<1>8. state_q' = "BRANCH_WAIT" => acc = 0
  BY <1>1, AskedStep
<1> HIDE DEF d, acc, L1
<1>9. BeforeBoot' BY <1>2, <1>3, <1>5, <1>7 DEF BeforeBoot
<1>10. WaitsAlone'
  <2>1. SUFFICES ASSUME state_q' = "BRANCH_WAIT"
                 PROVE  L1 = IF pend' = NoAddr THEN 0 ELSE 1
    BY DEF WaitsAlone, L1
  <2> QED BY <1>3, <1>5, <1>6, <1>7, <1>8, <2>1
<1>11. EndBeforePend'
  <2>1. SUFFICES ASSUME pend' # NoAddr PROVE L1 > 0
    BY DEF EndBeforePend, L1
  <2> QED BY <1>5, <1>6, <1>7, <2>1
<1>12. PathIsContinuous'
  <2>1. Ahead(1)' = next'
    <3>1. CASE d = 0 BY <1>2, <1>5, <1>6, <3>1
    <3>2. CASE d = 1
      <4>1. 1 \in Nat /\ 1 = 2 - d BY <3>2
      <4> QED BY <1>5, <1>6, <3>2, <4>1
    <3> QED BY <1>7, <3>1, <3>2
  <2>2. ASSUME NEW i \in 1 .. L1
        PROVE  Ahead(i + 1)' = IF i = 1 /\ pend' # NoAddr THEN pend'
                               ELSE NextAddr(Ahead(i)')
    <3>1. CASE d = 0
      <4>1. pend' = in.target /\ pend' # NoAddr BY <1>3, <1>5, <3>1
      <4>2. CASE i = 1
        <5>1. i + 1 \in Nat /\ i + 1 = 2 - d BY <3>1, <4>2
        <5>2. Ahead(i + 1)' = in.target BY <1>6, <5>1
        <5> QED BY <4>1, <4>2, <5>2
      <4>3. CASE i # 1
        <5>1. /\ i = 2 - d /\ i + 1 = 3 - d /\ acc = 1
              /\ i \in Nat /\ i + 1 \in Nat
          BY <1>6, <1>7, <3>1, <4>3
        <5>2. Ahead(i)' = in.target /\ Ahead(i + 1)' = NextAddr(in.target)
          BY <1>6, <5>1
        <5> QED BY <4>3, <5>2
      <4> QED BY <4>2, <4>3
    <3>2. CASE d = 1
      <4>1. /\ i = 2 - d /\ i + 1 = 3 - d /\ acc = 1
            /\ i \in Nat /\ i + 1 \in Nat
        BY <1>6, <1>7, <3>2
      <4>2. Ahead(i)' = in.target /\ Ahead(i + 1)' = NextAddr(in.target)
        BY <1>6, <4>1
      <4> QED BY <1>5, <3>2, <4>2
    <3> QED BY <1>7, <3>1, <3>2
  <2>3. PathIsContinuous' <=>
          (next' # NoAddr =>
             /\ Ahead(1)' = next'
             /\ \A i \in 1 .. L1 :
                  Ahead(i + 1)' = IF i = 1 /\ pend' # NoAddr THEN pend'
                                  ELSE NextAddr(Ahead(i)'))
    BY DEF PathIsContinuous, NextAddr, L1
  <2> QED BY <2>1, <2>2, <2>3
<1>13. \/ next' = next /\ pend' = in.target /\ word' = word
       \/ word' = next /\ next' = in.target /\ pend' = NoAddr
  BY <1>5, <1>7
<1> QED BY <1>1, <1>2, <1>3, <1>9, <1>10, <1>11, <1>12, <1>13

\* One cycle keeps the path and is a step of the abstract stream, or stutters.
LEMMA PathStep ==
  ASSUME PathInv, Next
  PROVE  PathInv' /\ [Stream!StreamNext]_(Stream!streamVars)
<1>1. CounterInv /\ PointersFit BY DEF PathInv
<1>2. PICK in : Allowed(in) /\ Cycle(in)
  BY <1>1, StepIsCycle DEF CounterInv
<1>3. CounterInv' /\ PointersFit'
  BY <1>1, <1>2, CounterStep, ContentsStep
<1>4. \A a : Stream!Succ(a) = NextAddr(a)
  BY DEF Stream!Succ, NextAddr
<1>5. CASE in.redirect = "none"
  <2>1. /\ BeforeBoot' /\ WaitsAlone' /\ EndBeforePend' /\ PathIsContinuous'
        /\ \/ next' = next /\ pend' = pend /\ word' = word
           \/ /\ next # NoAddr /\ word' = next /\ pend' = NoAddr
              /\ next' = IF pend # NoAddr THEN pend ELSE NextAddr(next)
    BY <1>2, <1>5, PathStraight
  <2>2. Stream!Deliver(pend) \/ UNCHANGED (Stream!streamVars)
    BY <1>4, <2>1 DEF Stream!Deliver, Stream!streamVars
  <2> QED BY <1>3, <2>1, <2>2 DEF PathInv, Stream!StreamNext
<1>6. CASE Branching(in)
  <2>1. /\ BeforeBoot' /\ WaitsAlone' /\ EndBeforePend' /\ PathIsContinuous'
        /\ in.target \in WordAddr
        /\ next' = in.target /\ pend' = NoAddr /\ word' = word
    BY <1>2, <1>6, PathBranch
  <2>2. \E t \in WordAddr : Stream!Redirect(t)
    BY <2>1 DEF Stream!Redirect
  <2> QED BY <1>3, <2>1, <2>2 DEF PathInv, Stream!StreamNext
<1>7. CASE HwlpJumping(in)
  <2>1. /\ BeforeBoot' /\ WaitsAlone' /\ EndBeforePend' /\ PathIsContinuous'
        /\ in.target \in WordAddr /\ next # NoAddr /\ pend = NoAddr
        /\ \/ next' = next /\ pend' = in.target /\ word' = word
           \/ word' = next /\ next' = in.target /\ pend' = NoAddr
    BY <1>2, <1>7, PathLoopJump
  <2>2. in.target # NoAddr BY <2>1
  <2>3. \E t \in WordAddr : Stream!LoopJump(t)
    BY <2>1, <2>2 DEF Stream!LoopJump, Stream!Deliver
  <2> QED BY <1>3, <2>1, <2>3 DEF PathInv, Stream!StreamNext
<1> QED BY <1>2, <1>5, <1>6, <1>7 DEF Allowed, AnyInput, Branching, HwlpJumping

\* A step that changes nothing keeps the invariant.
LEMMA PathStutter ==
  ASSUME PathInv, UNCHANGED vars
  PROVE  PathInv' /\ UNCHANGED (Stream!streamVars)
<1>1. CounterInv'
  BY DEF vars, fifoVars, obiVars, ctrlVars, busVars, history, PathInv, CounterInv,
     TypeOK, FifoTypeOK, ObiTypeOK, CtrlTypeOK, CountIsOutstanding,
     AnswersHaveRoom, Stale, EndRequested, DelayedFlushOK
<1>2. LiveCnt' = LiveCnt
  BY DEF vars, fifoVars, obiVars, ctrlVars, LiveCnt, Stale
<1>3. \A i : Ahead(i)' = Ahead(i)
  BY <1>2 DEF vars, fifoVars, obiVars, ctrlVars, busVars, Ahead, Contents, SlotAt,
     Asked, Outstanding, Stale, NextAddr
<1>4. PointersFit' /\ BeforeBoot' /\ WaitsAlone' /\ EndBeforePend'
  BY <1>2 DEF vars, fifoVars, obiVars, ctrlVars, history, PathInv, PointersFit,
     SlotAt, BeforeBoot, WaitsAlone, EndBeforePend
<1>5. PathIsContinuous'
  BY <1>2, <1>3 DEF vars, history, PathInv, PathIsContinuous, NextAddr
<1> QED BY <1>1, <1>4, <1>5 DEF PathInv, vars, history, Stream!streamVars

-----------------------------------------------------------------------------
\* What is buffered, on the bus and about to be asked for is the program's path,
\* with the facts about redirections that make it last.
THEOREM PathInvariant == Spec => []PathInv
<1>1. Init => PathInv
  <2> SUFFICES ASSUME Init PROVE PathInv OBVIOUS
  <2>1. CounterInv BY InitCounters
  <2>2. /\ status_cnt_q = 0 /\ cnt_q = 0 /\ read_pointer_q = 0
        /\ write_pointer_q = 0 /\ state_q = "IDLE" /\ next = NoAddr
        /\ pend = NoAddr /\ inRun = FALSE
    BY DEF Init, FifoInit, CtrlInit
  <2>3. PointersFit BY <2>2 DEF PointersFit, SlotAt
  <2> QED BY <2>1, <2>2, <2>3 DEF PathInv, BeforeBoot, WaitsAlone, EndBeforePend,
          PathIsContinuous
<1>2. PathInv /\ [Next]_vars => PathInv'
  BY PathStep, PathStutter
<1> QED BY <1>1, <1>2, PTL DEF Spec

\* Everything buffered, outstanding and about to be requested is the path of the
\* program, in order, with no word missing or of another path.
THEOREM PathContinuous == Spec => []PathIsContinuous
<1>1. PathInv => PathIsContinuous BY DEF PathInv
<1> QED BY <1>1, PathInvariant, PTL

\* The core receives exactly the words of its path: the prefetch buffer, its FIFO
\* and the bus adapter together implement the abstract stream.
THEOREM PrefetchRefines == Spec => ImplementsStream
<1>1. Init => Stream!StreamInit
  BY DEF Init, Stream!StreamInit
<1>2. PathInv /\ [Next]_vars => [Stream!StreamNext]_(Stream!streamVars)
  BY PathStep, PathStutter
<1> QED BY <1>1, <1>2, PathInvariant, PTL
        DEF Spec, ImplementsStream, Stream!StreamSpec
=============================================================================
