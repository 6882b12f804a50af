--------------------------- MODULE PrefetchBuffer ---------------------------
(***************************************************************************)
(* cv32e40p_prefetch_buffer: the prefetch controller, its FIFO and the OBI *)
(* adapter clocked together, closed with the instruction memory on one     *)
(* side and the rest of the core on the other.  One step is one cycle.     *)
(*                                                                         *)
(* The memory's answer to a fetch of address a is represented by a itself: *)
(* the instruction memory does not change, so a word and the address it    *)
(* came from tell the same thing apart.                                    *)
(***************************************************************************)
EXTENDS PrefetchController

CONSTANT NoAddr

ASSUME AddrAssumption ==
  /\ NoAddr \notin WordAddr
  /\ Word = WordAddr

VARIABLES
  granted,      \* external memory: granted fetches not yet answered, in order
  word, next, pend,   \* history: see FetchStream
  inRun         \* history: a word was delivered since the last redirection,
                \* i.e. the ID stage may hold an instruction of this path

busVars == <<granted>>
history == <<word, next, pend, inRun>>
vars == <<fifoVars, obiVars, ctrlVars, busVars, history>>

TypeOK ==
  /\ FifoTypeOK /\ ObiTypeOK /\ CtrlTypeOK
  /\ granted \in Seq(WordAddr)
  /\ word \in WordAddr \cup {NoAddr}
  /\ next \in WordAddr \cup {NoAddr}
  /\ pend \in WordAddr \cup {NoAddr}
  /\ inRun \in BOOLEAN

Init ==
  /\ FifoInit /\ ObiInit /\ CtrlInit
  /\ mem_q = [s \in Slot |-> 0]
  /\ granted = <<>>
  /\ word = NoAddr /\ next = NoAddr /\ pend = NoAddr
  /\ inRun = FALSE

\* ---- the OBI instruction memory: any grant pattern; answers in order, at
\* ---- the earliest in the cycle after the grant
MemoryAnswers(in) == in.rvalid => granted # <<>>

MemoryClock(in) ==
  LET left == IF in.rvalid THEN Tail(granted) ELSE granted
  IN  granted' = IF ObiReq(TransValid(in)) /\ in.gnt
                 THEN Append(left, ObiAddr(TransAddr(in))) ELSE left

\* fetch_rdata_o: the FIFO's head, or the response falling through
FetchData(in) == IF Empty THEN Head(granted) ELSE FifoData

\* ---- history -------------------------------------------------------------
PendNow(in) == IF HwlpJumping(in) THEN in.target ELSE pend

HistoryClock(in) ==
  \/ /\ Branching(in)
     /\ next' = in.target /\ pend' = NoAddr /\ inRun' = FALSE
     /\ word' = word
  \/ /\ ~Branching(in) /\ FetchReady(in)
     /\ word' = FetchData(in)
     /\ next' = IF PendNow(in) # NoAddr THEN PendNow(in) ELSE NextAddr(next)
     /\ pend' = NoAddr
     /\ inRun' = (PendNow(in) = NoAddr)
  \/ /\ ~Branching(in) /\ ~FetchReady(in)
     /\ pend' = PendNow(in)
     /\ UNCHANGED <<word, next, inRun>>

Cycle(in) ==
  /\ MemoryAnswers(in)
  /\ CtrlClock(in)
  /\ FifoClock(FifoFlush(in), FifoFlushButFirst(in), Push(in), Pop(in),
               Head(granted))
  /\ ObiClock(TransValid(in), TransAddr(in), in.gnt)
  /\ MemoryClock(in)
  /\ HistoryClock(in)

Inputs(redirect, target) ==
  [req : BOOLEAN, redirect : {redirect}, target : {target},
   take : BOOLEAN, gnt : BOOLEAN, rvalid : BOOLEAN]

\* No redirection.  instr_req_o is 0 in RESET, until the first pc_set_o.
Straight ==
  \E in \in Inputs("none", 0) : (in.req => next # NoAddr) /\ Cycle(in)

\* pc_set_o (p_branch_implies_req: instr_req_o is then 1)
Branch ==
  \E t \in WordAddr : \E in \in Inputs("branch", t) : in.req /\ Cycle(in)

\* hwlp_jump_o: pulses once, in DECODE_HWLOOP (instr_req_o is 1), while the
\* instruction before HWLP_END is in ID and HWLP_END has not been taken.
HwlpJump ==
  /\ inRun /\ pend = NoAddr
  /\ \E t \in WordAddr : \E in \in Inputs("hwlp", t) : in.req /\ Cycle(in)

Next == Straight \/ Branch \/ HwlpJump

\* fetch_enable_i is given some day (BOOT_SET); an OBI memory grants every
\* request and answers every granted fetch; the core keeps asking for
\* instructions and taking them.
Boot == next = NoAddr /\ Branch
Grant == \E in \in Inputs("none", 0) : in.req /\ next # NoAddr /\ in.gnt /\ Cycle(in)
Answer == \E in \in Inputs("none", 0) : in.req /\ next # NoAddr /\ in.rvalid /\ Cycle(in)
Take == \E in \in Inputs("none", 0) : FetchReady(in) /\ next # NoAddr /\ Cycle(in)

Fairness == WF_vars(Boot) /\ WF_vars(Grant) /\ WF_vars(Answer) /\ WF_vars(Take)

Spec == Init /\ [][Next]_vars
FairSpec == Spec /\ Fairness
-----------------------------------------------------------------------------
\* ---- what must hold ------------------------------------------------------

\* Transactions accepted from the controller and not yet answered, oldest
\* first: those granted on the bus, then the one the adapter holds.
Outstanding ==
  granted \o (IF obi_state = "REGISTERED" THEN <<obi_addr_q>> ELSE <<>>)

\* How many of the outstanding answers belong to an abandoned path.
Stale == IF hwlp_flush_after_resp THEN hwlp_flush_cnt_delayed_q ELSE flush_cnt_q

\* The controller's transaction counter is the number of fetches really under
\* way (cnt_q of p_no_transaction_count_overflow_0, which only bounds it): a
\* lost or doubled count wedges the fetch or lets the FIFO overflow.
CountIsOutstanding ==
  /\ cnt_q = Len(granted) + (IF obi_state = "REGISTERED" THEN 1 ELSE 0)
  /\ cnt_q <= Depth

\* Every answer of the current path still under way has a free FIFO slot, so
\* none is dropped however long the core stalls (full_write of the FIFO).
AnswersHaveRoom ==
  /\ Stale <= cnt_q
  /\ status_cnt_q + (cnt_q - Stale) <= Depth

\* When a hardware-loop jump can come, the word at HWLP_END has been fetched or
\* accepted by the bus adapter (p_hwlp_end_already_gnt_when_hwlp_branch), and no
\* answer is due to be discarded: so the END that the jump spares is the END.
EndRequested ==
  inRun /\ pend = NoAddr => flush_cnt_q = 0 /\ (status_cnt_q > 0 \/ cnt_q > 0)

\* What a delayed flush relies on: HWLP_END is outstanding, nothing is buffered
\* or being discarded before it, and a path change is still due.
DelayedFlushOK ==
  hwlp_flush_after_resp =>
    /\ hwlp_flush_cnt_delayed_q < cnt_q
    /\ flush_cnt_q = 0
    /\ status_cnt_q = 0
    /\ pend # NoAddr

\* How many words of the current path are in the FIFO or on the bus ...
LiveCnt == status_cnt_q + (cnt_q - Stale)

\* ... and the address the controller asks for after them.
Asked == IF state_q = "IDLE" THEN NextAddr(trans_addr_q) ELSE trans_addr_q

\* The i-th word the core will receive unless it is redirected.
Ahead(i) ==
  IF i <= status_cnt_q THEN Contents[i]
  ELSE IF i > LiveCnt THEN Asked
  ELSE IF hwlp_flush_after_resp /\ i = 1 THEN Outstanding[1]
  ELSE Outstanding[Stale + i - status_cnt_q]

\* Everything buffered, outstanding and about to be requested is the path of
\* the program, in order, with no word missing: across branches taken while
\* requests are ungranted, loop jumps with END in the FIFO, on the bus or
\* arriving, and branches that cancel a delayed flush.
PathIsContinuous ==
  next # NoAddr =>
    /\ Ahead(1) = next
    /\ \A i \in 1 .. LiveCnt :
         Ahead(i + 1) = IF i = 1 /\ pend # NoAddr THEN pend
                        ELSE NextAddr(Ahead(i))

\* The words delivered to the core are the ones its path asks for.
Stream == INSTANCE FetchStream
ImplementsStream == Stream!StreamSpec

\* With a fair memory and core, words keep being delivered: no sequence of
\* redirections leaves the prefetcher waiting for an answer that will not come
\* or a slot that will not be freed.
Delivered == \E in \in Inputs("none", 0) \cup UNION {Inputs("hwlp", t) : t \in WordAddr} :
  FetchReady(in) /\ Cycle(in)
FetchProgress == []<><<Delivered \/ Branch>>_vars
=============================================================================
