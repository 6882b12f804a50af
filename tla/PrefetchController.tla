------------------------- MODULE PrefetchController -------------------------
(***************************************************************************)
(* cv32e40p_prefetch_controller: issues sequential word fetches ahead of   *)
(* the core, redirects them on a branch or at the end of a hardware loop,  *)
(* and discards the responses of the wrong path.                           *)
(*                                                                         *)
(* The input ports of one clock cycle are a record `in':                   *)
(*   req      req_i                                                        *)
(*   redirect "branch" (branch_i), "hwlp" (hwlp_jump_i) or "none"; both at *)
(*            once is excluded by p_jump_hwlp_branch_not_together          *)
(*   target   branch_addr_i or hwlp_target_i, as a word address            *)
(*   take     the rest of the core would accept a word (IF stage)          *)
(*   gnt      instr_gnt_i          rvalid   instr_rvalid_i                 *)
(* Status of the FIFO and of the bus adapter are read from their modules.  *)
(*                                                                         *)
(* Operators named Faulty... are slips one could make in this code; they   *)
(* take no part in the specification and serve to show that the checks     *)
(* notice them.                                                            *)
(***************************************************************************)
EXTENDS Fifo, ObiInterface

CONSTANT PULP_OBI

ASSUME PulpObiAssumption == PULP_OBI \in BOOLEAN

VARIABLES state_q, cnt_q, flush_cnt_q, trans_addr_q,
          hwlp_flush_after_resp, hwlp_flush_cnt_delayed_q

ctrlVars == <<state_q, cnt_q, flush_cnt_q, trans_addr_q,
              hwlp_flush_after_resp, hwlp_flush_cnt_delayed_q>>

CtrlTypeOK ==
  /\ state_q \in {"IDLE", "BRANCH_WAIT"}
  /\ cnt_q \in 0 .. Depth
  /\ flush_cnt_q \in 0 .. Depth
  /\ trans_addr_q \in WordAddr
  /\ hwlp_flush_after_resp \in BOOLEAN
  /\ hwlp_flush_cnt_delayed_q \in 0 .. Depth

CtrlInit ==
  /\ state_q = "IDLE"
  /\ cnt_q = 0
  /\ flush_cnt_q = 0
  /\ trans_addr_q = 0
  /\ hwlp_flush_after_resp = FALSE
  /\ hwlp_flush_cnt_delayed_q = 0

\* trans_addr_incr: wraps, as it does at the top of the 32-bit space.
NextAddr(a) == IF a + 1 \in WordAddr THEN a + 1 ELSE 0

Branching(in) == in.redirect = "branch"
HwlpJumping(in) == in.redirect = "hwlp"

\* ---- fetch interface -----------------------------------------------------
FaultyDiscarding(in) == Branching(in)

Discarding(in) == Branching(in) \/ flush_cnt_q > 0

FetchValid(in) == (~Empty \/ in.rvalid) /\ ~Discarding(in)

\* fetch_ready of the IF stage's offset FSM
FetchReady(in) == FetchValid(in) /\ in.req /\ in.take /\ ~Branching(in)

Push(in) == in.rvalid /\ (~Empty \/ ~FetchReady(in)) /\ ~Discarding(in)
Pop(in) == ~Empty /\ FetchReady(in)

\* ---- transactions --------------------------------------------------------
FaultyFifoCntMasked(in) == 0

FifoCntMasked(in) == IF in.redirect # "none" THEN 0 ELSE status_cnt_q

FaultyTransValidOverDepth(in) == in.req /\ FifoCntMasked(in) + cnt_q <= Depth

FaultyTransValidDepth1(in) == in.req /\ FifoCntMasked(in) + cnt_q < Depth - 1

TransValid(in) ==
  /\ in.req
  /\ FifoCntMasked(in) + cnt_q < Depth
  /\ PULP_OBI => cnt_q = 0 \/ in.rvalid

Accepted(in) == TransValid(in) /\ TransReady

TransAddr(in) ==
  IF Branching(in) THEN in.target
  ELSE IF state_q = "BRANCH_WAIT" THEN trans_addr_q
  ELSE IF HwlpJumping(in) THEN in.target
  ELSE NextAddr(trans_addr_q)

FaultyStateClock(in) ==
  /\ state_q' = IF Accepted(in) THEN "IDLE"
                ELSE IF in.redirect # "none" THEN "BRANCH_WAIT"
                ELSE state_q
  /\ trans_addr_q' = IF in.redirect # "none" \/ Accepted(in)
                     THEN TransAddr(in) ELSE trans_addr_q
  /\ cnt_q' = IF Accepted(in) THEN cnt_q + 1
              ELSE IF in.rvalid THEN cnt_q - 1 ELSE cnt_q

StateClock(in) ==
  /\ state_q' = IF Accepted(in) THEN "IDLE"
                ELSE IF in.redirect # "none" THEN "BRANCH_WAIT"
                ELSE state_q
  /\ trans_addr_q' = IF in.redirect # "none" \/ Accepted(in)
                     THEN TransAddr(in) ELSE trans_addr_q
  /\ cnt_q' = cnt_q + (IF Accepted(in) THEN 1 ELSE 0)
                    - (IF in.rvalid THEN 1 ELSE 0)

\* ---- discarding the wrong path -------------------------------------------
FaultyFifoFlush(in) == Branching(in) \/ (HwlpJumping(in) /\ ~Empty)

FifoFlush(in) == Branching(in) \/ (HwlpJumping(in) /\ ~Empty /\ Pop(in))
FifoFlushButFirst(in) == HwlpJumping(in) /\ ~Empty /\ ~Pop(in)

\* The word at HWLP_END is already here: flush what is outstanding now.
HwlpFlushResp(in) == HwlpJumping(in) /\ (~Empty \/ in.rvalid)
\* It is still on the bus: let it through first, then flush.
HwlpWaitRespFlush(in) == HwlpJumping(in) /\ Empty /\ ~in.rvalid
HwlpFlushRespDelayed(in) == hwlp_flush_after_resp /\ in.rvalid

FaultyDelayedFlushClock(in) ==
  \/ /\ HwlpWaitRespFlush(in)
     /\ hwlp_flush_after_resp' = TRUE
     /\ hwlp_flush_cnt_delayed_q' = cnt_q - 1
  \/ /\ ~HwlpWaitRespFlush(in) /\ HwlpFlushRespDelayed(in)
     /\ hwlp_flush_after_resp' = FALSE
     /\ hwlp_flush_cnt_delayed_q' = 0
  \/ /\ ~HwlpWaitRespFlush(in) /\ ~HwlpFlushRespDelayed(in)
     /\ UNCHANGED <<hwlp_flush_after_resp, hwlp_flush_cnt_delayed_q>>

DelayedFlushClock(in) ==
  \/ /\ HwlpWaitRespFlush(in)
     /\ hwlp_flush_after_resp' = TRUE
     /\ hwlp_flush_cnt_delayed_q' = cnt_q - 1
  \/ /\ Branching(in) \/ (~HwlpWaitRespFlush(in) /\ HwlpFlushRespDelayed(in))
     /\ hwlp_flush_after_resp' = FALSE
     /\ hwlp_flush_cnt_delayed_q' = 0
  \/ /\ ~Branching(in) /\ ~HwlpWaitRespFlush(in) /\ ~HwlpFlushRespDelayed(in)
     /\ UNCHANGED <<hwlp_flush_after_resp, hwlp_flush_cnt_delayed_q>>

NextFlushCnt(in) ==
  IF Branching(in) \/ HwlpFlushResp(in)
  THEN IF in.rvalid /\ cnt_q > 0 THEN cnt_q - 1 ELSE cnt_q
  ELSE IF HwlpFlushRespDelayed(in) THEN hwlp_flush_cnt_delayed_q
  ELSE IF in.rvalid /\ flush_cnt_q > 0 THEN flush_cnt_q - 1
  ELSE flush_cnt_q

CtrlClock(in) ==
  /\ StateClock(in)
  /\ DelayedFlushClock(in)
  /\ flush_cnt_q' = NextFlushCnt(in)

\* busy_o: the sleep unit keeps the clock running while this holds.
PrefetchBusy(in) == cnt_q # 0 \/ TransValid(in)
=============================================================================
