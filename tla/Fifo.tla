-------------------------------- MODULE Fifo --------------------------------
(***************************************************************************)
(* cv32e40p_fifo (rtl/cv32e40p_fifo.sv) as the prefetch buffer uses it:    *)
(* FALL_THROUGH = 0 and a depth that is a power of two.  The status ports  *)
(* full_o, empty_o, cnt_o and data_o are state functions; FifoClock is one *)
(* rising edge of the clock under the given control inputs.                *)
(***************************************************************************)
EXTENDS Integers, Sequences

CONSTANTS Depth,     \* FIFO_DEPTH
          Word       \* what is stored: instruction words

ASSUME DepthAssumption == Depth \in Nat /\ Depth > 1   \* p_fifo_depth_gt_1

VARIABLES read_pointer_q, write_pointer_q, status_cnt_q, mem_q

fifoVars == <<read_pointer_q, write_pointer_q, status_cnt_q, mem_q>>

Slot == 0 .. Depth - 1

FifoTypeOK ==
  /\ read_pointer_q \in Slot
  /\ write_pointer_q \in Slot
  /\ status_cnt_q \in 0 .. Depth
  /\ mem_q \in [Slot -> Word]

FifoInit ==
  /\ read_pointer_q = 0
  /\ write_pointer_q = 0
  /\ status_cnt_q = 0
  /\ mem_q \in [Slot -> Word]

Full == status_cnt_q = Depth
Empty == status_cnt_q = 0
FifoData == mem_q[read_pointer_q]

NextSlot(p) == IF p = Depth - 1 THEN 0 ELSE p + 1

\* The four ways the count moves when nothing is flushed.
CountAfter(push, pop) ==
  status_cnt_q + (IF push /\ ~Full THEN 1 ELSE 0)
               - (IF pop /\ ~Empty THEN 1 ELSE 0)

FifoClock(flush, flushButFirst, push, pop, data) ==
  /\ mem_q' = IF push /\ ~Full THEN [mem_q EXCEPT ![write_pointer_q] = data]
                               ELSE mem_q
  /\ \/ /\ flush \/ (flushButFirst /\ Empty)
        /\ read_pointer_q' = 0
        /\ write_pointer_q' = 0
        /\ status_cnt_q' = 0
     \/ /\ ~flush /\ flushButFirst /\ ~Empty
        /\ read_pointer_q' = read_pointer_q
        /\ write_pointer_q' = NextSlot(read_pointer_q)
        /\ status_cnt_q' = 1
     \/ /\ ~flush /\ ~flushButFirst
        /\ read_pointer_q' = IF pop /\ ~Empty THEN NextSlot(read_pointer_q)
                                              ELSE read_pointer_q
        /\ write_pointer_q' = IF push /\ ~Full THEN NextSlot(write_pointer_q)
                                               ELSE write_pointer_q
        /\ status_cnt_q' = CountAfter(push, pop)

\* The words held, oldest first: the i-th is at SlotAt(i).
SlotAt(i) == IF read_pointer_q + (i - 1) < Depth THEN read_pointer_q + (i - 1)
             ELSE (read_pointer_q + (i - 1)) - Depth
Contents == [i \in 1 .. status_cnt_q |-> mem_q[SlotAt(i)]]
=============================================================================
