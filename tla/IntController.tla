--------------------------- MODULE IntController ---------------------------
(***************************************************************************)
(* cv32e40p_int_controller: the latched interrupt lines, their             *)
(* qualification with mie and mstatus.MIE, and the priority encoder.  A    *)
(* 32-bit word of lines is the set of the bits that are 1.                 *)
(***************************************************************************)
EXTENDS Integers, Sequences

VARIABLE irq_q

IrqIds == 0 .. 31

IRQ_MASK == {3, 7, 11} \cup 16 .. 31

FaultyEncoder == << 31, 30, 29, 28, 27, 26, 25, 24, 23, 22, 21, 20, 19, 18, 17,
                    16, 15, 14, 13, 12, 11, 7, 3, 10, 2, 6, 9, 1, 5, 8, 0, 4 >>

\* The order in which the encoder looks at the lines.
Encoder == << 31, 30, 29, 28, 27, 26, 25, 24, 23, 22, 21, 20, 19, 18, 17, 16,
              15, 14, 13, 12, 11, 3, 7, 10, 2, 6, 9, 1, 5, 8, 0, 4 >>

Before(a, b) == \E j, k \in 1 .. 32 : j < k /\ Encoder[j] = a /\ Encoder[k] = b

Qualified(mie) == irq_q \cap mie

IrqReq(mie, MIE) == MIE /\ Qualified(mie) # {}

\* Of the qualified lines the one that comes first, and 7 when there is none.
IrqId(qual) ==
  IF \E id \in qual : \A other \in qual \ {id} : Before(id, other)
  THEN CHOOSE id \in qual : \A other \in qual \ {id} : Before(id, other)
  ELSE 7

Latch(irq_i) == irq_q' = irq_i \cap IRQ_MASK
=============================================================================
