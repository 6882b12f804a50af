---------------------------- MODULE ObiInterface ----------------------------
(***************************************************************************)
(* cv32e40p_obi_interface with TRANS_STABLE = 0, the instance on the       *)
(* instruction bus.  It answers the prefetch controller at once and keeps  *)
(* an ungranted address in a register, because the controller may change   *)
(* its mind about trans_addr the next cycle and OBI forbids that.          *)
(***************************************************************************)
EXTENDS Integers

CONSTANT NWords     \* how many words the address space has (2^30)

ASSUME NWordsAssumption == NWords \in Nat \ {0}

WordAddr == 0 .. NWords - 1

VARIABLES obi_state, obi_addr_q

obiVars == <<obi_state, obi_addr_q>>

ObiTypeOK ==
  /\ obi_state \in {"TRANSPARENT", "REGISTERED"}
  /\ obi_addr_q \in WordAddr

ObiInit ==
  /\ obi_state = "TRANSPARENT"
  /\ obi_addr_q = 0

FaultyTransReady == TRUE

TransReady == obi_state = "TRANSPARENT"

ObiReq(transValid) == obi_state = "REGISTERED" \/ transValid

ObiAddr(transAddr) ==
  IF obi_state = "REGISTERED" THEN obi_addr_q ELSE transAddr

ObiClock(transValid, transAddr, gnt) ==
  LET waits == ObiReq(transValid) /\ ~gnt
  IN  /\ obi_state' = IF waits THEN "REGISTERED" ELSE "TRANSPARENT"
      /\ obi_addr_q' = IF waits THEN ObiAddr(transAddr) ELSE obi_addr_q
=============================================================================
