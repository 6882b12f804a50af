--------------------------- MODULE ApuDispatcher ---------------------------
(***************************************************************************)
(* cv32e40p_apu_disp: keeps the destination registers of the FPU           *)
(* operations that have not returned and holds back what would overtake    *)
(* or depend on them.  e = [en, lat, waddr] is the operation in EX         *)
(* (enable_i, apu_lat_i, apu_waddr_i), gnt is apu_gnt_i and valid the      *)
(* response (apu_rvalid_i, which the EX stage may hold back).  A slot      *)
(* holds a register, or None when its valid bit is 0.                      *)
(***************************************************************************)
EXTENDS Naturals

CONSTANT None

VARIABLES inflight, waiting, apu_lat

apuVars == <<inflight, waiting, apu_lat>>

ApuInit == inflight = None /\ waiting = None /\ apu_lat = 0

apu_active == inflight # None \/ waiting # None

\* apu_multicycle_o, apu_singlecycle_o
Multicycle == apu_lat = 3
Singlecycle == ~apu_active

StallFull == inflight # None /\ waiting # None

FaultyStallType(e) ==
  e.en /\ apu_active /\ e.lat = 2 /\ apu_lat = 3

\* Operations of unlike latency would overtake each other.
StallType(e) ==
  /\ e.en /\ apu_active
  /\ \/ e.lat \in {1, 3}
     \/ e.lat = 2 /\ apu_lat = 3

ValidReq(e) == e.en /\ ~StallFull /\ ~StallType(e)
ApuStall(e, gnt) == StallFull \/ StallType(e) \/ (ValidReq(e) /\ ~gnt)

\* Responses come in order: the oldest operation returns.
ReturnedReq(e, valid) == ValidReq(e) /\ valid /\ ~apu_active
ReturnedInflight(valid) == inflight # None /\ valid /\ waiting = None
ReturnedWaiting(valid) == waiting # None /\ valid

ApuWaddr(e) ==
  IF waiting # None THEN waiting
  ELSE IF inflight # None THEN inflight ELSE e.waddr

\* ---- dependencies --------------------------------------------------------
\* Slot contents that do not return in this cycle.
Unreturned(valid) ==
  {r \in {inflight} : ~ReturnedInflight(valid)}
    \cup {r \in {waiting} : ~ReturnedWaiting(valid)}

\* Registers that read_dep_o and write_dep_o are about.
Outstanding(e, valid) ==
  (Unreturned(valid)
     \cup {r \in {e.waddr} : ValidReq(e) /\ ~ReturnedReq(e, valid)}) \ {None}

\* A register jump does not see a result before it is in the register file.
JalrDep(e, reads) ==
  reads \cap ((IF e.en THEN {e.waddr} ELSE {}) \cup ({inflight, waiting} \ {None})) # {}

ApuClock(e, gnt, valid) ==
  LET multi == ValidReq(e) /\ gnt /\ ~ReturnedReq(e, valid)
      stays == inflight # None /\ ~ReturnedInflight(valid)
  IN  /\ inflight' = IF multi THEN e.waddr
                     ELSE IF ReturnedInflight(valid) THEN None ELSE inflight
      /\ waiting' = IF multi /\ (stays \/ ReturnedWaiting(valid)) THEN inflight
                    ELSE IF ~multi /\ valid THEN None ELSE waiting
      /\ apu_lat' = IF ValidReq(e) THEN e.lat ELSE apu_lat
=============================================================================
