------------------------------ MODULE MemStall ------------------------------
(***************************************************************************)
(* The data port of the testbench memory (mm_ram): the decoder, the RAM,   *)
(* the print, exit and stall registers, and in front of them               *)
(* riscv_gnt_stall and riscv_rvalid_stall, which delay grants and answers. *)
(* A step is a clock edge.  A request is [we, to, addr, data], "to" being  *)
(* "ram", "stall", "stdout" or "exit".                                     *)
(***************************************************************************)
EXTENDS Integers, Sequences

CONSTANTS
  RamAddrs,
  MaxDelay    \* the longest random delay that is looked at

STANDARD == 1
RANDOM == 2

ASSUME DelayAssumption == MaxDelay \in Nat

VARIABLES
  rnd_stall_regs,
  mem, rdata,       \* the RAM and its registered output
  req,              \* the core's request of this cycle, << >> for none
  grant_core_o, grant_delay_cnt,
  fifo,             \* riscv_rvalid_stall: accesses granted and not answered
  rvalid_i_q,       \* the last of them is a read whose data comes now
  stdout,           \* the characters printed
  exited

busVars == <<rnd_stall_regs, mem, rdata, req, grant_core_o, grant_delay_cnt,
             fifo, rvalid_i_q, stdout, exited>>

BusInit ==
  /\ rnd_stall_regs = [n \in 0 .. 9 |-> 0]
  /\ mem = [a \in RamAddrs |-> 0] /\ rdata = 0 /\ req = << >>
  /\ grant_core_o = FALSE /\ grant_delay_cnt = 0
  /\ fifo = << >> /\ rvalid_i_q = FALSE /\ stdout = << >> /\ exited = FALSE

IsRam(r) == r.to = "ram"

\* The delays the generators may draw: the data port has registers 1, 3 and 5,
\* and 9 for both kinds of fixed stalls.
Delays(regs) ==
  IF regs[1] = 0 THEN {0}
  ELSE CASE regs[3] = STANDARD -> {regs[9]}
         [] regs[3] = RANDOM -> 0 .. IF regs[5] < MaxDelay THEN regs[5] ELSE MaxDelay
         [] OTHER -> {0}

\* The registers grant a request at once, the RAM when the stall generator does
\* or, while that is not interposed, at once.
FaultyGranted == req # << >> /\ (rnd_stall_regs[1] = 0 \/ grant_core_o)

Granted == req # << >> /\ (~IsRam(req) \/ rnd_stall_regs[1] = 0 \/ grant_core_o)

RvalidO == fifo # << >> /\ Head(fifo).delay = 0

RdataO == IF Len(fifo) = 1 /\ rvalid_i_q THEN rdata ELSE Head(fifo).data

-----------------------------------------------------------------------------
\* Decoder and RAM do what is requested in every cycle of the request.
Access ==
  IF req = << >>
  THEN UNCHANGED <<mem, rdata, rnd_stall_regs, stdout, exited>>
  ELSE
    /\ mem' = IF IsRam(req) /\ req.we THEN [mem EXCEPT ![req.addr] = req.data] ELSE mem
    /\ rdata' = IF IsRam(req) THEN mem[req.addr] ELSE 0
    /\ rnd_stall_regs' = IF req.to = "stall"
                         THEN [rnd_stall_regs EXCEPT ![req.addr] = req.data]
                         ELSE rnd_stall_regs
    /\ stdout' = IF req.to = "stdout" THEN Append(stdout, req.data) ELSE stdout
    /\ exited' = (exited \/ req.to = "exit")

\* The delay of the oldest access runs down, the data of the last read comes in
\* the cycle after its grant, and the answered access leaves.
FaultyWaiting(n, e) ==
  [e EXCEPT !.delay = IF n = Len(fifo) /\ @ > 0 THEN @ - 1 ELSE @,
            !.data = IF n = Len(fifo) /\ rvalid_i_q THEN rdata ELSE @]

Waiting(n, e) ==
  [e EXCEPT !.delay = IF n = 1 /\ @ > 0 THEN @ - 1 ELSE @,
            !.data = IF n = Len(fifo) /\ rvalid_i_q THEN rdata ELSE @]

RvalidStall ==
  LET held == [n \in 1 .. Len(fifo) |-> Waiting(n, fifo[n])]
      kept == IF RvalidO THEN Tail(held) ELSE held
  IN IF Granted
     THEN /\ \E d \in Delays(rnd_stall_regs) :
               fifo' = Append(kept, [we |-> req.we, delay |-> d, data |-> 0])
          /\ rvalid_i_q' = ~req.we
     ELSE fifo' = kept /\ rvalid_i_q' = FALSE

\* Shortly after the edge, with the core's next request there: a grant at
\* random without a request, a new delay for a new one, the count for the rest.
GntStall ==
  IF req' = << >> THEN grant_core_o' \in BOOLEAN /\ UNCHANGED grant_delay_cnt
  ELSE IF grant_core_o \/ req = << >>
       THEN \E d \in Delays(rnd_stall_regs') :
              grant_core_o' = (d = 0) /\ grant_delay_cnt' = d
       ELSE /\ grant_core_o' = (grant_delay_cnt = 1)
            /\ grant_delay_cnt' = grant_delay_cnt - 1

\* The edge, where the core sets req'.
BusEdge(core) == Access /\ RvalidStall /\ core /\ GntStall
=============================================================================
