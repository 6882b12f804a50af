---------------------------- MODULE LoadStoreUnit ----------------------------
(***************************************************************************)
(* cv32e40p_load_store_unit with the ID/EX registers that feed it and the  *)
(* EX/WB register that takes its result, closed with the OBI data memory.  *)
(* One step is one clock cycle.                                            *)
(*                                                                         *)
(* An access is a record [we, type, ext, a, b, useincr]: a and b are       *)
(* operand_a and operand_b, the address is a + b or, for a post-increment  *)
(* access, a.  Data are followed byte by byte and symbolically: a byte     *)
(* read from address x is x itself, and byte i of the register to store is *)
(* its index i; see Zero, Ones and SignOf for the bytes of an extension.   *)
(*                                                                         *)
(* The inputs of a cycle are a record `in':                                *)
(*   gnt, rvalid   data_gnt_i, data_rvalid_i                               *)
(*   other         every condition of ex_ready_o that is not the LSU's     *)
(*   id            the access that ID presents, or NoAccess (another       *)
(*                 instruction), or Bubble (id_valid_o is 0)               *)
(*                                                                         *)
(* Operators named Faulty... are slips one could make in this code; they   *)
(* take no part in the specification.                                      *)
(***************************************************************************)
EXTENDS Integers, Sequences

CONSTANTS NBytes,      \* size of the address space, whole words
          Access,      \* the accesses a program may make
          NoAccess, Bubble, PULP_OBI

ASSUME NBytesAssumption == NBytes \in Nat /\ NBytes >= 4 /\ NBytes % 4 = 0

Byte == 0 .. NBytes - 1
Lane == 0 .. 3

ASSUME AccessAssumption ==
  /\ Access \subseteq [we : BOOLEAN, type : {"word", "half", "byte"},
                       ext : {"zero", "ones", "sign"},
                       a : Byte, b : Byte, useincr : BOOLEAN]
  /\ {NoAccess, Bubble} \cap Access = {} /\ NoAccess # Bubble
  /\ PULP_OBI \in BOOLEAN

Outstanding == 2   \* DEPTH

VARIABLES
  data_req_ex, data_misaligned_ex, ex, a_ex, b_ex, useincr_ex,   \* ID/EX
  cnt_q, data_type_q, rdata_offset_q, data_sign_ext_q, data_we_q, rdata_q,
  regfile_we_lsu,                                               \* EX/WB
  granted,     \* external memory: requests not yet answered, in order
  access,      \* history: the access in EX
  requests,    \* history: what it has put on the bus
  asked,       \* history: the request raised but not granted, if any
  wbAccess,    \* history: the access last moved to WB
  wbRequests,  \* history: all it put on the bus
  loaded       \* history: the last load to finish and its register value

exVars == <<data_req_ex, data_misaligned_ex, ex, a_ex, b_ex, useincr_ex>>
lsuVars == <<cnt_q, data_type_q, rdata_offset_q, data_sign_ext_q, data_we_q,
             rdata_q>>
vars == <<exVars, lsuVars, regfile_we_lsu, granted,
          access, requests, asked, wbAccess, wbRequests, loaded>>

\* ---- symbolic bytes ------------------------------------------------------
Zero == NBytes
Ones == NBytes + 1
SignOf(byte) == NBytes + 2 + byte
RegByte == 0 .. 2 * NBytes + 3

Extension(ext, top) ==
  IF ext = "zero" THEN Zero ELSE IF ext = "ones" THEN Ones ELSE SignOf(top)

Init ==
  /\ data_req_ex = FALSE /\ data_misaligned_ex = FALSE
  /\ ex = [we |-> FALSE, type |-> "word", ext |-> "zero"]
  /\ a_ex = 0 /\ b_ex = 0 /\ useincr_ex = FALSE
  /\ cnt_q = 0 /\ data_type_q = "word" /\ rdata_offset_q = 0
  /\ data_sign_ext_q = "zero" /\ data_we_q = FALSE
  /\ rdata_q = [l \in Lane |-> Zero]
  /\ regfile_we_lsu = FALSE
  /\ granted = <<>>
  /\ access = NoAccess /\ requests = <<>> /\ asked = <<>>
  /\ wbAccess = NoAccess /\ wbRequests = <<>>
  /\ loaded = [of |-> NoAccess, value |-> [l \in Lane |-> Zero]]

\* ---- address phase -------------------------------------------------------
DataAddrInt == IF useincr_ex THEN (a_ex + b_ex) % NBytes ELSE a_ex
Offset == DataAddrInt % 4

Misaligned ==
  /\ data_req_ex /\ ~data_misaligned_ex
  /\ \/ ex.type = "word" /\ Offset # 0
     \/ ex.type = "half" /\ Offset = 3

FaultyDataBe ==
  IF ex.type = "byte" THEN {Offset}
  ELSE IF ex.type = "half"
  THEN IF data_misaligned_ex THEN {1} ELSE {Offset, Offset + 1} \cap Lane
  ELSE {l \in Lane : IF data_misaligned_ex THEN l < Offset ELSE l >= Offset}

DataBe ==
  IF ex.type = "byte" THEN {Offset}
  ELSE IF ex.type = "half"
  THEN IF data_misaligned_ex THEN {0} ELSE {Offset, Offset + 1} \cap Lane
  ELSE {l \in Lane : IF data_misaligned_ex THEN l < Offset ELSE l >= Offset}

\* data_wdata: the register rotated left by the offset (data_reg_offset_ex_i
\* is always 0)
DataWdata == [l \in Lane |-> (l - Offset) % 4]

\* trans_addr: only its word matters to the memory.
Request == [we |-> ex.we, word |-> DataAddrInt \div 4,
            be |-> DataBe, wdata |-> DataWdata]

FaultyTransValidStuck(in) ==
  /\ data_req_ex
  /\ cnt_q < Outstanding
  /\ data_misaligned_ex => cnt_q = 1
  /\ PULP_OBI => cnt_q = 0 \/ in.rvalid

TransValid(in) ==
  /\ data_req_ex
  /\ cnt_q < Outstanding
  /\ PULP_OBI => cnt_q = 0 \/ in.rvalid

\* cv32e40p_obi_interface with TRANS_STABLE = 1 passes requests through.
Accepted(in) == TransValid(in) /\ in.gnt

FaultyReadyWb(in) == TRUE

ReadyWb(in) == cnt_q = 0 \/ in.rvalid

FaultyReadyEx(in) ==
  \/ ~data_req_ex
  \/ cnt_q = 0 /\ Accepted(in)
  \/ cnt_q = 1 /\ in.rvalid
  \/ cnt_q = 2 /\ in.rvalid

ReadyEx(in) ==
  \/ ~data_req_ex
  \/ cnt_q = 0 /\ Accepted(in)
  \/ cnt_q = 1 /\ in.rvalid /\ Accepted(in)
  \/ cnt_q = 2 /\ in.rvalid

CtrlUpdate(in) == data_req_ex /\ ReadyEx(in)

ExReady(in) == in.other /\ ReadyEx(in) /\ ReadyWb(in)

\* busy_o
LsuBusy(in) == cnt_q # 0 \/ TransValid(in)

\* ---- response phase ------------------------------------------------------
\* The memory returns the whole word; byte x of memory is represented by x.
RespRdata == [l \in Lane |-> 4 * Head(granted).word + l]

FaultyRdataExt(resp) ==
  LET off == rdata_offset_q
      at(i) == IF off + i < 4 THEN resp[off + i] ELSE resp[off + i - 4]
  IN  [l \in Lane |->
        IF data_type_q = "word" THEN at(l)
        ELSE IF data_type_q = "half"
        THEN IF l < 2 THEN at(l) ELSE Extension(data_sign_ext_q, at(1))
        ELSE IF l = 0 THEN at(0) ELSE Extension(data_sign_ext_q, at(0))]

\* data_rdata_ext: the addressed bytes, the ones below the word boundary taken
\* from the first part kept in rdata_q, then the extension.
RdataExt(resp) ==
  LET off == rdata_offset_q
      split == \/ data_type_q = "word" /\ off # 0
               \/ data_type_q = "half" /\ off = 3
      at(i) == IF off + i > 3 THEN resp[off + i - 4]
               ELSE IF split THEN rdata_q[off + i] ELSE resp[off + i]
  IN  [l \in Lane |->
        IF data_type_q = "word" THEN at(l)
        ELSE IF data_type_q = "half"
        THEN IF l < 2 THEN at(l) ELSE Extension(data_sign_ext_q, at(1))
        ELSE IF l = 0 THEN at(0) ELSE Extension(data_sign_ext_q, at(0))]

RdataClock(in) ==
  rdata_q' = IF in.rvalid /\ ~data_we_q
             THEN IF data_misaligned_ex \/ Misaligned
                  THEN RespRdata ELSE RdataExt(RespRdata)
             ELSE rdata_q

LsuClock(in) ==
  /\ cnt_q' = cnt_q + (IF Accepted(in) THEN 1 ELSE 0)
                    - (IF in.rvalid THEN 1 ELSE 0)
  /\ IF CtrlUpdate(in)
     THEN /\ data_type_q' = ex.type /\ rdata_offset_q' = Offset
          /\ data_sign_ext_q' = ex.ext /\ data_we_q' = ex.we
     ELSE UNCHANGED <<data_type_q, rdata_offset_q, data_sign_ext_q, data_we_q>>
  /\ RdataClock(in)

\* ---- ID/EX registers (the part that concerns the LSU) --------------------
\* On the second part of a split access, operand a is kept (post-increment) or
\* becomes the sum forwarded from EX, and operand b becomes 4.
NextA == IF useincr_ex THEN (a_ex + b_ex) % NBytes ELSE a_ex

IdExClock(in) ==
  \/ /\ Misaligned
     /\ IF ExReady(in)
        THEN /\ a_ex' = NextA /\ b_ex' = 4 % NBytes /\ useincr_ex' = TRUE
             /\ data_misaligned_ex' = TRUE
        ELSE UNCHANGED <<a_ex, b_ex, useincr_ex, data_misaligned_ex>>
     /\ UNCHANGED <<data_req_ex, ex>>
  \/ /\ ~Misaligned /\ ExReady(in) /\ in.id \in Access
     /\ data_req_ex' = TRUE /\ data_misaligned_ex' = FALSE
     /\ ex' = [we |-> in.id.we, type |-> in.id.type, ext |-> in.id.ext]
     /\ a_ex' = in.id.a /\ b_ex' = in.id.b /\ useincr_ex' = in.id.useincr
  \/ /\ ~Misaligned /\ ExReady(in) /\ in.id \notin Access
     /\ data_req_ex' = FALSE /\ data_misaligned_ex' = FALSE
     /\ UNCHANGED <<ex, a_ex, b_ex, useincr_ex>>
  \/ /\ ~Misaligned /\ ~ExReady(in)
     /\ UNCHANGED exVars

\* ---- EX/WB register: ex_valid_o with lsu_en_i; other instructions do not
\* ---- write through the LSU port, so they clear it as an empty EX does
ExWbClock(in) ==
  regfile_we_lsu' =
    IF data_req_ex /\ in.other /\ ReadyEx(in) /\ ReadyWb(in) THEN ~ex.we
    ELSE IF ReadyWb(in) THEN FALSE
    ELSE regfile_we_lsu

\* ---- external data memory ------------------------------------------------
MemoryAnswers(in) == in.rvalid => granted # <<>>

MemoryClock(in) ==
  LET left == IF in.rvalid THEN Tail(granted) ELSE granted
  IN  granted' = IF Accepted(in) THEN Append(left, Request) ELSE left

\* ---- history -------------------------------------------------------------
\* The load in WB writes its final value: write port of the register file in
\* the cycle in which WB is released, with no second part to come.
Finishes(in) == regfile_we_lsu /\ in.rvalid /\ ~data_misaligned_ex

Made(in) == IF Accepted(in) THEN Append(requests, Request) ELSE requests

\* An access leaves EX for WB when its last part does.
Leaves(in) == data_req_ex /\ ~Misaligned /\ ExReady(in)

HistoryClock(in) ==
  /\ IF Misaligned \/ ~ExReady(in)
     THEN access' = access /\ requests' = Made(in)
     ELSE /\ access' = IF in.id \in Access THEN in.id ELSE NoAccess
          /\ requests' = <<>>
  /\ asked' = IF TransValid(in) /\ ~in.gnt THEN <<Request>> ELSE <<>>
  /\ IF Leaves(in) THEN wbAccess' = access /\ wbRequests' = Made(in)
                   ELSE UNCHANGED <<wbAccess, wbRequests>>
  /\ loaded' = IF Finishes(in)
               THEN [of |-> wbAccess, value |-> RdataExt(RespRdata)]
               ELSE loaded

Cycle(in) ==
  /\ MemoryAnswers(in)
  /\ IdExClock(in)
  /\ LsuClock(in)
  /\ ExWbClock(in)
  /\ MemoryClock(in)
  /\ HistoryClock(in)

\* Only one of the multi-cycle units of EX works for an instruction: with a
\* data request in EX nothing but the LSU holds EX back.
Inputs == [gnt : BOOLEAN, rvalid : BOOLEAN, other : BOOLEAN,
           id : Access \cup {NoAccess, Bubble}]

Allowed(in) ==
  /\ data_req_ex => in.other
  /\ (Misaligned \/ ~ExReady(in)) => in.id = Bubble    \* id_ready_o is 0

Next == \E in \in Inputs : Allowed(in) /\ Cycle(in)

\* The memory grants every request and answers every granted one.
Grant == \E in \in Inputs : Allowed(in) /\ Accepted(in) /\ Cycle(in)
Answer == \E in \in Inputs : Allowed(in) /\ in.rvalid /\ Cycle(in)
Fairness == WF_vars(Grant) /\ WF_vars(Answer)

Spec == Init /\ [][Next]_vars
FairSpec == Spec /\ Fairness
-----------------------------------------------------------------------------
TypeOK ==
  /\ data_req_ex \in BOOLEAN /\ data_misaligned_ex \in BOOLEAN
  /\ ex \in [we : BOOLEAN, type : {"word", "half", "byte"},
             ext : {"zero", "ones", "sign"}]
  /\ a_ex \in Byte /\ b_ex \in Byte /\ useincr_ex \in BOOLEAN
  /\ cnt_q \in 0 .. Outstanding
  /\ data_type_q \in {"word", "half", "byte"} /\ rdata_offset_q \in Lane
  /\ data_sign_ext_q \in {"zero", "ones", "sign"} /\ data_we_q \in BOOLEAN
  /\ rdata_q \in [Lane -> RegByte]
  /\ regfile_we_lsu \in BOOLEAN
  /\ granted \in Seq([we : BOOLEAN, word : 0 .. NBytes \div 4 - 1,
                      be : SUBSET Lane, wdata : [Lane -> Lane]])

\* ---- reference definitions: what an access must do -----------------------
Address(acc) == IF acc.useincr THEN (acc.a + acc.b) % NBytes ELSE acc.a
Size(acc) == IF acc.type = "word" THEN 4 ELSE IF acc.type = "half" THEN 2 ELSE 1
ByteAt(acc, i) == (Address(acc) + i) % NBytes

\* the bytes an access touches, with what a store puts there
Touched(acc) == {<<ByteAt(acc, i), i>> : i \in 0 .. Size(acc) - 1}
RegisterAfter(acc) ==
  [l \in Lane |-> IF l < Size(acc) THEN ByteAt(acc, l)
                  ELSE Extension(acc.ext, ByteAt(acc, Size(acc) - 1))]

\* what a bus request touches, likewise
RequestTouches(r) == {<<4 * r.word + l, r.wdata[l]>> : l \in r.be}

\* ---- what must hold ------------------------------------------------------

\* An access reaches WB having made its bus requests once each: every byte is
\* touched by exactly one request, with the right byte of the register, also
\* when it is split and the requests overlap an earlier access's response.
AccessDoneOnce ==
  wbAccess # NoAccess =>
    LET parts == DOMAIN wbRequests
    IN  /\ UNION {RequestTouches(wbRequests[i]) : i \in parts} = Touched(wbAccess)
        /\ \A i, j \in parts : i # j =>
             RequestTouches(wbRequests[i]) \cap RequestTouches(wbRequests[j]) = {}
        /\ \A i \in parts : wbRequests[i].we = wbAccess.we

\* A load leaves in its register the bytes at its address, extended, whatever
\* transfers before and after it are under way (rdata_q is shared by both
\* halves of a split load and by the next one).
LoadedRight ==
  loaded.of # NoAccess =>
    /\ ~loaded.of.we
    /\ loaded.value = RegisterAfter(loaded.of)

\* OBI: a request, once raised, is neither withdrawn nor changed until it is
\* granted; TRANS_STABLE = 1 relies on it.  (Without the legacy PULP_OBI.)
RequestHeld ==
  asked # <<>> => data_req_ex /\ cnt_q < Outstanding /\ Request = asked[1]

\* Every access completes: EX never waits for the data bus for ever.
LsuProgress ==
  []<>(~data_req_ex) \/ []<><<\E in \in Inputs : Leaves(in) /\ Cycle(in)>>_vars
=============================================================================
