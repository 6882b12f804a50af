------------------------ MODULE LoadStoreUnitProofs ------------------------
(***************************************************************************)
(* The load-store unit makes the transfers of every access once and loads  *)
(* the right bytes, whatever the accesses, the size of the address space   *)
(* and the timing of the memory.                                           *)
(***************************************************************************)
EXTENDS LoadStoreUnit, SequenceTheorems, TLAPS

\* ---- what an access puts on the bus ---------------------------------------
Off(acc) == Address(acc) % 4

\* Which accesses take two transfers.
Split(acc) ==
  \/ acc.type = "word" /\ Off(acc) # 0
  \/ acc.type = "half" /\ Off(acc) = 3

FirstLanes(acc) ==
  IF acc.type = "byte" THEN {Off(acc)}
  ELSE IF acc.type = "half" THEN {Off(acc), Off(acc) + 1} \cap Lane
  ELSE {l \in Lane : l >= Off(acc)}

SecondLanes(acc) ==
  IF acc.type = "half" THEN {0} ELSE {l \in Lane : l < Off(acc)}

Rotated(acc) == [l \in Lane |-> (l - Off(acc)) % 4]

First(acc) == [we |-> acc.we, word |-> Address(acc) \div 4,
               be |-> FirstLanes(acc), wdata |-> Rotated(acc)]
Second(acc) == [we |-> acc.we, word |-> ((Address(acc) + 4) % NBytes) \div 4,
                be |-> SecondLanes(acc), wdata |-> Rotated(acc)]

Last(acc) == IF Split(acc) THEN Second(acc) ELSE First(acc)
Parts(acc) == IF Split(acc) THEN <<First(acc), Second(acc)>> ELSE <<First(acc)>>

\* What the memory answers to a request.
WordOf(req) == [l \in Lane |-> 4 * req.word + l]

\* ---- the inductive invariant ---------------------------------------------
\* EX holds the access that ID gave it; for the second transfer the operands
\* are its address and 4.
InEx ==
  /\ access \in Access \cup {NoAccess}
  /\ data_req_ex <=> access # NoAccess
  /\ data_misaligned_ex => data_req_ex /\ Split(access)
  /\ data_req_ex => ex = [we |-> access.we, type |-> access.type, ext |-> access.ext]
  /\ data_req_ex /\ ~data_misaligned_ex =>
       a_ex = access.a /\ b_ex = access.b /\ useincr_ex = access.useincr
  /\ data_misaligned_ex =>
       a_ex = Address(access) /\ b_ex = 4 % NBytes /\ useincr_ex

\* Two requests are outstanding only while EX waits with its own granted.
Ahead == cnt_q = 2 => data_req_ex

MadeEarlier == IF data_misaligned_ex THEN <<First(access)>> ELSE <<>>

\* The access in EX has made each of its requests once.
MadeOnce ==
  requests = IF cnt_q = 2 THEN Append(MadeEarlier, Request) ELSE MadeEarlier

\* The access whose transfer is in the response phase.
InWb == IF data_misaligned_ex THEN access ELSE wbAccess
WbRequest == IF data_misaligned_ex THEN First(access) ELSE Last(wbAccess)

\* What is on the bus, in order: the transfer in WB, then the one in EX.
OnBus ==
  /\ granted = IF cnt_q = 0 THEN <<>>
               ELSE IF cnt_q = 1 THEN <<WbRequest>> ELSE <<WbRequest, Request>>
  /\ cnt_q # 0 => InWb \in Access

\* The response is interpreted as the access in WB asks for.
Interpreted ==
  cnt_q # 0 \/ data_misaligned_ex =>
    /\ data_type_q = InWb.type /\ rdata_offset_q = Off(InWb)
    /\ data_sign_ext_q = InWb.ext /\ data_we_q = InWb.we

WritesWb == regfile_we_lsu => cnt_q # 0 /\ ~InWb.we

\* rdata_q keeps the first half of a split load until the second comes.
FirstKept ==
  /\ data_misaligned_ex /\ cnt_q = 0 /\ ~access.we => rdata_q = WordOf(First(access))
  /\ ~data_misaligned_ex /\ cnt_q # 0 /\ Split(wbAccess) /\ ~wbAccess.we =>
       rdata_q = WordOf(First(wbAccess))

WbMade ==
  wbAccess # NoAccess => wbAccess \in Access /\ wbRequests = Parts(wbAccess)

IInv ==
  /\ TypeOK /\ InEx /\ Ahead /\ MadeOnce /\ OnBus /\ Interpreted /\ WritesWb
  /\ FirstKept /\ WbMade /\ LoadedRight /\ RequestHeld

-----------------------------------------------------------------------------
\* Two transfers in a row.
LEMMA AppendTwo ==
  ASSUME NEW x, NEW y
  PROVE  Append(<<x>>, y) = <<x, y>>
<1> DEFINE S == {x, y}
<1>1. <<x>> \in Seq(S) /\ <<x, y>> \in Seq(S) /\ y \in S
  OBVIOUS
<1>2. Len(<<x>>) = 1 /\ <<x>>[1] = x
  OBVIOUS
<1>3. Len(<<x, y>>) = 2 /\ <<x, y>>[1] = x /\ <<x, y>>[2] = y
  OBVIOUS
<1>4. /\ Append(<<x>>, y) \in Seq(S) /\ Len(Append(<<x>>, y)) = 2
      /\ Append(<<x>>, y)[1] = x /\ Append(<<x>>, y)[2] = y
  BY <1>1, <1>2, AppendProperties
<1>5. \A i \in 1 .. 2 : Append(<<x>>, y)[i] = <<x, y>>[i]
  <2>1. \A i \in 1 .. 2 : i = 1 \/ i = 2
    OBVIOUS
  <2> QED BY <1>3, <1>4, <2>1
<1> HIDE DEF S
<1> QED BY <1>1, <1>3, <1>4, <1>5, SeqEqual

\* Addresses wrap around at the end of the address space.
LEMMA Wraps ==
  ASSUME NEW a \in Byte
  PROVE  \A i \in 0 .. 4 : (a + i) % NBytes = IF a + i < NBytes THEN a + i ELSE a + i - NBytes
<1> DEFINE N == NBytes
<1>1. N \in Nat /\ N >= 4 /\ a \in 0 .. N - 1
  BY NBytesAssumption DEF Byte
<1> HIDE DEF N
<1>2. \A x \in Nat : x < N => x % N = x
  BY <1>1
<1>3. \A x \in Nat : N <= x /\ x < 2 * N => x % N = x - N
  BY <1>1
<1>4. SUFFICES ASSUME NEW i \in 0 .. 4
               PROVE  (a + i) % N = IF a + i < N THEN a + i ELSE a + i - N
  BY DEF N
<1>5. a + i \in Nat /\ a + i < 2 * N
  BY <1>1
<1> QED BY <1>1, <1>2, <1>3, <1>5

\* Words and lanes: an address four bytes on has the same lane.
LEMMA WordAndLane ==
  ASSUME NEW a \in Byte
  PROVE  /\ a % 4 \in Lane /\ a \div 4 \in 0 .. NBytes \div 4 - 1
         /\ 4 * (a \div 4) = a - (a % 4)
         /\ (a + 4) % NBytes \in Byte /\ ((a + 4) % NBytes) % 4 = a % 4
<1>1. PICK k \in Nat : NBytes = 4 * k /\ k >= 1
  <2>1. NBytes = 4 * (NBytes \div 4) /\ NBytes \div 4 \in Nat /\ NBytes \div 4 >= 1
    BY NBytesAssumption
  <2> QED BY <2>1
<1>2. NBytes \div 4 = k
  BY <1>1
<1>3. (a + 4) % NBytes = IF a + 4 < NBytes THEN a + 4 ELSE a + 4 - NBytes
  BY Wraps
<1>4. a \in Nat /\ a < 4 * k
  BY <1>1 DEF Byte
<1>5. a % 4 \in Lane /\ a \div 4 \in 0 .. NBytes \div 4 - 1 /\ 4 * (a \div 4) = a - (a % 4)
  BY <1>2, <1>4 DEF Lane
<1>6. (a + 4) % NBytes \in Byte /\ ((a + 4) % NBytes) % 4 = a % 4
  BY <1>1, <1>3, <1>4 DEF Byte
<1> QED BY <1>5, <1>6

\* The fields of an access, its address and its lane.
LEMMA AccessFields ==
  ASSUME NEW acc \in Access
  PROVE  /\ acc # NoAccess /\ acc # Bubble
         /\ acc.we \in BOOLEAN /\ acc.type \in {"word", "half", "byte"}
         /\ acc.ext \in {"zero", "ones", "sign"}
         /\ acc.a \in Byte /\ acc.b \in Byte /\ acc.useincr \in BOOLEAN
         /\ Address(acc) \in Byte /\ Off(acc) \in Lane
<1>1. /\ acc # NoAccess /\ acc # Bubble
      /\ acc.we \in BOOLEAN /\ acc.type \in {"word", "half", "byte"}
      /\ acc.ext \in {"zero", "ones", "sign"}
      /\ acc.a \in Byte /\ acc.b \in Byte /\ acc.useincr \in BOOLEAN
  BY AccessAssumption
<1>2. (acc.a + acc.b) % NBytes \in Byte
  BY <1>1, NBytesAssumption DEF Byte
<1>3. Address(acc) \in Byte
  BY <1>1, <1>2 DEF Address
<1> QED BY <1>1, <1>3, WordAndLane DEF Off

\* The byte of the address space in each lane of the two transfers.
LEMMA Lanes ==
  ASSUME NEW acc \in Access
  PROVE  /\ \A l \in Lane : l >= Off(acc) => 4 * First(acc).word + l = ByteAt(acc, l - Off(acc))
         /\ \A l \in Lane : l < Off(acc) => 4 * Second(acc).word + l = ByteAt(acc, l - Off(acc) + 4)
         /\ \A l \in Lane : Rotated(acc)[l] = IF l >= Off(acc) THEN l - Off(acc) ELSE l - Off(acc) + 4
         /\ \A i \in Lane : ByteAt(acc, i) \in Byte
<1> DEFINE A == Address(acc)  B == (A + 4) % NBytes
<1>1. A \in Byte /\ Off(acc) \in Lane
  BY AccessFields
<1>2. /\ 4 * (A \div 4) = A - Off(acc) /\ B \in Byte /\ 4 * (B \div 4) = B - Off(acc)
  <2>1. 4 * (A \div 4) = A - (A % 4) /\ B \in Byte /\ B % 4 = A % 4
    BY <1>1, WordAndLane
  <2>2. 4 * (B \div 4) = B - (B % 4)
    BY <2>1, WordAndLane
  <2> QED BY <2>1, <2>2 DEF Off
<1>3. \A i \in 0 .. 4 : (A + i) % NBytes = IF A + i < NBytes THEN A + i ELSE A + i - NBytes
  BY <1>1, Wraps
<1>4. First(acc).word = A \div 4 /\ Second(acc).word = B \div 4
  BY DEF First, Second
<1>5. NBytes \in Nat /\ NBytes >= 4 /\ A \in 0 .. NBytes - 1 /\ A - Off(acc) + 3 < NBytes
  <2>1. PICK k \in Nat : NBytes = 4 * k
    <3>1. NBytes = 4 * (NBytes \div 4) /\ NBytes \div 4 \in Nat
      BY NBytesAssumption
    <3> QED BY <3>1
  <2>2. A \div 4 < k
    BY <1>1, <2>1 DEF Byte
  <2>3. A \div 4 \in Nat
    BY <1>1, NBytesAssumption DEF Byte
  <2> QED BY <1>1, <1>2, <2>1, <2>2, <2>3, NBytesAssumption DEF Byte
<1> HIDE DEF A
<1>6. \A i \in 0 .. 4 : ByteAt(acc, i) = IF A + i < NBytes THEN A + i ELSE A + i - NBytes
  BY <1>3 DEF ByteAt, A
<1> HIDE DEF B
<1>7. B = IF A + 4 < NBytes THEN A + 4 ELSE A + 4 - NBytes
  BY <1>3 DEF B
<1>8. ASSUME NEW l \in Lane, l >= Off(acc)
      PROVE  4 * First(acc).word + l = ByteAt(acc, l - Off(acc))
  BY <1>1, <1>2, <1>4, <1>5, <1>6, <1>8 DEF Lane
<1>9. ASSUME NEW l \in Lane, l < Off(acc)
      PROVE  4 * Second(acc).word + l = ByteAt(acc, l - Off(acc) + 4)
  <2>1. 4 * Second(acc).word + l = B - Off(acc) + l
    BY <1>2, <1>4
  <2>2. A + 4 < NBytes <=> A + (l - Off(acc) + 4) < NBytes
    <3>1. PICK k \in Nat, m \in Nat : NBytes = 4 * k /\ A - Off(acc) = 4 * m
      <4>1. NBytes = 4 * (NBytes \div 4) /\ NBytes \div 4 \in Nat
        BY NBytesAssumption
      <4>2. A - Off(acc) = 4 * (A \div 4) /\ A \div 4 \in Nat
        BY <1>2, <1>5
      <4> QED BY <4>1, <4>2
    <3> QED BY <1>1, <1>5, <3>1 DEF Lane
  <2>3. l - Off(acc) + 4 \in 0 .. 4
    BY <1>1, <1>9 DEF Lane
  <2>4. ByteAt(acc, l - Off(acc) + 4)
          = IF A + 4 < NBytes THEN A + (l - Off(acc) + 4) ELSE A + (l - Off(acc) + 4) - NBytes
    BY <1>6, <2>2, <2>3
  <2> QED BY <1>1, <1>5, <1>7, <2>1, <2>4 DEF Lane
<1>10. ASSUME NEW l \in Lane
       PROVE  Rotated(acc)[l] = IF l >= Off(acc) THEN l - Off(acc) ELSE l - Off(acc) + 4
  BY <1>1 DEF Rotated, Lane
<1>11. \A i \in Lane : ByteAt(acc, i) \in Byte
  BY <1>5, <1>6 DEF Lane, Byte
<1> QED BY <1>8, <1>9, <1>10, <1>11

\* The bytes of the register that go with each transfer.
FirstBytes(acc) == {l - Off(acc) : l \in FirstLanes(acc)}
SecondBytes(acc) == {l - Off(acc) + 4 : l \in SecondLanes(acc)}

\* They are all bytes of the access, each in one transfer only (data_be).
LEMMA BytesOnce ==
  ASSUME NEW acc \in Access
  PROVE  /\ FirstLanes(acc) \subseteq {l \in Lane : l >= Off(acc)}
         /\ Split(acc) => SecondLanes(acc) \subseteq {l \in Lane : l < Off(acc)}
         /\ Split(acc) => /\ FirstBytes(acc) \cup SecondBytes(acc) = 0 .. Size(acc) - 1
                          /\ FirstBytes(acc) \cap SecondBytes(acc) = {}
         /\ ~Split(acc) => FirstBytes(acc) = 0 .. Size(acc) - 1
<1>1. acc.type \in {"word", "half", "byte"} /\ Off(acc) \in {0, 1, 2, 3}
  BY AccessFields DEF Lane
<1>2. FirstLanes(acc) \subseteq {l \in Lane : l >= Off(acc)}
  BY <1>1 DEF FirstLanes, Lane
<1>3. Split(acc) => SecondLanes(acc) \subseteq {l \in Lane : l < Off(acc)}
  BY <1>1 DEF SecondLanes, Split, Lane
<1>4. CASE acc.type = "byte"
  <2>1. ~Split(acc) /\ FirstLanes(acc) = {Off(acc)} /\ Size(acc) = 1
    BY <1>4 DEF Split, FirstLanes, Size
  <2> QED BY <1>1, <1>2, <2>1 DEF FirstBytes
<1>5. CASE acc.type = "half" /\ Off(acc) # 3
  <2>1. ~Split(acc) /\ FirstLanes(acc) = {Off(acc), Off(acc) + 1} /\ Size(acc) = 2
    <3>1. {Off(acc), Off(acc) + 1} \cap Lane = {Off(acc), Off(acc) + 1}
      <4>1. Off(acc) \in Lane /\ Off(acc) + 1 \in Lane
        BY <1>1, <1>5 DEF Lane
      <4> QED BY <4>1
    <3> QED BY <1>5, <3>1 DEF Split, FirstLanes, Size
  <2> QED BY <1>1, <1>2, <2>1 DEF FirstBytes
<1>6. CASE acc.type = "half" /\ Off(acc) = 3
  <2>1. FirstLanes(acc) = {3} /\ SecondLanes(acc) = {0} /\ Size(acc) = 2
    BY <1>6 DEF Split, FirstLanes, SecondLanes, Size, Lane
  <2>2. FirstBytes(acc) = {0} /\ SecondBytes(acc) = {1}
    BY <1>6, <2>1 DEF FirstBytes, SecondBytes
  <2> QED BY <1>2, <1>3, <1>6, <2>1, <2>2 DEF Split
<1>7. CASE acc.type = "word"
  <2>1. FirstLanes(acc) = Off(acc) .. 3 /\ SecondLanes(acc) = 0 .. Off(acc) - 1 /\ Size(acc) = 4
    BY <1>1, <1>7 DEF FirstLanes, SecondLanes, Size, Lane
  <2>2. FirstBytes(acc) = 0 .. 3 - Off(acc) /\ SecondBytes(acc) = 4 - Off(acc) .. 3
    <3>1. \A i \in 0 .. 3 - Off(acc) : i + Off(acc) \in Off(acc) .. 3 /\ i = (i + Off(acc)) - Off(acc)
      BY <1>1
    <3>2. \A l \in Off(acc) .. 3 : l - Off(acc) \in 0 .. 3 - Off(acc)
      BY <1>1
    <3>3. \A i \in 4 - Off(acc) .. 3 :
            i + Off(acc) - 4 \in 0 .. Off(acc) - 1 /\ i = (i + Off(acc) - 4) - Off(acc) + 4
      BY <1>1
    <3>4. \A l \in 0 .. Off(acc) - 1 : l - Off(acc) + 4 \in 4 - Off(acc) .. 3
      BY <1>1
    <3>5. FirstBytes(acc) = 0 .. 3 - Off(acc)
      BY <2>1, <3>1, <3>2 DEF FirstBytes
    <3>6. SecondBytes(acc) = 4 - Off(acc) .. 3
      BY <2>1, <3>3, <3>4 DEF SecondBytes
    <3> QED BY <3>5, <3>6
  <2> QED BY <1>1, <1>2, <1>3, <1>7, <2>1, <2>2 DEF Split
<1> QED BY <1>1, <1>4, <1>5, <1>6, <1>7

\* What a transfer does to the memory, as bytes of the access.
Touch(acc, bytes) == {<<ByteAt(acc, i), i>> : i \in bytes}

\* The byte enables of the two transfers select the bytes of the access that are
\* theirs.
LEMMA TransfersTouch ==
  ASSUME NEW acc \in Access
  PROVE  /\ RequestTouches(First(acc)) = Touch(acc, FirstBytes(acc))
         /\ Split(acc) => RequestTouches(Second(acc)) = Touch(acc, SecondBytes(acc))
<1>1. First(acc).be = FirstLanes(acc) /\ First(acc).wdata = Rotated(acc)
      /\ Second(acc).be = SecondLanes(acc) /\ Second(acc).wdata = Rotated(acc)
  BY DEF First, Second
<1>2. RequestTouches(First(acc)) = Touch(acc, FirstBytes(acc))
  <2>1. \A l \in FirstLanes(acc) :
          <<4 * First(acc).word + l, Rotated(acc)[l]>> = <<ByteAt(acc, l - Off(acc)), l - Off(acc)>>
    BY BytesOnce, Lanes
  <2> QED BY <1>1, <2>1 DEF RequestTouches, Touch, FirstBytes
<1>3. ASSUME Split(acc) PROVE RequestTouches(Second(acc)) = Touch(acc, SecondBytes(acc))
  <2>1. \A l \in SecondLanes(acc) : l \in Lane /\ l < Off(acc) /\ ~(l >= Off(acc))
    BY <1>3, BytesOnce, AccessFields DEF Lane
  <2>2. \A l \in SecondLanes(acc) :
          <<4 * Second(acc).word + l, Rotated(acc)[l]>> = <<ByteAt(acc, l - Off(acc) + 4), l - Off(acc) + 4>>
    BY <2>1, Lanes
  <2> QED BY <1>1, <2>2 DEF RequestTouches, Touch, SecondBytes
<1> QED BY <1>2, <1>3

\* The transfers of an access, taken together, do what AccessDoneOnce asks.
LEMMA PartsDoIt ==
  ASSUME NEW acc \in Access, NEW made, made = Parts(acc)
  PROVE  LET parts == DOMAIN made
         IN  /\ UNION {RequestTouches(made[i]) : i \in parts} = Touched(acc)
             /\ \A i, j \in parts : i # j =>
                  RequestTouches(made[i]) \cap RequestTouches(made[j]) = {}
             /\ \A i \in parts : made[i].we = acc.we
<1>1. Touched(acc) = Touch(acc, 0 .. Size(acc) - 1)
  BY DEF Touched, Touch
<1>2. First(acc).we = acc.we /\ Second(acc).we = acc.we
  BY DEF First, Second
<1>3. CASE ~Split(acc)
  <2>1. DOMAIN made = {1} /\ made[1] = First(acc)
    BY <1>3 DEF Parts
  <2>2. UNION {RequestTouches(made[i]) : i \in DOMAIN made} = RequestTouches(First(acc))
    BY <2>1
  <2>3. RequestTouches(First(acc)) = Touched(acc)
    BY <1>1, <1>3, BytesOnce, TransfersTouch
  <2> QED BY <1>2, <2>1, <2>2, <2>3
<1>4. CASE Split(acc)
  <2>1. DOMAIN made = {1, 2} /\ made[1] = First(acc) /\ made[2] = Second(acc)
    BY <1>4 DEF Parts
  <2>2. UNION {RequestTouches(made[i]) : i \in DOMAIN made}
          = Touch(acc, FirstBytes(acc)) \cup Touch(acc, SecondBytes(acc))
    BY <1>4, <2>1, TransfersTouch
  <2>3. Touch(acc, FirstBytes(acc)) \cup Touch(acc, SecondBytes(acc)) = Touched(acc)
    <3>1. FirstBytes(acc) \cup SecondBytes(acc) = 0 .. Size(acc) - 1
      BY <1>4, BytesOnce
    <3> QED BY <1>1, <3>1 DEF Touch
  <2>4. Touch(acc, FirstBytes(acc)) \cap Touch(acc, SecondBytes(acc)) = {}
    BY <1>4, BytesOnce DEF Touch
  <2>5. \A i, j \in {1, 2} : i # j => RequestTouches(made[i]) \cap RequestTouches(made[j]) = {}
    BY <1>4, <2>1, <2>4, TransfersTouch
  <2>6. \A i \in {1, 2} : made[i].we = acc.we
    BY <1>2, <2>1
  <2> QED BY <2>1, <2>2, <2>3, <2>5, <2>6
<1> QED BY <1>3, <1>4

-----------------------------------------------------------------------------
\* The byte that data_rdata_ext selects for lane i.
At(acc, i) ==
  IF Off(acc) + i > 3 THEN WordOf(Last(acc))[Off(acc) + i - 4]
  ELSE IF Split(acc) THEN WordOf(First(acc))[Off(acc) + i]
  ELSE WordOf(Last(acc))[Off(acc) + i]

\* The bytes of the last transfer and those kept of the first make the value of
\* a load (data_rdata_ext).
LEMMA LoadsRight ==
  ASSUME NEW acc \in Access,
         data_type_q = acc.type, rdata_offset_q = Off(acc), data_sign_ext_q = acc.ext,
         Split(acc) => rdata_q = WordOf(First(acc))
  PROVE  /\ RdataExt(WordOf(Last(acc))) = RegisterAfter(acc)
         /\ RegisterAfter(acc) \in [Lane -> RegByte]
<1>1. acc.type \in {"word", "half", "byte"} /\ Off(acc) \in {0, 1, 2, 3}
      /\ acc.ext \in {"zero", "ones", "sign"}
  BY AccessFields DEF Lane
<1>2. ASSUME NEW i \in 0 .. Size(acc) - 1 PROVE At(acc, i) = ByteAt(acc, i)
  <2>1. i \in Lane
    BY <1>1 DEF Size, Lane
  <2>2. CASE Off(acc) + i > 3
    <3>1. Split(acc) /\ Off(acc) + i - 4 \in Lane /\ Off(acc) + i - 4 < Off(acc)
          /\ (Off(acc) + i - 4) - Off(acc) + 4 = i
      BY <1>1, <2>1, <2>2 DEF Size, Split, Lane
    <3>2. At(acc, i) = 4 * Second(acc).word + (Off(acc) + i - 4)
      BY <2>2, <3>1 DEF At, Last, WordOf
    <3> QED BY <3>1, <3>2, Lanes
  <2>3. CASE ~(Off(acc) + i > 3)
    <3>1. Off(acc) + i \in Lane /\ Off(acc) + i >= Off(acc) /\ (Off(acc) + i) - Off(acc) = i
      BY <1>1, <2>1, <2>3 DEF Lane
    <3>2. At(acc, i) = 4 * First(acc).word + (Off(acc) + i)
      BY <2>3, <3>1 DEF At, Last, WordOf
    <3> QED BY <3>1, <3>2, Lanes
  <2> QED BY <2>2, <2>3
<1>3. RdataExt(WordOf(Last(acc))) =
        [l \in Lane |->
          IF acc.type = "word" THEN At(acc, l)
          ELSE IF acc.type = "half"
          THEN IF l < 2 THEN At(acc, l) ELSE Extension(acc.ext, At(acc, 1))
          ELSE IF l = 0 THEN At(acc, 0) ELSE Extension(acc.ext, At(acc, 0))]
  <2>1. ASSUME NEW i \in Lane
        PROVE  At(acc, i) =
                 IF rdata_offset_q + i > 3 THEN WordOf(Last(acc))[rdata_offset_q + i - 4]
                 ELSE IF \/ data_type_q = "word" /\ rdata_offset_q # 0
                         \/ data_type_q = "half" /\ rdata_offset_q = 3
                 THEN rdata_q[rdata_offset_q + i] ELSE WordOf(Last(acc))[rdata_offset_q + i]
    BY DEF At, Split
  <2>2. 0 \in Lane /\ 1 \in Lane
    BY DEF Lane
  <2> QED BY <2>1, <2>2 DEF RdataExt
<1>4. CASE acc.type = "word"
  <2>1. Size(acc) = 4 /\ Lane = 0 .. 3
    BY <1>4 DEF Size, Lane
  <2> QED BY <1>2, <1>3, <1>4, <2>1, Lanes, NBytesAssumption DEF RegisterAfter, RegByte, Byte
<1>5. CASE acc.type = "half"
  <2>1. Size(acc) = 2 /\ Lane = 0 .. 3
    BY <1>5 DEF Size, Lane
  <2>2. At(acc, 0) = ByteAt(acc, 0) /\ At(acc, 1) = ByteAt(acc, 1)
    BY <1>2, <2>1
  <2>3. Extension(acc.ext, ByteAt(acc, 1)) \in RegByte /\ Byte \subseteq RegByte
    BY <2>1, Lanes, NBytesAssumption DEF Extension, Zero, Ones, SignOf, RegByte, Byte
  <2>4. RegisterAfter(acc) = [l \in Lane |-> IF l < 2 THEN ByteAt(acc, l) ELSE Extension(acc.ext, ByteAt(acc, 1))]
    BY <2>1 DEF RegisterAfter
  <2>5. RdataExt(WordOf(Last(acc))) = [l \in Lane |-> IF l < 2 THEN At(acc, l) ELSE Extension(acc.ext, ByteAt(acc, 1))]
    BY <1>3, <1>5, <2>2
  <2>6. \A l \in Lane : l < 2 => At(acc, l) = ByteAt(acc, l)
    BY <1>2, <2>1
  <2> QED BY <2>3, <2>4, <2>5, <2>6, Lanes
<1>6. CASE acc.type = "byte"
  <2>1. Size(acc) = 1 /\ Lane = 0 .. 3
    BY <1>6 DEF Size, Lane
  <2>2. At(acc, 0) = ByteAt(acc, 0)
    BY <1>2, <2>1
  <2>3. Extension(acc.ext, ByteAt(acc, 0)) \in RegByte /\ Byte \subseteq RegByte
    BY <2>1, Lanes, NBytesAssumption DEF Extension, Zero, Ones, SignOf, RegByte, Byte
  <2>4. RegisterAfter(acc) = [l \in Lane |-> IF l = 0 THEN ByteAt(acc, 0) ELSE Extension(acc.ext, ByteAt(acc, 0))]
    BY <2>1 DEF RegisterAfter
  <2>5. RdataExt(WordOf(Last(acc))) = [l \in Lane |-> IF l = 0 THEN ByteAt(acc, 0) ELSE Extension(acc.ext, ByteAt(acc, 0))]
    BY <1>3, <1>6, <2>2
  <2> QED BY <2>1, <2>3, <2>4, <2>5, Lanes
<1> QED BY <1>1, <1>4, <1>5, <1>6

-----------------------------------------------------------------------------
\* The request in EX is the first transfer of the access, or the second one.
LEMMA RequestIs ==
  ASSUME InEx, data_req_ex
  PROVE  /\ access \in Access /\ access # NoAccess
         /\ Offset = Off(access)
         /\ Misaligned <=> ~data_misaligned_ex /\ Split(access)
         /\ Request = IF data_misaligned_ex THEN Second(access) ELSE First(access)
         /\ ~data_misaligned_ex => NextA = Address(access)
<1>1. access \in Access /\ access # NoAccess
  BY AccessFields DEF InEx
<1>2. Address(access) \in Byte
  BY <1>1, AccessFields
<1>3. ex = [we |-> access.we, type |-> access.type, ext |-> access.ext]
  BY DEF InEx
<1>4. CASE ~data_misaligned_ex
  <2>1. DataAddrInt = Address(access) /\ NextA = Address(access) /\ Offset = Off(access)
    BY <1>4 DEF InEx, DataAddrInt, NextA, Address, Offset, Off
  <2>2. Misaligned <=> Split(access)
    BY <1>3, <1>4, <2>1 DEF Misaligned, Split
  <2>3. DataBe = FirstLanes(access)
    BY <1>3, <1>4, <2>1 DEF DataBe, FirstLanes
  <2>4. DataWdata = Rotated(access)
    BY <2>1 DEF DataWdata, Rotated
  <2> QED BY <1>1, <1>3, <1>4, <2>1, <2>2, <2>3, <2>4 DEF Request, First
<1>5. CASE data_misaligned_ex
  <2>1. DataAddrInt = (Address(access) + 4) % NBytes
    <3>1. \A i \in 0 .. 4 : (Address(access) + i) % NBytes =
            IF Address(access) + i < NBytes THEN Address(access) + i ELSE Address(access) + i - NBytes
      BY <1>2, Wraps
    <3>2. CASE NBytes = 4
      <4>1. 4 % NBytes = 0
        BY <3>2
      <4> QED BY <1>2, <1>5, <3>1, <3>2, <4>1 DEF InEx, DataAddrInt, Byte
    <3>3. CASE NBytes # 4
      <4>1. \A n \in Nat : n > 4 => 4 % n = 4
        OBVIOUS
      <4>2. 4 % NBytes = 4
        BY <3>3, <4>1, NBytesAssumption
      <4> QED BY <1>5, <4>2 DEF InEx, DataAddrInt
    <3> QED BY <3>2, <3>3
  <2>2. Offset = Off(access)
    BY <1>2, <2>1, WordAndLane DEF Offset, Off
  <2>3. ~Misaligned /\ Split(access)
    BY <1>5 DEF Misaligned, InEx
  <2>4. DataBe = SecondLanes(access)
    BY <1>3, <1>5, <2>2, <2>3 DEF DataBe, SecondLanes, Split
  <2>5. DataWdata = Rotated(access)
    BY <2>2 DEF DataWdata, Rotated
  <2> QED BY <1>1, <1>3, <1>5, <2>1, <2>2, <2>3, <2>4, <2>5 DEF Request, Second
<1> QED BY <1>4, <1>5

\* The transfers are OBI requests, and what the memory returns for them is bytes.
BusRequest == [we : BOOLEAN, word : 0 .. NBytes \div 4 - 1,
               be : SUBSET Lane, wdata : [Lane -> Lane]]

\* The two transfers of an access are requests of the bus.
LEMMA TransfersTyped ==
  ASSUME NEW acc \in Access
  PROVE  /\ First(acc) \in BusRequest
         /\ Split(acc) => Second(acc) \in BusRequest
         /\ WordOf(First(acc)) \in [Lane -> RegByte]
         /\ WordOf(Second(acc)) \in [Lane -> RegByte]
<1>1. acc.we \in BOOLEAN /\ Address(acc) \in Byte /\ Off(acc) \in Lane
  BY AccessFields
<1>2. Address(acc) \div 4 \in 0 .. NBytes \div 4 - 1
      /\ ((Address(acc) + 4) % NBytes) \div 4 \in 0 .. NBytes \div 4 - 1
  BY <1>1, WordAndLane
<1>3. Rotated(acc) \in [Lane -> Lane]
  BY <1>1 DEF Rotated, Lane
<1>4. FirstLanes(acc) \subseteq Lane /\ (Split(acc) => SecondLanes(acc) \subseteq Lane)
  BY BytesOnce
<1>5. First(acc) \in BusRequest /\ (Split(acc) => Second(acc) \in BusRequest)
  BY <1>1, <1>2, <1>3, <1>4 DEF First, Second, BusRequest
<1>6. \A w \in 0 .. NBytes \div 4 - 1, l \in Lane : 4 * w + l \in RegByte
  BY NBytesAssumption DEF Lane, RegByte
<1>7. WordOf(First(acc)) \in [Lane -> RegByte] /\ WordOf(Second(acc)) \in [Lane -> RegByte]
  BY <1>2, <1>6 DEF WordOf, First, Second
<1> QED BY <1>5, <1>7

\* What the handshakes come to (ex_ready_o, trans_valid).
LEMMA Handshakes ==
  ASSUME IInv, NEW in \in Inputs, Allowed(in), Cycle(in)
  PROVE  /\ cnt_q \in {0, 1, 2}
         /\ in.rvalid => cnt_q # 0
         /\ ReadyWb(in) <=> cnt_q = 0 \/ in.rvalid
         /\ Accepted(in) => data_req_ex /\ in.gnt /\ cnt_q # 2
         /\ ~data_req_ex => cnt_q # 2
         /\ data_req_ex => (ExReady(in) <=> \/ cnt_q = 0 /\ Accepted(in)
                                            \/ cnt_q = 1 /\ in.rvalid /\ Accepted(in)
                                            \/ cnt_q = 2 /\ in.rvalid)
         /\ CtrlUpdate(in) <=> data_req_ex /\ ExReady(in)
         /\ cnt_q' = cnt_q + (IF Accepted(in) THEN 1 ELSE 0) - (IF in.rvalid THEN 1 ELSE 0)
<1>1. cnt_q \in {0, 1, 2}
  BY DEF IInv, TypeOK, Outstanding
<1>2. in.rvalid => cnt_q # 0
  BY DEF IInv, OnBus, Cycle, MemoryAnswers
<1>3. Accepted(in) => data_req_ex /\ in.gnt /\ cnt_q # 2
  BY DEF Accepted, TransValid, Outstanding
<1>4. ~data_req_ex => cnt_q # 2
  BY DEF IInv, Ahead
<1>5. data_req_ex => in.other
  BY DEF Allowed
<1>6. ReadyWb(in) <=> cnt_q = 0 \/ in.rvalid
  BY DEF ReadyWb
<1>7. data_req_ex => (ReadyEx(in) <=> \/ cnt_q = 0 /\ Accepted(in)
                                      \/ cnt_q = 1 /\ in.rvalid /\ Accepted(in)
                                      \/ cnt_q = 2 /\ in.rvalid)
  BY DEF ReadyEx
<1>8. cnt_q' = cnt_q + (IF Accepted(in) THEN 1 ELSE 0) - (IF in.rvalid THEN 1 ELSE 0)
  BY DEF Cycle, LsuClock
<1>9. data_req_ex => (ExReady(in) <=> ReadyEx(in))
  BY <1>5, <1>6, <1>7 DEF ExReady
<1> QED BY <1>1, <1>2, <1>3, <1>4, <1>6, <1>7, <1>8, <1>9 DEF CtrlUpdate

\* An answer belongs to the transfer in WB; the last one of a load completes it.
LEMMA Answers ==
  ASSUME IInv, cnt_q # 0
  PROVE  /\ InWb \in Access /\ granted # <<>>
         /\ RespRdata = WordOf(WbRequest)
         /\ RespRdata \in [Lane -> RegByte]
         /\ ~data_misaligned_ex /\ ~data_we_q =>
              /\ RdataExt(RespRdata) = RegisterAfter(wbAccess)
              /\ RdataExt(RespRdata) \in [Lane -> RegByte]
<1>1. InWb \in Access /\ cnt_q \in {1, 2}
  BY DEF IInv, OnBus, TypeOK, Outstanding
<1>2. granted = <<WbRequest>> \/ granted = <<WbRequest, Request>>
  BY <1>1 DEF IInv, OnBus
<1>3. Head(granted) = WbRequest /\ granted # <<>>
  BY <1>2
<1>4. RespRdata = WordOf(WbRequest)
  BY <1>3 DEF RespRdata, WordOf
<1>5. RespRdata \in [Lane -> RegByte]
  BY <1>1, <1>4, TransfersTyped DEF WbRequest, InWb, Last
<1>6. ASSUME ~data_misaligned_ex, ~data_we_q
      PROVE  /\ RdataExt(RespRdata) = RegisterAfter(wbAccess)
             /\ RdataExt(RespRdata) \in [Lane -> RegByte]
  <2>1. InWb = wbAccess /\ WbRequest = Last(wbAccess)
    BY <1>6 DEF InWb, WbRequest
  <2>2. /\ data_type_q = wbAccess.type /\ rdata_offset_q = Off(wbAccess)
        /\ data_sign_ext_q = wbAccess.ext /\ ~wbAccess.we
    BY <1>6, <2>1 DEF IInv, Interpreted
  <2>3. Split(wbAccess) => rdata_q = WordOf(First(wbAccess))
    BY <1>6, <2>2 DEF IInv, FirstKept
  <2> QED BY <1>1, <1>4, <2>1, <2>2, <2>3, LoadsRight
<1> QED BY <1>1, <1>3, <1>4, <1>5, <1>6

-----------------------------------------------------------------------------
\* The flip-flops of ID/EX, LSU and EX/WB keep their types.
LEMMA TypeKept ==
  ASSUME IInv, NEW in \in Inputs, Allowed(in), Cycle(in)
  PROVE  TypeOK'
<1>1. TypeOK /\ InEx
  BY DEF IInv
<1>2. /\ data_req_ex' \in BOOLEAN /\ data_misaligned_ex' \in BOOLEAN
      /\ ex' \in [we : BOOLEAN, type : {"word", "half", "byte"}, ext : {"zero", "ones", "sign"}]
      /\ a_ex' \in Byte /\ b_ex' \in Byte /\ useincr_ex' \in BOOLEAN
  <2>1. 4 % NBytes \in Byte /\ NextA \in Byte
    BY <1>1, NBytesAssumption DEF TypeOK, NextA, Byte
  <2>2. in.id \in Access => /\ in.id.we \in BOOLEAN /\ in.id.type \in {"word", "half", "byte"}
                            /\ in.id.ext \in {"zero", "ones", "sign"}
                            /\ in.id.a \in Byte /\ in.id.b \in Byte /\ in.id.useincr \in BOOLEAN
    BY AccessFields
  <2>3. CASE Misaligned
    BY <1>1, <2>1, <2>3 DEF TypeOK, Cycle, IdExClock
  <2>4. CASE ~Misaligned /\ ExReady(in) /\ in.id \in Access
    <3>1. /\ data_req_ex' = TRUE /\ data_misaligned_ex' = FALSE
          /\ ex' = [we |-> in.id.we, type |-> in.id.type, ext |-> in.id.ext]
          /\ a_ex' = in.id.a /\ b_ex' = in.id.b /\ useincr_ex' = in.id.useincr
      BY <2>4 DEF Cycle, IdExClock
    <3> QED BY <2>2, <2>4, <3>1
  <2>5. CASE ~Misaligned /\ ExReady(in) /\ in.id \notin Access
    BY <1>1, <2>5 DEF TypeOK, Cycle, IdExClock
  <2>6. CASE ~Misaligned /\ ~ExReady(in)
    BY <1>1, <2>6 DEF TypeOK, Cycle, IdExClock, exVars
  <2> QED BY <2>3, <2>4, <2>5, <2>6
<1>3. cnt_q' \in 0 .. Outstanding
  BY Handshakes DEF Outstanding
<1>4. /\ data_type_q' \in {"word", "half", "byte"} /\ rdata_offset_q' \in Lane
      /\ data_sign_ext_q' \in {"zero", "ones", "sign"} /\ data_we_q' \in BOOLEAN
  <2>1. data_req_ex => Offset \in Lane
    BY <1>1, RequestIs, AccessFields
  <2>2. CASE CtrlUpdate(in)
    BY <1>1, <2>1, <2>2, Handshakes DEF TypeOK, Cycle, LsuClock
  <2>3. CASE ~CtrlUpdate(in)
    BY <1>1, <2>3 DEF TypeOK, Cycle, LsuClock
  <2> QED BY <2>2, <2>3
<1>5. rdata_q' \in [Lane -> RegByte]
  <2>1. CASE in.rvalid /\ ~data_we_q
    <3>1. cnt_q # 0
      BY <2>1, Handshakes
    <3>2. rdata_q' = RespRdata \/ (~data_misaligned_ex /\ rdata_q' = RdataExt(RespRdata))
      BY <2>1 DEF Cycle, LsuClock, RdataClock
    <3> QED BY <2>1, <3>1, <3>2, Answers
  <2>2. CASE ~(in.rvalid /\ ~data_we_q)
    <3>1. rdata_q' = rdata_q
      BY <2>2 DEF Cycle, LsuClock, RdataClock
    <3> QED BY <1>1, <3>1 DEF TypeOK
  <2> QED BY <2>1, <2>2
<1>6. regfile_we_lsu' \in BOOLEAN
  BY <1>1 DEF TypeOK, Cycle, ExWbClock
<1>7. granted' \in Seq(BusRequest)
  <2>1. granted \in Seq(BusRequest)
    BY <1>1 DEF TypeOK, BusRequest
  <2>2. data_req_ex => Request \in BusRequest
    BY <1>1, RequestIs, TransfersTyped DEF InEx
  <2>3. in.rvalid => granted # <<>> /\ Tail(granted) \in Seq(BusRequest)
    BY <2>1 DEF Cycle, MemoryAnswers
  <2>4. PICK left \in Seq(BusRequest) :
          granted' = IF Accepted(in) THEN Append(left, Request) ELSE left
    BY <2>1, <2>3 DEF Cycle, MemoryClock
  <2> QED BY <2>2, <2>4, Handshakes
<1> QED BY <1>2, <1>3, <1>4, <1>5, <1>6, <1>7 DEF TypeOK, BusRequest

-----------------------------------------------------------------------------
\* While EX is not ready the access in it stays as it is, its request too.
LEMMA StaysInEx ==
  ASSUME NEW in, Cycle(in), ~ExReady(in)
  PROVE  UNCHANGED exVars /\ Request' = Request /\ access' = access
<1>1. UNCHANGED exVars
  BY DEF Cycle, IdExClock, exVars
<1>2. Request' = Request
  BY <1>1 DEF exVars, Request, DataBe, DataWdata, Offset, DataAddrInt
<1>3. access' = access
  BY DEF Cycle, HistoryClock
<1> QED BY <1>1, <1>2, <1>3

\* What is loaded is right: a load finishes with the answer to its last transfer.
LEMMA LoadedKept ==
  ASSUME IInv, NEW in \in Inputs, Allowed(in), Cycle(in)
  PROVE  LoadedRight'
<1>1. CASE Finishes(in)
  <2>1. in.rvalid /\ ~data_misaligned_ex /\ cnt_q # 0 /\ ~InWb.we
    BY <1>1 DEF Finishes, IInv, WritesWb
  <2>2. ~wbAccess.we /\ ~data_we_q
    BY <2>1 DEF InWb, IInv, Interpreted
  <2>3. loaded' = [of |-> wbAccess, value |-> RdataExt(RespRdata)]
    BY <1>1 DEF Cycle, HistoryClock
  <2>4. RdataExt(RespRdata) = RegisterAfter(wbAccess)
    BY <2>1, <2>2, Answers
  <2> QED BY <2>2, <2>3, <2>4 DEF LoadedRight
<1>2. CASE ~Finishes(in)
  <2>1. loaded' = loaded
    BY <1>2 DEF Cycle, HistoryClock
  <2> QED BY <2>1 DEF IInv, LoadedRight
<1> QED BY <1>1, <1>2

\* A request that was not granted stays up.
LEMMA HeldKept ==
  ASSUME IInv, NEW in \in Inputs, Allowed(in), Cycle(in)
  PROVE  RequestHeld'
<1> SUFFICES ASSUME asked' # <<>>
             PROVE  (data_req_ex /\ cnt_q < Outstanding /\ Request = asked[1])'
  BY DEF RequestHeld
<1>1. TransValid(in) /\ ~in.gnt /\ asked' = <<Request>>
  BY DEF Cycle, HistoryClock
<1>2. data_req_ex /\ cnt_q # 2 /\ ~Accepted(in)
  BY <1>1 DEF TransValid, Accepted, Outstanding
<1>3. ~ExReady(in)
  BY <1>2, Handshakes
<1>4. data_req_ex' /\ Request' = Request
  BY <1>2, <1>3, StaysInEx DEF exVars
<1>5. cnt_q' < Outstanding
  BY <1>2, Handshakes DEF Outstanding
<1> QED BY <1>1, <1>4, <1>5

\* EX hands a transfer on: it is the only one under way, requested once.
LEMMA Moves ==
  ASSUME IInv, NEW in \in Inputs, Allowed(in), Cycle(in), data_req_ex, ExReady(in)
  PROVE  /\ cnt_q' = 1 /\ granted' = <<Request>>
         /\ Made(in) = Append(MadeEarlier, Request)
         /\ cnt_q = 0 \/ in.rvalid
         /\ regfile_we_lsu' = ~access.we
         /\ data_type_q' = access.type /\ rdata_offset_q' = Off(access)
         /\ data_sign_ext_q' = access.ext /\ data_we_q' = access.we
<1>1. InEx /\ MadeOnce /\ OnBus
  BY DEF IInv
<1>2. \/ cnt_q = 0 /\ Accepted(in) /\ ~in.rvalid
      \/ cnt_q = 1 /\ in.rvalid /\ Accepted(in)
      \/ cnt_q = 2 /\ in.rvalid /\ ~Accepted(in)
  BY Handshakes DEF Inputs
<1>3. cnt_q' = 1
  BY <1>2, Handshakes
<1>4. granted' = <<Request>>
  <2>1. CASE cnt_q = 0
    BY <1>1, <1>2, <2>1 DEF OnBus, Cycle, MemoryClock
  <2>2. CASE cnt_q = 1
    <3>1. granted = <<WbRequest>> /\ in.rvalid /\ Accepted(in)
      BY <1>1, <1>2, <2>2 DEF OnBus
    <3>2. Append(Tail(<<WbRequest>>), Request) = <<Request>>
      OBVIOUS
    <3> QED BY <3>1, <3>2 DEF Cycle, MemoryClock
  <2>3. CASE cnt_q = 2
    <3>1. granted = <<WbRequest, Request>> /\ in.rvalid /\ ~Accepted(in)
      BY <1>1, <1>2, <2>3 DEF OnBus
    <3>2. Tail(<<WbRequest, Request>>) = <<Request>>
      OBVIOUS
    <3> QED BY <3>1, <3>2 DEF Cycle, MemoryClock
  <2> QED BY <1>2, <2>1, <2>2, <2>3
<1>5. Made(in) = Append(MadeEarlier, Request)
  BY <1>1, <1>2 DEF Made, MadeOnce
<1>6. CtrlUpdate(in) /\ ReadyEx(in) /\ ReadyWb(in) /\ in.other
  BY Handshakes DEF CtrlUpdate, ExReady
<1>7. ex.we = access.we /\ ex.type = access.type /\ ex.ext = access.ext
  BY <1>1 DEF InEx
<1>8. regfile_we_lsu' = ~access.we
  BY <1>6, <1>7 DEF Cycle, ExWbClock
<1>9. /\ data_type_q' = access.type /\ rdata_offset_q' = Off(access)
      /\ data_sign_ext_q' = access.ext /\ data_we_q' = access.we
  BY <1>1, <1>6, <1>7, RequestIs DEF Cycle, LsuClock
<1> QED BY <1>2, <1>3, <1>4, <1>5, <1>8, <1>9

\* The first transfer of a split access moves on; EX keeps the access for the
\* second one, which is at its address plus 4.
LEMMA FirstMoves ==
  ASSUME IInv, NEW in \in Inputs, Allowed(in), Cycle(in), Misaligned, ExReady(in)
  PROVE  IInv'
<1>1. TypeOK' /\ LoadedRight' /\ RequestHeld'
  BY TypeKept, LoadedKept, HeldKept
<1>2. InEx /\ data_req_ex /\ ~data_misaligned_ex /\ Split(access) /\ access \in Access
      /\ access # NoAccess /\ Request = First(access) /\ NextA = Address(access)
  BY RequestIs DEF IInv, Misaligned
<1>3. /\ a_ex' = Address(access) /\ b_ex' = 4 % NBytes /\ useincr_ex' = TRUE
      /\ data_misaligned_ex' = TRUE /\ data_req_ex' = data_req_ex /\ ex' = ex
      /\ access' = access /\ requests' = Made(in) /\ wbAccess' = wbAccess
      /\ wbRequests' = wbRequests
  BY <1>2 DEF Cycle, IdExClock, HistoryClock, Leaves
<1>4. /\ cnt_q' = 1 /\ granted' = <<First(access)>> /\ requests' = <<First(access)>>
  <2>1. Append(<<>>, First(access)) = <<First(access)>>
    OBVIOUS
  <2> QED BY <1>2, <1>3, <2>1, Moves DEF MadeEarlier
<1>5. InEx'
  BY <1>2, <1>3 DEF InEx
<1>6. Ahead' /\ MadeOnce' /\ OnBus'
  BY <1>2, <1>3, <1>4 DEF Ahead, MadeOnce, MadeEarlier, OnBus, InWb, WbRequest
<1>7. Interpreted' /\ WritesWb'
  <2>1. InWb' = access
    BY <1>3 DEF InWb
  <2>2. Interpreted'
    BY <2>1, <1>2, Moves DEF Interpreted
  <2>3. regfile_we_lsu' = ~access.we /\ cnt_q' # 0
    BY <1>2, Moves
  <2>4. WritesWb'
    BY <2>1, <2>3 DEF WritesWb
  <2> QED BY <2>2, <2>4
<1>8. FirstKept'
  BY <1>3, <1>4 DEF FirstKept
<1>9. WbMade'
  BY <1>3 DEF IInv, WbMade
<1> QED BY <1>1, <1>5, <1>6, <1>7, <1>8, <1>9 DEF IInv

\* ID gives EX another access, or none.
LEMMA NewInEx ==
  ASSUME NEW in \in Inputs, Cycle(in), ~Misaligned, ExReady(in)
  PROVE  /\ InEx' /\ ~data_misaligned_ex' /\ requests' = <<>>
<1>1. access' = (IF in.id \in Access THEN in.id ELSE NoAccess) /\ requests' = <<>>
  BY DEF Cycle, HistoryClock
<1>2. CASE in.id \in Access
  <2>1. /\ data_req_ex' = TRUE /\ data_misaligned_ex' = FALSE
        /\ ex' = [we |-> in.id.we, type |-> in.id.type, ext |-> in.id.ext]
        /\ a_ex' = in.id.a /\ b_ex' = in.id.b /\ useincr_ex' = in.id.useincr
    BY <1>2 DEF Cycle, IdExClock
  <2>2. in.id # NoAccess
    BY <1>2, AccessFields
  <2> QED BY <1>1, <1>2, <2>1, <2>2 DEF InEx
<1>3. CASE in.id \notin Access
  <2>1. data_req_ex' = FALSE /\ data_misaligned_ex' = FALSE
    BY <1>3 DEF Cycle, IdExClock
  <2> QED BY <1>1, <1>3, <2>1 DEF InEx
<1> QED BY <1>2, <1>3

\* The last transfer of an access moves on, and the access with it.
LEMMA LastMoves ==
  ASSUME IInv, NEW in \in Inputs, Allowed(in), Cycle(in),
         data_req_ex, ~Misaligned, ExReady(in)
  PROVE  IInv'
<1>1. TypeOK' /\ LoadedRight' /\ RequestHeld'
  BY TypeKept, LoadedKept, HeldKept
<1>2. InEx /\ access \in Access /\ (data_misaligned_ex <=> Split(access))
      /\ Request = Last(access)
  BY RequestIs DEF IInv, InEx, Last, TypeOK
<1>3. InEx' /\ ~data_misaligned_ex' /\ requests' = <<>>
  BY NewInEx
<1>4. cnt_q' = 1 /\ granted' = <<Last(access)>>
  BY <1>2, Moves
<1>5. wbAccess' = access /\ wbRequests' = Parts(access)
  <2>1. wbAccess' = access /\ wbRequests' = Made(in)
    BY DEF Cycle, HistoryClock, Leaves
  <2>2. Made(in) = Append(MadeEarlier, Request)
    BY Moves
  <2>3. Append(<<>>, Last(access)) = <<Last(access)>>
    OBVIOUS
  <2> QED BY <1>2, <2>1, <2>2, <2>3, AppendTwo DEF MadeEarlier, Parts, Last
<1>6. Ahead' /\ MadeOnce'
  BY <1>3, <1>4 DEF Ahead, MadeOnce, MadeEarlier
<1>7. OnBus'
  BY <1>2, <1>3, <1>4, <1>5 DEF OnBus, InWb, WbRequest
<1>8. Interpreted' /\ WritesWb'
  <2>1. InWb' = access
    BY <1>3, <1>5 DEF InWb
  <2>2. Interpreted'
    BY <2>1, Moves DEF Interpreted
  <2>3. regfile_we_lsu' = ~access.we /\ cnt_q' # 0
    BY Moves
  <2>4. WritesWb'
    BY <2>1, <2>3 DEF WritesWb
  <2> QED BY <2>2, <2>4
<1>9. FirstKept'
  <2>1. ASSUME Split(access), ~access.we PROVE rdata_q' = WordOf(First(access))
    <3>1. data_misaligned_ex /\ ~data_we_q
      BY <1>2, <2>1 DEF IInv, Interpreted, InWb
    <3>2. CASE cnt_q = 0
      <4>1. ~in.rvalid
        BY <3>2, Handshakes
      <4>2. rdata_q' = rdata_q
        BY <4>1 DEF Cycle, LsuClock, RdataClock
      <4> QED BY <2>1, <3>1, <3>2, <4>2 DEF IInv, FirstKept
    <3>3. CASE cnt_q # 0
      <4>1. in.rvalid
        BY <3>3, Moves
      <4>2. rdata_q' = RespRdata
        BY <3>1, <4>1 DEF Cycle, LsuClock, RdataClock
      <4> QED BY <3>1, <3>3, <4>2, Answers DEF WbRequest
    <3> QED BY <3>2, <3>3
  <2> QED BY <1>3, <1>5, <2>1 DEF FirstKept
<1>10. WbMade'
  BY <1>2, <1>5 DEF WbMade
<1> QED BY <1>1, <1>3, <1>6, <1>7, <1>8, <1>9, <1>10 DEF IInv

\* EX waits: its request is granted, or the transfer in WB answered, or neither.
LEMMA Waits ==
  ASSUME IInv, NEW in \in Inputs, Allowed(in), Cycle(in), data_req_ex, ~ExReady(in)
  PROVE  IInv'
<1>1. TypeOK' /\ LoadedRight' /\ RequestHeld'
  BY TypeKept, LoadedKept, HeldKept
<1>2. UNCHANGED exVars /\ Request' = Request /\ access' = access
  BY StaysInEx
<1>3. /\ UNCHANGED <<data_req_ex, data_misaligned_ex, ex, a_ex, b_ex, useincr_ex>>
      /\ MadeEarlier' = MadeEarlier
  BY <1>2 DEF exVars, MadeEarlier
<1>4. /\ requests' = Made(in) /\ wbAccess' = wbAccess /\ wbRequests' = wbRequests
  BY DEF Cycle, HistoryClock, Leaves
<1>5. InWb' = InWb /\ WbRequest' = WbRequest
  BY <1>2, <1>3, <1>4 DEF InWb, WbRequest
<1>6. UNCHANGED <<data_type_q, rdata_offset_q, data_sign_ext_q, data_we_q>>
  BY Handshakes DEF Cycle, LsuClock
<1>7. MadeOnce /\ OnBus
  BY DEF IInv
<1>8. \/ cnt_q = 0 /\ ~Accepted(in) /\ ~in.rvalid /\ cnt_q' = 0
      \/ cnt_q = 1 /\ ~Accepted(in) /\ in.rvalid /\ cnt_q' = 0
      \/ cnt_q = 1 /\ Accepted(in) /\ ~in.rvalid /\ cnt_q' = 2
      \/ cnt_q = 1 /\ ~Accepted(in) /\ ~in.rvalid /\ cnt_q' = 1
      \/ cnt_q = 2 /\ ~Accepted(in) /\ ~in.rvalid /\ cnt_q' = 2
  BY Handshakes DEF Inputs
<1>9. InEx' /\ Ahead' /\ WbMade'
  BY <1>2, <1>3, <1>4 DEF IInv, InEx, Ahead, WbMade
<1>10. MadeOnce'
  BY <1>2, <1>3, <1>4, <1>7, <1>8 DEF MadeOnce, Made
<1>11. OnBus'
  <2>1. cnt_q' # 0 => cnt_q # 0
    BY <1>8
  <2>2. granted' = IF cnt_q' = 0 THEN <<>>
                   ELSE IF cnt_q' = 1 THEN <<WbRequest>> ELSE <<WbRequest, Request>>
    <3>1. Tail(<<WbRequest>>) = <<>>
      OBVIOUS
    <3>3. CASE cnt_q = 1 /\ in.rvalid
      BY <1>7, <1>8, <3>1, <3>3 DEF OnBus, Cycle, MemoryClock
    <3>4. CASE cnt_q = 1 /\ Accepted(in)
      BY <1>7, <1>8, AppendTwo, <3>4 DEF OnBus, Cycle, MemoryClock
    <3>5. CASE ~in.rvalid /\ ~Accepted(in)
      BY <1>7, <1>8, <3>5 DEF OnBus, Cycle, MemoryClock
    <3> QED BY <1>8, <3>3, <3>4, <3>5
  <2> QED BY <1>2, <1>5, <1>7, <2>1, <2>2 DEF OnBus
<1>12. Interpreted'
  <2>1. cnt_q' # 0 \/ data_misaligned_ex' => cnt_q # 0 \/ data_misaligned_ex
    BY <1>3, <1>8
  <2> QED BY <1>5, <1>6, <2>1 DEF IInv, Interpreted
<1>13. WritesWb'
  <2>1. ASSUME regfile_we_lsu' PROVE regfile_we_lsu /\ cnt_q' # 0
    <3>1. ~ReadyWb(in) /\ regfile_we_lsu' = regfile_we_lsu
      <4>1. ~ReadyEx(in) \/ ~ReadyWb(in)
        BY Handshakes DEF CtrlUpdate
      <4> QED BY <2>1, <4>1, <1>7 DEF Cycle, ExWbClock
    <3>2. cnt_q # 0 /\ ~in.rvalid
      BY <3>1 DEF ReadyWb
    <3> QED BY <1>8, <2>1, <3>1, <3>2
  <2> QED BY <1>5, <2>1 DEF IInv, WritesWb
<1>14. FirstKept'
  <2>1. ASSUME data_misaligned_ex, cnt_q' = 0, ~access.we
        PROVE  rdata_q' = WordOf(First(access))
    <3>1. ~data_we_q
      BY <2>1 DEF IInv, Interpreted, InWb
    <3>2. CASE cnt_q = 0
      <4>1. rdata_q' = rdata_q
        BY <1>8, <3>2 DEF Cycle, LsuClock, RdataClock
      <4> QED BY <2>1, <3>2, <4>1 DEF IInv, FirstKept
    <3>3. CASE cnt_q # 0
      <4>1. in.rvalid
        BY <1>8, <2>1, <3>3
      <4>2. rdata_q' = RespRdata
        BY <2>1, <3>1, <4>1 DEF Cycle, LsuClock, RdataClock
      <4> QED BY <2>1, <3>3, <4>2, Answers DEF WbRequest
    <3> QED BY <3>2, <3>3
  <2>2. ASSUME cnt_q' # 0 PROVE cnt_q # 0 /\ rdata_q' = rdata_q
    <3>1. cnt_q # 0 /\ ~in.rvalid
      BY <1>8, <2>2
    <3> QED BY <3>1 DEF Cycle, LsuClock, RdataClock
  <2> QED BY <1>2, <1>3, <1>4, <2>1, <2>2 DEF IInv, FirstKept
<1> QED BY <1>1, <1>9, <1>10, <1>11, <1>12, <1>13, <1>14 DEF IInv

\* Nothing of the LSU's is in EX: what is in WB is answered, or waits.
LEMMA NothingInEx ==
  ASSUME IInv, NEW in \in Inputs, Allowed(in), Cycle(in), ~data_req_ex
  PROVE  IInv'
<1>1. TypeOK' /\ LoadedRight' /\ RequestHeld'
  BY TypeKept, LoadedKept, HeldKept
<1>2. InEx /\ MadeOnce /\ OnBus /\ ~data_misaligned_ex /\ ~Misaligned
  BY DEF IInv, InEx, Misaligned
<1>3. /\ ~Accepted(in)
      /\ \/ cnt_q = 0 /\ ~in.rvalid /\ cnt_q' = 0
         \/ cnt_q = 1 /\ in.rvalid /\ cnt_q' = 0
         \/ cnt_q = 1 /\ ~in.rvalid /\ cnt_q' = 1
  BY Handshakes DEF Inputs
<1>4. wbAccess' = wbAccess /\ wbRequests' = wbRequests
  BY DEF Cycle, HistoryClock, Leaves
<1>5. UNCHANGED <<data_type_q, rdata_offset_q, data_sign_ext_q, data_we_q>>
  BY DEF Cycle, LsuClock, CtrlUpdate
<1>6. InEx' /\ ~data_misaligned_ex' /\ requests' = <<>>
  <2>1. CASE ExReady(in)
    BY <1>2, <2>1, NewInEx
  <2>2. CASE ~ExReady(in)
    <3>1. UNCHANGED exVars /\ access' = access
      BY <2>2, StaysInEx
    <3>2. UNCHANGED <<data_req_ex, data_misaligned_ex, ex, a_ex, b_ex, useincr_ex>>
      BY <3>1 DEF exVars
    <3>3. requests' = requests
      BY <1>3, <2>2 DEF Cycle, HistoryClock, Made
    <3>4. requests = <<>>
      BY <1>2, <1>3 DEF MadeOnce, MadeEarlier
    <3> QED BY <1>2, <3>1, <3>2, <3>3, <3>4 DEF InEx
  <2> QED BY <2>1, <2>2
<1>7. Ahead' /\ MadeOnce'
  BY <1>3, <1>6 DEF Ahead, MadeOnce, MadeEarlier
<1>8. InWb' = InWb /\ WbRequest' = WbRequest
  BY <1>2, <1>4, <1>6 DEF InWb, WbRequest
<1>9. OnBus'
  <2>1. granted' = IF cnt_q' = 0 THEN <<>> ELSE <<WbRequest>>
    <3>1. Tail(<<WbRequest>>) = <<>>
      OBVIOUS
    <3> QED BY <1>2, <1>3, <3>1 DEF OnBus, Cycle, MemoryClock
  <2> QED BY <1>2, <1>3, <1>8, <2>1 DEF OnBus
<1>10. Interpreted'
  BY <1>2, <1>3, <1>5, <1>6, <1>8 DEF IInv, Interpreted
<1>11. WritesWb'
  <2>1. ASSUME regfile_we_lsu' PROVE regfile_we_lsu /\ cnt_q' # 0
    <3>1. ~ReadyWb(in) /\ regfile_we_lsu' = regfile_we_lsu
      BY <2>1 DEF Cycle, ExWbClock
    <3>2. cnt_q # 0 /\ ~in.rvalid
      BY <3>1 DEF ReadyWb
    <3> QED BY <1>3, <2>1, <3>1, <3>2
  <2> QED BY <1>8, <2>1 DEF IInv, WritesWb
<1>12. FirstKept'
  <2>1. ASSUME cnt_q' # 0 PROVE cnt_q # 0 /\ rdata_q' = rdata_q
    <3>1. cnt_q # 0 /\ ~in.rvalid
      BY <1>3, <2>1
    <3> QED BY <3>1 DEF Cycle, LsuClock, RdataClock
  <2> QED BY <1>2, <1>4, <1>6, <2>1 DEF IInv, FirstKept
<1>13. WbMade'
  BY <1>4 DEF IInv, WbMade
<1> QED BY <1>1, <1>6, <1>7, <1>9, <1>10, <1>11, <1>12, <1>13 DEF IInv

-----------------------------------------------------------------------------
\* Reset leaves the LSU with nothing on the bus, in EX or in WB.
LEMMA InitHolds == Init => IInv
<1> SUFFICES ASSUME Init PROVE IInv
  OBVIOUS
<1>1. 0 \in Byte /\ Zero \in RegByte /\ 0 \in Lane /\ NBytes \in Nat
  BY NBytesAssumption DEF Byte, Zero, RegByte, Lane
<1>2. TypeOK
  BY <1>1 DEF Init, TypeOK, Outstanding
<1>3. InEx /\ Ahead /\ MadeOnce
  BY DEF Init, InEx, Ahead, MadeOnce, MadeEarlier
<1>4. OnBus /\ Interpreted /\ WritesWb /\ FirstKept
  BY DEF Init, OnBus, Interpreted, WritesWb, FirstKept
<1>5. WbMade /\ LoadedRight /\ RequestHeld
  BY DEF Init, WbMade, LoadedRight, RequestHeld
<1> QED BY <1>2, <1>3, <1>4, <1>5 DEF IInv

\* Each clock edge keeps the invariant: nothing in EX, EX waiting, or a transfer
\* moving on, the first of two or the last.
LEMMA StepHolds == IInv /\ [Next]_vars => IInv'
<1> SUFFICES ASSUME IInv, [Next]_vars PROVE IInv'
  OBVIOUS
<1>1. CASE UNCHANGED vars
  BY <1>1 DEF vars, exVars, lsuVars, IInv, TypeOK, InEx, Ahead, MadeOnce, MadeEarlier, OnBus,
     InWb, WbRequest, Interpreted, WritesWb, FirstKept, WbMade, LoadedRight, RequestHeld,
     Request, DataBe, DataWdata, Offset, DataAddrInt
<1>2. CASE Next
  <2>1. PICK in \in Inputs : Allowed(in) /\ Cycle(in)
    BY <1>2 DEF Next
  <2>2. CASE ~data_req_ex
    BY <2>1, <2>2, NothingInEx
  <2>3. CASE data_req_ex /\ ~ExReady(in)
    BY <2>1, <2>3, Waits
  <2>4. CASE data_req_ex /\ ExReady(in) /\ Misaligned
    BY <2>1, <2>4, FirstMoves
  <2>5. CASE data_req_ex /\ ExReady(in) /\ ~Misaligned
    BY <2>1, <2>5, LastMoves
  <2> QED BY <2>2, <2>3, <2>4, <2>5
<1> QED BY <1>1, <1>2

\* cnt_q, rdata_q and the control registers of the LSU agree at every clock edge
\* with the transfers that are on the bus and the access they belong to.
THEOREM TransferInvariant == Spec => []IInv
<1> QED BY InitHolds, StepHolds, PTL DEF Spec

\* Every access reaches WB having made its bus requests once each, byte for byte.
THEOREM EveryAccessOnce == Spec => []AccessDoneOnce
<1>1. IInv => AccessDoneOnce
  <2> SUFFICES ASSUME WbMade, wbAccess # NoAccess PROVE AccessDoneOnce
    BY DEF IInv, AccessDoneOnce
  <2>1. wbAccess \in Access /\ wbRequests = Parts(wbAccess)
    BY DEF WbMade
  <2> QED BY <2>1, PartsDoIt DEF AccessDoneOnce
<1> QED BY <1>1, TransferInvariant, PTL

\* A load leaves in its register the bytes at its address, extended.
THEOREM LoadsCorrect == Spec => []LoadedRight
<1>1. IInv => LoadedRight
  BY DEF IInv
<1> QED BY <1>1, TransferInvariant, PTL

\* A request, once raised, is neither withdrawn nor changed until it is granted.
THEOREM RequestsStable == Spec => []RequestHeld
<1>1. IInv => RequestHeld
  BY DEF IInv
<1> QED BY <1>1, TransferInvariant, PTL
=============================================================================
