-------------------------- MODULE HelloWorldProofs --------------------------
(***************************************************************************)
(* _sbrk for every heap and every sequence of increments, and what         *)
(* hello_world.c prints for every text, heap, memory and stall.            *)
(***************************************************************************)
EXTENDS HelloWorld, TLAPS, SequenceTheorems

\* brk and the blocks are addresses.
SysTypeOK ==
  /\ brk \in Nat
  /\ blocks \subseteq [from : Nat, to : Nat]

\* The break has passed every block, or the heap is used up and the break stays
\* at its end.
Passed == \A b \in blocks : b.to <= brk \/ brk = HeapEnd

SysInv == SysTypeOK /\ Passed /\ HeapBlocksDisjoint

-----------------------------------------------------------------------------
\* The block that a call of _sbrk hands out, and where the break goes.
LEMMA NewBlock ==
  ASSUME SysTypeOK, NEW incr \in Nat, Sbrk(incr)
  PROVE  \E new \in [from : Nat, to : Nat] :
           /\ new.from = brk /\ new.to = brk + incr
           /\ blocks' = blocks \cup {new}
           /\ brk' \in Nat
           /\ new.to <= brk' \/ brk' = HeapEnd
           /\ brk <= brk' \/ brk' = HeapEnd
           /\ brk = HeapEnd => brk' = HeapEnd
<1>1. brk \in Nat /\ HeapEnd \in Nat
  BY HeapAssumption DEF SysTypeOK
<1>2. blocks' = blocks \cup {[from |-> brk, to |-> brk + incr]}
  BY DEF Sbrk
<1>3. \/ brk + incr < HeapEnd /\ brk' = brk + incr + incr
      \/ ~(brk + incr < HeapEnd) /\ brk' = HeapEnd
  BY DEF Sbrk, SbrkTo
<1>4. /\ brk' \in Nat
      /\ brk + incr <= brk' \/ brk' = HeapEnd
      /\ brk <= brk' \/ brk' = HeapEnd
      /\ brk = HeapEnd => brk' = HeapEnd
  BY <1>1, <1>3
<1> DEFINE block == [from |-> brk, to |-> brk + incr]
<1>5. block \in [from : Nat, to : Nat]
  BY <1>1
<1>6. block.from = brk /\ block.to = brk + incr
  OBVIOUS
<1>7. blocks' = blocks \cup {block}
  BY <1>2
<1> HIDE DEF block
<1>8. block.to <= brk' \/ brk' = HeapEnd
  BY <1>4, <1>6
<1>9. WITNESS block \in [from : Nat, to : Nat]
<1> QED BY <1>4, <1>6, <1>7, <1>8

\* The new block begins behind every block that shares the heap with it.
LEMMA NewIsBehind ==
  ASSUME SysTypeOK, Passed, NEW b \in blocks,
         NEW new \in [from : Nat, to : Nat], new.from = brk,
         InHeap(b) \/ InHeap(new)
  PROVE  b.to <= new.from
<1>1. b.to \in Nat /\ b.from \in Nat /\ new.to \in Nat /\ brk \in Nat /\ HeapEnd \in Nat
  BY HeapAssumption DEF SysTypeOK
<1>2. b.to <= brk \/ brk = HeapEnd
  BY DEF Passed
<1>3. CASE InHeap(b)
  BY <1>1, <1>2, <1>3 DEF InHeap
<1>4. CASE InHeap(new)
  BY <1>1, <1>2, <1>4 DEF InHeap
<1> QED BY <1>3, <1>4

\* A call of _sbrk keeps the invariant of the heap (syscalls.c).
LEMMA SbrkKeeps ==
  ASSUME SysInv, NEW incr \in Nat, Sbrk(incr)
  PROVE  SysInv'
<1>1. SysTypeOK /\ Passed /\ HeapBlocksDisjoint
  BY DEF SysInv
<1>2. PICK new \in [from : Nat, to : Nat] :
        /\ new.from = brk /\ new.to = brk + incr
        /\ blocks' = blocks \cup {new}
        /\ brk' \in Nat
        /\ new.to <= brk' \/ brk' = HeapEnd
        /\ brk <= brk' \/ brk' = HeapEnd
        /\ brk = HeapEnd => brk' = HeapEnd
  BY <1>1, NewBlock
<1>3. SysTypeOK'
  BY <1>1, <1>2 DEF SysTypeOK
<1>4. Passed'
  <2> SUFFICES ASSUME NEW b \in blocks' PROVE b.to <= brk' \/ brk' = HeapEnd
    BY DEF Passed
  <2>1. CASE b \in blocks
    <3>1. b.to \in Nat /\ brk \in Nat /\ (b.to <= brk \/ brk = HeapEnd)
      BY <1>1, <2>1 DEF SysTypeOK, Passed
    <3> QED BY <3>1, <1>2, <1>1 DEF SysTypeOK
  <2>2. CASE b = new
    BY <1>2, <2>2
  <2> QED BY <1>2, <2>1, <2>2
<1>5. \A b \in blocks : InHeap(b) \/ InHeap(new) => b.to <= new.from
  BY <1>1, <1>2, NewIsBehind
<1>6. HeapBlocksDisjoint'
  <2> SUFFICES ASSUME NEW a \in blocks', NEW b \in blocks', InHeap(a), a # b
               PROVE  a.to <= b.from \/ b.to <= a.from
    BY DEF HeapBlocksDisjoint, InHeap
  <2>1. CASE a \in blocks /\ b \in blocks
    BY <1>1, <2>1 DEF HeapBlocksDisjoint
  <2>2. CASE a \in blocks /\ b = new
    BY <1>5, <2>2
  <2>3. CASE a = new /\ b \in blocks
    BY <1>5, <2>3
  <2> QED BY <1>2, <2>1, <2>2, <2>3
<1> QED BY <1>3, <1>4, <1>6 DEF SysInv

\* So does what leaves the break and the blocks alone.
LEMMA OthersKeep ==
  ASSUME SysInv, UNCHANGED <<brk, blocks>>
  PROVE  SysInv'
BY DEF SysInv, SysTypeOK, Passed, HeapBlocksDisjoint, InHeap

-----------------------------------------------------------------------------
\* A block of _sbrk that lies in the heap overlaps no other block, whatever the
\* program asks for and however large the heap is.
THEOREM SbrkDisjoint == SysSpec => []HeapBlocksDisjoint
<1>1. SysInit => SysInv
  BY HeapAssumption DEF SysInit, SysInv, SysTypeOK, Passed, HeapBlocksDisjoint
<1>2. SysInv /\ [SysNext]_sysVars => SysInv'
  <2> SUFFICES ASSUME SysInv, [SysNext]_sysVars PROVE SysInv'
    OBVIOUS
  <2>1. CASE Call
    BY <2>1, OthersKeep DEF Call
  <2>2. CASE \E incr \in Nat : Sbrk(incr)
    BY <2>2, SbrkKeeps
  <2>3. CASE UNCHANGED sysVars
    BY <2>3, OthersKeep DEF sysVars
  <2> QED BY <2>1, <2>2, <2>3 DEF SysNext
<1>3. SysInv => HeapBlocksDisjoint
  BY DEF SysInv
<1> QED BY <1>1, <1>2, <1>3, PTL DEF SysSpec

-----------------------------------------------------------------------------
\* The buffer is one of the blocks once there is a buffer.
BufInv ==
  /\ pc \in {"activate", "newlib", "fill", "load", "store", "exit", "wfi"}
  /\ IF pc \in {"activate", "newlib"} THEN buf = [from |-> 0, to |-> 0]
     ELSE buf \in blocks /\ buf.to = buf.from + Len(Text)

\* The buffer does not yet exist or lies in the heap.
Good == pc \in {"activate", "newlib"} \/ InHeap(buf)

Entries == [we : BOOLEAN, delay : Nat, data : Int]

Requests ==
  [we : BOOLEAN, to : {"ram"}, addr : RamAddrs, data : Int]
  \cup [we : {TRUE}, to : {"stall"}, addr : 0 .. 9, data : Nat]
  \cup [we : {TRUE}, to : {"stdout", "exit"}, addr : {0}, data : Int]

\* The types.
TypeOK ==
  /\ rnd_stall_regs \in [0 .. 9 -> Nat]
  /\ mem \in [RamAddrs -> Int] /\ rdata \in Int
  /\ req # << >> => req \in Requests
  /\ fifo \in Seq(Entries) /\ rvalid_i_q \in BOOLEAN
  /\ stdout \in Seq(Int) /\ exited \in BOOLEAN
  /\ settings \in {"off", "mem_stall", "custom_fp"}
  /\ char \in Int

\* The ranges of the loop counters.
CounterInv ==
  /\ pc = "activate" => k \in 1 .. 10
  /\ pc \in {"newlib", "exit", "wfi"} => k = 1
  /\ pc \in {"fill", "load", "store"} => k \in 1 .. Len(Text)

\* The byte of the buffer that holds a character.
At(n) == buf.from + n - 1

\* What the RAM holds after the edge.
Stored(a) == IF req # << >> /\ req.to = "ram" /\ req.we /\ req.addr = a THEN req.data ELSE mem[a]

\* The characters are in the buffer, and stay there.
FilledInv ==
  \A n \in 1 .. Len(Text) :
    pc \in {"load", "store", "exit", "wfi"} \/ (pc = "fill" /\ n < k) => Stored(At(n)) = Text[n]

\* Answers that are on their way are those of writes.
NoRead == \A n \in 1 .. Len(fifo) : fifo[n].we

\* Behind the answers of writes comes the one of a read, and with it this.
ReadUnderWay(data) ==
  /\ fifo # << >> /\ ~fifo[Len(fifo)].we
  /\ \A n \in 1 .. Len(fifo) - 1 : fifo[n].we
  /\ data = IF rvalid_i_q THEN rdata ELSE fifo[Len(fifo)].data

\* _write waits for the character it loads.
Reading == pc = "store" /\ char = -1

\* _write has at most one load under way, and it is that of the next character.
ReadInv ==
  /\ ~Reading => NoRead /\ ~rvalid_i_q /\ (req # << >> => req.we)
  /\ Reading =>
       IF req # << >>
       THEN NoRead /\ ~rvalid_i_q /\ req = Request(FALSE, "ram", At(k), 0)
       ELSE ReadUnderWay(Text[k])
  /\ pc = "store" /\ char # -1 => char = Text[k]

\* How many characters _write has stored.
Written == CASE pc \in {"load", "store"} -> k - 1
             [] pc \in {"exit", "wfi"} -> Len(Text)
             [] OTHER -> 0

\* They have been printed, but for one whose store is at the decoder.
PrintInv ==
  /\ IF req # << >> /\ req.to = "stdout"
     THEN Len(stdout) = Written - 1 /\ req.data = Text[Written]
     ELSE Len(stdout) = Written
  /\ \A n \in 1 .. Len(stdout) : stdout[n] = Text[n]

\* Only _exit stores to the exit register, and main does not go on.
ExitInv == exited \/ (req # << >> /\ req.to = "exit") => pc = "wfi"

\* The inductive invariant.
IInv ==
  /\ SysInv /\ BufInv
  /\ Good => /\ TypeOK /\ CounterInv /\ FilledInv /\ ReadInv /\ PrintInv /\ ExitInv
             /\ pc = "wfi" => Len(stdout) = Len(Text)

-----------------------------------------------------------------------------
\* A cycle of the bus.

\* A request is not the idle bus.
LEMMA IsRequest ==
  ASSUME NEW we, NEW to, NEW addr, NEW data
  PROVE  Request(we, to, addr, data) # << >>
<1>1. DOMAIN Request(we, to, addr, data) = {"we", "to", "addr", "data"}
  BY DEF Request
<1>2. DOMAIN << >> = {}
  OBVIOUS
<1> QED BY <1>1, <1>2

\* Decoder and RAM, once for all the cycles of a request.
LEMMA AccessDone ==
  ASSUME TypeOK, Access
  PROVE  /\ rnd_stall_regs' \in [0 .. 9 -> Nat]
         /\ mem' \in [RamAddrs -> Int] /\ rdata' \in Int
         /\ stdout' \in Seq(Int) /\ exited' \in BOOLEAN
         /\ \A a \in RamAddrs : mem'[a] = Stored(a)
         /\ exited' => exited \/ (req # << >> /\ req.to = "exit")
         /\ IF req # << >> /\ req.to = "stdout" THEN stdout' = Append(stdout, req.data)
                                               ELSE UNCHANGED stdout
         /\ req # << >> /\ req.to = "ram" => rdata' = mem[req.addr]
<1>1. CASE req = << >>
  BY <1>1 DEF Access, TypeOK, Stored
<1>2. CASE req # << >>
  <2>1. /\ req \in Requests /\ mem \in [RamAddrs -> Int] /\ rdata \in Int
        /\ rnd_stall_regs \in [0 .. 9 -> Nat] /\ stdout \in Seq(Int) /\ exited \in BOOLEAN
    BY <1>2 DEF TypeOK
  <2>2. /\ mem' = IF req.to = "ram" /\ req.we THEN [mem EXCEPT ![req.addr] = req.data] ELSE mem
        /\ rdata' = IF req.to = "ram" THEN mem[req.addr] ELSE 0
        /\ rnd_stall_regs' = IF req.to = "stall"
                             THEN [rnd_stall_regs EXCEPT ![req.addr] = req.data]
                             ELSE rnd_stall_regs
        /\ stdout' = IF req.to = "stdout" THEN Append(stdout, req.data) ELSE stdout
        /\ exited' = (exited \/ req.to = "exit")
    BY <1>2 DEF Access, IsRam
  <2>3. /\ req.to = "ram" => req.addr \in RamAddrs /\ req.data \in Int
        /\ req.to = "stall" => req.addr \in 0 .. 9 /\ req.data \in Nat
        /\ req.to = "stdout" => req.data \in Int
    BY <2>1 DEF Requests
  <2>4. mem' \in [RamAddrs -> Int] /\ rdata' \in Int
    <3>1. CASE req.to = "ram"
      BY <2>1, <2>2, <2>3, <3>1
    <3>2. CASE req.to # "ram"
      BY <2>1, <2>2, <3>2
    <3> QED BY <3>1, <3>2
  <2>5. rnd_stall_regs' \in [0 .. 9 -> Nat]
    BY <2>1, <2>2, <2>3
  <2>6. stdout' \in Seq(Int) /\ exited' \in BOOLEAN
    BY <2>1, <2>2, <2>3
  <2>7. \A a \in RamAddrs : mem'[a] = Stored(a)
    BY <1>2, <2>1, <2>2, <2>3 DEF Stored
  <2> QED BY <1>2, <2>2, <2>4, <2>5, <2>6, <2>7
<1> QED BY <1>1, <1>2

\* The delays of the stall generators are natural numbers.
LEMMA DelaysType ==
  ASSUME NEW regs \in [0 .. 9 -> Nat]
  PROVE  Delays(regs) \subseteq Nat
BY DelayAssumption DEF Delays, STANDARD, RANDOM

\* An entry that waits in the FIFO of the rvalid stall stays an entry; only the
\* youngest takes the data that the RAM has just read.
LEMMA WaitingEntry ==
  ASSUME TypeOK, NEW n \in 1 .. Len(fifo)
  PROVE  /\ Waiting(n, fifo[n]) \in Entries
         /\ Waiting(n, fifo[n]).we = fifo[n].we
         /\ Waiting(n, fifo[n]).data = IF n = Len(fifo) /\ rvalid_i_q THEN rdata ELSE fifo[n].data
<1>1. fifo[n] \in Entries /\ rdata \in Int
  <2>1. fifo \in Seq(Entries) /\ rdata \in Int
    BY DEF TypeOK
  <2> QED BY <2>1, ElementOfSeq
<1>2. PICK e \in Entries : e = fifo[n]
  BY <1>1
<1>3. \A d \in Nat : (IF n = 1 /\ d > 0 THEN d - 1 ELSE d) \in Nat
  OBVIOUS
<1>4. PICK d \in Nat, v \in Int :
        /\ v = IF n = Len(fifo) /\ rvalid_i_q THEN rdata ELSE e.data
        /\ Waiting(n, e) = [e EXCEPT !.delay = d, !.data = v]
  BY <1>1, <1>3 DEF Waiting, Entries
<1> QED BY <1>2, <1>4 DEF Entries

\* The queue without the access that is answered, and with the one granted.
LEMMA Kept ==
  ASSUME TypeOK, RvalidStall
  PROVE  \E kept \in Seq(Entries), gone \in 0 .. 1 :
           /\ gone = IF RvalidO THEN 1 ELSE 0
           /\ Len(kept) = Len(fifo) - gone
           /\ \A n \in 1 .. Len(kept) : kept[n] = Waiting(n + gone, fifo[n + gone])
           /\ IF Granted
              THEN /\ \E e \in Entries : e.we = req.we /\ fifo' = Append(kept, e)
                   /\ rvalid_i_q' = ~req.we
              ELSE fifo' = kept /\ rvalid_i_q' = FALSE
<1> DEFINE held == [n \in 1 .. Len(fifo) |-> Waiting(n, fifo[n])]
           kept == IF RvalidO THEN Tail(held) ELSE held
           gone == IF RvalidO THEN 1 ELSE 0
<1>1. fifo \in Seq(Entries) /\ Len(fifo) \in Nat
  BY DEF TypeOK
<1>2. held \in Seq(Entries) /\ Len(held) = Len(fifo)
  <2>1. \A n \in 1 .. Len(fifo) : Waiting(n, fifo[n]) \in Entries
    BY WaitingEntry
  <2> QED BY <1>1, <2>1
<1>3. \A n \in 1 .. Len(fifo) : held[n] = Waiting(n, fifo[n])
  OBVIOUS
<1>4. RvalidO => Len(fifo) > 0
  BY <1>1 DEF RvalidO
<1>5. IF Granted
      THEN /\ \E d \in Delays(rnd_stall_regs) :
                fifo' = Append(kept, [we |-> req.we, delay |-> d, data |-> 0])
           /\ rvalid_i_q' = ~req.we
      ELSE fifo' = kept /\ rvalid_i_q' = FALSE
  BY DEF RvalidStall
<1> HIDE DEF held
<1>6. /\ kept \in Seq(Entries) /\ Len(kept) = Len(fifo) - gone
      /\ \A n \in 1 .. Len(kept) : kept[n] = Waiting(n + gone, fifo[n + gone])
  <2>1. CASE RvalidO
    <3>1. Tail(held) \in Seq(Entries) /\ Len(Tail(held)) = Len(held) - 1
          /\ \A n \in 1 .. Len(Tail(held)) : Tail(held)[n] = held[n + 1]
      BY <1>1, <1>2, <1>4, <2>1, HeadTailProperties
    <3> QED BY <1>1, <1>2, <1>3, <2>1, <3>1
  <2>2. CASE ~RvalidO
    BY <1>1, <1>2, <1>3, <2>2
  <2> QED BY <2>1, <2>2
<1>7. Granted => \E e \in Entries : e.we = req.we /\ fifo' = Append(kept, e)
  <2> SUFFICES ASSUME Granted PROVE \E e \in Entries : e.we = req.we /\ fifo' = Append(kept, e)
    OBVIOUS
  <2>1. PICK d \in Delays(rnd_stall_regs) :
          fifo' = Append(kept, [we |-> req.we, delay |-> d, data |-> 0])
    BY <1>5
  <2>2. d \in Nat /\ req.we \in BOOLEAN
    BY DelaysType DEF TypeOK, Granted, Requests
  <2>3. [we |-> req.we, delay |-> d, data |-> 0] \in Entries
    BY <2>2 DEF Entries
  <2> QED BY <2>1, <2>3
<1>8. gone \in 0 .. 1
  OBVIOUS
<1> HIDE DEF kept
<1> QED BY <1>5, <1>6, <1>7, <1>8

\* What a cycle makes of the FIFO of the rvalid stall: a read that is granted
\* comes behind writes only, and its answer leaves with the data of the RAM.
LEMMA FifoDone ==
  ASSUME TypeOK, RvalidStall
  PROVE  /\ fifo' \in Seq(Entries) /\ rvalid_i_q' \in BOOLEAN
         /\ NoRead /\ (Granted => req.we) => NoRead' /\ ~rvalid_i_q'
         /\ NoRead /\ Granted /\ ~req.we =>
              /\ fifo' # << >> /\ ~fifo'[Len(fifo')].we
              /\ \A n \in 1 .. Len(fifo') - 1 : fifo'[n].we
              /\ rvalid_i_q'
         /\ \A data :
              ReadUnderWay(data) /\ ~Granted =>
                IF RvalidO /\ ~Head(fifo).we
                THEN NoRead' /\ ~rvalid_i_q' /\ RdataO = data
                ELSE /\ fifo' # << >> /\ ~fifo'[Len(fifo')].we
                     /\ \A n \in 1 .. Len(fifo') - 1 : fifo'[n].we
                     /\ ~rvalid_i_q' /\ fifo'[Len(fifo')].data = data
<1>1. fifo \in Seq(Entries) /\ Len(fifo) \in Nat /\ rvalid_i_q \in BOOLEAN
  BY DEF TypeOK
<1>2. \A n \in 1 .. Len(fifo) : fifo[n] \in Entries
  BY <1>1, ElementOfSeq
<1>3. PICK kept \in Seq(Entries), gone \in 0 .. 1 :
        /\ gone = IF RvalidO THEN 1 ELSE 0
        /\ Len(kept) = Len(fifo) - gone
        /\ \A n \in 1 .. Len(kept) : kept[n] = Waiting(n + gone, fifo[n + gone])
        /\ IF Granted
           THEN /\ \E e \in Entries : e.we = req.we /\ fifo' = Append(kept, e)
                /\ rvalid_i_q' = ~req.we
           ELSE fifo' = kept /\ rvalid_i_q' = FALSE
  BY Kept
<1>9. Len(kept) \in Nat /\ gone \in {0, 1}
  BY LenProperties
<1>4. \A n \in 1 .. Len(kept) : kept[n].we = fifo[n + gone].we
  BY <1>1, <1>3, WaitingEntry
<1>5. RvalidO => fifo # << >>
  BY DEF RvalidO
<1>6. NoRead => \A n \in 1 .. Len(kept) : kept[n].we
  BY <1>1, <1>3, <1>4 DEF NoRead
<1>7. CASE Granted
  <2>1. PICK e \in Entries : e.we = req.we /\ fifo' = Append(kept, e)
    BY <1>3, <1>7
  <2>2. /\ fifo' \in Seq(Entries) /\ Len(fifo') = Len(kept) + 1
        /\ \A n \in 1 .. Len(kept) : fifo'[n] = kept[n]
        /\ fifo'[Len(kept) + 1] = e
    BY <2>1, AppendProperties
  <2>3. rvalid_i_q' = ~req.we /\ req.we \in BOOLEAN
    BY <1>3, <1>7, <2>1 DEF Entries
  <2>4. NoRead /\ req.we => NoRead' /\ ~rvalid_i_q'
    <3>1. ASSUME NoRead, req.we, NEW n \in 1 .. Len(kept) + 1 PROVE fifo'[n].we
      <4>1. CASE n \in 1 .. Len(kept)
        BY <1>6, <2>2, <3>1, <4>1
      <4>2. CASE n = Len(kept) + 1
        BY <2>1, <2>2, <3>1, <4>2
      <4> QED BY <1>9, <4>1, <4>2
    <3> QED BY <2>2, <2>3, <3>1 DEF NoRead
  <2>5. NoRead /\ ~req.we => /\ fifo' # << >> /\ ~fifo'[Len(fifo')].we
                             /\ \A n \in 1 .. Len(fifo') - 1 : fifo'[n].we
                             /\ rvalid_i_q'
    <3>1. fifo' # << >> /\ Len(fifo') - 1 = Len(kept)
      BY <1>9, <2>2
    <3>2. ~req.we => ~fifo'[Len(fifo')].we /\ rvalid_i_q'
      BY <2>1, <2>2, <2>3
    <3>3. NoRead => \A n \in 1 .. Len(kept) : fifo'[n].we
      BY <1>6, <2>2
    <3> QED BY <3>1, <3>2, <3>3
  <2> QED BY <1>7, <2>2, <2>3, <2>4, <2>5
<1>8. CASE ~Granted
  <2>1. fifo' = kept /\ rvalid_i_q' = FALSE
    BY <1>3, <1>8
  <2>2. NoRead => NoRead'
    BY <1>6, <2>1 DEF NoRead
  <2>3. ASSUME NEW data, ReadUnderWay(data), RvalidO, ~Head(fifo).we
        PROVE  NoRead' /\ RdataO = data
    <3>1. fifo # << >> /\ Head(fifo) = fifo[1]
      BY <1>1, <1>5, <2>3
    <3>2. Len(fifo) = 1
      <4>1. \A n \in 1 .. Len(fifo) - 1 : fifo[n].we
        BY <2>3 DEF ReadUnderWay
      <4>2. ~(Len(fifo) > 1)
        BY <1>1, <2>3, <3>1, <4>1
      <4>3. Len(fifo) # 0
        BY <1>1, <3>1
      <4>4. \A l \in Nat : l # 0 /\ ~(l > 1) => l = 1
        OBVIOUS
      <4> QED BY <1>1, <4>2, <4>3, <4>4, Zenon
    <3>3. Len(kept) = 0
      BY <1>3, <2>3, <3>2
    <3>4. RdataO = data
      BY <2>3, <3>1, <3>2 DEF RdataO, ReadUnderWay
    <3> QED BY <2>1, <3>3, <3>4 DEF NoRead
  <2>4. ASSUME NEW data, ReadUnderWay(data), ~(RvalidO /\ ~Head(fifo).we)
        PROVE  /\ fifo' # << >> /\ ~fifo'[Len(fifo')].we
               /\ \A n \in 1 .. Len(fifo') - 1 : fifo'[n].we
               /\ fifo'[Len(fifo')].data = data
    <3>1. fifo # << >> /\ Head(fifo) = fifo[1] /\ Len(fifo) > 0
      BY <1>1, <2>4 DEF ReadUnderWay
    <3>2. gone = 1 => Len(fifo) > 1
      BY <1>1, <1>3, <2>4, <3>1 DEF ReadUnderWay
    <3>3. Len(kept) > 0 /\ Len(kept) + gone = Len(fifo)
      BY <1>1, <1>3, <3>1, <3>2
    <3>4. kept[Len(kept)] = Waiting(Len(fifo), fifo[Len(fifo)])
      <4>1. Len(kept) \in 1 .. Len(kept)
        BY <1>9, <3>3
      <4> QED BY <1>3, <3>3, <4>1
    <3>5. /\ Waiting(Len(fifo), fifo[Len(fifo)]).we = fifo[Len(fifo)].we
          /\ Waiting(Len(fifo), fifo[Len(fifo)]).data =
               IF rvalid_i_q THEN rdata ELSE fifo[Len(fifo)].data
      BY <1>1, <3>1, WaitingEntry
    <3>6. \A n \in 1 .. Len(kept) - 1 : kept[n].we
      <4>1. \A n \in 1 .. Len(fifo) - 1 : fifo[n].we
        BY <2>4 DEF ReadUnderWay
      <4>2. \A n \in 1 .. Len(kept) - 1 : n + gone \in 1 .. Len(fifo) - 1
        BY <1>1, <1>9, <3>3
      <4>3. \A n \in 1 .. Len(kept) - 1 : n \in 1 .. Len(kept)
        BY <1>9
      <4> QED BY <1>4, <4>1, <4>2, <4>3
    <3>7. fifo' # << >>
      BY <2>1, <3>3
    <3> QED BY <2>1, <2>4, <3>4, <3>5, <3>6, <3>7 DEF ReadUnderWay
  <2> QED BY <1>8, <2>1, <2>2, <2>3, <2>4
<1> QED BY <1>7, <1>8

-----------------------------------------------------------------------------
\* What the program does in a cycle.

Quiet == ~Blocked /\ ~Answered /\ req' = << >> /\ UNCHANGED progVars

ProgStep ==
  /\ ~Blocked
  /\ \/ ActivateRandomStall \/ AllocateBuffer \/ FillBuffer \/ Scribble
     \/ WriteLoad \/ WriteStore \/ Exit

CoreStep == Hold \/ Loaded \/ Quiet \/ ProgStep

\* The steps of the core, sorted by what they do to the program.
LEMMA CoreSteps ==
  ASSUME Hold \/ Loaded \/ Step \/ Idle
  PROVE  CoreStep
BY DEF CoreStep, Step, Program, ProgStep, Quiet, Idle, Allocate, OtherCall, Answered

\* Only the RAM makes a request wait.
LEMMA BlockedByRam ==
  ASSUME Blocked
  PROVE  req # << >> /\ ~Granted /\ req.to = "ram"
BY DEF Blocked, Granted, IsRam

\* Every step keeps the invariant of the heap, and no block is given back.
LEMMA SysKept ==
  ASSUME SysInv, Hold \/ Loaded \/ Step \/ Idle
  PROVE  SysInv' /\ blocks \subseteq blocks'
<1>1. CASE UNCHANGED sysVars
  BY <1>1, OthersKeep DEF sysVars
<1>2. CASE Call
  BY <1>2, OthersKeep DEF Call
<1>3. CASE \E incr \in Nat : Sbrk(incr)
  BY <1>3, SbrkKeeps DEF Sbrk
<1>4. Len(Text) \in Nat
  BY NewlibAssumption
<1>5. Allocate \/ AllocateBuffer => \E incr \in Nat : Sbrk(incr)
  BY <1>4, NewlibAssumption DEF Allocate, AllocateBuffer
<1> QED
  BY <1>1, <1>2, <1>3, <1>5
  DEF Hold, Loaded, Step, Idle, Program, ActivateRandomStall, OtherCall, FillBuffer,
      Scribble, WriteLoad, WriteStore, Exit

\* Every step keeps the buffer a block, and it does not move once it is in use.
LEMMA BufKept ==
  ASSUME SysInv, BufInv, Hold \/ Loaded \/ Step \/ Idle
  PROVE  BufInv' /\ (Good' => Good)
<1>1. blocks \subseteq blocks' /\ CoreStep
  BY SysKept, CoreSteps
<1>2. CASE Hold \/ Quiet
  BY <1>1, <1>2 DEF Hold, Quiet, progVars, BufInv, Good, InHeap
<1>3. CASE Loaded
  BY <1>1, <1>3 DEF Loaded, Answered, BufInv, Good, InHeap
<1>4. CASE ActivateRandomStall
  BY <1>1, <1>4 DEF ActivateRandomStall, BufInv, Good, InHeap
<1>5. CASE AllocateBuffer
  BY <1>1, <1>5 DEF AllocateBuffer, BufInv, Good, Sbrk
<1>6. CASE FillBuffer \/ Scribble \/ WriteLoad \/ WriteStore \/ Exit
  BY <1>1, <1>6 DEF FillBuffer, Scribble, WriteLoad, WriteStore, Exit, BufInv, Good, InHeap
<1> QED BY <1>1, <1>2, <1>3, <1>4, <1>5, <1>6 DEF CoreStep, ProgStep

\* The buffer is in the RAM.
LEMMA BufferIsRam ==
  ASSUME SysInv, BufInv, InHeap(buf), buf \in blocks, buf.to = buf.from + Len(Text)
  PROVE  /\ Len(Text) \in Nat /\ Len(Text) > 0 /\ buf.from \in Nat
         /\ \A n \in 1 .. Len(Text) : At(n) \in RamAddrs
<1>1. buf.from \in Nat /\ buf.to \in Nat /\ Len(Text) \in Nat
  BY NewlibAssumption DEF SysInv, SysTypeOK
<1>2. HeapStart <= buf.from /\ buf.from < buf.to /\ buf.to <= HeapEnd
  BY DEF InHeap
<1>3. HeapStart \in Nat /\ HeapEnd \in Nat
  BY HeapAssumption
<1>4. \A n \in 1 .. Len(Text) : At(n) \in HeapStart .. HeapEnd - 1
  BY <1>1, <1>2, <1>3 DEF At
<1> QED BY <1>1, <1>2, <1>4, RamAssumption

\* No other block has a byte of it.
LEMMA NotScribbled ==
  ASSUME SysInv, BufInv, InHeap(buf), buf \in blocks, buf.to = buf.from + Len(Text),
         NEW b \in blocks \ {buf}, NEW a \in b.from .. b.to - 1, NEW n \in 1 .. Len(Text)
  PROVE  a # At(n)
<1>1. buf.to <= b.from \/ b.to <= buf.from
  BY DEF SysInv, HeapBlocksDisjoint
<1>2. /\ buf.from \in Nat /\ buf.to \in Nat /\ b.from \in Nat /\ b.to \in Nat
      /\ Len(Text) \in Nat
  BY NewlibAssumption DEF SysInv, SysTypeOK
<1> QED BY <1>1, <1>2 DEF At

\* activate_random_stall writes small numbers to stall registers.
LEMMA StoresType ==
  /\ Len(Stores) = 10
  /\ \A n \in 1 .. 10 : Stores[n][1] \in 0 .. 9 /\ Stores[n][2] \in Nat
<1> DEFINE Act(max, fixed) ==
      << <<1, 1>>, <<0, 1>>, <<5, max>>, <<7, fixed>>, <<9, fixed>>, <<4, max>>, <<6, fixed>>,
         <<8, fixed>>, <<3, 2>>, <<2, 2>> >>
<1>1. ASSUME NEW max \in Nat, NEW fixed \in Nat, NEW s, s = Act(max, fixed)
      PROVE  Len(s) = 10 /\ \A n \in 1 .. 10 : s[n][1] \in 0 .. 9 /\ s[n][2] \in Nat
  <2>1. Len(s) = 10
    BY <1>1
  <2>2. ASSUME NEW n \in 1 .. 5 PROVE s[n][1] \in 0 .. 9 /\ s[n][2] \in Nat
    BY <1>1, <2>2
  <2>3. ASSUME NEW n \in 6 .. 10 PROVE s[n][1] \in 0 .. 9 /\ s[n][2] \in Nat
    BY <1>1, <2>3
  <2> QED BY <2>1, <2>2, <2>3
<1>2. \E max \in Nat, fixed \in Nat : Stores = Act(max, fixed)
  <2>1. Stores = Act(10, 0) \/ Stores = Act(5, 5)
    BY DEF Stores, MemStallStores, CustomFpStores, Activate, RANDOM
  <2> QED BY <2>1
<1> QED BY <1>1, <1>2

-----------------------------------------------------------------------------
\* What each part of the invariant becomes.

\* An answer carries an integer.
LEMMA AnswerType ==
  ASSUME TypeOK, RvalidO
  PROVE  RdataO \in Int
<1>1. fifo \in Seq(Entries) /\ rdata \in Int /\ fifo # << >>
  BY DEF TypeOK, RvalidO
<1>2. Head(fifo) \in Entries
  BY <1>1
<1> QED BY <1>1, <1>2 DEF RdataO, Entries

\* The loop counters stay in their ranges.
LEMMA CounterKept ==
  ASSUME SysInv, BufInv, BufInv', SysInv', Good', CounterInv, CoreStep
  PROVE  CounterInv'
<1>1. Len(Text) \in Nat
  BY NewlibAssumption
<1>2. CASE Hold \/ Quiet
  BY <1>2 DEF Hold, Quiet, progVars, CounterInv
<1>3. CASE Loaded \/ Scribble
  BY <1>3 DEF Loaded, Scribble, CounterInv
<1>4. CASE ActivateRandomStall
  <2>1. k \in 1 .. 10 /\ Len(Stores) = 10
    BY <1>4, StoresType DEF ActivateRandomStall, CounterInv
  <2>2. \/ pc' = "newlib" /\ k' = 1
        \/ pc' = "activate" /\ k' = k + 1 /\ k # Len(Stores)
    BY <1>4 DEF ActivateRandomStall
  <2>3. CASE pc' = "activate" /\ k' = k + 1 /\ k # Len(Stores)
    BY <2>1, <2>3 DEF CounterInv
  <2> QED BY <2>2, <2>3 DEF CounterInv
<1>5. CASE AllocateBuffer
  <2>1. pc' = "fill" /\ k' = 1 /\ InHeap(buf')
    BY <1>5 DEF AllocateBuffer, CounterInv, Good, InHeap
  <2>2. buf' \in blocks' /\ buf'.to = buf'.from + Len(Text)
    BY <2>1 DEF BufInv
  <2>3. buf'.from \in Nat
    BY <2>2 DEF SysInv, SysTypeOK
  <2>4. Len(Text) > 0
    BY <1>1, <2>1, <2>2, <2>3 DEF InHeap
  <2> QED BY <1>1, <2>1, <2>4 DEF CounterInv
<1>6. CASE FillBuffer
  BY <1>1, <1>6 DEF FillBuffer, CounterInv
<1>7. CASE WriteLoad \/ Exit
  BY <1>7 DEF WriteLoad, Exit, CounterInv
<1>8. CASE WriteStore
  <2>1. k \in 1 .. Len(Text)
    BY <1>8 DEF WriteStore, CounterInv
  <2>2. \/ pc' = "exit" /\ k' = 1
        \/ pc' = "load" /\ k' = k + 1 /\ k # Len(Text)
    BY <1>8 DEF WriteStore
  <2>3. CASE pc' = "load" /\ k' = k + 1 /\ k # Len(Text)
    BY <1>1, <2>1, <2>3 DEF CounterInv
  <2> QED BY <2>2, <2>3 DEF CounterInv
<1> QED BY <1>2, <1>3, <1>4, <1>5, <1>6, <1>7, <1>8 DEF CoreStep, ProgStep

\* The requests of the program.
LEMMA RequestKept ==
  ASSUME SysInv, BufInv, Good, TypeOK, CounterInv, CoreStep,
         pc \notin {"activate", "newlib"} => InHeap(buf)
  PROVE  req' # << >> => req' \in Requests
<1>1. \A addr \in RamAddrs, data \in Int, we \in BOOLEAN :
        Request(we, "ram", addr, data) \in Requests
  BY DEF Request, Requests
<1>2. \A addr \in 0 .. 9, data \in Nat : Request(TRUE, "stall", addr, data) \in Requests
  BY DEF Request, Requests
<1>3. \A to \in {"stdout", "exit"}, data \in Int : Request(TRUE, to, 0, data) \in Requests
  BY DEF Request, Requests
<1>4. pc \in {"fill", "load", "store"} => At(k) \in RamAddrs /\ k \in 1 .. Len(Text)
  BY BufferIsRam DEF BufInv, CounterInv
<1>5. CASE Hold
  BY <1>5 DEF Hold, TypeOK
<1>6. CASE Loaded \/ Quiet \/ AllocateBuffer
  BY <1>6 DEF Loaded, Quiet, AllocateBuffer
<1>7. CASE ActivateRandomStall
  BY <1>2, <1>7, StoresType DEF ActivateRandomStall, Issue, CounterInv
<1>8. CASE FillBuffer
  <2>1. Text[k] \in Int
    BY <1>4, <1>8, NewlibAssumption DEF FillBuffer
  <2> QED BY <1>1, <1>4, <1>8, <2>1 DEF FillBuffer, Issue, At
<1>9. CASE Scribble
  <2>1. PICK a \in RamAddrs : req' = Request(TRUE, "ram", a, 0)
    BY <1>9 DEF Scribble, Issue
  <2> QED BY <2>1 DEF Request, Requests
<1>10. CASE WriteLoad
  <2>1. req' = Request(FALSE, "ram", At(k), 0) /\ pc = "load"
    BY <1>10 DEF WriteLoad, Issue, At
  <2> QED BY <1>4, <2>1 DEF Request, Requests
<1>11. CASE WriteStore \/ Exit
  <2>1. \/ req' = Request(TRUE, "stdout", 0, char)
        \/ req' = Request(TRUE, "exit", 0, 0)
    BY <1>11 DEF WriteStore, Exit, Issue
  <2>2. char \in Int
    BY DEF TypeOK
  <2>3. CASE req' = Request(TRUE, "stdout", 0, char)
    BY <2>2, <2>3 DEF Request, Requests
  <2>4. CASE req' = Request(TRUE, "exit", 0, 0)
    BY <2>4 DEF Request, Requests
  <2> QED BY <2>1, <2>3, <2>4
<1> QED
  BY <1>5, <1>6, <1>7, <1>8, <1>9, <1>10, <1>11 DEF CoreStep, ProgStep

\* A cycle keeps the types.
LEMMA TypeKept ==
  ASSUME SysInv, BufInv, Good, TypeOK, CounterInv, CoreStep, Access, RvalidStall
  PROVE  TypeOK'
<1>1. /\ rnd_stall_regs' \in [0 .. 9 -> Nat]
      /\ mem' \in [RamAddrs -> Int] /\ rdata' \in Int
      /\ stdout' \in Seq(Int) /\ exited' \in BOOLEAN
  BY AccessDone
<1>2. fifo' \in Seq(Entries) /\ rvalid_i_q' \in BOOLEAN
  BY FifoDone
<1>3. req' # << >> => req' \in Requests
  BY RequestKept DEF Good
<1>4. settings' \in {"off", "mem_stall", "custom_fp"}
  <2>1. settings' = settings
    BY DEF CoreStep, ProgStep, Hold, Quiet, Loaded, progVars, ActivateRandomStall,
       AllocateBuffer, FillBuffer, Scribble, WriteLoad, WriteStore, Exit
  <2> QED BY <2>1 DEF TypeOK
<1>5. char' \in Int
  <2>1. CASE Loaded
    BY <2>1, AnswerType DEF Loaded, Answered
  <2>2. char' = char \/ char' = -1 \/ Loaded
    BY DEF CoreStep, ProgStep, Hold, Quiet, progVars, ActivateRandomStall,
       AllocateBuffer, FillBuffer, Scribble, WriteLoad, WriteStore, Exit
  <2>3. -1 \in Int /\ char \in Int
    BY DEF TypeOK
  <2> QED BY <2>1, <2>2, <2>3
<1> QED BY <1>1, <1>2, <1>3, <1>4, <1>5 DEF TypeOK

\* A request that does not write a byte leaves it as the edge has made it.
LEMMA StoredKept ==
  ASSUME TypeOK, Access, NEW a \in RamAddrs,
         Hold \/ req' = << >> \/ ~req'.we \/ req'.to # "ram" \/ req'.addr # a
  PROVE  Stored(a)' = Stored(a)
<1>1. mem'[a] = Stored(a)
  BY AccessDone
<1>2. CASE Hold
  BY <1>1, <1>2 DEF Hold, Stored
<1>3. CASE req' = << >> \/ ~req'.we \/ req'.to # "ram" \/ req'.addr # a
  BY <1>1, <1>3 DEF Stored
<1> QED BY <1>2, <1>3

\* Nothing overwrites a character that newlib has put into the buffer.
LEMMA FilledKept ==
  ASSUME SysInv, BufInv, TypeOK, CounterInv, FilledInv, CoreStep, Access, Good'
  PROVE  FilledInv'
<1> SUFFICES ASSUME NEW n \in 1 .. Len(Text),
                    pc' \in {"load", "store", "exit", "wfi"} \/ (pc' = "fill" /\ n < k')
             PROVE  Stored(At(n))' = Text[n]
  BY DEF FilledInv
<1>1. n \in Nat /\ Len(Text) \in Nat /\ n >= 1
  BY NewlibAssumption
<1>2. ~ActivateRandomStall /\ ~AllocateBuffer
  <2>1. ActivateRandomStall => pc' \in {"activate", "newlib"}
    BY DEF ActivateRandomStall
  <2>2. AllocateBuffer => pc' = "fill" /\ k' = 1
    BY DEF AllocateBuffer, CounterInv
  <2>3. ~(n < 1)
    BY <1>1
  <2> QED BY <2>1, <2>2, <2>3
<1>3. buf' = buf /\ pc \in {"fill", "load", "store", "exit", "wfi"}
  BY <1>2 DEF CoreStep, ProgStep, Hold, Quiet, Loaded, Answered, progVars, FillBuffer, Scribble,
     WriteLoad, WriteStore, Exit
<1>4. InHeap(buf) /\ buf \in blocks /\ buf.to = buf.from + Len(Text)
  BY <1>3 DEF Good, InHeap, BufInv
<1>5. At(n) \in RamAddrs /\ At(n)' = At(n) /\ buf.from \in Nat
  BY <1>3, <1>4, BufferIsRam DEF At
<1>6. ASSUME pc \in {"load", "store", "exit", "wfi"} \/ (pc = "fill" /\ n < k),
             Stored(At(n))' = Stored(At(n))
      PROVE  Stored(At(n))' = Text[n]
  BY <1>6 DEF FilledInv
<1>7. CASE Hold \/ Quiet \/ Loaded
  <2>1. Stored(At(n))' = Stored(At(n))
    BY <1>5, <1>7, StoredKept DEF Quiet, Loaded
  <2>2. pc' = pc /\ k' = k
    BY <1>7 DEF Hold, Quiet, Loaded, progVars
  <2> QED BY <1>6, <2>1, <2>2
<1>8. CASE Scribble
  <2>6. PICK b \in blocks \ {buf} :
          \E a \in b.from .. b.to - 1 : req' = Request(TRUE, "ram", a, 0)
    BY <1>8 DEF Scribble, Issue
  <2>1. PICK a \in b.from .. b.to - 1 : req' = Request(TRUE, "ram", a, 0)
    BY <2>6
  <2>2. a # At(n)
    BY <1>4, NotScribbled
  <2>3. req'.addr # At(n)
    BY <2>1, <2>2 DEF Request
  <2>4. Stored(At(n))' = Stored(At(n))
    BY <1>5, <2>3, StoredKept
  <2>5. pc' = pc /\ k' = k
    BY <1>8 DEF Scribble
  <2> QED BY <1>6, <2>4, <2>5
<1>9. CASE WriteLoad \/ WriteStore \/ Exit
  <2>1. \/ req' = Request(FALSE, "ram", buf.from + k - 1, 0)
        \/ req' = Request(TRUE, "stdout", 0, char)
        \/ req' = Request(TRUE, "exit", 0, 0)
    BY <1>9 DEF WriteLoad, WriteStore, Exit, Issue
  <2>2. ~req'.we \/ req'.to # "ram"
    BY <2>1 DEF Request
  <2>3. Stored(At(n))' = Stored(At(n))
    BY <1>5, <2>2, StoredKept
  <2>4. pc \in {"load", "store", "exit"}
    BY <1>9 DEF WriteLoad, WriteStore, Exit
  <2> QED BY <1>6, <2>3, <2>4
<1>10. CASE FillBuffer
  <2>1. pc = "fill" /\ k \in 1 .. Len(Text) /\ req' = Request(TRUE, "ram", At(k), Text[k])
    BY <1>10 DEF FillBuffer, Issue, At, CounterInv
  <2>2. n <= k
    BY <1>1, <1>10, <2>1 DEF FillBuffer
  <2>3. CASE n = k
    <3>1. req' # << >>
      BY <2>1, IsRequest
    <3>2. req'.to = "ram" /\ req'.we /\ req'.addr = At(n) /\ req'.data = Text[n]
      BY <2>1, <2>3 DEF Request
    <3> QED BY <1>5, <3>1, <3>2 DEF Stored
  <2>4. CASE n < k
    <3>1. At(k) # At(n)
      BY <1>1, <1>5, <2>1, <2>4 DEF At
    <3>2. req'.addr # At(n)
      BY <2>1, <3>1 DEF Request
    <3>3. Stored(At(n))' = Stored(At(n))
      BY <1>5, <3>2, StoredKept
    <3> QED BY <1>6, <2>1, <2>4, <3>3
  <2> QED BY <1>1, <2>1, <2>2, <2>3, <2>4
<1> QED
  BY <1>2, <1>7, <1>8, <1>9, <1>10 DEF CoreStep, ProgStep

\* The load of _write is answered with the character it is for, however long the
\* grant and the answer are delayed.
LEMMA ReadKept ==
  ASSUME SysInv, BufInv, Good, Good', TypeOK, CounterInv, FilledInv, ReadInv, CoreStep,
         Access, RvalidStall
  PROVE  ReadInv'
<1>1. /\ NoRead /\ (Granted => req.we) => NoRead' /\ ~rvalid_i_q'
      /\ NoRead /\ Granted /\ ~req.we => ReadUnderWay(rdata)' /\ rvalid_i_q'
      /\ \A data :
           ReadUnderWay(data) /\ ~Granted =>
             IF RvalidO /\ ~Head(fifo).we
             THEN NoRead' /\ ~rvalid_i_q' /\ RdataO = data
             ELSE ReadUnderWay(data)'
  BY FifoDone DEF ReadUnderWay
<1>2. Granted => req # << >>
  BY DEF Granted
<1>3. ~Reading => NoRead' /\ ~rvalid_i_q'
  BY <1>1, <1>2 DEF ReadInv
<1>4. Reading => k \in 1 .. Len(Text) /\ Text[k] # -1
  BY NewlibAssumption DEF Reading, CounterInv
<1>5. CASE Hold
  <2>1. req # << >> /\ ~Granted /\ UNCHANGED <<req, pc, k, char, buf>>
    BY <1>5, BlockedByRam DEF Hold, progVars
  <2>2. NoRead' /\ ~rvalid_i_q'
    BY <1>1, <2>1 DEF ReadInv
  <2> QED BY <2>1, <2>2 DEF ReadInv, Reading, At
<1>6. CASE Loaded
  <2>1. Reading /\ RvalidO /\ ~Head(fifo).we /\ req' = << >> /\ pc' = "store" /\ k' = k
        /\ char' = RdataO
    BY <1>6 DEF Loaded, Answered, Reading
  <2>2. fifo # << >> /\ Head(fifo) = fifo[1] /\ 1 \in 1 .. Len(fifo)
    BY <2>1 DEF RvalidO, TypeOK
  <2>3. ~NoRead
    BY <2>1, <2>2 DEF NoRead
  <2>4. req = << >> /\ ReadUnderWay(Text[k])
    BY <2>1, <2>3 DEF ReadInv
  <2>5. NoRead' /\ ~rvalid_i_q' /\ char' = Text[k]
    BY <1>1, <1>2, <2>1, <2>4
  <2>6. ~Reading'
    BY <1>4, <2>1, <2>5 DEF Reading
  <2> QED BY <2>1, <2>5, <2>6 DEF ReadInv
<1>7. CASE Quiet
  <2>1. ~Blocked /\ ~Answered /\ req' = << >> /\ UNCHANGED <<pc, k, char, buf>>
    BY <1>7 DEF Quiet, progVars
  <2>2. CASE ~Reading
    BY <1>3, <2>1, <2>2 DEF ReadInv, Reading
  <2>3. CASE Reading /\ req # << >>
    <3>1. NoRead /\ Granted /\ req = Request(FALSE, "ram", At(k), 0)
      BY <2>1, <2>3 DEF ReadInv, Blocked
    <3>2. ~req.we /\ req.to = "ram" /\ req.addr = At(k)
      BY <3>1 DEF Request
    <3>3. rdata' = mem[At(k)]
      BY <2>3, <3>2, AccessDone
    <3>4. Stored(At(k)) = Text[k]
      BY <1>4, <2>3 DEF FilledInv, Reading
    <3>5. rdata' = Text[k]
      BY <3>2, <3>3, <3>4 DEF Stored
    <3>6. ReadUnderWay(Text[k])'
      BY <1>1, <2>1, <3>1, <3>2, <3>5
    <3> QED BY <2>1, <2>3, <3>6 DEF ReadInv, Reading
  <2>4. CASE Reading /\ req = << >>
    <3>1. ReadUnderWay(Text[k]) /\ ~Granted /\ ~(RvalidO /\ ~Head(fifo).we)
      BY <1>2, <2>1, <2>4 DEF ReadInv, Answered, Reading
    <3>2. ReadUnderWay(Text[k])'
      BY <1>1, <2>1, <3>1
    <3> QED BY <2>1, <2>4, <3>2 DEF ReadInv, Reading
  <2> QED BY <2>2, <2>3, <2>4
<1>8. CASE ActivateRandomStall \/ AllocateBuffer \/ FillBuffer \/ Scribble \/ WriteStore \/ Exit
  <2>1. ~Reading
    BY <1>8 DEF ActivateRandomStall, AllocateBuffer, FillBuffer, Scribble, WriteStore, Exit, Reading
  <2>2. pc' # "store"
    BY <1>8 DEF ActivateRandomStall, AllocateBuffer, FillBuffer, Scribble, WriteStore, Exit
  <2>3. req' # << >> => \E to, addr, data : req' = Request(TRUE, to, addr, data)
    BY <1>8
    DEF ActivateRandomStall, AllocateBuffer, FillBuffer, Scribble, WriteStore, Exit, Issue
  <2>4. req' # << >> => req'.we
    BY <2>3 DEF Request
  <2> QED BY <1>3, <2>1, <2>2, <2>4 DEF ReadInv, Reading
<1>9. CASE WriteLoad
  <2>1. /\ pc = "load" /\ pc' = "store" /\ char' = -1 /\ k' = k /\ buf' = buf
        /\ req' = Request(FALSE, "ram", At(k), 0)
    BY <1>9 DEF WriteLoad, Issue, At
  <2>2. req' # << >>
    BY <2>1, IsRequest
  <2>3. NoRead' /\ ~rvalid_i_q'
    BY <1>3, <2>1 DEF Reading
  <2>4. req' = Request(FALSE, "ram", At(k)', 0)
    BY <2>1 DEF At
  <2> QED BY <2>1, <2>2, <2>3, <2>4 DEF ReadInv, Reading
<1> QED BY <1>5, <1>6, <1>7, <1>8, <1>9 DEF CoreStep, ProgStep

\* What has been stored before this cycle has been printed after it.
LEMMA Printed ==
  ASSUME TypeOK, CounterInv, PrintInv, CoreStep, Access, BufInv, Len(Text) \in Nat
  PROVE  /\ Written \in Nat /\ Len(stdout') = Written
         /\ \A n \in 1 .. Len(stdout') : stdout'[n] = Text[n]
<1>1. Written \in 0 .. Len(Text)
  BY DEF Written, CounterInv
<1>2. stdout \in Seq(Int) /\ Len(stdout) \in Nat
  BY DEF TypeOK
<1>3. CASE req # << >> /\ req.to = "stdout"
  <2>1. /\ stdout' = Append(stdout, req.data) /\ req.data \in Int
        /\ Len(stdout) = Written - 1 /\ req.data = Text[Written]
    BY <1>3, AccessDone DEF PrintInv, TypeOK, Requests
  <2>2. /\ Len(stdout') = Len(stdout) + 1
        /\ \A n \in 1 .. Len(stdout) : stdout'[n] = stdout[n]
        /\ stdout'[Len(stdout) + 1] = req.data
    BY <1>2, <2>1, AppendProperties
  <2>3. \A n \in 1 .. Len(stdout) : stdout[n] = Text[n]
    BY DEF PrintInv
  <2>4. \A n \in 1 .. Len(stdout') : n \in 1 .. Len(stdout) \/ n = Len(stdout) + 1
    BY <1>2, <2>2
  <2>5. Len(stdout') = Written /\ Len(stdout) + 1 = Written
    BY <1>1, <1>2, <2>1, <2>2
  <2> QED BY <1>1, <2>1, <2>2, <2>3, <2>4, <2>5
<1>4. CASE ~(req # << >> /\ req.to = "stdout")
  <2>1. stdout' = stdout
    BY <1>4, AccessDone
  <2> QED BY <1>1, <1>4, <2>1 DEF PrintInv
<1> QED BY <1>3, <1>4

\* A character reaches the output once, in its place, and main ends with all of
\* them printed.
LEMMA PrintKept ==
  ASSUME TypeOK, CounterInv, CounterInv', ReadInv, PrintInv, CoreStep, Access, BufInv
  PROVE  PrintInv' /\ (pc' = "wfi" => Len(stdout') = Len(Text) \/ pc = "wfi")
<1>1. Len(Text) \in Nat
  BY NewlibAssumption
<1>2. /\ Written \in Nat /\ Len(stdout') = Written
      /\ \A n \in 1 .. Len(stdout') : stdout'[n] = Text[n]
  BY <1>1, Printed
<1>3. CASE Hold
  <2>1. req' = req /\ req.to = "ram" /\ pc' = pc /\ k' = k
    BY <1>3, BlockedByRam DEF Hold, progVars
  <2> QED BY <1>2, <2>1 DEF PrintInv, Written
<1>4. CASE Loaded \/ Quiet \/ AllocateBuffer
  <2>1. req' = << >> /\ Written' = Written
    BY <1>4 DEF Loaded, Quiet, Answered, progVars, AllocateBuffer, Written
  <2>2. pc' = "wfi" => pc = "wfi"
    BY <1>4 DEF Loaded, Quiet, Answered, progVars, AllocateBuffer
  <2> QED BY <1>2, <2>1, <2>2 DEF PrintInv
<1>5. CASE ActivateRandomStall \/ FillBuffer \/ Scribble \/ WriteLoad
  <2>1. Written' = Written
    <3>1. pc \notin {"load", "store", "exit", "wfi"} => Written = 0
      BY DEF Written
    <3>2. pc' \notin {"load", "store", "exit", "wfi"} => Written' = 0
      BY DEF Written
    <3>3. CASE ActivateRandomStall
      BY <3>1, <3>2, <3>3 DEF ActivateRandomStall
    <3>4. CASE FillBuffer
      <4>1. pc = "fill" /\ (pc' = "fill" \/ (pc' = "load" /\ k' = 1))
        BY <3>4 DEF FillBuffer
      <4>2. pc' = "load" /\ k' = 1 => Written' = 0
        BY DEF Written
      <4> QED BY <3>1, <3>2, <4>1, <4>2
    <3>5. CASE Scribble \/ WriteLoad
      BY <3>5 DEF Scribble, WriteLoad, Written
    <3> QED BY <1>5, <3>3, <3>4, <3>5
  <2>2. \E we, addr, data : \E to \in {"ram", "stall"} : req' = Request(we, to, addr, data)
    <3>1. CASE ActivateRandomStall
      BY <3>1 DEF ActivateRandomStall, Issue
    <3>2. CASE FillBuffer
      BY <3>2 DEF FillBuffer, Issue
    <3>3. CASE Scribble
      BY <3>3 DEF Scribble, Issue
    <3>4. CASE WriteLoad
      BY <3>4 DEF WriteLoad, Issue
    <3> QED BY <1>5, <3>1, <3>2, <3>3, <3>4
  <2>3. req'.to # "stdout"
    BY <2>2 DEF Request
  <2>4. pc' # "wfi"
    BY <1>5 DEF ActivateRandomStall, FillBuffer, Scribble, WriteLoad
  <2> QED BY <1>2, <2>1, <2>3, <2>4 DEF PrintInv
<1>6. CASE WriteStore
  <2>1. pc = "store" /\ char # -1 /\ req' = Request(TRUE, "stdout", 0, char) /\ pc' # "wfi"
    BY <1>6 DEF WriteStore, Issue
  <2>2. k \in 1 .. Len(Text) /\ char = Text[k]
    BY <2>1 DEF CounterInv, ReadInv
  <2>3. Written = k - 1 /\ Written' = k
    BY <1>1, <1>6, <2>1, <2>2 DEF WriteStore, Written
  <2>4. req' # << >> /\ req'.to = "stdout" /\ req'.data = char
    BY <2>1, IsRequest DEF Request
  <2> QED BY <1>1, <1>2, <2>1, <2>2, <2>3, <2>4 DEF PrintInv
<1>7. CASE Exit
  <2>1. req' = Request(TRUE, "exit", 0, 0) /\ Written' = Written /\ Written = Len(Text)
    BY <1>7 DEF Exit, Issue, Written
  <2>2. req'.to # "stdout"
    BY <2>1 DEF Request
  <2> QED BY <1>2, <2>1, <2>2 DEF PrintInv
<1> QED BY <1>3, <1>4, <1>5, <1>6, <1>7 DEF CoreStep, ProgStep

\* The simulation ends only after _exit, which the program does not leave.
LEMMA ExitKept ==
  ASSUME TypeOK, ExitInv, CoreStep, Access
  PROVE  ExitInv'
<1>1. exited' => pc = "wfi"
  BY AccessDone DEF ExitInv
<1>2. pc = "wfi" => pc' = "wfi"
  BY DEF CoreStep, ProgStep, Hold, Quiet, Loaded, Answered, progVars, ActivateRandomStall,
     AllocateBuffer, FillBuffer, Scribble, WriteLoad, WriteStore, Exit
<1>3. CASE Hold
  BY <1>1, <1>2, <1>3 DEF Hold, ExitInv
<1>4. CASE Loaded \/ Quiet \/ AllocateBuffer
  BY <1>1, <1>2, <1>4 DEF Loaded, Quiet, AllocateBuffer, ExitInv
<1>5. CASE ActivateRandomStall \/ FillBuffer \/ Scribble \/ WriteLoad \/ WriteStore
  <2>1. \E we, addr, data : \E to \in {"ram", "stall", "stdout"} :
          req' = Request(we, to, addr, data)
    <3>1. CASE ActivateRandomStall
      BY <3>1 DEF ActivateRandomStall, Issue
    <3>2. CASE FillBuffer
      BY <3>2 DEF FillBuffer, Issue
    <3>3. CASE Scribble
      BY <3>3 DEF Scribble, Issue
    <3>4. CASE WriteLoad
      BY <3>4 DEF WriteLoad, Issue
    <3>5. CASE WriteStore
      BY <3>5 DEF WriteStore, Issue
    <3> QED BY <1>5, <3>1, <3>2, <3>3, <3>4, <3>5
  <2>2. req'.to # "exit"
    BY <2>1 DEF Request
  <2> QED BY <1>1, <1>2, <2>2 DEF ExitInv
<1>6. CASE Exit
  BY <1>6 DEF Exit, ExitInv
<1> QED BY <1>3, <1>4, <1>5, <1>6 DEF CoreStep, ProgStep

-----------------------------------------------------------------------------
\* The invariant.

\* The invariant holds at first.
LEMMA InitHolds == Init => IInv
<1> SUFFICES ASSUME Init PROVE IInv
  OBVIOUS
<1>1. /\ rnd_stall_regs = [n \in 0 .. 9 |-> 0]
      /\ mem = [a \in RamAddrs |-> 0] /\ rdata = 0 /\ req = << >>
      /\ fifo = << >> /\ rvalid_i_q = FALSE /\ stdout = << >> /\ exited = FALSE
      /\ settings \in {"off", "mem_stall", "custom_fp"}
      /\ pc \in {"newlib", "activate"}
      /\ k = 1 /\ buf = [from |-> 0, to |-> 0] /\ char = -1
  BY DEF Init, BusInit
<1>2. SysInv
  BY HeapAssumption
  DEF Init, SysInit, SysInv, SysTypeOK, Passed, HeapBlocksDisjoint
<1>3. BufInv
  BY <1>1 DEF BufInv
<1>4. TypeOK
  <2>1. rnd_stall_regs \in [0 .. 9 -> Nat]
    BY <1>1
  <2>2. mem \in [RamAddrs -> Int]
    BY <1>1
  <2>3. fifo \in Seq(Entries) /\ stdout \in Seq(Int)
    BY <1>1
  <2>4. rdata \in Int /\ char \in Int /\ rvalid_i_q \in BOOLEAN /\ exited \in BOOLEAN
    <3>1. rdata = 0 /\ char = -1
      BY <1>1
    <3>2. 0 \in Int /\ -1 \in Int
      OBVIOUS
    <3>3. rvalid_i_q = FALSE /\ exited = FALSE
      BY <1>1
    <3>4. rvalid_i_q \in BOOLEAN /\ exited \in BOOLEAN
      BY <3>3
    <3> QED BY <3>1, <3>2, <3>4
  <2>5. req # << >> => req \in Requests
    BY <1>1
  <2>6. settings \in {"off", "mem_stall", "custom_fp"}
    BY <1>1
  <2> QED BY <2>1, <2>2, <2>3, <2>4, <2>5, <2>6 DEF TypeOK
<1>5. CounterInv /\ FilledInv /\ ExitInv /\ pc # "wfi"
  BY <1>1 DEF CounterInv, FilledInv, ExitInv
<1>6. ReadInv
  BY <1>1 DEF ReadInv, Reading, NoRead
<1>7. PrintInv
  BY <1>1 DEF PrintInv, Written
<1> QED BY <1>2, <1>3, <1>4, <1>5, <1>6, <1>7 DEF IInv

\* Every step keeps the invariant.
LEMMA NextKeeps == IInv /\ [Next]_vars => IInv'
<1> SUFFICES ASSUME IInv, [Next]_vars PROVE IInv'
  OBVIOUS
<1>1. SysInv /\ BufInv
  BY DEF IInv
<1>2. CASE Cycle(Hold \/ Loaded \/ Step \/ Idle)
  <2>1. Access /\ RvalidStall /\ (Hold \/ Loaded \/ Step \/ Idle)
    BY <1>2 DEF Cycle, BusEdge
  <2>2. CoreStep
    BY <2>1, CoreSteps
  <2>3. SysInv' /\ BufInv' /\ (Good' => Good)
    BY <1>1, <2>1, SysKept, BufKept
  <2>4. ASSUME Good'
        PROVE  /\ TypeOK' /\ CounterInv' /\ FilledInv' /\ ReadInv' /\ PrintInv' /\ ExitInv'
               /\ pc' = "wfi" => Len(stdout') = Len(Text)
    <3>1. /\ Good /\ TypeOK /\ CounterInv /\ FilledInv /\ ReadInv /\ PrintInv /\ ExitInv
          /\ pc = "wfi" => Len(stdout) = Len(Text)
      BY <2>3, <2>4 DEF IInv
    <3>2. CounterInv'
      BY <1>1, <2>2, <2>3, <2>4, <3>1, CounterKept
    <3>3. TypeOK'
      BY <1>1, <2>1, <2>2, <3>1, TypeKept
    <3>4. FilledInv'
      BY <1>1, <2>1, <2>2, <2>4, <3>1, FilledKept
    <3>5. ReadInv'
      BY <1>1, <2>1, <2>2, <2>4, <3>1, ReadKept
    <3>6. PrintInv' /\ (pc' = "wfi" => Len(stdout') = Len(Text) \/ pc = "wfi")
      BY <1>1, <2>1, <2>2, <3>1, <3>2, PrintKept
    <3>7. ExitInv'
      BY <2>1, <2>2, <3>1, ExitKept
    <3>8. pc = "wfi" => Len(stdout') = Len(Text)
      <4>1. Len(Text) \in Nat
        BY NewlibAssumption
      <4>2. Len(stdout') = Written
        BY <1>1, <2>1, <2>2, <3>1, <4>1, Printed
      <4> QED BY <4>2 DEF Written
    <3> QED BY <3>2, <3>3, <3>4, <3>5, <3>6, <3>7, <3>8
  <2> QED BY <2>3, <2>4 DEF IInv
<1>3. CASE Finished \/ UNCHANGED vars
  <2>1. UNCHANGED vars
    BY <1>3 DEF Finished
  <2>2. UNCHANGED <<busVars, sysVars, progVars>>
    BY <2>1 DEF vars
  <2>3. SysInv'
    BY <1>1, <2>2, OthersKeep DEF sysVars
  <2> QED BY <2>2, <2>3
    DEF busVars, sysVars, progVars, IInv, BufInv, Good, InHeap, TypeOK, CounterInv, FilledInv,
        Stored, At, ReadInv, Reading, NoRead, ReadUnderWay, PrintInv, Written, ExitInv
<1> QED BY <1>2, <1>3 DEF Next

\* The invariant of hello_world.c, its system calls and the stalling memory.
THEOREM Invariant == Spec => []IInv
BY InitHolds, NextKeeps, PTL DEF Spec

\* What is printed is the text, whole when the simulation ends, for every text,
\* size of the heap, memory and delays.
THEOREM TextPrinted == Spec => []PrintsText
<1>1. IInv => PrintsText
  <2> SUFFICES ASSUME IInv, InHeap(buf)
               PROVE  IsPrefix(stdout, Text) /\ (exited => stdout = Text)
    BY DEF PrintsText
  <2>1. /\ TypeOK /\ CounterInv /\ PrintInv /\ ExitInv
        /\ pc = "wfi" => Len(stdout) = Len(Text)
    BY DEF IInv, Good
  <2>2. stdout \in Seq(Int) /\ Text \in Seq(Int) /\ Len(stdout) \in Nat /\ Len(Text) \in Nat
    <3>1. Text \in Seq(Nat) /\ stdout \in Seq(Int)
      BY <2>1, NewlibAssumption DEF TypeOK
    <3>2. Text \in [1 .. Len(Text) -> Int] /\ Len(Text) \in Nat
      BY <3>1
    <3> QED BY <3>1, <3>2
  <2>3. Len(stdout) <= Len(Text) /\ \A n \in 1 .. Len(stdout) : stdout[n] = Text[n]
    <3>1. Written \in 0 .. Len(Text)
      BY <2>1, <2>2 DEF Written, CounterInv
    <3> QED BY <2>1, <2>2, <3>1 DEF PrintInv
  <2>4. IsPrefix(stdout, Text)
    <3>1. SubSeq(stdout, 1, Len(stdout)) = SubSeq(Text, 1, Len(stdout))
      BY <2>2, <2>3
    <3> QED BY <2>3, <3>1 DEF IsPrefix
  <2>5. exited => stdout = Text
    <3>1. exited => Len(stdout) = Len(Text)
      BY <2>1 DEF ExitInv
    <3> QED BY <2>2, <2>3, <3>1, SeqEqual
  <2> QED BY <2>4, <2>5
<1> QED BY <1>1, Invariant, PTL

\* In hello_world.c too a block of _sbrk in the heap overlaps no other.
THEOREM BlocksDisjoint == Spec => []HeapBlocksDisjoint
<1>1. IInv => HeapBlocksDisjoint
  BY DEF IInv, SysInv
<1> QED BY <1>1, Invariant, PTL
=============================================================================
