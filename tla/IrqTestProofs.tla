--------------------------- MODULE IrqTestProofs ---------------------------
(***************************************************************************)
(* interrupt.c for every set of lines, every mask, random word and delay:  *)
(* what main and its handlers rely on.  Statements are referred to by      *)
(* their number (MainText, HandlerText).                                   *)
(***************************************************************************)
EXTENDS IrqTest, TLAPS, FiniteSetTheorems, SequenceTheorems, WellFoundedInduction

\* main can be interrupted where it waits for an interrupt (tests 2 and 3) and
\* while it computes (test 5).
Waits == {19, 39}
Computes == 55 .. 58

Globals ==
  [irq_id : Int, pending : SUBSET Lines, to_test : SUBSET Lines, prev : SUBSET Lines,
   first : SUBSET Lines, ie_mask : SUBSET Lines, mmstatus : SUBSET {MIE, MPIE},
   irq_mode : {0, STANDARD, RANDOM}]

\* The types; the program counters stay in the texts of main and the handlers.
TypeOK ==
  /\ pc \in 1 .. 60 /\ hpc \in [id : Wired \cup {0}, at : 0 .. 17]
  /\ hpc.at # 0 => hpc.id \in Wired
  /\ g \in Globals
  /\ mstatus \subseteq {MIE, MPIE}
  /\ regs \in [mode : {0, STANDARD, RANDOM, SOFTWARE_DEFINED}, min : Nat, max : Nat,
               lines : SUBSET Lines]
  /\ irq_mode_q \in {0, STANDARD, RANDOM, SOFTWARE_DEFINED}
  /\ irq_sd_lines \subseteq Wired /\ irq_lines_q \subseteq Wired /\ irq_q \subseteq Wired
  /\ irq_rnd_lines \subseteq Wired
  /\ rnd \in [pc : {"edge", "mode", "act", "count", "std"}, n : Nat, word : SUBSET RandomIds]

\* A process that does not raise lines has withdrawn them.
ProcessInv ==
  /\ sd # "sample" => irq_sd_lines = {}
  /\ irq_rnd_lines = IF rnd.pc = "std" THEN rnd.word ELSE {}

\* Interrupts are enabled only where main can be interrupted.  The copy of
\* mstatus that is about to be written back is as it should be: main's csrr has
\* not been followed by a handler's.
MstatusInv ==
  /\ hpc.at # 0 => pc \in Waits \cup Computes
  /\ MIE \in mstatus => hpc.at = 0 /\ pc \in Waits \cup Computes
  /\ pc \in {6, 12, 32, 45, 58} => MIE \notin g.mmstatus
  /\ hpc.at \in {14, 15} => MIE \notin g.mmstatus
  /\ hpc.at = 15 => MPIE \notin g.mmstatus
  /\ hpc.at \in {16, 17} /\ pc \in Waits => MPIE \notin mstatus

\* The handlers find irq_mode as main left it, and take one of two ways.
ModeInv ==
  /\ hpc.at \in {0, 1, 2, 5, 6, 7, 16, 17} => (g.irq_mode = RANDOM <=> pc > 50)
  /\ hpc.at \in {3, 4, 8, 11, 12} => pc > 50 /\ g.irq_mode = RANDOM
  /\ hpc.at \in {9, 10} => pc > 50 /\ g.irq_mode = STANDARD
  /\ hpc.at \in 13 .. 15 => pc < 50 /\ g.irq_mode # RANDOM

\* What a turn of tests 2 and 3 has served.
ServeInv ==
  /\ pc \in 16 .. 18 \cup 36 .. 38 => g.prev = g.pending
  /\ pc \in Waits /\ (MIE \in mstatus \/ hpc.at \in 1 .. 5) => g.prev = g.pending
  /\ pc \in Waits \cup {20, 40} => g.prev \ g.pending \subseteq {g.irq_id}

\* The registers between the stored lines and the core, the nearest to the store
\* first, that hold none that has been served: each step and each stall frees
\* one more.
Drained ==
  IF hpc.at = 0 THEN CASE pc \in 14 .. 21 -> pc - 13
                       [] pc \in 34 .. 41 -> pc - 33
                       [] OTHER -> 0
  ELSE CASE pc \in Computes -> 0
         [] pc \in Waits /\ hpc.at < 6 -> 4
         [] pc \in Waits /\ hpc.at = 6 -> 0
         [] pc \in Waits /\ hpc.at \in 7 .. 12 -> 1
         [] OTHER -> hpc.at - 11

\* A register that holds no served line holds only lines that are pending.
DrainInv ==
  /\ Drained >= 1 => regs.lines = g.pending
  /\ Drained >= 2 => irq_sd_lines \subseteq g.pending
  /\ Drained >= 3 => irq_lines_q \subseteq g.pending
  /\ Drained >= 4 => irq_q \subseteq g.pending

\* The random process up to the store of mode RANDOM, and after.
RandomInv ==
  /\ pc <= 51 => /\ {regs.mode, irq_mode_q} \cap {STANDARD, RANDOM} = {}
                 /\ rnd.pc \in {"edge", "mode"}
  /\ pc > 51 => regs.mode = IF hpc.at \in {10, 11} THEN STANDARD ELSE RANDOM
  /\ pc > 51 /\ hpc.at # 11 /\ irq_mode_q = STANDARD =>
       hpc.at \in {10, 12} /\ rnd.pc \in {"edge", "mode"}
  /\ pc > 52 /\ irq_mode_q # RANDOM => irq_mode_q = STANDARD
  /\ pc > 52 /\ hpc.at \in 1 .. 9 => rnd.pc = "std"
  /\ hpc.at = 10 => rnd.pc = "std" \/ irq_mode_q = STANDARD
  /\ hpc.at = 11 => rnd.pc \in {"edge", "mode"} /\ irq_mode_q = STANDARD

\* Lines that the random process raises now.
Raised(lines) == lines # {} => rnd.pc = "std" /\ lines \subseteq rnd.word

\* In test 5 no register before the core holds a line of an earlier word while
\* interrupts are enabled.
RaisedInv ==
  /\ pc > 53 /\ hpc.at \in {0, 12, 16, 17} => Raised(irq_lines_q)
  /\ pc > 54 /\ hpc.at \in {0, 16, 17} => Raised(irq_q)

\* The inductive invariant.
IInv ==
  /\ TypeOK /\ ProcessInv /\ MstatusInv /\ ModeInv /\ ServeInv /\ DrainInv
  /\ RandomInv /\ RaisedInv
-----------------------------------------------------------------------------
\* The text of main and of a handler, statement by statement.

IsSeq(s, n) == n \in Nat /\ s = [k \in 1 .. n |-> s[k]]

\* t stands in s, behind the first m elements.
Part(s, m, t, n) == \A k \in 1 .. n : s[m + k] = t[k]

\* c is s, t, ... one behind the other, of m, n, ... elements.
Joins(c, s, m, t, n) == IsSeq(s, m) /\ IsSeq(t, n) /\ c = s \o t

Joins3(c, s, m, t, n, u, k) ==
  IsSeq(s, m) /\ IsSeq(t, n) /\ IsSeq(u, k) /\ c = s \o t \o u

Joins4(c, s, m, t, n, u, k, v, j) ==
  IsSeq(s, m) /\ IsSeq(t, n) /\ IsSeq(u, k) /\ IsSeq(v, j) /\ c = s \o t \o u \o v

\* A concatenation has the statements of both parts, in order.
LEMMA Joined ==
  ASSUME NEW s, NEW t, NEW m, NEW n, NEW c, Joins(c, s, m, t, n)
  PROVE  IsSeq(c, m + n) /\ Len(s) = m /\ Part(c, 0, s, m) /\ Part(c, m, t, n)
<1> DEFINE S == {s[k] : k \in 1 .. m} \cup {t[k] : k \in 1 .. n}
<1>1. m \in Nat /\ n \in Nat
  BY DEF Joins, IsSeq
<1>2. s \in [1 .. m -> S] /\ t \in [1 .. n -> S]
  BY DEF Joins, IsSeq
<1> HIDE DEF S
<1>3. s \in Seq(S) /\ t \in Seq(S) /\ Len(s) = m /\ Len(t) = n
  BY <1>1, <1>2
<1>4. /\ c \in Seq(S) /\ Len(c) = m + n
      /\ \A k \in 1 .. m + n : c[k] = IF k <= m THEN s[k] ELSE t[k - m]
  BY <1>3, ConcatProperties DEF Joins
<1>5. c = [k \in 1 .. m + n |-> c[k]]
  BY <1>1, <1>4, LenProperties
<1>6. ASSUME NEW k \in 1 .. m PROVE c[0 + k] = s[k]
  <2>1. 0 + k = k /\ k \in 1 .. m + n /\ k <= m
    BY <1>1
  <2> QED BY <1>1, <1>4, <2>1
<1>7. ASSUME NEW k \in 1 .. n PROVE c[m + k] = t[k]
  <2>1. m + k \in 1 .. m + n /\ ~(m + k <= m) /\ m + k - m = k
    BY <1>1
  <2> QED BY <1>1, <1>4, <2>1
<1>8. IsSeq(c, m + n)
  BY <1>1, <1>5 DEF IsSeq
<1>9. Part(c, 0, s, m) /\ Part(c, m, t, n)
  BY <1>6, <1>7 DEF Part
<1> QED BY <1>3, <1>8, <1>9

\* A part of the head of a sequence is a part of the sequence.
LEMMA PartOfHead ==
  ASSUME NEW s, NEW t, NEW v, NEW n \in Nat, NEW j \in Nat, NEW l \in Nat,
         Part(s, 0, t, n), Part(t, j, v, l), j + l <= n
  PROVE  Part(s, j, v, l)
<1> SUFFICES ASSUME NEW k \in 1 .. l PROVE s[j + k] = v[k]
  BY DEF Part
<1>1. j + k \in 1 .. n /\ 0 + (j + k) = j + k
  OBVIOUS
<1> QED BY <1>1 DEF Part

\* The same of three parts.
LEMMA Joined3 ==
  ASSUME NEW s, NEW t, NEW u, NEW m, NEW n, NEW k, NEW c, Joins3(c, s, m, t, n, u, k)
  PROVE  /\ IsSeq(c, m + n + k)
         /\ Part(c, 0, s, m) /\ Part(c, m, t, n) /\ Part(c, m + n, u, k)
<1>1. PICK b : Joins(b, s, m, t, n)
  BY DEF Joins, Joins3
<1>2. IsSeq(b, m + n) /\ Part(b, 0, s, m) /\ Part(b, m, t, n)
  BY <1>1, Joined
<1>3. Joins(c, b, m + n, u, k)
  BY <1>1, <1>2 DEF Joins, Joins3
<1>4. IsSeq(c, m + n + k) /\ Part(c, 0, b, m + n) /\ Part(c, m + n, u, k)
  BY <1>3, Joined
<1>5. m \in Nat /\ n \in Nat
  BY DEF Joins3, IsSeq
<1>6. m + n \in Nat /\ 0 + m <= m + n
  BY <1>5
<1>7. Part(c, 0, s, m)
  BY <1>2, <1>4, <1>5, <1>6, PartOfHead
<1>8. Part(c, m, t, n)
  BY <1>2, <1>4, <1>5, <1>6, PartOfHead
<1> QED BY <1>4, <1>7, <1>8

\* The same of four parts.
LEMMA Joined4 ==
  ASSUME NEW s, NEW t, NEW u, NEW v, NEW m, NEW n, NEW k, NEW j, NEW c,
         Joins4(c, s, m, t, n, u, k, v, j)
  PROVE  /\ IsSeq(c, m + n + k + j)
         /\ Part(c, 0, s, m) /\ Part(c, m, t, n) /\ Part(c, m + n, u, k)
         /\ Part(c, m + n + k, v, j)
<1>1. PICK b : Joins3(b, s, m, t, n, u, k)
  BY DEF Joins3, Joins4
<1>2. /\ IsSeq(b, m + n + k)
      /\ Part(b, 0, s, m) /\ Part(b, m, t, n) /\ Part(b, m + n, u, k)
  BY <1>1, Joined3
<1>3. Joins(c, b, m + n + k, v, j)
  BY <1>1, <1>2 DEF Joins, Joins3, Joins4
<1>4. /\ IsSeq(c, m + n + k + j)
      /\ Part(c, 0, b, m + n + k) /\ Part(c, m + n + k, v, j)
  BY <1>3, Joined
<1>5. m \in Nat /\ n \in Nat /\ k \in Nat
  BY DEF Joins4, IsSeq
<1>6. /\ m + n + k \in Nat /\ m + n \in Nat
      /\ 0 + m <= m + n + k /\ m + n <= m + n + k /\ m + n + k <= m + n + k
  BY <1>5
<1>7. Part(c, 0, s, m)
  BY <1>2, <1>4, <1>5, <1>6, PartOfHead
<1>8. Part(c, m, t, n)
  BY <1>2, <1>4, <1>5, <1>6, PartOfHead
<1>9. Part(c, m + n, u, k)
  BY <1>2, <1>4, <1>5, <1>6, PartOfHead
<1> QED BY <1>4, <1>7, <1>8, <1>9

\* The statements with a distance, as in Main and Handler.
If(skip) == [op |-> "if rnd", skip |-> skip]
Goto(by) == [op |-> "goto", by |-> by]
Loop(only, skip) == [op |-> "for", only |-> only, skip |-> skip]

\* The length of a text.
LEMMA SeqLen ==
  ASSUME NEW s, NEW n, IsSeq(s, n)
  PROVE  Len(s) = n
<1>1. PICK c : Joins(c, s, n, s, n)
  BY DEF Joins
<1> QED BY <1>1, Joined

\* The texts that are written out.
LEMMA Literals ==
  /\ IsSeq(<< >>, 0)
  /\ \A x1 : IsSeq(<<x1>>, 1)
  /\ \A x1, x2 : IsSeq(<<x1, x2>>, 2)
  /\ \A x1, x2, x3 : IsSeq(<<x1, x2, x3>>, 3)
  /\ \A x1, x2, x3, x4 : IsSeq(<<x1, x2, x3, x4>>, 4)
  /\ \A x1, x2, x3, x4, x5, x6 : IsSeq(<<x1, x2, x3, x4, x5, x6>>, 6)
  /\ \A x1, x2, x3, x4, x5, x6, x7, x8 : IsSeq(<<x1, x2, x3, x4, x5, x6, x7, x8>>, 8)
BY DEF IsSeq

\* The statements of mstatus_enable and mstatus_disable.
LEMMA MstatusText ==
  /\ IsSeq(MstatusEnable, 3) /\ IsSeq(MstatusDisable, 3)
  /\ MstatusEnable[1] = Stmt("csrr") /\ MstatusEnable[2] = Stmt("set MIE")
  /\ MstatusEnable[3] = Stmt("csrw")
  /\ MstatusDisable[1] = Stmt("csrr") /\ MstatusDisable[2] = Stmt("clear MIE")
  /\ MstatusDisable[3] = Stmt("csrw")
BY Literals DEF MstatusEnable, MstatusDisable

\* The loop of tests 2 and 3.
LEMMA ForEachText ==
  ASSUME NEW only, NEW err, NEW s, s = ForEach(only, err)
  PROVE  /\ IsSeq(s, 8)
         /\ s[1] = Loop(only, 8)
         /\ s[2] = Copy("prev", "pending") /\ s[3] = Stmt("csrr")
         /\ s[4] = Stmt("set MIE") /\ s[5] = Stmt("csrw") /\ s[6] = Stmt("wait")
         /\ s[7].op = "check" /\ s[8] = Goto(-7)
<1> DEFINE head == << Copy("prev", "pending") >>
           tail == << Stmt("wait"), Check(err) >>
           for == << Loop(only, 8) >>
           back == << Goto(-7) >>
           turn == ServeOne(err)
<1>1. IsSeq(head, 1) /\ IsSeq(tail, 2) /\ IsSeq(for, 1) /\ IsSeq(back, 1)
  BY Literals
<1>2. /\ head[1] = Copy("prev", "pending") /\ tail[1] = Stmt("wait") /\ tail[2].op = "check"
      /\ for[1] = Loop(only, 8)
      /\ back[1] = Goto(-7)
  BY DEF Check
<1>3. Joins3(turn, head, 1, MstatusEnable, 3, tail, 2)
  BY <1>1, MstatusText DEF ServeOne, Joins3
<1>4. Len(turn) = 6 => s = for \o turn \o back
  BY DEF ForEach, Loop, Goto
<1> HIDE DEF head, tail, for, back, turn
<1>5. /\ IsSeq(turn, 1 + 3 + 2)
      /\ Part(turn, 0, head, 1) /\ Part(turn, 1, MstatusEnable, 3) /\ Part(turn, 1 + 3, tail, 2)
  BY <1>3, Joined3
<1>6. IsSeq(turn, 6)
  BY <1>5
<1>7. /\ turn[1] = head[1] /\ turn[2] = MstatusEnable[1] /\ turn[3] = MstatusEnable[2]
      /\ turn[4] = MstatusEnable[3] /\ turn[5] = tail[1] /\ turn[6] = tail[2]
  BY <1>5 DEF Part
<1>8. Joins3(s, for, 1, turn, 6, back, 1)
  BY <1>1, <1>4, <1>6, SeqLen DEF Joins3
<1>9. /\ IsSeq(s, 1 + 6 + 1)
      /\ Part(s, 0, for, 1) /\ Part(s, 1, turn, 6) /\ Part(s, 1 + 6, back, 1)
  BY <1>8, Joined3
<1>10. IsSeq(s, 8)
  BY <1>9
<1>11. /\ s[1] = for[1] /\ s[2] = turn[1] /\ s[3] = turn[2] /\ s[4] = turn[3]
       /\ s[5] = turn[4] /\ s[6] = turn[5] /\ s[7] = turn[6] /\ s[8] = back[1]
  BY <1>9 DEF Part
<1> QED BY <1>2, <1>7, <1>10, <1>11, MstatusText

\* The two ways of a handler by irq_mode.
LEMMA IfRndText ==
  ASSUME NEW then, NEW else, NEW n, NEW k, IsSeq(then, n), IsSeq(else, k),
         NEW s, s = IfRnd(then, else)
  PROVE  /\ IsSeq(s, n + k + 2)
         /\ s[1] = If(n + 2) /\ Part(s, 1, then, n)
         /\ s[n + 2] = Goto(k + 1) /\ Part(s, n + 2, else, k)
<1> DEFINE if == << If(n + 2) >>
           goto == << Goto(k + 1) >>
<1>1. IsSeq(if, 1) /\ IsSeq(goto, 1)
  BY Literals
<1>2. if[1] = If(n + 2) /\ goto[1] = Goto(k + 1)
  OBVIOUS
<1>3. Len(then) = n /\ Len(else) = k
  BY SeqLen
<1>4. Joins4(s, if, 1, then, n, goto, 1, else, k)
  BY <1>1, <1>3 DEF IfRnd, Joins4, If, Goto
<1> HIDE DEF if, goto
<1>5. /\ IsSeq(s, 1 + n + 1 + k)
      /\ Part(s, 0, if, 1) /\ Part(s, 1, then, n) /\ Part(s, 1 + n, goto, 1)
      /\ Part(s, 1 + n + 1, else, k)
  BY <1>4, Joined4
<1>6. n \in Nat /\ k \in Nat
  BY DEF IsSeq
<1>7. 1 + n + 1 + k = n + k + 2 /\ 1 + n + 1 = n + 2
  BY <1>6
<1>8. s[1] = if[1] /\ s[n + 2] = goto[1]
  BY <1>5, <1>7 DEF Part
<1> QED BY <1>2, <1>5, <1>7, <1>8

\* The statements of test 1.
LEMMA Test1Text ==
  /\ IsSeq(Test1, 6)
  /\ Test1[1] = Set("ie_mask", Lines) /\ Test1[2] = Stmt("csrw mie")
  /\ Test1[3] = Writew("mode", SOFTWARE_DEFINED) /\ Test1[4] = Stmt("csrr")
  /\ Test1[5] = Stmt("clear MIE") /\ Test1[6] = Stmt("csrw")
<1> DEFINE head == << Set("ie_mask", Lines), Stmt("csrw mie"),
                   Writew("mode", SOFTWARE_DEFINED) >>
<1>1. IsSeq(head, 3)
  BY Literals
<1>2. /\ head[1] = Set("ie_mask", Lines) /\ head[2] = Stmt("csrw mie")
      /\ head[3] = Writew("mode", SOFTWARE_DEFINED)
  OBVIOUS
<1>3. Test1 = head \o MstatusDisable
  BY DEF Test1
<1> HIDE DEF head
<1>4. Joins(Test1, head, 3, MstatusDisable, 3)
  BY <1>1, <1>3, MstatusText DEF Joins
<1>5. /\ IsSeq(Test1, 3 + 3) /\ Part(Test1, 0, head, 3)
      /\ Part(Test1, 3, MstatusDisable, 3)
  BY <1>4, Joined
<1>6. /\ Test1[1] = head[1] /\ Test1[2] = head[2] /\ Test1[3] = head[3]
      /\ Test1[4] = MstatusDisable[1] /\ Test1[5] = MstatusDisable[2]
      /\ Test1[6] = MstatusDisable[3]
  BY <1>5 DEF Part
<1>7. IsSeq(Test1, 6)
  BY <1>5
<1> QED BY <1>2, <1>6, <1>7, MstatusText

\* The statements of test 2.
LEMMA Test2Text ==
  /\ IsSeq(Test2, 15)
  /\ Test2[1] = Set("ie_mask", Lines) /\ Test2[2] = Stmt("csrw mie")
  /\ Test2[3] = Set("pending", Lines) /\ Test2[4] = Stmt("csrr")
  /\ Test2[5] = Stmt("clear MIE") /\ Test2[6] = Stmt("csrw")
  /\ Test2[7] = Store("lines", "pending") /\ Test2[8] = Loop("all", 8)
  /\ Test2[9] = Copy("prev", "pending") /\ Test2[10] = Stmt("csrr")
  /\ Test2[11] = Stmt("set MIE") /\ Test2[12] = Stmt("csrw")
  /\ Test2[13] = Stmt("wait") /\ Test2[14].op = "check" /\ Test2[15] = Goto(-7)
<1> DEFINE head == << Set("ie_mask", Lines), Stmt("csrw mie"), Set("pending", Lines) >>
           store == << Store("lines", "pending") >>
<1>1. IsSeq(head, 3) /\ IsSeq(store, 1)
  BY Literals
<1>2. /\ head[1] = Set("ie_mask", Lines) /\ head[2] = Stmt("csrw mie")
      /\ head[3] = Set("pending", Lines) /\ store[1] = Store("lines", "pending")
  OBVIOUS
<1>3. PICK loop : loop = ForEach("all", 2)
  OBVIOUS
<1>4. PICK err : loop = ForEach("all", err)
  BY <1>3
<1>5. IsSeq(loop, 8)
  BY <1>4, ForEachText
<1>6. /\ loop[1] = Loop("all", 8) /\ loop[2] = Copy("prev", "pending")
      /\ loop[3] = Stmt("csrr") /\ loop[4] = Stmt("set MIE") /\ loop[5] = Stmt("csrw")
      /\ loop[6] = Stmt("wait") /\ loop[7].op = "check" /\ loop[8] = Goto(-7)
  BY <1>4, ForEachText
<1>7. Test2 = head \o MstatusDisable \o store \o loop
  BY <1>3 DEF Test2
<1> HIDE DEF head, store
<1>8. Joins4(Test2, head, 3, MstatusDisable, 3, store, 1, loop, 8)
  BY <1>1, <1>5, <1>7, MstatusText DEF Joins4
<1>9. /\ IsSeq(Test2, 3 + 3 + 1 + 8) /\ Part(Test2, 0, head, 3)
      /\ Part(Test2, 3, MstatusDisable, 3) /\ Part(Test2, 3 + 3, store, 1)
      /\ Part(Test2, 3 + 3 + 1, loop, 8)
  BY <1>8, Joined4
<1>10. /\ Test2[1] = head[1] /\ Test2[2] = head[2] /\ Test2[3] = head[3]
       /\ Test2[4] = MstatusDisable[1] /\ Test2[5] = MstatusDisable[2]
       /\ Test2[6] = MstatusDisable[3] /\ Test2[7] = store[1] /\ Test2[8] = loop[1]
       /\ Test2[9] = loop[2] /\ Test2[10] = loop[3] /\ Test2[11] = loop[4]
       /\ Test2[12] = loop[5] /\ Test2[13] = loop[6] /\ Test2[14] = loop[7]
       /\ Test2[15] = loop[8]
  BY <1>9 DEF Part
<1>11. IsSeq(Test2, 15)
  BY <1>9
<1> QED BY <1>2, <1>6, <1>10, <1>11, MstatusText

\* The statements of test 3.
LEMMA Test3Text ==
  /\ IsSeq(Test3, 21)
  /\ Test3[1] = Set("irq_id", 0) /\ Test3[2] = Set("ie_mask", {})
  /\ Test3[3] = Set("pending", {}) /\ Test3[4] = Random("ie_mask")
  /\ Test3[5] = Stmt("csrw mie") /\ Test3[6] = Random("pending")
  /\ Test3[7] = Copy("first", "pending") /\ Test3[8] = Stmt("select")
  /\ Test3[9] = Stmt("csrr") /\ Test3[10] = Stmt("clear MIE")
  /\ Test3[11] = Stmt("csrw") /\ Test3[12] = Store("lines", "pending")
  /\ Test3[13] = Loop("to_test", 8) /\ Test3[14] = Copy("prev", "pending")
  /\ Test3[15] = Stmt("csrr") /\ Test3[16] = Stmt("set MIE")
  /\ Test3[17] = Stmt("csrw") /\ Test3[18] = Stmt("wait") /\ Test3[19].op = "check"
  /\ Test3[20] = Goto(-7) /\ Test3[21] = Stmt("check rest")
<1> DEFINE head == << Set("irq_id", 0), Set("ie_mask", {}), Set("pending", {}),
                   Random("ie_mask"), Stmt("csrw mie"), Random("pending"),
                   Copy("first", "pending"), Stmt("select") >>
           store == << Store("lines", "pending") >>
           rest == << Stmt("check rest") >>
<1>1. IsSeq(head, 8) /\ IsSeq(store, 1) /\ IsSeq(rest, 1)
  BY Literals
<1>2. /\ head[1] = Set("irq_id", 0) /\ head[2] = Set("ie_mask", {})
      /\ head[3] = Set("pending", {}) /\ head[4] = Random("ie_mask")
      /\ head[5] = Stmt("csrw mie") /\ head[6] = Random("pending")
      /\ head[7] = Copy("first", "pending") /\ head[8] = Stmt("select")
      /\ store[1] = Store("lines", "pending") /\ rest[1] = Stmt("check rest")
  OBVIOUS
<1>3. PICK loop : loop = ForEach("to_test", 3)
  OBVIOUS
<1>4. PICK err : loop = ForEach("to_test", err)
  BY <1>3
<1>5. IsSeq(loop, 8)
  BY <1>4, ForEachText
<1>6. /\ loop[1] = Loop("to_test", 8) /\ loop[2] = Copy("prev", "pending")
      /\ loop[3] = Stmt("csrr") /\ loop[4] = Stmt("set MIE") /\ loop[5] = Stmt("csrw")
      /\ loop[6] = Stmt("wait") /\ loop[7].op = "check" /\ loop[8] = Goto(-7)
  BY <1>4, ForEachText
<1>7. PICK start : start = head \o MstatusDisable \o store \o loop
  OBVIOUS
<1>8. Test3 = start \o rest
  BY <1>3, <1>7 DEF Test3
<1> HIDE DEF head, store, rest
<1>9. Joins4(start, head, 8, MstatusDisable, 3, store, 1, loop, 8)
  BY <1>1, <1>5, <1>7, MstatusText DEF Joins4
<1>10. /\ IsSeq(start, 8 + 3 + 1 + 8) /\ Part(start, 0, head, 8)
       /\ Part(start, 8, MstatusDisable, 3) /\ Part(start, 8 + 3, store, 1)
       /\ Part(start, 8 + 3 + 1, loop, 8)
  BY <1>9, Joined4
<1>11. IsSeq(start, 20)
  BY <1>10
<1>12. /\ start[1] = head[1] /\ start[2] = head[2] /\ start[3] = head[3]
       /\ start[4] = head[4] /\ start[5] = head[5] /\ start[6] = head[6]
       /\ start[7] = head[7] /\ start[8] = head[8] /\ start[9] = MstatusDisable[1]
       /\ start[10] = MstatusDisable[2] /\ start[11] = MstatusDisable[3]
       /\ start[12] = store[1] /\ start[13] = loop[1] /\ start[14] = loop[2]
       /\ start[15] = loop[3] /\ start[16] = loop[4] /\ start[17] = loop[5]
       /\ start[18] = loop[6] /\ start[19] = loop[7] /\ start[20] = loop[8]
  BY <1>10 DEF Part
<1>13. Joins(Test3, start, 20, rest, 1)
  BY <1>1, <1>8, <1>11 DEF Joins
<1>14. IsSeq(Test3, 20 + 1) /\ Part(Test3, 0, start, 20) /\ Part(Test3, 20, rest, 1)
  BY <1>13, Joined
<1>15. /\ Test3[1] = start[1] /\ Test3[2] = start[2] /\ Test3[3] = start[3]
       /\ Test3[4] = start[4] /\ Test3[5] = start[5] /\ Test3[6] = start[6]
       /\ Test3[7] = start[7] /\ Test3[8] = start[8] /\ Test3[9] = start[9]
       /\ Test3[10] = start[10] /\ Test3[11] = start[11] /\ Test3[12] = start[12]
       /\ Test3[13] = start[13] /\ Test3[14] = start[14] /\ Test3[15] = start[15]
       /\ Test3[16] = start[16] /\ Test3[17] = start[17] /\ Test3[18] = start[18]
       /\ Test3[19] = start[19] /\ Test3[20] = start[20] /\ Test3[21] = rest[1]
  BY <1>14 DEF Part
<1>16. IsSeq(Test3, 21)
  BY <1>14
<1> QED BY <1>2, <1>6, <1>12, <1>15, <1>16, MstatusText

\* The statements of test 5.
LEMMA Test5Text ==
  /\ IsSeq(Test5, 18)
  /\ Test5[1] = Stmt("csrr") /\ Test5[2] = Stmt("clear MIE")
  /\ Test5[3] = Stmt("csrw") /\ Test5[4] = Set("ie_mask", Lines)
  /\ Test5[5] = Stmt("csrw mie") /\ Test5[6] = Writew("min", MinCycles)
  /\ Test5[7] = Writew("max", MaxCycles) /\ Test5[8] = Set("irq_mode", RANDOM)
  /\ Test5[9] = Store("mode", "irq_mode") /\ Test5[10] = Stmt("csrr")
  /\ Test5[11] = Stmt("set MIE") /\ Test5[12] = Stmt("csrw")
  /\ Test5[13] = Stmt("mat_mult") /\ Test5[14] = Stmt("csrr")
  /\ Test5[15] = Stmt("clear MIE") /\ Test5[16] = Stmt("csrw")
  /\ Test5[17] = Stmt("check result") /\ Test5[18] = Stmt("return")
<1> DEFINE mode == << Set("ie_mask", Lines), Stmt("csrw mie"), Writew("min", MinCycles),
                   Writew("max", MaxCycles), Set("irq_mode", RANDOM),
                   Store("mode", "irq_mode") >>
           product == << Stmt("mat_mult") >>
           last == << Stmt("check result"), Stmt("return") >>
<1>1. IsSeq(mode, 6) /\ IsSeq(product, 1) /\ IsSeq(last, 2)
  BY Literals
<1>2. /\ mode[1] = Set("ie_mask", Lines) /\ mode[2] = Stmt("csrw mie")
      /\ mode[3] = Writew("min", MinCycles) /\ mode[4] = Writew("max", MaxCycles)
      /\ mode[5] = Set("irq_mode", RANDOM) /\ mode[6] = Store("mode", "irq_mode")
      /\ product[1] = Stmt("mat_mult") /\ last[1] = Stmt("check result")
      /\ last[2] = Stmt("return")
  OBVIOUS
<1>3. PICK start : start = MstatusDisable \o mode \o MstatusEnable \o product
  OBVIOUS
<1>4. Test5 = start \o MstatusDisable \o last
  BY <1>3 DEF Test5
<1> HIDE DEF mode, product, last
<1>5. Joins4(start, MstatusDisable, 3, mode, 6, MstatusEnable, 3, product, 1)
  BY <1>1, <1>3, MstatusText DEF Joins4
<1>6. /\ IsSeq(start, 3 + 6 + 3 + 1) /\ Part(start, 0, MstatusDisable, 3)
      /\ Part(start, 3, mode, 6) /\ Part(start, 3 + 6, MstatusEnable, 3)
      /\ Part(start, 3 + 6 + 3, product, 1)
  BY <1>5, Joined4
<1>7. IsSeq(start, 13)
  BY <1>6
<1>8. /\ start[1] = MstatusDisable[1] /\ start[2] = MstatusDisable[2]
      /\ start[3] = MstatusDisable[3] /\ start[4] = mode[1] /\ start[5] = mode[2]
      /\ start[6] = mode[3] /\ start[7] = mode[4] /\ start[8] = mode[5]
      /\ start[9] = mode[6] /\ start[10] = MstatusEnable[1]
      /\ start[11] = MstatusEnable[2] /\ start[12] = MstatusEnable[3]
      /\ start[13] = product[1]
  BY <1>6 DEF Part
<1>9. Joins3(Test5, start, 13, MstatusDisable, 3, last, 2)
  BY <1>1, <1>4, <1>7, MstatusText DEF Joins3
<1>10. /\ IsSeq(Test5, 13 + 3 + 2) /\ Part(Test5, 0, start, 13)
       /\ Part(Test5, 13, MstatusDisable, 3) /\ Part(Test5, 13 + 3, last, 2)
  BY <1>9, Joined3
<1>11. /\ Test5[1] = start[1] /\ Test5[2] = start[2] /\ Test5[3] = start[3]
       /\ Test5[4] = start[4] /\ Test5[5] = start[5] /\ Test5[6] = start[6]
       /\ Test5[7] = start[7] /\ Test5[8] = start[8] /\ Test5[9] = start[9]
       /\ Test5[10] = start[10] /\ Test5[11] = start[11] /\ Test5[12] = start[12]
       /\ Test5[13] = start[13] /\ Test5[14] = MstatusDisable[1]
       /\ Test5[15] = MstatusDisable[2] /\ Test5[16] = MstatusDisable[3]
       /\ Test5[17] = last[1] /\ Test5[18] = last[2]
  BY <1>10 DEF Part
<1>12. IsSeq(Test5, 18)
  BY <1>10
<1> QED BY <1>2, <1>8, <1>11, <1>12, MstatusText

\* The statements of main by their numbers.
LEMMA MainText ==
  /\ \A n \in {4, 10, 16, 30, 36, 43, 52, 56} : Main[n] = Stmt("csrr")
  /\ \A n \in {5, 11, 31, 44, 57} : Main[n] = Stmt("clear MIE")
  /\ \A n \in {17, 37, 53} : Main[n] = Stmt("set MIE")
  /\ \A n \in {6, 12, 18, 32, 38, 45, 54, 58} : Main[n] = Stmt("csrw")
  /\ \A n \in {2, 8, 26, 47} : Main[n] = Stmt("csrw mie")
  /\ \A n \in {15, 35} : Main[n] = Copy("prev", "pending")
  /\ \A n \in {13, 33} : Main[n] = Store("lines", "pending")
  /\ \A n \in {19, 39} : Main[n] = Stmt("wait")
  /\ \A n \in {20, 40} : Main[n].op = "check"
  /\ \A n \in {21, 41} : Main[n] = Goto(-7)
  /\ \A n \in {1, 7, 46} : Main[n] = Set("ie_mask", Lines)
  /\ Main[9] = Set("pending", Lines) /\ Main[50] = Set("irq_mode", RANDOM)
  /\ Main[22] = Set("irq_id", 0) /\ Main[23] = Set("ie_mask", {}) /\ Main[24] = Set("pending", {})
  /\ Main[3] = Writew("mode", SOFTWARE_DEFINED) /\ Main[51] = Store("mode", "irq_mode")
  /\ Main[48] = Writew("min", MinCycles) /\ Main[49] = Writew("max", MaxCycles)
  /\ Main[25] = Random("ie_mask") /\ Main[27] = Random("pending")
  /\ Main[28] = Copy("first", "pending") /\ Main[29] = Stmt("select")
  /\ Main[14] = Loop("all", 8) /\ Main[34] = Loop("to_test", 8)
  /\ Main[42] = Stmt("check rest") /\ Main[55] = Stmt("mat_mult")
  /\ Main[59] = Stmt("check result") /\ Main[60] = Stmt("return")
<1>1. Joins4(Main, Test1, 6, Test2, 15, Test3, 21, Test5, 18)
  BY Test1Text, Test2Text, Test3Text, Test5Text DEF Main, Joins4
<1>2. /\ IsSeq(Main, 6 + 15 + 21 + 18) /\ Part(Main, 0, Test1, 6)
      /\ Part(Main, 6, Test2, 15) /\ Part(Main, 6 + 15, Test3, 21)
      /\ Part(Main, 6 + 15 + 21, Test5, 18)
  BY <1>1, Joined4
<1>3. /\ Main[1] = Test1[1] /\ Main[2] = Test1[2] /\ Main[3] = Test1[3]
      /\ Main[4] = Test1[4] /\ Main[5] = Test1[5] /\ Main[6] = Test1[6]
  BY <1>2 DEF Part
<1>4. /\ Main[7] = Test2[1] /\ Main[8] = Test2[2] /\ Main[9] = Test2[3]
      /\ Main[10] = Test2[4] /\ Main[11] = Test2[5] /\ Main[12] = Test2[6]
      /\ Main[13] = Test2[7] /\ Main[14] = Test2[8] /\ Main[15] = Test2[9]
      /\ Main[16] = Test2[10] /\ Main[17] = Test2[11] /\ Main[18] = Test2[12]
      /\ Main[19] = Test2[13] /\ Main[20] = Test2[14] /\ Main[21] = Test2[15]
  BY <1>2 DEF Part
<1>5. /\ Main[22] = Test3[1] /\ Main[23] = Test3[2] /\ Main[24] = Test3[3]
      /\ Main[25] = Test3[4] /\ Main[26] = Test3[5] /\ Main[27] = Test3[6]
      /\ Main[28] = Test3[7] /\ Main[29] = Test3[8] /\ Main[30] = Test3[9]
      /\ Main[31] = Test3[10] /\ Main[32] = Test3[11] /\ Main[33] = Test3[12]
      /\ Main[34] = Test3[13] /\ Main[35] = Test3[14] /\ Main[36] = Test3[15]
      /\ Main[37] = Test3[16] /\ Main[38] = Test3[17] /\ Main[39] = Test3[18]
      /\ Main[40] = Test3[19] /\ Main[41] = Test3[20] /\ Main[42] = Test3[21]
  BY <1>2 DEF Part
<1>6. /\ Main[43] = Test5[1] /\ Main[44] = Test5[2] /\ Main[45] = Test5[3]
      /\ Main[46] = Test5[4] /\ Main[47] = Test5[5] /\ Main[48] = Test5[6]
      /\ Main[49] = Test5[7] /\ Main[50] = Test5[8] /\ Main[51] = Test5[9]
      /\ Main[52] = Test5[10] /\ Main[53] = Test5[11] /\ Main[54] = Test5[12]
      /\ Main[55] = Test5[13] /\ Main[56] = Test5[14] /\ Main[57] = Test5[15]
      /\ Main[58] = Test5[16] /\ Main[59] = Test5[17] /\ Main[60] = Test5[18]
  BY <1>2 DEF Part
<1>7. /\ Main[1] = Set("ie_mask", Lines) /\ Main[2] = Stmt("csrw mie")
      /\ Main[3] = Writew("mode", SOFTWARE_DEFINED) /\ Main[4] = Stmt("csrr")
      /\ Main[5] = Stmt("clear MIE") /\ Main[6] = Stmt("csrw")
  BY <1>3, Test1Text
<1>8. /\ Main[7] = Set("ie_mask", Lines) /\ Main[8] = Stmt("csrw mie")
      /\ Main[9] = Set("pending", Lines) /\ Main[10] = Stmt("csrr")
      /\ Main[11] = Stmt("clear MIE") /\ Main[12] = Stmt("csrw")
      /\ Main[13] = Store("lines", "pending") /\ Main[14] = Loop("all", 8)
      /\ Main[15] = Copy("prev", "pending") /\ Main[16] = Stmt("csrr")
      /\ Main[17] = Stmt("set MIE") /\ Main[18] = Stmt("csrw")
      /\ Main[19] = Stmt("wait") /\ Main[20].op = "check" /\ Main[21] = Goto(-7)
  BY <1>4, Test2Text
<1>9. /\ Main[22] = Set("irq_id", 0) /\ Main[23] = Set("ie_mask", {})
      /\ Main[24] = Set("pending", {}) /\ Main[25] = Random("ie_mask")
      /\ Main[26] = Stmt("csrw mie") /\ Main[27] = Random("pending")
      /\ Main[28] = Copy("first", "pending") /\ Main[29] = Stmt("select")
      /\ Main[30] = Stmt("csrr") /\ Main[31] = Stmt("clear MIE")
      /\ Main[32] = Stmt("csrw") /\ Main[33] = Store("lines", "pending")
      /\ Main[34] = Loop("to_test", 8) /\ Main[35] = Copy("prev", "pending")
      /\ Main[36] = Stmt("csrr") /\ Main[37] = Stmt("set MIE")
      /\ Main[38] = Stmt("csrw") /\ Main[39] = Stmt("wait") /\ Main[40].op = "check"
      /\ Main[41] = Goto(-7) /\ Main[42] = Stmt("check rest")
  BY <1>5, Test3Text
<1>10. /\ Main[43] = Stmt("csrr") /\ Main[44] = Stmt("clear MIE")
       /\ Main[45] = Stmt("csrw") /\ Main[46] = Set("ie_mask", Lines)
       /\ Main[47] = Stmt("csrw mie") /\ Main[48] = Writew("min", MinCycles)
       /\ Main[49] = Writew("max", MaxCycles) /\ Main[50] = Set("irq_mode", RANDOM)
       /\ Main[51] = Store("mode", "irq_mode") /\ Main[52] = Stmt("csrr")
       /\ Main[53] = Stmt("set MIE") /\ Main[54] = Stmt("csrw")
       /\ Main[55] = Stmt("mat_mult") /\ Main[56] = Stmt("csrr")
       /\ Main[57] = Stmt("clear MIE") /\ Main[58] = Stmt("csrw")
       /\ Main[59] = Stmt("check result") /\ Main[60] = Stmt("return")
  BY <1>6, Test5Text
<1>11. \A n \in {4, 10, 16, 30, 36, 43, 52, 56} : Main[n] = Stmt("csrr")
  BY <1>7, <1>8, <1>9, <1>10
<1>12. \A n \in {5, 11, 31, 44, 57} : Main[n] = Stmt("clear MIE")
  BY <1>7, <1>8, <1>9, <1>10
<1>13. \A n \in {17, 37, 53} : Main[n] = Stmt("set MIE")
  BY <1>7, <1>8, <1>9, <1>10
<1>14. \A n \in {6, 12, 18, 32, 38, 45, 54, 58} : Main[n] = Stmt("csrw")
  BY <1>7, <1>8, <1>9, <1>10
<1>15. \A n \in {2, 8, 26, 47} : Main[n] = Stmt("csrw mie")
  BY <1>7, <1>8, <1>9, <1>10
<1>16. \A n \in {15, 35} : Main[n] = Copy("prev", "pending")
  BY <1>7, <1>8, <1>9, <1>10
<1>17. \A n \in {13, 33} : Main[n] = Store("lines", "pending")
  BY <1>7, <1>8, <1>9, <1>10
<1>18. \A n \in {19, 39} : Main[n] = Stmt("wait")
  BY <1>7, <1>8, <1>9, <1>10
<1>19. \A n \in {20, 40} : Main[n].op = "check"
  BY <1>7, <1>8, <1>9, <1>10
<1>20. \A n \in {21, 41} : Main[n] = Goto(-7)
  BY <1>7, <1>8, <1>9, <1>10
<1>21. \A n \in {1, 7, 46} : Main[n] = Set("ie_mask", Lines)
  BY <1>7, <1>8, <1>9, <1>10
<1>22. Main[9] = Set("pending", Lines) /\ Main[50] = Set("irq_mode", RANDOM)
  BY <1>7, <1>8, <1>9, <1>10
<1>23. Main[22] = Set("irq_id", 0) /\ Main[23] = Set("ie_mask", {}) /\ Main[24] = Set("pending", {})
  BY <1>7, <1>8, <1>9, <1>10
<1>24. Main[3] = Writew("mode", SOFTWARE_DEFINED) /\ Main[51] = Store("mode", "irq_mode")
  BY <1>7, <1>8, <1>9, <1>10
<1>25. Main[48] = Writew("min", MinCycles) /\ Main[49] = Writew("max", MaxCycles)
  BY <1>7, <1>8, <1>9, <1>10
<1>26. Main[25] = Random("ie_mask") /\ Main[27] = Random("pending")
  BY <1>7, <1>8, <1>9, <1>10
<1>27. Main[28] = Copy("first", "pending") /\ Main[29] = Stmt("select")
  BY <1>7, <1>8, <1>9, <1>10
<1>28. Main[14] = Loop("all", 8) /\ Main[34] = Loop("to_test", 8)
  BY <1>7, <1>8, <1>9, <1>10
<1>29. Main[42] = Stmt("check rest") /\ Main[55] = Stmt("mat_mult")
  BY <1>7, <1>8, <1>9, <1>10
<1>30. Main[59] = Stmt("check result") /\ Main[60] = Stmt("return")
  BY <1>7, <1>8, <1>9, <1>10
<1> QED
  BY <1>11, <1>12, <1>13, <1>14, <1>15, <1>16, <1>17, <1>18, <1>19, <1>20, <1>21, <1>22, <1>23, <1>24, <1>25, <1>26, <1>27, <1>28, <1>29, <1>30

IsHandler(h, id) ==
  /\ h[1] = Set("irq_id", id) /\ h[2] = If(3) /\ h[3] = Stmt("csrr mip")
  /\ h[4] = Goto(1) /\ h[5] = Stmt("served") /\ h[6] = Store("lines", "pending")
  /\ h[7] = If(6) /\ h[8] = Set("irq_mode", STANDARD)
  /\ h[9] = Store("mode", "irq_mode") /\ h[10] = Set("irq_mode", RANDOM)
  /\ h[11] = Store("mode", "irq_mode") /\ h[12] = Goto(4) /\ h[13] = Stmt("csrr")
  /\ h[14] = Stmt("clear MPIE") /\ h[15] = Stmt("csrw") /\ h[16] = Stmt("restore")
  /\ h[17] = Stmt("mret")

\* The statements of a handler by their numbers.
LEMMA HandlerText ==
  ASSUME NEW id \in Wired, NEW h, h = Handler[id]
  PROVE  IsHandler(h, id)
<1> DEFINE set == << Set("irq_id", id) >>
           mip == << Stmt("csrr mip") >>
           none == << >>
           end == << Stmt("restore"), Stmt("mret") >>
<1>1. /\ IsSeq(set, 1) /\ IsSeq(mip, 1) /\ IsSeq(none, 0) /\ IsSeq(end, 2)
      /\ IsSeq(ToggleMode, 4) /\ IsSeq(KeepDisabled, 3) /\ IsSeq(Acknowledge, 2)
  BY Literals DEF ToggleMode, KeepDisabled, Acknowledge
<1>2. /\ set[1] = Set("irq_id", id) /\ mip[1] = Stmt("csrr mip")
      /\ end[1] = Stmt("restore") /\ end[2] = Stmt("mret")
      /\ ToggleMode[1] = Set("irq_mode", STANDARD)
      /\ ToggleMode[2] = Store("mode", "irq_mode")
      /\ ToggleMode[3] = Set("irq_mode", RANDOM)
      /\ ToggleMode[4] = Store("mode", "irq_mode")
      /\ KeepDisabled[1] = Stmt("csrr") /\ KeepDisabled[2] = Stmt("clear MPIE")
      /\ KeepDisabled[3] = Stmt("csrw")
      /\ Acknowledge[1] = Stmt("served") /\ Acknowledge[2] = Store("lines", "pending")
  BY DEF ToggleMode, KeepDisabled, Acknowledge
<1>3. PICK sample : sample = IfRnd(mip, none)
  OBVIOUS
<1>4. PICK leave : leave = IfRnd(ToggleMode, KeepDisabled)
  OBVIOUS
<1>5. PICK body : body = set \o sample \o Acknowledge \o leave
  OBVIOUS
<1>6. h = body \o end
  BY <1>3, <1>4, <1>5 DEF Handler, InterruptFunction, FAST_IRQ_GENERIC
<1> HIDE DEF set, mip, none, end
<1>7. /\ IsSeq(sample, 3)
      /\ sample[1] = If(3) /\ Part(sample, 1, mip, 1) /\ sample[3] = Goto(1)
  <2>1. IsSeq(sample, 1 + 0 + 2)
    BY <1>1, <1>3, IfRndText
  <2>2. sample[1] = If(1 + 2)
    BY <1>1, <1>3, IfRndText
  <2>3. Part(sample, 1, mip, 1)
    BY <1>1, <1>3, IfRndText
  <2>4. sample[1 + 2] = Goto(0 + 1)
    BY <1>1, <1>3, IfRndText
  <2> QED BY <2>1, <2>2, <2>3, <2>4
<1>8. /\ IsSeq(leave, 9)
      /\ leave[1] = If(6) /\ Part(leave, 1, ToggleMode, 4)
      /\ leave[6] = Goto(4) /\ Part(leave, 6, KeepDisabled, 3)
  BY <1>1, <1>4, IfRndText
<1>9. Joins4(body, set, 1, sample, 3, Acknowledge, 2, leave, 9)
  BY <1>1, <1>5, <1>7, <1>8 DEF Joins4
<1>10. /\ IsSeq(body, 1 + 3 + 2 + 9)
       /\ Part(body, 0, set, 1) /\ Part(body, 1, sample, 3)
       /\ Part(body, 1 + 3, Acknowledge, 2) /\ Part(body, 1 + 3 + 2, leave, 9)
  BY <1>9, Joined4
<1>11. Joins(h, body, 15, end, 2)
  BY <1>1, <1>6, <1>10 DEF Joins
<1>12. Part(h, 0, body, 15) /\ Part(h, 15, end, 2)
  BY <1>11, Joined
<1>13. sample[2] = mip[1]
  BY <1>7 DEF Part
<1>14. /\ leave[2] = ToggleMode[1] /\ leave[3] = ToggleMode[2]
       /\ leave[4] = ToggleMode[3] /\ leave[5] = ToggleMode[4]
       /\ leave[7] = KeepDisabled[1] /\ leave[8] = KeepDisabled[2]
       /\ leave[9] = KeepDisabled[3]
  BY <1>8 DEF Part
<1>15. /\ h[1] = body[1] /\ h[2] = body[2] /\ h[3] = body[3] /\ h[4] = body[4]
       /\ h[5] = body[5] /\ h[6] = body[6] /\ h[7] = body[7] /\ h[8] = body[8]
       /\ h[9] = body[9] /\ h[10] = body[10] /\ h[11] = body[11] /\ h[12] = body[12]
       /\ h[13] = body[13] /\ h[14] = body[14] /\ h[15] = body[15]
       /\ h[16] = end[1] /\ h[17] = end[2]
  BY <1>12 DEF Part
<1>16. /\ body[1] = set[1] /\ body[2] = sample[1] /\ body[3] = sample[2]
       /\ body[4] = sample[3] /\ body[5] = Acknowledge[1] /\ body[6] = Acknowledge[2]
       /\ body[7] = leave[1] /\ body[8] = leave[2] /\ body[9] = leave[3]
       /\ body[10] = leave[4] /\ body[11] = leave[5] /\ body[12] = leave[6]
       /\ body[13] = leave[7] /\ body[14] = leave[8] /\ body[15] = leave[9]
  BY <1>10 DEF Part
<1>17. /\ h[1] = set[1] /\ h[2] = If(3) /\ h[3] = mip[1] /\ h[4] = Goto(1)
       /\ h[5] = Acknowledge[1] /\ h[6] = Acknowledge[2] /\ h[7] = If(6)
       /\ h[8] = ToggleMode[1] /\ h[9] = ToggleMode[2] /\ h[10] = ToggleMode[3]
       /\ h[11] = ToggleMode[4] /\ h[12] = Goto(4) /\ h[13] = KeepDisabled[1]
       /\ h[14] = KeepDisabled[2] /\ h[15] = KeepDisabled[3] /\ h[16] = end[1]
       /\ h[17] = end[2]
  BY <1>7, <1>8, <1>13, <1>14, <1>15, <1>16
<1> QED BY <1>2, <1>17 DEF IsHandler

-----------------------------------------------------------------------------
\* The steps of main, by the number of the statement.

\* What no part of the invariant looks at.
MainOther ==
  /\ g' \in Globals
  /\ g'.pending = g.pending /\ g'.prev = g.prev
  /\ g'.mmstatus = g.mmstatus /\ g'.irq_mode = g.irq_mode

MainGlobals ==
  \/ pc \in {1, 7, 22, 23, 25, 28, 29, 46} /\ MainOther
  \/ pc \in {9, 24, 27} /\ \E lines \in SUBSET Lines : g' = [g EXCEPT !.pending = lines]
  \/ pc \in {4, 10, 16, 30, 36, 43, 52, 56} /\ g' = [g EXCEPT !.mmstatus = mstatus]
  \/ pc \in {5, 11, 31, 44, 57} /\ g' = [g EXCEPT !.mmstatus = @ \ {MIE}]
  \/ pc \in {17, 37, 53} /\ g' = [g EXCEPT !.mmstatus = @ \cup {MIE}]
  \/ pc \in {15, 35} /\ g' = [g EXCEPT !.prev = g.pending]
  \/ pc = 50 /\ g' = [g EXCEPT !.irq_mode = RANDOM]

MainRegs ==
  \/ pc = 3 /\ regs' = [regs EXCEPT !.mode = SOFTWARE_DEFINED]
  \/ pc = 48 /\ regs' = [regs EXCEPT !.min = MinCycles]
  \/ pc = 49 /\ regs' = [regs EXCEPT !.max = MaxCycles]
  \/ pc \in {13, 33} /\ regs' = [regs EXCEPT !.lines = g.pending]
  \/ pc = 51 /\ regs' = [regs EXCEPT !.mode = g.irq_mode]

MainJumps ==
  \/ pc \in {2, 8, 26, 47} /\ pc' = pc + 1
  \/ pc \in {14, 34} /\ pc' \in {pc, pc + 1, pc + 8}
  \/ pc \in {19, 39} /\ pc' = IF g.prev = g.pending THEN pc ELSE pc + 1
  \/ pc \in {20, 40, 42, 55, 59} /\ pc' \in {pc, pc + 1}
  \/ pc \in {21, 41} /\ pc' = pc - 7
  \/ pc = 60 /\ pc' = pc

MainStep ==
  /\ hpc' = hpc
  /\ \/ pc' = pc + 1 /\ UNCHANGED <<regs, mstatus>> /\ MainGlobals
     \/ pc' = pc + 1 /\ UNCHANGED <<g, mstatus>> /\ MainRegs
     \/ pc \in {6, 12, 18, 32, 38, 45, 54, 58} /\ pc' = pc + 1 /\ mstatus' = g.mmstatus
        /\ UNCHANGED <<g, regs>>
     \/ UNCHANGED <<g, regs, mstatus>> /\ MainJumps

\* The statement says which action executes it.
LEMMA Kinds ==
  ASSUME Statement
  PROVE  /\ In.op \in {"set", "copy"} => Assign
         /\ In.op \in {"writew", "store"} => WriteStall
         /\ In.op = "random" => RandomNum
         /\ In.op \in {"select", "served", "csrr mip", "csrr", "set MIE", "clear MIE",
                       "clear MPIE"} => Compute
         /\ In.op \in {"csrw", "csrw mie"} => CsrWrite
         /\ In.op = "for" => For
         /\ In.op \in {"if rnd", "goto", "wait", "restore"} => Branch
         /\ In.op = "mat_mult" => MatMult
         /\ In.op \in {"check", "check rest", "check result", "return"} => SelfCheck
         /\ In.op # "mret"
BY DEF Statement, Assign, WriteStall, RandomNum, Compute, CsrWrite, For, Branch, MatMult,
   SelfCheck

\* A statement of main is one of the moves of MainStep.
LEMMA MainMoves ==
  ASSUME TypeOK, hpc.at = 0, Statement
  PROVE  MainStep
<1>1. pc \in 1 .. 60
  BY DEF TypeOK
<1>2. \A d : Jump(d) => pc' = pc + d /\ hpc' = hpc
  BY DEF Jump
<1>3. \A ok, err : Verdict(ok, err) =>
        (Jump(1) \/ (pc' = pc /\ hpc' = hpc)) /\ UNCHANGED <<g, regs, mstatus>>
  BY DEF Verdict, SameCsrs
<1>4. SelfCheck => (Jump(1) \/ (pc' = pc /\ hpc' = hpc)) /\ UNCHANGED <<g, regs, mstatus>>
  BY <1>3 DEF SelfCheck

<1>5. CASE pc \in {1, 7, 46}
  <2>1. In = Set("ie_mask", Lines)
    BY <1>5, MainText DEF In
  <2>2. In.op = "set" /\ In.f = "ie_mask" /\ In.v = Lines
    BY <2>1 DEF Set
  <2>3. g' = [g EXCEPT !.ie_mask = Lines] /\ Jump(1) /\ UNCHANGED <<regs, mstatus>>
    BY <2>2, Kinds DEF Assign, SameCsrs
  <2>4. MainOther
    BY <2>3 DEF MainOther, TypeOK, Globals
  <2> QED BY <1>2, <1>5, <2>3, <2>4 DEF MainStep, MainGlobals
<1>6. CASE pc = 22
  <2>1. In = Set("irq_id", 0)
    BY <1>6, MainText DEF In
  <2>2. In.op = "set" /\ In.f = "irq_id" /\ In.v = 0
    BY <2>1 DEF Set
  <2>3. g' = [g EXCEPT !.irq_id = 0] /\ Jump(1) /\ UNCHANGED <<regs, mstatus>>
    BY <2>2, Kinds DEF Assign, SameCsrs
  <2>4. MainOther
    BY <2>3 DEF MainOther, TypeOK, Globals
  <2> QED BY <1>2, <1>6, <2>3, <2>4 DEF MainStep, MainGlobals
<1>7. CASE pc = 23
  <2>1. In = Set("ie_mask", {})
    BY <1>7, MainText DEF In
  <2>2. In.op = "set" /\ In.f = "ie_mask" /\ In.v = {}
    BY <2>1 DEF Set
  <2>3. g' = [g EXCEPT !.ie_mask = {}] /\ Jump(1) /\ UNCHANGED <<regs, mstatus>>
    BY <2>2, Kinds DEF Assign, SameCsrs
  <2>4. MainOther
    BY <2>3 DEF MainOther, TypeOK, Globals
  <2> QED BY <1>2, <1>7, <2>3, <2>4 DEF MainStep, MainGlobals
<1>8. CASE pc = 9
  <2>1. In = Set("pending", Lines)
    BY <1>8, MainText DEF In
  <2>2. In.op = "set" /\ In.f = "pending" /\ In.v = Lines
    BY <2>1 DEF Set
  <2>3. g' = [g EXCEPT !.pending = Lines] /\ Jump(1) /\ UNCHANGED <<regs, mstatus>>
    BY <2>2, Kinds DEF Assign, SameCsrs
  <2> QED BY <1>1, <1>2, <1>8, <2>3 DEF MainStep, MainGlobals
<1>9. CASE pc = 24
  <2>1. In = Set("pending", {})
    BY <1>9, MainText DEF In
  <2>2. In.op = "set" /\ In.f = "pending" /\ In.v = {}
    BY <2>1 DEF Set
  <2>3. g' = [g EXCEPT !.pending = {}] /\ Jump(1) /\ UNCHANGED <<regs, mstatus>>
    BY <2>2, Kinds DEF Assign, SameCsrs
  <2> QED BY <1>1, <1>2, <1>9, <2>3 DEF MainStep, MainGlobals
<1>10. CASE pc = 50
  <2>1. In = Set("irq_mode", RANDOM)
    BY <1>10, MainText DEF In
  <2>2. In.op = "set" /\ In.f = "irq_mode" /\ In.v = RANDOM
    BY <2>1 DEF Set
  <2>3. g' = [g EXCEPT !.irq_mode = RANDOM] /\ Jump(1) /\ UNCHANGED <<regs, mstatus>>
    BY <2>2, Kinds DEF Assign, SameCsrs
  <2> QED BY <1>1, <1>2, <1>10, <2>3 DEF MainStep, MainGlobals
<1>11. CASE pc \in {15, 35}
  <2>1. In = Copy("prev", "pending")
    BY <1>11, MainText DEF In
  <2>2. In.op = "copy" /\ In.f = "prev" /\ In.from = "pending"
    BY <2>1 DEF Copy
  <2>3. g' = [g EXCEPT !.prev = g.pending] /\ Jump(1) /\ UNCHANGED <<regs, mstatus>>
    BY <2>2, Kinds DEF Assign, SameCsrs
  <2> QED BY <1>1, <1>2, <1>11, <2>3 DEF MainStep, MainGlobals
<1>12. CASE pc = 28
  <2>1. In = Copy("first", "pending")
    BY <1>12, MainText DEF In
  <2>2. In.op = "copy" /\ In.f = "first" /\ In.from = "pending"
    BY <2>1 DEF Copy
  <2>3. g' = [g EXCEPT !.first = g.pending] /\ Jump(1) /\ UNCHANGED <<regs, mstatus>>
    BY <2>2, Kinds DEF Assign, SameCsrs
  <2>4. MainOther
    BY <2>3 DEF MainOther, TypeOK, Globals
  <2> QED BY <1>2, <1>12, <2>3, <2>4 DEF MainStep, MainGlobals
<1>13. CASE pc = 25
  <2>1. In = Random("ie_mask")
    BY <1>13, MainText DEF In
  <2>2. In.op = "random" /\ In.f = "ie_mask"
    BY <2>1 DEF Random
  <2>3. (\E lines \in SUBSET Lines : g' = [g EXCEPT !.ie_mask = lines])
    BY <2>2, Kinds, BitsAssumption DEF RandomNum, TypeOK, Globals
  <2>4. Jump(1) /\ UNCHANGED <<regs, mstatus>>
    BY <2>2, Kinds DEF RandomNum, SameCsrs
  <2>5. MainOther
    BY <2>3, <2>4 DEF MainOther, TypeOK, Globals
  <2> QED BY <1>2, <1>13, <2>4, <2>5 DEF MainStep, MainGlobals
<1>14. CASE pc = 27
  <2>1. In = Random("pending")
    BY <1>14, MainText DEF In
  <2>2. In.op = "random" /\ In.f = "pending"
    BY <2>1 DEF Random
  <2>3. (\E lines \in SUBSET Lines : g' = [g EXCEPT !.pending = lines])
    BY <2>2, Kinds, BitsAssumption DEF RandomNum, TypeOK, Globals
  <2>4. Jump(1) /\ UNCHANGED <<regs, mstatus>>
    BY <2>2, Kinds DEF RandomNum, SameCsrs
  <2> QED BY <1>1, <1>2, <1>14, <2>3, <2>4 DEF MainStep, MainGlobals
<1>15. CASE pc = 29
  <2>1. In = Stmt("select")
    BY <1>15, MainText DEF In
  <2>2. In.op = "select"
    BY <2>1 DEF Stmt
  <2>3. (\E test \in SUBSET Lines : g' = [g EXCEPT !.to_test = test])
    BY <2>2, Kinds, BitsAssumption DEF Compute, TypeOK, Globals
  <2>4. Jump(1) /\ UNCHANGED <<regs, mstatus>>
    BY <2>2, Kinds DEF Compute, SameCsrs
  <2>5. MainOther
    BY <2>3, <2>4 DEF MainOther, TypeOK, Globals
  <2> QED BY <1>2, <1>15, <2>4, <2>5 DEF MainStep, MainGlobals
<1>16. CASE pc \in {4, 10, 16, 30, 36, 43, 52, 56}
  <2>1. In = Stmt("csrr")
    BY <1>16, MainText DEF In
  <2>2. In.op = "csrr"
    BY <2>1 DEF Stmt
  <2>3. g' = [g EXCEPT !.mmstatus = mstatus] /\ Jump(1) /\ UNCHANGED <<regs, mstatus>>
    BY <2>2, Kinds DEF Compute, SameCsrs
  <2> QED BY <1>1, <1>2, <1>16, <2>3 DEF MainStep, MainGlobals
<1>17. CASE pc \in {5, 11, 31, 44, 57}
  <2>1. In = Stmt("clear MIE")
    BY <1>17, MainText DEF In
  <2>2. In.op = "clear MIE"
    BY <2>1 DEF Stmt
  <2>3. g' = [g EXCEPT !.mmstatus = @ \ {MIE}] /\ Jump(1) /\ UNCHANGED <<regs, mstatus>>
    BY <2>2, Kinds DEF Compute, SameCsrs
  <2> QED BY <1>1, <1>2, <1>17, <2>3 DEF MainStep, MainGlobals
<1>18. CASE pc \in {17, 37, 53}
  <2>1. In = Stmt("set MIE")
    BY <1>18, MainText DEF In
  <2>2. In.op = "set MIE"
    BY <2>1 DEF Stmt
  <2>3. g' = [g EXCEPT !.mmstatus = @ \cup {MIE}] /\ Jump(1) /\ UNCHANGED <<regs, mstatus>>
    BY <2>2, Kinds DEF Compute, SameCsrs
  <2> QED BY <1>1, <1>2, <1>18, <2>3 DEF MainStep, MainGlobals
<1>19. CASE pc \in {6, 12, 18, 32, 38, 45, 54, 58}
  <2>1. In = Stmt("csrw")
    BY <1>19, MainText DEF In
  <2>2. In.op = "csrw"
    BY <2>1 DEF Stmt
  <2>3. mstatus' = g.mmstatus /\ Jump(1) /\ UNCHANGED <<g, regs>>
    BY <2>2, Kinds DEF CsrWrite
  <2> QED BY <1>1, <1>2, <1>19, <2>3 DEF MainStep
<1>20. CASE pc \in {2, 8, 26, 47}
  <2>1. In = Stmt("csrw mie")
    BY <1>20, MainText DEF In
  <2>2. In.op = "csrw mie"
    BY <2>1 DEF Stmt
  <2>3. Jump(1) /\ UNCHANGED <<g, regs, mstatus>>
    BY <2>2, Kinds DEF CsrWrite
  <2> QED BY <1>1, <1>2, <1>20, <2>3 DEF MainStep, MainJumps
<1>21. CASE pc = 3
  <2>1. In = Writew("mode", SOFTWARE_DEFINED)
    BY <1>21, MainText DEF In
  <2>2. In.op = "writew" /\ In.reg = "mode" /\ In.v = SOFTWARE_DEFINED
    BY <2>1 DEF Writew
  <2>3. regs' = [regs EXCEPT !.mode = SOFTWARE_DEFINED] /\ Jump(1) /\ UNCHANGED <<g, mstatus>>
    BY <2>2, Kinds DEF WriteStall, WriteReg, SameCsrs
  <2> QED BY <1>1, <1>2, <1>21, <2>3 DEF MainStep, MainRegs
<1>22. CASE pc = 48
  <2>1. In = Writew("min", MinCycles)
    BY <1>22, MainText DEF In
  <2>2. In.op = "writew" /\ In.reg = "min" /\ In.v = MinCycles
    BY <2>1 DEF Writew
  <2>3. regs' = [regs EXCEPT !.min = MinCycles] /\ Jump(1) /\ UNCHANGED <<g, mstatus>>
    BY <2>2, Kinds DEF WriteStall, WriteReg, SameCsrs
  <2> QED BY <1>1, <1>2, <1>22, <2>3 DEF MainStep, MainRegs
<1>23. CASE pc = 49
  <2>1. In = Writew("max", MaxCycles)
    BY <1>23, MainText DEF In
  <2>2. In.op = "writew" /\ In.reg = "max" /\ In.v = MaxCycles
    BY <2>1 DEF Writew
  <2>3. regs' = [regs EXCEPT !.max = MaxCycles] /\ Jump(1) /\ UNCHANGED <<g, mstatus>>
    BY <2>2, Kinds DEF WriteStall, WriteReg, SameCsrs
  <2> QED BY <1>1, <1>2, <1>23, <2>3 DEF MainStep, MainRegs
<1>24. CASE pc \in {13, 33}
  <2>1. In = Store("lines", "pending")
    BY <1>24, MainText DEF In
  <2>2. In.op = "store" /\ In.reg = "lines" /\ In.f = "pending"
    BY <2>1 DEF Store
  <2>3. regs' = [regs EXCEPT !.lines = g.pending] /\ Jump(1) /\ UNCHANGED <<g, mstatus>>
    BY <2>2, Kinds DEF WriteStall, WriteReg, SameCsrs
  <2> QED BY <1>1, <1>2, <1>24, <2>3 DEF MainStep, MainRegs
<1>25. CASE pc = 51
  <2>1. In = Store("mode", "irq_mode")
    BY <1>25, MainText DEF In
  <2>2. In.op = "store" /\ In.reg = "mode" /\ In.f = "irq_mode"
    BY <2>1 DEF Store
  <2>3. regs' = [regs EXCEPT !.mode = g.irq_mode] /\ Jump(1) /\ UNCHANGED <<g, mstatus>>
    BY <2>2, Kinds DEF WriteStall, WriteReg, SameCsrs
  <2> QED BY <1>1, <1>2, <1>25, <2>3 DEF MainStep, MainRegs
<1>26. CASE pc = 14
  <2>1. In = Loop("all", 8)
    BY <1>26, MainText DEF In
  <2>2. In.op = "for" /\ In.skip = 8
    BY <2>1 DEF Loop
  <2>3. (Jump(0) \/ Jump(1) \/ Jump(8)) /\ UNCHANGED <<g, regs, mstatus>>
    BY <2>2, Kinds DEF For, SameCsrs
  <2> QED BY <1>1, <1>2, <1>26, <2>3 DEF MainStep, MainJumps
<1>27. CASE pc = 34
  <2>1. In = Loop("to_test", 8)
    BY <1>27, MainText DEF In
  <2>2. In.op = "for" /\ In.skip = 8
    BY <2>1 DEF Loop
  <2>3. (Jump(0) \/ Jump(1) \/ Jump(8)) /\ UNCHANGED <<g, regs, mstatus>>
    BY <2>2, Kinds DEF For, SameCsrs
  <2> QED BY <1>1, <1>2, <1>27, <2>3 DEF MainStep, MainJumps
<1>28. CASE pc \in {21, 41}
  <2>1. In = Goto(-7)
    BY <1>28, MainText DEF In
  <2>2. In.op = "goto" /\ In.by = -7
    BY <2>1 DEF Goto
  <2>3. Jump(-7) /\ UNCHANGED <<g, regs, mstatus>>
    BY <2>2, Kinds DEF Branch, SameCsrs
  <2> QED BY <1>1, <1>2, <1>28, <2>3 DEF MainStep, MainJumps
<1>29. CASE pc \in {19, 39}
  <2>1. In = Stmt("wait")
    BY <1>29, MainText DEF In
  <2>2. In.op = "wait"
    BY <2>1 DEF Stmt
  <2>3. Jump(IF g.prev = g.pending THEN 0 ELSE 1) /\ UNCHANGED <<g, regs, mstatus>>
    BY <2>2, Kinds DEF Branch, SameCsrs
  <2> QED BY <1>1, <1>2, <1>29, <2>3 DEF MainStep, MainJumps
<1>30. CASE pc = 55
  <2>1. In = Stmt("mat_mult")
    BY <1>30, MainText DEF In
  <2>2. In.op = "mat_mult"
    BY <2>1 DEF Stmt
  <2>3. (Jump(0) \/ Jump(1)) /\ UNCHANGED <<g, regs, mstatus>>
    BY <2>2, Kinds DEF MatMult, SameCsrs
  <2> QED BY <1>1, <1>2, <1>30, <2>3 DEF MainStep, MainJumps
<1>31. CASE pc \in {20, 40}
  <2>1. In.op = "check"
    BY <1>31, MainText DEF In
  <2>2. (Jump(1) \/ (pc' = pc /\ hpc' = hpc)) /\ UNCHANGED <<g, regs, mstatus>>
    BY <1>4, <2>1, Kinds
  <2> QED BY <1>1, <1>2, <1>31, <2>2 DEF MainStep, MainJumps
<1>32. CASE pc = 42
  <2>1. In = Stmt("check rest")
    BY <1>32, MainText DEF In
  <2>2. In.op = "check rest"
    BY <2>1 DEF Stmt
  <2>3. (Jump(1) \/ (pc' = pc /\ hpc' = hpc)) /\ UNCHANGED <<g, regs, mstatus>>
    BY <1>4, <2>2, Kinds
  <2> QED BY <1>1, <1>2, <1>32, <2>3 DEF MainStep, MainJumps
<1>33. CASE pc = 59
  <2>1. In = Stmt("check result")
    BY <1>33, MainText DEF In
  <2>2. In.op = "check result"
    BY <2>1 DEF Stmt
  <2>3. (Jump(1) \/ (pc' = pc /\ hpc' = hpc)) /\ UNCHANGED <<g, regs, mstatus>>
    BY <1>4, <2>2, Kinds
  <2> QED BY <1>1, <1>2, <1>33, <2>3 DEF MainStep, MainJumps
<1>34. CASE pc = 60
  <2>1. In = Stmt("return")
    BY <1>34, MainText DEF In
  <2>2. In.op = "return"
    BY <2>1 DEF Stmt
  <2>3. pc' = pc /\ hpc' = hpc /\ UNCHANGED <<g, regs, mstatus>>
    BY <2>2, Kinds DEF SelfCheck, Verdict, SameCsrs
  <2> QED BY <1>1, <1>2, <1>34, <2>3 DEF MainStep, MainJumps
<1> QED
  BY <1>1, <1>5, <1>6, <1>7, <1>8, <1>9, <1>10, <1>11, <1>12, <1>13, <1>14, <1>15, <1>16, <1>17, <1>18, <1>19, <1>20, <1>21, <1>22, <1>23, <1>24, <1>25, <1>26, <1>27, <1>28, <1>29, <1>30, <1>31, <1>32, <1>33, <1>34

-----------------------------------------------------------------------------
\* The steps of a handler.

HandlerGlobals ==
  \/ hpc.at = 1 /\ g' = [g EXCEPT !.irq_id = hpc.id]
  \/ hpc.at = 3 /\ g' = [g EXCEPT !.pending = irq_q]
  \/ hpc.at = 5 /\ g' = [g EXCEPT !.pending = @ \ {g.irq_id}]
  \/ hpc.at = 8 /\ g' = [g EXCEPT !.irq_mode = STANDARD]
  \/ hpc.at = 10 /\ g' = [g EXCEPT !.irq_mode = RANDOM]
  \/ hpc.at = 13 /\ g' = [g EXCEPT !.mmstatus = mstatus]
  \/ hpc.at = 14 /\ g' = [g EXCEPT !.mmstatus = @ \ {MPIE}]

HandlerRegs ==
  \/ hpc.at = 6 /\ regs' = [regs EXCEPT !.lines = g.pending]
  \/ hpc.at \in {9, 11} /\ regs' = [regs EXCEPT !.mode = g.irq_mode]

HandlerJumps ==
  \/ hpc.at = 2 /\ hpc'.at = IF g.irq_mode = RANDOM THEN 3 ELSE 5
  \/ hpc.at \in {4, 16} /\ hpc'.at = hpc.at + 1
  \/ hpc.at = 7 /\ hpc'.at = IF g.irq_mode = RANDOM THEN 8 ELSE 13
  \/ hpc.at = 12 /\ hpc'.at = 16

HandlerStep ==
  /\ pc' = pc /\ hpc' = [hpc EXCEPT !.at = hpc'.at]
  /\ \/ hpc'.at = hpc.at + 1 /\ UNCHANGED <<regs, mstatus>> /\ HandlerGlobals
     \/ hpc'.at = hpc.at + 1 /\ UNCHANGED <<g, mstatus>> /\ HandlerRegs
     \/ hpc.at = 15 /\ hpc'.at = 16 /\ mstatus' = g.mmstatus /\ UNCHANGED <<g, regs>>
     \/ UNCHANGED <<g, regs, mstatus>> /\ HandlerJumps

\* A statement of a handler is one of the moves of HandlerStep.
LEMMA HandlerMoves ==
  ASSUME TypeOK, hpc.at # 0, Statement
  PROVE  HandlerStep
<1>1. hpc.at \in 1 .. 17 /\ hpc.id \in Wired /\ hpc = [id |-> hpc.id, at |-> hpc.at]
  BY DEF TypeOK
<1>2. PICK h : h = Handler[hpc.id]
  OBVIOUS
<1>3. In = h[hpc.at] /\ IsHandler(h, hpc.id)
  BY <1>1, <1>2, HandlerText DEF In
<1>4. ASSUME NEW d \in Int, Jump(d)
      PROVE  pc' = pc /\ hpc' = [hpc EXCEPT !.at = hpc'.at] /\ hpc'.at = hpc.at + d
  BY <1>1, <1>4 DEF Jump
<1>5. CASE hpc.at = 1
  <2>1. In = Set("irq_id", hpc.id)
    BY <1>3, <1>5 DEF IsHandler
  <2>2. In.op = "set" /\ In.f = "irq_id" /\ In.v = hpc.id
    BY <2>1 DEF Set
  <2>3. g' = [g EXCEPT !.irq_id = hpc.id] /\ Jump(1) /\ UNCHANGED <<regs, mstatus>>
    BY <2>2, Kinds DEF Assign, SameCsrs
  <2> QED BY <1>1, <1>4, <1>5, <2>3 DEF HandlerStep, HandlerGlobals
<1>6. CASE hpc.at = 2
  <2>1. In = If(3)
    BY <1>3, <1>6 DEF IsHandler
  <2>2. In.op = "if rnd" /\ In.skip = 3
    BY <2>1 DEF If
  <2>3. Jump(IF g.irq_mode = RANDOM THEN 1 ELSE 3) /\ UNCHANGED <<g, regs, mstatus>>
    BY <2>2, Kinds DEF Branch, SameCsrs
  <2> QED BY <1>1, <1>4, <1>6, <2>3 DEF HandlerStep, HandlerJumps
<1>7. CASE hpc.at = 3
  <2>1. In = Stmt("csrr mip")
    BY <1>3, <1>7 DEF IsHandler
  <2>2. In.op = "csrr mip"
    BY <2>1 DEF Stmt
  <2>3. g' = [g EXCEPT !.pending = irq_q] /\ Jump(1) /\ UNCHANGED <<regs, mstatus>>
    BY <2>2, Kinds DEF Compute, SameCsrs
  <2> QED BY <1>1, <1>4, <1>7, <2>3 DEF HandlerStep, HandlerGlobals
<1>8. CASE hpc.at = 4
  <2>1. In = Goto(1)
    BY <1>3, <1>8 DEF IsHandler
  <2>2. In.op = "goto" /\ In.by = 1
    BY <2>1 DEF Goto
  <2>3. Jump(1) /\ UNCHANGED <<g, regs, mstatus>>
    BY <2>2, Kinds DEF Branch, SameCsrs
  <2> QED BY <1>1, <1>4, <1>8, <2>3 DEF HandlerStep, HandlerJumps
<1>9. CASE hpc.at = 5
  <2>1. In = Stmt("served")
    BY <1>3, <1>9 DEF IsHandler
  <2>2. In.op = "served"
    BY <2>1 DEF Stmt
  <2>3. g' = [g EXCEPT !.pending = @ \ {g.irq_id}] /\ Jump(1) /\ UNCHANGED <<regs, mstatus>>
    BY <2>2, Kinds DEF Compute, SameCsrs
  <2> QED BY <1>1, <1>4, <1>9, <2>3 DEF HandlerStep, HandlerGlobals
<1>10. CASE hpc.at = 6
  <2>1. In = Store("lines", "pending")
    BY <1>3, <1>10 DEF IsHandler
  <2>2. In.op = "store" /\ In.reg = "lines" /\ In.f = "pending"
    BY <2>1 DEF Store
  <2>3. regs' = [regs EXCEPT !.lines = g.pending] /\ Jump(1) /\ UNCHANGED <<g, mstatus>>
    BY <2>2, Kinds DEF WriteStall, WriteReg, SameCsrs
  <2> QED BY <1>1, <1>4, <1>10, <2>3 DEF HandlerStep, HandlerRegs
<1>11. CASE hpc.at = 7
  <2>1. In = If(6)
    BY <1>3, <1>11 DEF IsHandler
  <2>2. In.op = "if rnd" /\ In.skip = 6
    BY <2>1 DEF If
  <2>3. Jump(IF g.irq_mode = RANDOM THEN 1 ELSE 6) /\ UNCHANGED <<g, regs, mstatus>>
    BY <2>2, Kinds DEF Branch, SameCsrs
  <2> QED BY <1>1, <1>4, <1>11, <2>3 DEF HandlerStep, HandlerJumps
<1>12. CASE hpc.at = 8
  <2>1. In = Set("irq_mode", STANDARD)
    BY <1>3, <1>12 DEF IsHandler
  <2>2. In.op = "set" /\ In.f = "irq_mode" /\ In.v = STANDARD
    BY <2>1 DEF Set
  <2>3. g' = [g EXCEPT !.irq_mode = STANDARD] /\ Jump(1) /\ UNCHANGED <<regs, mstatus>>
    BY <2>2, Kinds DEF Assign, SameCsrs
  <2> QED BY <1>1, <1>4, <1>12, <2>3 DEF HandlerStep, HandlerGlobals
<1>13. CASE hpc.at = 9
  <2>1. In = Store("mode", "irq_mode")
    BY <1>3, <1>13 DEF IsHandler
  <2>2. In.op = "store" /\ In.reg = "mode" /\ In.f = "irq_mode"
    BY <2>1 DEF Store
  <2>3. regs' = [regs EXCEPT !.mode = g.irq_mode] /\ Jump(1) /\ UNCHANGED <<g, mstatus>>
    BY <2>2, Kinds DEF WriteStall, WriteReg, SameCsrs
  <2> QED BY <1>1, <1>4, <1>13, <2>3 DEF HandlerStep, HandlerRegs
<1>14. CASE hpc.at = 10
  <2>1. In = Set("irq_mode", RANDOM)
    BY <1>3, <1>14 DEF IsHandler
  <2>2. In.op = "set" /\ In.f = "irq_mode" /\ In.v = RANDOM
    BY <2>1 DEF Set
  <2>3. g' = [g EXCEPT !.irq_mode = RANDOM] /\ Jump(1) /\ UNCHANGED <<regs, mstatus>>
    BY <2>2, Kinds DEF Assign, SameCsrs
  <2> QED BY <1>1, <1>4, <1>14, <2>3 DEF HandlerStep, HandlerGlobals
<1>15. CASE hpc.at = 11
  <2>1. In = Store("mode", "irq_mode")
    BY <1>3, <1>15 DEF IsHandler
  <2>2. In.op = "store" /\ In.reg = "mode" /\ In.f = "irq_mode"
    BY <2>1 DEF Store
  <2>3. regs' = [regs EXCEPT !.mode = g.irq_mode] /\ Jump(1) /\ UNCHANGED <<g, mstatus>>
    BY <2>2, Kinds DEF WriteStall, WriteReg, SameCsrs
  <2> QED BY <1>1, <1>4, <1>15, <2>3 DEF HandlerStep, HandlerRegs
<1>16. CASE hpc.at = 12
  <2>1. In = Goto(4)
    BY <1>3, <1>16 DEF IsHandler
  <2>2. In.op = "goto" /\ In.by = 4
    BY <2>1 DEF Goto
  <2>3. Jump(4) /\ UNCHANGED <<g, regs, mstatus>>
    BY <2>2, Kinds DEF Branch, SameCsrs
  <2> QED BY <1>1, <1>4, <1>16, <2>3 DEF HandlerStep, HandlerJumps
<1>17. CASE hpc.at = 13
  <2>1. In = Stmt("csrr")
    BY <1>3, <1>17 DEF IsHandler
  <2>2. In.op = "csrr"
    BY <2>1 DEF Stmt
  <2>3. g' = [g EXCEPT !.mmstatus = mstatus] /\ Jump(1) /\ UNCHANGED <<regs, mstatus>>
    BY <2>2, Kinds DEF Compute, SameCsrs
  <2> QED BY <1>1, <1>4, <1>17, <2>3 DEF HandlerStep, HandlerGlobals
<1>18. CASE hpc.at = 14
  <2>1. In = Stmt("clear MPIE")
    BY <1>3, <1>18 DEF IsHandler
  <2>2. In.op = "clear MPIE"
    BY <2>1 DEF Stmt
  <2>3. g' = [g EXCEPT !.mmstatus = @ \ {MPIE}] /\ Jump(1) /\ UNCHANGED <<regs, mstatus>>
    BY <2>2, Kinds DEF Compute, SameCsrs
  <2> QED BY <1>1, <1>4, <1>18, <2>3 DEF HandlerStep, HandlerGlobals
<1>19. CASE hpc.at = 15
  <2>1. In = Stmt("csrw")
    BY <1>3, <1>19 DEF IsHandler
  <2>2. In.op = "csrw"
    BY <2>1 DEF Stmt
  <2>3. mstatus' = g.mmstatus /\ Jump(1) /\ UNCHANGED <<g, regs>>
    BY <2>2, Kinds DEF CsrWrite
  <2> QED BY <1>1, <1>4, <1>19, <2>3 DEF HandlerStep
<1>20. CASE hpc.at = 16
  <2>1. In = Stmt("restore")
    BY <1>3, <1>20 DEF IsHandler
  <2>2. In.op = "restore"
    BY <2>1 DEF Stmt
  <2>3. Jump(1) /\ UNCHANGED <<g, regs, mstatus>>
    BY <2>2, Kinds DEF Branch, SameCsrs
  <2> QED BY <1>1, <1>4, <1>20, <2>3 DEF HandlerStep, HandlerJumps
<1>21. CASE hpc.at = 17
  <2>1. In = Stmt("mret")
    BY <1>3, <1>21 DEF IsHandler
  <2>2. In.op = "mret"
    BY <2>1 DEF Stmt
  <2> QED BY <2>2, Kinds
<1> QED
  BY <1>1, <1>5, <1>6, <1>7, <1>8, <1>9, <1>10, <1>11, <1>12, <1>13, <1>14, <1>15, <1>16, <1>17, <1>18, <1>19, <1>20, <1>21

-----------------------------------------------------------------------------
\* The statements that the properties name.

\* Where main waits and checks; main has no mret.
LEMMA MainOps ==
  ASSUME NEW n \in 1 .. 60
  PROVE  Main[n].op # "mret" /\ (Main[n].op \in {"wait", "check"} => n \in {19, 20, 39, 40})
<1>1. PICK s : s = Main[n]
  OBVIOUS
<1> SUFFICES s.op # "mret" /\ (s.op \in {"wait", "check"} => n \in {19, 20, 39, 40})
  BY <1>1
<1>2. CASE n \in {2, 4, 5, 6, 8, 10, 11, 12, 16, 17, 18, 26, 30, 31, 32, 36, 37, 38, 43, 44, 45, 47, 52, 53, 54, 56, 57, 58}
  <2>1. PICK op \in {"csrr", "clear MIE", "set MIE", "csrw", "csrw mie"} : s = Stmt(op)
    BY <1>1, <1>2, MainText
  <2> QED BY <2>1 DEF Stmt
<1>3. CASE n \in {29, 42, 55, 59, 60}
  <2>1. PICK op \in {"select", "check rest", "mat_mult", "check result", "return"} : s = Stmt(op)
    BY <1>1, <1>3, MainText
  <2> QED BY <2>1 DEF Stmt
<1>4. CASE n \in {1, 7, 9, 22, 23, 24, 46, 50}
  <2>1. \/ s = Set("ie_mask", Lines) \/ s = Set("pending", Lines)
        \/ s = Set("irq_mode", RANDOM) \/ s = Set("irq_id", 0)
        \/ s = Set("ie_mask", {}) \/ s = Set("pending", {})
    BY <1>1, <1>4, MainText
  <2> QED BY <2>1 DEF Set
<1>5. CASE n \in {13, 15, 28, 33, 35, 51}
  <2>1. \/ s = Copy("prev", "pending") \/ s = Store("lines", "pending")
        \/ s = Store("mode", "irq_mode") \/ s = Copy("first", "pending")
    BY <1>1, <1>5, MainText
  <2> QED BY <2>1 DEF Copy, Store
<1>6. CASE n \in {3, 25, 27, 48, 49}
  <2>1. \/ s = Writew("mode", SOFTWARE_DEFINED) \/ s = Writew("min", MinCycles)
        \/ s = Writew("max", MaxCycles) \/ s = Random("ie_mask")
        \/ s = Random("pending")
    BY <1>1, <1>6, MainText
  <2> QED BY <2>1 DEF Random, Writew
<1>7. CASE n \in {14, 21, 34, 41}
  <2>1. \/ s = Goto(-7) \/ s = Loop("all", 8) \/ s = Loop("to_test", 8)
    BY <1>1, <1>7, MainText
  <2> QED BY <2>1 DEF Loop, Goto
<1>8. CASE n \in {20, 40}
  <2>1. s.op = "check"
    BY <1>1, <1>8, MainText
  <2> QED BY <1>8, <2>1
<1>9. CASE n \in {19, 39}
  <2>1. s = Stmt("wait")
    BY <1>1, <1>9, MainText
  <2> QED BY <1>9, <2>1 DEF Stmt
<1> QED
  BY <1>2, <1>3, <1>4, <1>5, <1>6, <1>7, <1>8, <1>9

\* Where a handler returns, and where it clears MPIE.
LEMMA HandlerOps ==
  ASSUME NEW h, NEW id, IsHandler(h, id), NEW n \in 1 .. 17
  PROVE  (h[n].op = "mret" => n = 17) /\ (h[n].op = "clear MPIE" => n = 14)
<1>1. PICK s : s = h[n]
  OBVIOUS
<1> SUFFICES (s.op = "mret" => n = 17) /\ (s.op = "clear MPIE" => n = 14)
  BY <1>1
<1>2. CASE n \in {1, 8, 10}
  <2>1. \/ s = Set("irq_id", id) \/ s = Set("irq_mode", STANDARD)
        \/ s = Set("irq_mode", RANDOM)
    BY <1>1, <1>2 DEF IsHandler
  <2>2. s.op = "set"
    BY <2>1 DEF Set
  <2> QED BY <2>2
<1>3. CASE n \in {2, 4, 7, 12}
  <2>1. CASE n \in {2, 7}
    <3>1. PICK d \in {3, 6} : s = If(d)
      BY <1>1, <2>1 DEF IsHandler
    <3> QED BY <3>1 DEF If
  <2>2. CASE n \in {4, 12}
    <3>1. PICK d \in {1, 4} : s = Goto(d)
      BY <1>1, <2>2 DEF IsHandler
    <3> QED BY <3>1 DEF Goto
  <2> QED BY <1>3, <2>1, <2>2
<1>4. CASE n \in {6, 9, 11}
  <2>1. s = Store("lines", "pending") \/ s = Store("mode", "irq_mode")
    BY <1>1, <1>4 DEF IsHandler
  <2>2. s.op = "store"
    BY <2>1 DEF Store
  <2> QED BY <2>2
<1>5. CASE n \in {3, 5, 13, 15, 16}
  <2>1. PICK op \in {"csrr mip", "served", "csrr", "csrw", "restore"} : s = Stmt(op)
    BY <1>1, <1>5 DEF IsHandler
  <2> QED BY <2>1 DEF Stmt
<1>6. CASE n \in {14, 17}
  <2>1. CASE n = 14
    <3>1. s = Stmt("clear MPIE")
      BY <1>1, <2>1 DEF IsHandler
    <3> QED BY <2>1, <3>1 DEF Stmt
  <2>2. CASE n = 17
    <3>1. s = Stmt("mret")
      BY <1>1, <2>2 DEF IsHandler
    <3> QED BY <2>2, <3>1 DEF Stmt
  <2> QED BY <1>6, <2>1, <2>2
<1>7. n \in {1, 8, 10} \cup {2, 4, 7, 12} \cup {6, 9, 11} \cup {3, 5, 13, 15, 16} \cup {14, 17}
  OBVIOUS
<1> QED BY <1>2, <1>3, <1>4, <1>5, <1>6, <1>7

-----------------------------------------------------------------------------
\* What a cycle does to the program: nothing, an interrupt is taken, a statement
\* of main or of a handler, or the end of a handler.

Idle == UNCHANGED <<pc, hpc, g, mstatus, regs>>

Interrupted ==
  /\ hpc.at = 0 /\ MIE \in mstatus
  /\ hpc'.at = 1 /\ hpc'.id \in irq_q /\ hpc' = [id |-> hpc'.id, at |-> 1]
  /\ mstatus' = {MPIE} /\ UNCHANGED <<pc, g, regs>>

Return ==
  /\ hpc.at = 17 /\ hpc' = [id |-> 0, at |-> 0]
  /\ mstatus' = {MPIE} \cup (IF MPIE \in mstatus THEN {MIE} ELSE {})
  /\ UNCHANGED <<pc, g, regs>>

CpuStep ==
  Idle \/ Interrupted \/ (hpc.at = 0 /\ MainStep) \/ (hpc.at \in 1 .. 16 /\ HandlerStep) \/ Return

\* The encoder finds a line if there is one.
LEMMA SomeIrq ==
  ASSUME NEW qual, qual \subseteq IrqIds, qual # {}
  PROVE  IrqId(qual) \in qual
<1> DEFINE T == {j \in 1 .. 32 : Encoder[j] \in qual}
<1>1. \A id \in IrqIds : \E j \in 1 .. 32 : Encoder[j] = id
  BY DEF Encoder, IrqIds
<1>2. T \subseteq Nat /\ T # {}
  BY <1>1
<1>3. PICK j \in T : \A k \in T : <<k, j>> \notin OpToRel(<, Nat)
  BY <1>2, WFMin, NatLessThanWellFounded
<1>4. \A k \in T : j <= k
  <2> SUFFICES ASSUME NEW k \in T, ~(j <= k) PROVE FALSE
    OBVIOUS
  <2>1. k \in Nat /\ j \in Nat /\ k < j
    BY <1>2
  <2>2. <<k, j>> \in Nat \X Nat /\ <<k, j>>[1] < <<k, j>>[2]
    BY <2>1
  <2>3. <<k, j>> \in OpToRel(<, Nat)
    BY <2>2, Zenon DEF OpToRel
  <2> QED BY <1>3, <2>3
<1>5. \A other \in qual \ {Encoder[j]} : Before(Encoder[j], other)
  <2> SUFFICES ASSUME NEW other \in qual \ {Encoder[j]}
               PROVE  Before(Encoder[j], other)
    OBVIOUS
  <2>1. PICK k \in 1 .. 32 : Encoder[k] = other
    BY <1>1
  <2>2. k \in T /\ k # j
    BY <2>1
  <2>3. j < k /\ j \in 1 .. 32
    BY <1>4, <2>2
  <2> QED BY <2>1, <2>3 DEF Before
<1>6. Encoder[j] \in qual
  BY <1>3
<1> QED BY <1>5, <1>6 DEF IrqId

\* The core stalls, is interrupted, returns or executes a statement.
LEMMA Steps ==
  ASSUME TypeOK, MstatusInv, Cycle
  PROVE  CpuStep
<1>1. CASE Stall
  BY <1>1 DEF Stall, CpuStep, Idle
<1>2. CASE TakeIrq
  <2>1. Qualified(mie) \subseteq IrqIds /\ Qualified(mie) # {} /\ Qualified(mie) \subseteq irq_q
    BY <1>2, LinesAssumption DEF TakeIrq, Taken, IrqReq, Qualified, TypeOK, IRQ_MASK, IrqIds
  <2>2. IrqId(Qualified(mie)) \in irq_q
    BY <2>1, SomeIrq
  <2>3. MIE \in mstatus
    BY <1>2 DEF TakeIrq, Taken, IrqReq
  <2>4. hpc.at = 0
    BY <2>3 DEF MstatusInv
  <2> QED BY <1>2, <2>2, <2>3, <2>4 DEF TakeIrq, CpuStep, Interrupted
<1>3. CASE Mret
  <2>1. In.op = "mret"
    BY <1>3 DEF Mret
  <2>2. hpc.at # 0
    <3>1. pc \in 1 .. 60
      BY DEF TypeOK
    <3> QED BY <2>1, <3>1, MainOps DEF In
  <2>3. hpc.at \in 1 .. 17 /\ hpc.id \in Wired
    BY <2>2 DEF TypeOK
  <2>4. PICK h : h = Handler[hpc.id]
    OBVIOUS
  <2>5. IsHandler(h, hpc.id) /\ h[hpc.at].op = "mret"
    BY <2>1, <2>2, <2>3, <2>4, HandlerText DEF In
  <2>6. hpc.at = 17
    BY <2>3, <2>5, HandlerOps
  <2> QED BY <1>3, <2>6 DEF Mret, CpuStep, Return
<1>4. CASE Statement /\ hpc.at = 0
  BY <1>4, MainMoves DEF CpuStep
<1>5. CASE Statement /\ hpc.at # 0
  <2>1. HandlerStep
    BY <1>5, HandlerMoves
  <2>2. hpc.at \in 1 .. 16
    BY <2>1, <1>5 DEF HandlerStep, HandlerGlobals, HandlerRegs, HandlerJumps
  <2> QED BY <2>1, <2>2 DEF CpuStep
<1> QED BY <1>1, <1>2, <1>3, <1>4, <1>5 DEF Cycle, Core

\* A cycle keeps the types.
LEMMA TypePreserved ==
  ASSUME TypeOK, ProcessInv, CpuStep, GenEdge, Latch(irq_lines_q)
  PROVE  TypeOK'
<1>1. pc' \in 1 .. 60
  BY DEF TypeOK, CpuStep, Idle, Interrupted, Return, MainStep, MainGlobals, MainRegs, MainJumps,
         HandlerStep
<1>2. hpc' \in [id : Wired \cup {0}, at : 0 .. 17] /\ (hpc'.at # 0 => hpc'.id \in Wired)
  <2>1. CASE Idle \/ Interrupted \/ Return \/ (hpc.at = 0 /\ MainStep)
    BY <2>1 DEF TypeOK, Idle, Interrupted, Return, MainStep
  <2>2. CASE hpc.at \in 1 .. 16 /\ HandlerStep
    <3>1. hpc'.at \in 1 .. 17
      BY <2>2 DEF HandlerStep, HandlerGlobals, HandlerRegs, HandlerJumps
    <3> QED BY <2>2, <3>1 DEF HandlerStep, TypeOK
  <2> QED BY <2>1, <2>2 DEF CpuStep
<1>3. g' \in Globals
  <2>1. CASE Idle \/ Interrupted \/ Return
    BY <2>1 DEF TypeOK, Idle, Interrupted, Return
  <2>2. CASE hpc.at = 0 /\ MainStep
    BY <2>2 DEF MainStep, MainGlobals, MainOther, TypeOK, Globals
  <2>3. CASE hpc.at \in 1 .. 16 /\ HandlerStep
    BY <2>3, LinesAssumption DEF HandlerStep, HandlerGlobals, TypeOK, Globals, IRQ_MASK
  <2> QED BY <2>1, <2>2, <2>3 DEF CpuStep
<1>4. mstatus' \subseteq {MIE, MPIE}
  BY DEF TypeOK, Globals, CpuStep, Idle, Interrupted, Return, MainStep, HandlerStep
<1>5. regs' \in [mode : {0, STANDARD, RANDOM, SOFTWARE_DEFINED}, min : Nat, max : Nat,
                 lines : SUBSET Lines]
  <2>1. CASE Idle \/ Interrupted \/ Return
    BY <2>1 DEF TypeOK, Idle, Interrupted, Return
  <2>2. CASE hpc.at = 0 /\ MainStep
    BY <2>2, CyclesAssumption DEF MainStep, MainRegs, TypeOK, Globals
  <2>3. CASE hpc.at \in 1 .. 16 /\ HandlerStep
    BY <2>3 DEF HandlerStep, HandlerRegs, TypeOK, Globals
  <2> QED BY <2>1, <2>2, <2>3 DEF CpuStep
<1>6. irq_mode_q' \in {0, STANDARD, RANDOM, SOFTWARE_DEFINED} /\ irq_sd_lines' \subseteq Wired
  BY DEF TypeOK, GenEdge, SdSample, SdIdle
<1>7. irq_lines_q' \subseteq Wired
  BY IdsAssumption DEF TypeOK, GenEdge, Selected
<1>8. irq_q' \subseteq Wired
  BY DEF TypeOK, Latch
<1>9. /\ irq_rnd_lines' \subseteq Wired
      /\ rnd' \in [pc : {"edge", "mode", "act", "count", "std"}, n : Nat,
                   word : SUBSET RandomIds]
  <2>1. /\ rnd \in [pc : {"edge", "mode", "act", "count", "std"}, n : Nat,
                   word : SUBSET RandomIds]
        /\ irq_rnd_lines \subseteq Wired
    BY DEF TypeOK
  <2>2. CASE RndWait \/ RndHold
    BY <2>1, <2>2 DEF RndWait, RndHold
  <2>3. CASE RndDraw
    <3>1. regs.min \in Nat /\ regs.max \in Nat
      BY DEF TypeOK
    <3> QED BY <2>1, <2>3, <3>1 DEF RndDraw
  <2>4. CASE RndCount
    <3>1. rnd.n \in Nat
      BY <2>1
    <3>2. CASE rnd.pc = "act"
      <4>1. rnd' = [rnd EXCEPT !.pc = "count", !.n = rnd.n]
        BY <2>4, <3>2 DEF RndCount
      <4> QED BY <2>1, <2>4, <3>1, <4>1 DEF RndCount
    <3>3. CASE rnd.pc = "count" /\ rnd.n > 1
      <4>1. rnd' = [rnd EXCEPT !.pc = "count", !.n = rnd.n - 1]
        BY <2>4, <3>3 DEF RndCount
      <4>2. rnd.n - 1 \in Nat
        BY <3>1, <3>3
      <4> QED BY <2>1, <2>4, <4>1, <4>2 DEF RndCount
    <3> QED BY <2>4, <3>2, <3>3 DEF RndCount
  <2>5. CASE RndRaise
    <3>1. rnd.word \subseteq Wired
      BY <2>1, IdsAssumption
    <3>2. irq_rnd_lines' \subseteq Wired
      BY <2>5, <3>1 DEF RndRaise
    <3>3. rnd' = [rnd EXCEPT !.pc = "edge", !.n = 0] \/ rnd' = [rnd EXCEPT !.pc = "std", !.n = 0]
      BY <2>5 DEF RndRaise
    <3>4. CASE rnd' = [rnd EXCEPT !.pc = "edge", !.n = 0]
      BY <2>1, <3>2, <3>4
    <3>5. CASE rnd' = [rnd EXCEPT !.pc = "std", !.n = 0]
      BY <2>1, <3>2, <3>5
    <3> QED BY <3>3, <3>4, <3>5
  <2>6. CASE RndClear
    BY <2>1, <2>6 DEF RndClear
  <2> QED BY <2>2, <2>3, <2>4, <2>5, <2>6 DEF GenEdge
<1> QED BY <1>1, <1>2, <1>3, <1>4, <1>5, <1>6, <1>7, <1>8, <1>9 DEF TypeOK

\* A process of the generator that does not raise lines withdraws them
\* (random_interrupt_generator.sv).
LEMMA ProcessPreserved ==
  ASSUME TypeOK, ProcessInv, GenEdge
  PROVE  /\ ProcessInv'
         /\ irq_sd_lines' = {} \/ irq_sd_lines' = regs.lines \cap Wired
<1>1. SdSample \/ SdIdle
  BY DEF GenEdge
<1>2. irq_sd_lines' = {} \/ irq_sd_lines' = regs.lines \cap Wired
  BY <1>1 DEF ProcessInv, SdSample, SdIdle
<1>3. sd' # "sample" => irq_sd_lines' = {}
  BY <1>1 DEF ProcessInv, SdSample, SdIdle, Watch
<1>4. irq_rnd_lines' = IF rnd'.pc = "std" THEN rnd'.word ELSE {}
  <2>1. rnd \in [pc : {"edge", "mode", "act", "count", "std"}, n : Nat,
                word : SUBSET RandomIds]
    BY DEF TypeOK
  <2>2. irq_rnd_lines = IF rnd.pc = "std" THEN rnd.word ELSE {}
    BY DEF ProcessInv
  <2>3. CASE RndWait \/ RndHold
    BY <2>1, <2>2, <2>3 DEF RndWait, RndHold
  <2>4. CASE RndDraw
    BY <2>1, <2>2, <2>4 DEF RndDraw
  <2>5. CASE RndCount
    BY <2>1, <2>2, <2>5 DEF RndCount
  <2>6. CASE RndRaise
    BY <2>1, <2>2, <2>6 DEF RndRaise
  <2>7. CASE RndClear
    BY <2>1, <2>2, <2>7 DEF RndClear
  <2> QED BY <2>3, <2>4, <2>5, <2>6, <2>7 DEF GenEdge
<1> QED BY <1>2, <1>3, <1>4 DEF ProcessInv

\* A cycle keeps what is known of mstatus and of its copy.
LEMMA MstatusPreserved ==
  ASSUME TypeOK, MstatusInv, ModeInv, ServeInv, CpuStep
  PROVE  MstatusInv'
<1>1. /\ g.mmstatus \subseteq {MIE, MPIE} /\ mstatus \subseteq {MIE, MPIE} /\ MIE # MPIE
      /\ pc \in 1 .. 60 /\ hpc.at \in 0 .. 17 /\ g = [g EXCEPT !.mmstatus = g.mmstatus]
  BY DEF TypeOK, Globals, MIE, MPIE
<1>2. CASE Idle
  BY <1>2 DEF Idle, MstatusInv
<1>3. CASE Interrupted
  BY <1>1, <1>3 DEF Interrupted, MstatusInv, Waits, Computes
<1>4. CASE hpc.at = 0 /\ MainStep
  <2>1. hpc'.at = 0
    BY <1>4 DEF MainStep
  <2>2. pc' = pc + 1 \/ (UNCHANGED <<g, regs, mstatus>> /\ MainJumps)
    BY <1>4 DEF MainStep
  <2>3. MIE \in mstatus' => pc' \in Waits \cup Computes
    BY <1>1, <1>4 DEF MainStep, MainGlobals, MainRegs, MainJumps, MstatusInv, ServeInv, Waits,
       Computes
  <2>4. pc' \in {6, 12, 32, 45, 58} => MIE \notin g'.mmstatus
    <3>1. ASSUME pc' \in {6, 12, 32, 45, 58} PROVE pc \in {5, 11, 31, 44, 57}
      BY <1>1, <1>4, <3>1 DEF MainStep, MainJumps
    <3>2. ASSUME pc \in {5, 11, 31, 44, 57} PROVE g' = [g EXCEPT !.mmstatus = @ \ {MIE}]
      BY <1>4, <3>2 DEF MainStep, MainGlobals, MainRegs, MainJumps
    <3> QED BY <3>1, <3>2 DEF TypeOK, Globals
  <2> QED BY <2>1, <2>3, <2>4 DEF MstatusInv
<1>5. CASE hpc.at \in 1 .. 16 /\ HandlerStep
  <2>1. pc' = pc /\ pc \in Waits \cup Computes /\ MIE \notin mstatus
    BY <1>5 DEF HandlerStep, MstatusInv
  <2>2. hpc.at \in {14, 15} => pc \in Waits
    BY <1>5, <2>1 DEF ModeInv, Waits, Computes
  <2>3. hpc'.at \in {14, 15, 16, 17} => hpc.at \in {12, 13, 14, 15, 16}
    BY <1>5 DEF HandlerStep, HandlerGlobals, HandlerRegs, HandlerJumps
  <2>4. hpc.at = 13 => hpc'.at = 14 /\ g' = [g EXCEPT !.mmstatus = mstatus] /\ mstatus' = mstatus
    BY <1>5 DEF HandlerStep, HandlerGlobals, HandlerRegs, HandlerJumps
  <2>5. hpc.at = 14 => hpc'.at = 15 /\ g' = [g EXCEPT !.mmstatus = @ \ {MPIE}]
                       /\ mstatus' = mstatus
    BY <1>5 DEF HandlerStep, HandlerGlobals, HandlerRegs, HandlerJumps
  <2>6. hpc.at = 15 => hpc'.at = 16 /\ g' = g /\ mstatus' = g.mmstatus
    BY <1>5 DEF HandlerStep, HandlerGlobals, HandlerRegs, HandlerJumps
  <2>7. hpc.at \in {12, 16} => hpc'.at \in {16, 17} /\ g' = g /\ mstatus' = mstatus
    BY <1>5 DEF HandlerStep, HandlerGlobals, HandlerRegs, HandlerJumps
  <2>8. hpc.at \notin {13, 14} => g'.mmstatus = g.mmstatus
    BY <1>5 DEF HandlerStep, HandlerGlobals, HandlerRegs, HandlerJumps, TypeOK, Globals
  <2>9. hpc.at # 15 => mstatus' = mstatus
    BY <1>5 DEF HandlerStep
  <2>10. MIE \notin mstatus'
    BY <1>1, <2>1, <2>6, <2>9 DEF MstatusInv
  <2>11. pc' = 58 => MIE \notin g'.mmstatus
    BY <2>1, <2>2, <2>8, <1>5 DEF MstatusInv, ModeInv, Waits
  <2>12. hpc'.at \in {14, 15} => MIE \notin g'.mmstatus
    BY <1>5, <2>1, <2>3, <2>4, <2>5, <2>6, <2>7 DEF MstatusInv, TypeOK, Globals
  <2>13. hpc'.at = 15 => MPIE \notin g'.mmstatus
    BY <1>5, <2>3, <2>4, <2>5, <2>6, <2>7 DEF TypeOK, Globals
  <2>14. hpc'.at \in {16, 17} /\ pc' \in Waits => MPIE \notin mstatus'
    BY <1>5, <2>1, <2>3, <2>4, <2>5, <2>6, <2>7 DEF MstatusInv, ModeInv, Waits
  <2> QED
    BY <2>1, <2>10, <2>11, <2>12, <2>13, <2>14 DEF MstatusInv, Waits, Computes
<1>6. CASE Return
  BY <1>1, <1>6 DEF Return, MstatusInv, Waits, Computes
<1> QED BY <1>2, <1>3, <1>4, <1>5, <1>6 DEF CpuStep

\* A cycle keeps what the handlers know of irq_mode.
LEMMA ModePreserved ==
  ASSUME TypeOK, MstatusInv, ModeInv, CpuStep
  PROVE  ModeInv'
<1>1. pc \in 1 .. 60 /\ hpc.at \in 0 .. 17 /\ STANDARD # RANDOM /\ g \in Globals
  BY DEF TypeOK, STANDARD, RANDOM
<1>2. CASE Idle
  BY <1>2 DEF Idle, ModeInv
<1>3. CASE Interrupted
  BY <1>1, <1>3 DEF Interrupted, ModeInv
<1>4. CASE hpc.at = 0 /\ MainStep
  <2>1. /\ hpc'.at = 0
        /\ g'.irq_mode = IF pc = 50 THEN RANDOM ELSE g.irq_mode
        /\ pc' > 50 <=> (pc > 49 /\ pc' # pc) \/ pc > 50
    BY <1>1, <1>4 DEF MainStep, MainGlobals, MainOther, MainRegs, MainJumps, Globals
  <2>2. pc = 50 => pc' = 51
    BY <1>4 DEF MainStep, MainGlobals, MainRegs, MainJumps
  <2> QED BY <1>1, <1>4, <2>1, <2>2 DEF ModeInv
<1>5. CASE hpc.at \in 1 .. 16 /\ HandlerStep
  <2>1. pc' = pc /\ pc \in Waits \cup Computes
    BY <1>5 DEF HandlerStep, MstatusInv
  <2>2. CASE hpc.at \in {2, 7}
    <3>1. g' = g /\ hpc'.at = IF g.irq_mode = RANDOM THEN hpc.at + 1
                             ELSE IF hpc.at = 2 THEN 5 ELSE 13
      BY <1>5, <2>2 DEF HandlerStep, HandlerGlobals, HandlerRegs, HandlerJumps
    <3> QED BY <2>1, <2>2, <3>1 DEF ModeInv, Waits, Computes
  <2>3. CASE hpc.at \in {4, 6, 9, 11, 12, 15, 16}
    <3>1. g' = g /\ hpc'.at = IF hpc.at = 12 THEN 16 ELSE hpc.at + 1
      BY <1>5, <2>3 DEF HandlerStep, HandlerGlobals, HandlerRegs, HandlerJumps
    <3> QED BY <2>1, <2>3, <3>1 DEF ModeInv, Waits, Computes
  <2>4. CASE hpc.at \in {8, 10} /\ HandlerGlobals /\ hpc'.at = hpc.at + 1
    BY <1>1, <2>1, <2>4 DEF HandlerGlobals, ModeInv, Globals
  <2>5. CASE hpc.at \in {1, 3, 5, 13, 14} /\ HandlerGlobals /\ hpc'.at = hpc.at + 1
    <3>1. g'.irq_mode = g.irq_mode
      BY <1>1, <2>5 DEF HandlerGlobals, Globals
    <3> QED BY <1>1, <2>1, <2>5, <3>1 DEF ModeInv
  <2>6. hpc.at \in {1, 3, 5, 8, 10, 13, 14} => HandlerGlobals /\ hpc'.at = hpc.at + 1
    BY <1>5 DEF HandlerStep, HandlerRegs, HandlerJumps
  <2> QED BY <1>5, <2>2, <2>3, <2>4, <2>5, <2>6
<1>6. CASE Return
  BY <1>1, <1>6 DEF Return, ModeInv
<1> QED BY <1>2, <1>3, <1>4, <1>5, <1>6 DEF CpuStep

\* A turn of tests 2 and 3 serves one interrupt.
LEMMA ServePreserved ==
  ASSUME TypeOK, MstatusInv, ModeInv, ServeInv, CpuStep
  PROVE  ServeInv'
<1>1. pc \in 1 .. 60 /\ hpc.at \in 0 .. 17 /\ g \in Globals
  BY DEF TypeOK
<1>2. CASE Idle
  BY <1>2 DEF Idle, ServeInv
<1>3. CASE Interrupted
  BY <1>1, <1>3 DEF Interrupted, ServeInv, MstatusInv, MIE, MPIE
<1>4. CASE hpc.at = 0 /\ MainStep
  BY <1>1, <1>4 DEF MainStep, MainGlobals, MainOther, MainRegs, MainJumps, ServeInv, MstatusInv,
     Waits, Computes, Globals
<1>5. CASE hpc.at \in 1 .. 16 /\ HandlerStep
  BY <1>1, <1>5 DEF HandlerStep, HandlerGlobals, HandlerRegs, HandlerJumps, ServeInv, ModeInv,
     MstatusInv, Waits, Computes, Globals
<1>6. CASE Return
  BY <1>1, <1>6 DEF Return, ServeInv, MstatusInv, Waits, Computes, MIE, MPIE
<1> QED BY <1>2, <1>3, <1>4, <1>5, <1>6 DEF CpuStep

\* At most one more register has been drained, and what is raised is what is
\* pending.
LEMMA DrainMoves ==
  ASSUME TypeOK, MstatusInv, ModeInv, DrainInv, CpuStep
  PROVE  /\ Drained' \in Int /\ Drained \in Int
         /\ Drained' >= 1 => regs'.lines = g'.pending
         /\ Drained' >= 2 => Drained' <= Drained + 1 /\ g'.pending = g.pending
<1>1. /\ pc \in 1 .. 60 /\ hpc.at \in 0 .. 17 /\ g \in Globals
      /\ regs \in [mode : {0, STANDARD, RANDOM, SOFTWARE_DEFINED}, min : Nat, max : Nat,
                   lines : SUBSET Lines]
  BY DEF TypeOK
<1>2. Drained \in Int
  BY <1>1 DEF Drained, Waits, Computes
<1>3. Drained >= 1 => regs.lines = g.pending
  BY DEF DrainInv
<1>4. CASE Idle
  <2>1. Drained' = Drained
    BY <1>4 DEF Idle, Drained
  <2> QED BY <1>2, <1>3, <1>4, <2>1 DEF Idle
<1>5. CASE Interrupted
  <2>1. Drained' = (IF pc \in Waits THEN 4 ELSE 0)
    BY <1>1, <1>5 DEF Interrupted, Drained, MstatusInv, Waits, Computes
  <2>2. pc \in Waits => Drained = 6
    BY <1>5 DEF Interrupted, Drained, Waits
  <2> QED BY <1>2, <1>3, <1>5, <2>1, <2>2 DEF Interrupted
<1>6. CASE hpc.at = 0 /\ MainStep
  <2>1. hpc'.at = 0 /\ pc' \in 1 .. 60
    BY <1>1, <1>6 DEF MainStep, MainGlobals, MainRegs, MainJumps
  <2>2. /\ Drained = CASE pc \in 14 .. 21 -> pc - 13 [] pc \in 34 .. 41 -> pc - 33 [] OTHER -> 0
        /\ Drained' = CASE pc' \in 14 .. 21 -> pc' - 13 [] pc' \in 34 .. 41 -> pc' - 33
                        [] OTHER -> 0
    BY <1>6, <2>1 DEF Drained
  <2>3. CASE pc' = pc + 1 /\ MainGlobals /\ UNCHANGED regs
    BY <1>1, <1>3, <2>1, <2>2, <2>3 DEF MainGlobals, MainOther, Globals
  <2>4. CASE pc' = pc + 1 /\ MainRegs /\ UNCHANGED g
    BY <1>1, <1>3, <2>1, <2>2, <2>4 DEF MainRegs
  <2>5. CASE pc' = pc + 1 /\ pc \in {6, 12, 18, 32, 38, 45, 54, 58} /\ UNCHANGED <<g, regs>>
    BY <1>1, <1>3, <2>1, <2>2, <2>5
  <2>6. CASE MainJumps /\ UNCHANGED <<g, regs>>
    BY <1>1, <1>3, <2>1, <2>2, <2>6 DEF MainJumps
  <2> QED BY <1>6, <2>3, <2>4, <2>5, <2>6 DEF MainStep
<1>7. CASE hpc.at \in 1 .. 16 /\ HandlerStep
  <2>1. pc' = pc /\ pc \in Waits \cup Computes
    BY <1>7 DEF HandlerStep, MstatusInv
  <2>2. CASE pc \in Computes
    <3>1. hpc'.at # 0
      BY <1>7 DEF HandlerStep, HandlerGlobals, HandlerRegs, HandlerJumps
    <3>2. Drained' = 0
      BY <2>1, <2>2, <3>1 DEF Drained, Waits, Computes
    <3> QED BY <1>2, <3>2
  <2>3. CASE pc \in Waits
    <3>1. pc \notin Computes /\ pc < 50
      BY <2>3 DEF Waits, Computes
    <3>2. hpc.at \notin {3, 4, 8, 9, 10, 11, 12}
      BY <1>1, <3>1 DEF ModeInv
    <3>3. hpc'.at \in 1 .. 17
      BY <1>7 DEF HandlerStep, HandlerGlobals, HandlerRegs, HandlerJumps
    <3>4. /\ Drained = IF hpc.at < 6 THEN 4 ELSE IF hpc.at = 6 THEN 0 ELSE
                       IF hpc.at < 13 THEN 1 ELSE hpc.at - 11
          /\ Drained' = IF hpc'.at < 6 THEN 4 ELSE IF hpc'.at = 6 THEN 0 ELSE
                        IF hpc'.at < 13 THEN 1 ELSE hpc'.at - 11
      BY <1>7, <2>1, <2>3, <3>1, <3>3 DEF Drained
    <3>5. g.irq_mode # RANDOM
      BY <1>1, <1>7, <3>1, <3>2 DEF ModeInv
    <3>6. CASE hpc.at \in {1, 2, 5, 6, 7}
      BY <1>1, <1>3, <1>7, <3>4, <3>5, <3>6
      DEF HandlerStep, HandlerGlobals, HandlerRegs, HandlerJumps, Globals
    <3>7. CASE hpc.at \in {13, 14, 15, 16}
      BY <1>1, <1>3, <1>7, <3>4, <3>7
      DEF HandlerStep, HandlerGlobals, HandlerRegs, HandlerJumps, Globals
    <3> QED BY <1>7, <3>2, <3>6, <3>7
  <2> QED BY <2>1, <2>2, <2>3
<1>8. CASE Return
  <2>1. pc' = pc /\ pc \in Waits \cup Computes
    BY <1>8 DEF Return, MstatusInv
  <2>2. CASE pc \in Computes
    BY <1>2, <1>8, <2>1, <2>2 DEF Return, Drained, Computes
  <2>3. CASE pc \in Waits
    BY <1>2, <1>3, <1>8, <2>1, <2>3 DEF Return, Drained, Waits, Computes
  <2> QED BY <2>1, <2>2, <2>3
<1> QED BY <1>2, <1>4, <1>5, <1>6, <1>7, <1>8 DEF CpuStep

\* A served line leaves one register after the other before interrupts are
\* enabled again.
LEMMA DrainPreserved ==
  ASSUME TypeOK, ProcessInv, MstatusInv, ModeInv, DrainInv, RandomInv,
         CpuStep, GenEdge, Latch(irq_lines_q)
  PROVE  DrainInv'
<1>1. /\ Drained' \in Int /\ Drained \in Int
      /\ Drained' >= 1 => regs'.lines = g'.pending
      /\ Drained' >= 2 => Drained' <= Drained + 1 /\ g'.pending = g.pending
  BY DrainMoves
<1>2. Drained' >= 2 => irq_sd_lines' \subseteq g'.pending
  BY <1>1, ProcessPreserved DEF DrainInv
<1>3. Drained' >= 3 => irq_lines_q' \subseteq g'.pending
  <2>1. Drained >= 1 => irq_mode_q # RANDOM
    <3>1. Drained >= 1 => pc <= 51
      BY DEF Drained, MstatusInv, Waits, Computes, TypeOK
    <3> QED BY <3>1 DEF RandomInv
  <2>2. irq_mode_q # RANDOM => irq_lines_q' \in {{}, irq_sd_lines, regs.lines \cap Wired}
    BY DEF GenEdge, Selected
  <2> QED BY <1>1, <2>1, <2>2 DEF DrainInv
<1>4. Drained' >= 4 => irq_q' \subseteq g'.pending
  BY <1>1 DEF DrainInv, Latch
<1> QED BY <1>1, <1>2, <1>3, <1>4 DEF DrainInv


\* The random process holds its word until it sees mode STANDARD, and draws none
\* before mode RANDOM.
LEMMA RandomMoves ==
  ASSUME TypeOK, GenEdge
  PROVE  /\ rnd.pc = "std" /\ regs.mode # STANDARD => rnd' = rnd
         /\ rnd.pc = "std" /\ regs.mode = STANDARD => rnd'.pc = "edge"
         /\ rnd.pc \in {"edge", "mode"} /\ regs.mode # RANDOM /\ irq_mode_q # RANDOM =>
              rnd'.pc = "mode"
         /\ rnd.pc = "count" /\ rnd.n <= 1 /\ regs.mode # STANDARD /\ irq_mode_q # STANDARD =>
              rnd'.pc = "std" /\ rnd'.word = rnd.word
<1>1. rnd \in [pc : {"edge", "mode", "act", "count", "std"}, n : Nat, word : SUBSET RandomIds]
  BY DEF TypeOK
<1>2. RndWait \/ RndDraw \/ RndCount \/ RndRaise \/ RndHold \/ RndClear
  BY DEF GenEdge
<1>3. CASE rnd.pc = "std"
  BY <1>1, <1>2, <1>3 DEF RndWait, RndDraw, RndCount, RndRaise, RndHold, RndClear
<1>4. CASE rnd.pc \in {"edge", "mode"}
  BY <1>1, <1>2, <1>4 DEF RndWait, RndDraw, RndCount, RndRaise, RndHold, RndClear
<1>5. CASE rnd.pc = "count"
  <2>1. rnd.n <= 1 => RndRaise
    BY <1>1, <1>2, <1>5 DEF RndWait, RndDraw, RndCount, RndHold, RndClear
  <2> QED BY <1>1, <1>5, <2>1 DEF RndRaise
<1>6. CASE rnd.pc = "act"
  BY <1>6
<1> QED BY <1>1, <1>3, <1>4, <1>5, <1>6

\* main gets to test 5 by the store of mode RANDOM, and the mode changes only
\* there and in a handler's toggle.
LEMMA ModeMoves ==
  ASSUME TypeOK, MstatusInv, ModeInv, RandomInv, CpuStep
  PROVE  /\ pc > 51 => pc' > 51
         /\ pc <= 51 => \/ pc' <= 51 /\ regs'.mode \notin {STANDARD, RANDOM}
                        \/ pc' = 52 /\ regs'.mode = RANDOM
         /\ pc > 51 => regs'.mode = IF hpc'.at \in {10, 11} THEN STANDARD ELSE RANDOM
         /\ pc' > pc => pc' = pc + 1 \/ pc' <= 51
         /\ pc' > 51 /\ pc' # pc => hpc.at = 0 /\ hpc'.at = 0
<1>1. /\ pc \in 1 .. 60 /\ hpc.at \in 0 .. 17 /\ g \in Globals /\ STANDARD # RANDOM
      /\ SOFTWARE_DEFINED \notin {STANDARD, RANDOM}
      /\ regs \in [mode : {0, STANDARD, RANDOM, SOFTWARE_DEFINED}, min : Nat, max : Nat,
                   lines : SUBSET Lines]
  BY DEF TypeOK, STANDARD, RANDOM, SOFTWARE_DEFINED
<1>2. /\ pc <= 51 => regs.mode \notin {STANDARD, RANDOM}
      /\ pc > 51 => regs.mode = IF hpc.at \in {10, 11} THEN STANDARD ELSE RANDOM
  BY DEF RandomInv
<1>3. CASE Idle
  BY <1>1, <1>2, <1>3 DEF Idle
<1>4. CASE Interrupted
  BY <1>1, <1>2, <1>4 DEF Interrupted
<1>5. CASE hpc.at = 0 /\ MainStep
  <2>1. hpc'.at = 0
    BY <1>5 DEF MainStep
  <2>2. /\ pc > 51 => pc' > 51
        /\ pc < 51 => pc' <= 51
        /\ pc = 51 => pc' = 52 /\ regs' = [regs EXCEPT !.mode = g.irq_mode]
        /\ pc' > pc => pc' = pc + 1 \/ pc' <= 51
    <3>1. CASE pc' = pc + 1 /\ (MainGlobals \/ pc \in {6, 12, 18, 32, 38, 45, 54, 58})
      BY <1>1, <3>1 DEF MainGlobals
    <3>2. CASE pc' = pc + 1 /\ MainRegs
      BY <1>1, <3>2 DEF MainRegs
    <3>3. CASE MainJumps
      BY <1>1, <3>3 DEF MainJumps
    <3> QED BY <1>5, <3>1, <3>2, <3>3 DEF MainStep
  <2>3. pc = 51 => regs'.mode = RANDOM
    BY <1>1, <1>5, <2>2 DEF ModeInv
  <2>4. pc # 51 => regs'.mode = regs.mode \/ (regs'.mode = SOFTWARE_DEFINED /\ pc = 3)
    <3>1. UNCHANGED regs \/ MainRegs
      BY <1>5 DEF MainStep
    <3>2. pc = 3 /\ regs' = [regs EXCEPT !.mode = SOFTWARE_DEFINED] =>
            regs'.mode = SOFTWARE_DEFINED
      BY <1>1
    <3>3. \A n : [regs EXCEPT !.min = n].mode = regs.mode
      BY <1>1
    <3>4. \A n : [regs EXCEPT !.max = n].mode = regs.mode
      BY <1>1
    <3>5. \A lines : [regs EXCEPT !.lines = lines].mode = regs.mode
      BY <1>1
    <3>6. ASSUME pc # 51 PROVE regs'.mode = regs.mode \/ pc = 3
      <4>1. CASE pc = 48 /\ regs' = [regs EXCEPT !.min = MinCycles]
        BY <3>3, <4>1
      <4>2. CASE pc = 49 /\ regs' = [regs EXCEPT !.max = MaxCycles]
        BY <3>4, <4>2
      <4>3. CASE pc \in {13, 33} /\ regs' = [regs EXCEPT !.lines = g.pending]
        BY <3>5, <4>3
      <4> QED BY <3>1, <3>6, <4>1, <4>2, <4>3 DEF MainRegs
    <3>7. pc = 3 => regs' = regs \/ regs' = [regs EXCEPT !.mode = SOFTWARE_DEFINED]
      BY <3>1 DEF MainRegs
    <3> QED BY <3>2, <3>6, <3>7
  <2> QED BY <1>1, <1>2, <1>5, <2>1, <2>2, <2>3, <2>4
<1>6. CASE hpc.at \in 1 .. 16 /\ HandlerStep
  <2>1. pc' = pc /\ pc \in Waits \cup Computes
    BY <1>6 DEF HandlerStep, MstatusInv
  <2>2. CASE hpc.at \in {9, 11}
    <3>1. pc > 51 /\ hpc'.at = hpc.at + 1
      BY <1>6, <2>1, <2>2 DEF ModeInv, Waits, Computes, HandlerStep, HandlerGlobals, HandlerRegs,
         HandlerJumps
    <3>2. regs' = [regs EXCEPT !.mode = g.irq_mode]
      BY <1>6, <2>2 DEF HandlerStep, HandlerGlobals, HandlerRegs, HandlerJumps
    <3>3. g.irq_mode = IF hpc.at = 9 THEN STANDARD ELSE RANDOM
      BY <2>2 DEF ModeInv
    <3> QED BY <1>1, <2>1, <2>2, <3>1, <3>2, <3>3
  <2>3. CASE hpc.at \notin {9, 11}
    <3>1. regs'.mode = regs.mode
      BY <1>1, <1>6, <2>3 DEF HandlerStep, HandlerGlobals, HandlerRegs, HandlerJumps
    <3>2. hpc'.at \in {10, 11} <=> hpc.at \in {10, 11}
      BY <1>1, <1>6, <2>3 DEF HandlerStep, HandlerGlobals, HandlerRegs, HandlerJumps
    <3> QED BY <1>1, <1>2, <2>1, <3>1, <3>2
  <2> QED BY <2>2, <2>3
<1>7. CASE Return
  BY <1>1, <1>2, <1>7 DEF Return
<1> QED BY <1>3, <1>4, <1>5, <1>6, <1>7 DEF CpuStep

\* The random process has seen the mode that the program has stored.
LEMMA RandomPreserved ==
  ASSUME TypeOK, ProcessInv, MstatusInv, ModeInv, RandomInv, RaisedInv, MstatusInv', ModeInv',
         TypeOK', CpuStep, GenEdge
  PROVE  RandomInv'
<1>1. /\ pc \in 1 .. 60 /\ hpc.at \in 0 .. 17 /\ pc' \in 1 .. 60 /\ hpc'.at \in 0 .. 17
      /\ STANDARD # RANDOM /\ irq_mode_q' = regs.mode
  BY DEF TypeOK, STANDARD, RANDOM, GenEdge
<1>2. CASE pc <= 51
  <2>1. rnd'.pc = "mode" /\ irq_mode_q' \notin {STANDARD, RANDOM}
    BY <1>1, <1>2, RandomMoves DEF RandomInv
  <2>2. \/ pc' <= 51 /\ regs'.mode \notin {STANDARD, RANDOM}
        \/ pc' = 52 /\ regs'.mode = RANDOM
    BY <1>2, ModeMoves
  <2>3. hpc'.at \notin {10, 11}
    BY <1>1, <2>2 DEF ModeInv, MstatusInv, Waits, Computes
  <2> QED BY <1>1, <2>1, <2>2, <2>3 DEF RandomInv
<1>3. CASE pc > 51
  <2>1. pc' > 51 /\ regs'.mode = IF hpc'.at \in {10, 11} THEN STANDARD ELSE RANDOM
    BY <1>3, ModeMoves
  <2>2. regs.mode = IF hpc.at \in {10, 11} THEN STANDARD ELSE RANDOM
    BY <1>3 DEF RandomInv
  <2>3. hpc.at \in {10, 11} => rnd'.pc \in {"edge", "mode"} /\ hpc'.at \in {10, 11, 12}
    <3>1. CASE hpc.at = 10
      <4>1. rnd.pc = "std" \/ (rnd.pc \in {"edge", "mode"} /\ irq_mode_q = STANDARD)
        BY <1>3, <3>1 DEF RandomInv
      <4>2. hpc'.at \in {10, 11}
        BY <3>1 DEF CpuStep, Idle, Interrupted, HandlerStep, HandlerGlobals, HandlerRegs,
           HandlerJumps, Return
      <4> QED BY <1>1, <2>2, <3>1, <4>1, <4>2, RandomMoves
    <3>2. CASE hpc.at = 11
      <4>1. hpc'.at \in {11, 12}
        BY <3>2 DEF CpuStep, Idle, Interrupted, HandlerStep, HandlerGlobals, HandlerRegs,
           HandlerJumps, Return
      <4> QED BY <1>1, <2>2, <3>2, <4>1, RandomMoves DEF RandomInv
    <3> QED BY <3>1, <3>2
  <2>4. hpc'.at = 10 => hpc.at \in {9, 10}
    BY <1>1 DEF CpuStep, Idle, Interrupted, MainStep, HandlerStep, HandlerGlobals, HandlerRegs,
       HandlerJumps, Return
  <2>5. hpc'.at = 11 => hpc.at \in {10, 11}
    BY <1>1 DEF CpuStep, Idle, Interrupted, MainStep, HandlerStep, HandlerGlobals, HandlerRegs,
       HandlerJumps, Return
  <2>6. pc' > 52 /\ hpc'.at \in 1 .. 10 /\ hpc.at # 10 => rnd'.pc = "std"
    <3> SUFFICES ASSUME pc' > 52, hpc'.at \in 1 .. 10, hpc.at # 10
                 PROVE  rnd'.pc = "std"
      OBVIOUS
    <3>1. hpc.at \in 0 .. 9
      BY <1>1 DEF CpuStep, Idle, Interrupted, MainStep, HandlerStep, HandlerGlobals, HandlerRegs,
         HandlerJumps, Return
    <3>2. regs.mode # STANDARD
      BY <1>1, <2>2, <3>1
    <3>3. CASE hpc.at = 0
      <4>1. Interrupted
        BY <3>3 DEF CpuStep, Idle, MainStep, Return
      <4>2. pc \in Computes /\ irq_q # {}
        BY <1>3, <4>1 DEF Interrupted, MstatusInv, Waits
      <4> QED BY <3>2, <3>3, <4>2, RandomMoves DEF RaisedInv, Raised, Computes
    <3>4. CASE hpc.at \in 1 .. 9
      <4>1. pc = pc'
        BY <3>4 DEF CpuStep, Idle, Interrupted, HandlerStep, Return
      <4> QED BY <3>2, <3>4, <4>1, RandomMoves DEF RandomInv
    <3> QED BY <3>1, <3>3, <3>4
  <2>7. pc' > 52 /\ hpc'.at \in 1 .. 9 => rnd'.pc = "std"
    <3>1. hpc'.at \in 1 .. 9 => hpc.at # 10
      BY <2>3
    <3> QED BY <2>6, <3>1
  <2>8. hpc'.at = 10 => rnd'.pc = "std" \/ irq_mode_q' = STANDARD
    <3>1. hpc'.at = 10 => pc' > 52
      BY <1>1, <2>1 DEF MstatusInv, Waits, Computes
    <3> QED BY <1>1, <2>2, <2>4, <2>6, <3>1
  <2>9. hpc'.at = 11 => rnd'.pc \in {"edge", "mode"} /\ irq_mode_q' = STANDARD
    BY <1>1, <2>2, <2>3, <2>5
  <2>10. irq_mode_q' = STANDARD /\ hpc'.at # 11 =>
           hpc'.at \in {10, 12} /\ rnd'.pc \in {"edge", "mode"}
    BY <1>1, <2>2, <2>3
  <2> QED BY <1>1, <2>1, <2>2, <2>7, <2>8, <2>9, <2>10 DEF RandomInv
<1> QED BY <1>1, <1>2, <1>3

\* In test 5 the lines that reach the core are those of the current word.
LEMMA RaisedPreserved ==
  ASSUME TypeOK, ProcessInv, MstatusInv, ModeInv, RandomInv, RaisedInv, CpuStep, GenEdge,
         Latch(irq_lines_q), TypeOK'
  PROVE  RaisedInv'
<1>1. /\ pc \in 1 .. 60 /\ hpc.at \in 0 .. 17 /\ pc' \in 1 .. 60 /\ hpc'.at \in 0 .. 17
      /\ STANDARD # RANDOM
  BY DEF TypeOK, STANDARD, RANDOM
<1>2. ASSUME NEW n \in {53, 54}, pc' > n PROVE pc > n - 1
  BY <1>1, <1>2, ModeMoves
<1>3. /\ hpc'.at \in {0, 12, 16, 17} => hpc.at \in {0, 11, 12, 15, 16, 17}
      /\ hpc'.at \in {0, 16, 17} => hpc.at \in {0, 12, 15, 16, 17}
  BY <1>1 DEF CpuStep, Idle, Interrupted, MainStep, HandlerStep, HandlerGlobals, HandlerRegs,
     HandlerJumps, Return
<1>4. pc > 51 /\ hpc.at \notin {10, 11} => regs.mode # STANDARD
  BY <1>1 DEF RandomInv
<1>5. ASSUME pc' > 53, hpc'.at \in {0, 12, 16, 17}
      PROVE  irq_lines_q' # {} => rnd'.pc = "std" /\ irq_lines_q' \subseteq rnd'.word
  <2>1. pc > 52
    BY <1>1, <1>2, <1>5
  <2>2. irq_mode_q \in {STANDARD, RANDOM}
    BY <2>1 DEF RandomInv
  <2>3. CASE irq_mode_q = STANDARD
    BY <1>1, <2>3 DEF GenEdge, Selected, STANDARD, RANDOM, SOFTWARE_DEFINED
  <2>4. CASE irq_mode_q = RANDOM
    <3>1. regs.mode # STANDARD
      BY <1>1, <1>3, <1>4, <1>5, <2>1, <2>4 DEF RandomInv
    <3>2. \/ irq_lines_q' = irq_rnd_lines
          \/ rnd.pc = "count" /\ rnd.n <= 1 /\ irq_lines_q' = rnd.word
      <4>1. irq_lines_q' \in {irq_rnd_lines} \cup
              IF rnd.pc = "count" /\ rnd.n <= 1 THEN {rnd.word} ELSE {}
        BY <2>4 DEF GenEdge, Selected, RANDOM, SOFTWARE_DEFINED
      <4> QED BY <4>1
    <3>3. CASE irq_lines_q' = irq_rnd_lines
      BY <3>1, <3>3, RandomMoves DEF ProcessInv
    <3>4. CASE rnd.pc = "count" /\ rnd.n <= 1 /\ irq_lines_q' = rnd.word
      BY <1>1, <2>4, <3>1, <3>4, RandomMoves
    <3> QED BY <3>2, <3>3, <3>4
  <2> QED BY <2>2, <2>3, <2>4
<1>6. ASSUME pc' > 54, hpc'.at \in {0, 16, 17}
      PROVE  irq_q' # {} => rnd'.pc = "std" /\ irq_q' \subseteq rnd'.word
  <2>1. pc > 53
    BY <1>1, <1>2, <1>6
  <2>2. hpc.at \in {0, 12, 16, 17}
    BY <1>1, <1>3, <1>6, <2>1 DEF ModeInv
  <2>3. irq_q' \subseteq irq_lines_q
    BY DEF Latch
  <2>4. Raised(irq_lines_q)
    BY <2>1, <2>2 DEF RaisedInv
  <2>5. regs.mode # STANDARD
    BY <1>1, <1>4, <2>1, <2>2
  <2> QED BY <2>3, <2>4, <2>5, RandomMoves DEF Raised
<1> QED BY <1>5, <1>6 DEF RaisedInv, Raised

-----------------------------------------------------------------------------
\* IInv holds at first and is kept by every step.

\* The invariant holds at first.
LEMMA InitIInv == Init => IInv
<1> SUFFICES ASSUME Init PROVE IInv
  OBVIOUS
<1>1. /\ pc = 1 /\ hpc = [id |-> 0, at |-> 0] /\ mstatus = {} /\ irq_q = {}
      /\ g = [irq_id |-> 0, pending |-> {}, to_test |-> {}, prev |-> {}, first |-> {},
              ie_mask |-> {}, mmstatus |-> {}, irq_mode |-> 0]
      /\ regs = [mode |-> 0, min |-> 0, max |-> 0, lines |-> {}]
      /\ irq_mode_q = 0 /\ irq_lines_q = {} /\ sd = "mode" /\ irq_sd_lines = {}
      /\ rnd = [pc |-> "edge", n |-> 0, word |-> {}] /\ irq_rnd_lines = {}
  BY DEF Init, GenInit
<1>2. TypeOK
  BY <1>1 DEF TypeOK, Globals
<1>3. ProcessInv
  BY <1>1 DEF ProcessInv
<1>4. MstatusInv /\ ModeInv /\ ServeInv
  BY <1>1 DEF MstatusInv, ModeInv, ServeInv, Waits, RANDOM
<1>5. DrainInv
  BY <1>1 DEF DrainInv, Drained
<1>6. RandomInv /\ RaisedInv
  BY <1>1 DEF RandomInv, RaisedInv, STANDARD, RANDOM
<1> QED BY <1>2, <1>3, <1>4, <1>5, <1>6 DEF IInv

\* Every step keeps the invariant.
LEMMA NextIInv == IInv /\ [Next]_vars => IInv'
<1> SUFFICES ASSUME IInv, [Next]_vars PROVE IInv'
  OBVIOUS
<1>1. CASE Cycle
  <2>1. CpuStep /\ GenEdge /\ Latch(irq_lines_q)
    BY <1>1, Steps DEF IInv, Cycle
  <2>2. TypeOK' /\ ProcessInv'
    BY <2>1, TypePreserved, ProcessPreserved DEF IInv
  <2>3. MstatusInv' /\ ModeInv' /\ ServeInv'
    BY <2>1, MstatusPreserved, ModePreserved, ServePreserved DEF IInv
  <2>4. DrainInv'
    BY <2>1, DrainPreserved DEF IInv
  <2>5. RandomInv' /\ RaisedInv'
    BY <2>1, <2>2, <2>3, RandomPreserved, RaisedPreserved DEF IInv
  <2> QED BY <2>2, <2>3, <2>4, <2>5 DEF IInv
<1>2. CASE Finished \/ UNCHANGED vars
  <2>1. UNCHANGED <<regs, irq_mode_q, irq_lines_q, sd, irq_sd_lines, rnd, irq_rnd_lines, irq_q,
                    pc, hpc, g, mstatus>>
    BY <1>2 DEF Finished, vars, genVars, cpuVars
  <2> QED BY <2>1 DEF IInv, TypeOK, ProcessInv, MstatusInv, ModeInv, ServeInv, DrainInv, Drained,
             RandomInv, RaisedInv, Raised
<1> QED BY <1>1, <1>2 DEF Next

\* The invariant of interrupt.c and its interrupt generator.
THEOREM Invariant == Spec => []IInv
BY InitIInv, NextIInv, PTL DEF Spec

\* No handler that writes mstatus back runs while main does: main enables
\* interrupts only where it waits, and in test 5 where the handler takes the other
\* way.
THEOREM MmstatusIsNotTorn == Spec => []MmstatusNotTorn
<1>1. ASSUME IInv, hpc.at # 0, In.op = "clear MPIE"
      PROVE  Main[pc].op \notin {"set MIE", "clear MIE", "csrw"}
  <2>1. TypeOK /\ MstatusInv /\ ModeInv /\ hpc.at # 0
    BY <1>1 DEF IInv
  <2>2. hpc.at \in 1 .. 17 /\ hpc.id \in Wired /\ pc \in 1 .. 60
    BY <2>1 DEF TypeOK
  <2>3. PICK h : h = Handler[hpc.id]
    OBVIOUS
  <2>4. IsHandler(h, hpc.id) /\ h[hpc.at].op = "clear MPIE"
    BY <1>1, <2>2, <2>3, HandlerText DEF In
  <2>5. hpc.at = 14
    BY <2>2, <2>4, HandlerOps
  <2>6. pc \in {19, 39}
    BY <2>1, <2>5 DEF MstatusInv, ModeInv, Waits, Computes
  <2>7. PICK s : s = Main[pc]
    OBVIOUS
  <2>8. s = Stmt("wait")
    BY <2>6, <2>7, MainText
  <2>9. s.op \notin {"set MIE", "clear MIE", "csrw"}
    BY <2>8 DEF Stmt
  <2> QED BY <2>7, <2>9
<1>2. IInv => MmstatusNotTorn
  BY <1>1 DEF MmstatusNotTorn
<1> QED BY <1>2, Invariant, PTL

\* A turn of test 2 or 3 serves at most one interrupt: what the turn has taken
\* out of the pending lines is the one that the handler acknowledged.
THEOREM OneServedPerEnable == Spec => []OneIrqPerEnable
<1>1. IInv => OneIrqPerEnable
  <2> SUFFICES ASSUME IInv, hpc.at = 0, Main[pc].op \in {"wait", "check"}
               PROVE  Cardinality(g.prev \ g.pending) <= 1
    BY DEF OneIrqPerEnable
  <2>1. pc \in 1 .. 60
    BY DEF IInv, TypeOK
  <2>2. pc \in Waits \cup {20, 40}
    BY <2>1, MainOps DEF Waits
  <2>3. g.prev \ g.pending \subseteq {g.irq_id}
    BY <2>2 DEF IInv, ServeInv
  <2>4. PICK served : served = g.prev \ g.pending
    OBVIOUS
  <2>5. IsFiniteSet({g.irq_id}) /\ Cardinality({g.irq_id}) = 1
    BY FS_Singleton
  <2>6. Cardinality(served) <= 1
    BY <2>3, <2>4, <2>5, FS_Subset
  <2> QED BY <2>4, <2>6
<1> QED BY <1>1, Invariant, PTL

\* When the core takes an interrupt the registers between the store and the core
\* hold no line that has been served (tests 2 and 3), or only lines that the
\* random process still raises (test 5).
THEOREM TakesNoStaleIrq == Spec => NoStaleIrq
<1>1. ASSUME IInv, [Next]_vars, hpc.at = 0, hpc'.at # 0
      PROVE  IF g.irq_mode = RANDOM THEN rnd.pc = "std" /\ hpc'.id \in rnd.word
                                    ELSE hpc'.id \in g.pending
  <2>1. Cycle
    BY <1>1 DEF Next, Finished, vars, cpuVars
  <2>2. Interrupted
    BY <1>1, <2>1, Steps DEF IInv, CpuStep, Idle, MainStep, Return
  <2>3. hpc'.id \in irq_q /\ MIE \in mstatus /\ pc \in Waits \cup Computes /\ pc \in 1 .. 60
    BY <1>1, <2>2 DEF Interrupted, IInv, MstatusInv, TypeOK
  <2>4. g.irq_mode = RANDOM <=> pc > 50
    BY <1>1 DEF IInv, ModeInv
  <2>5. CASE pc > 50
    <3>1. pc > 54
      BY <2>3, <2>5 DEF Waits, Computes
    <3> QED BY <1>1, <2>3, <2>4, <2>5, <3>1 DEF IInv, RaisedInv, Raised
  <2>6. CASE ~(pc > 50)
    <3>1. Drained = 6
      BY <1>1, <2>3, <2>6 DEF Drained, Waits, Computes
    <3>2. irq_q \subseteq g.pending
      BY <1>1, <3>1 DEF IInv, DrainInv
    <3> QED BY <2>3, <2>4, <2>6, <3>2
  <2> QED BY <2>5, <2>6
<1>2. IInv /\ [Next]_vars =>
        [hpc.at = 0 /\ hpc'.at # 0 =>
           IF g.irq_mode = RANDOM THEN rnd.pc = "std" /\ hpc'.id \in rnd.word
                                  ELSE hpc'.id \in g.pending]_vars
  BY <1>1
<1> QED BY <1>2, Invariant, PTL DEF Spec, NoStaleIrq
=============================================================================
