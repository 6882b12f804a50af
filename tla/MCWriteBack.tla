---------------------------- MODULE MCWriteBack ----------------------------
EXTENDS WriteBack, TLC

I(kind, reads, alu, mem, lat) ==
  [kind |-> kind, reads |-> reads, alu |-> alu, mem |-> mem, lat |-> lat]

MCInsn ==
  {I("alu", s, d, None, 0) : s \in {{r} : r \in Reg}, d \in Reg}
    \cup {I(k, {}, d, None, 0) : k \in {"div", "mulh", "csr"}, d \in Reg}
    \cup {I("jalr", {s}, d, None, 0) : s \in Reg, d \in Reg \cup {Zero}}
    \cup {I("branch", {s}, None, None, 0) : s \in Reg}
    \cup {I("load", {s}, None, d, 0) : s \in Reg, d \in Reg \cup {Zero}}
    \cup {I("load", {s}, s, d, 0) : s \in {r \in Reg : COREV_PULP}, d \in Reg}
    \cup {I("load", {}, z, d, 0) : z \in {x \in {Zero} : COREV_PULP}, d \in Reg}
    \cup {I("store", {s}, None, None, 0) : s \in Reg}
    \cup {I("store", {s}, z, None, 0) : z \in {x \in {Zero} : COREV_PULP}, s \in Reg}
    \cup {I("store", {s}, s, None, 0) : s \in {r \in Reg : COREV_PULP}}
    \cup {I("apu", {s}, d, None, l) : s \in Reg, d \in Reg, l \in 1 .. 3}

MCSymmetry == Permutations(Reg)
=============================================================================
