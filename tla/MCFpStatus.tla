----------------------------- MODULE MCFpStatus -----------------------------
EXTENDS FpStatus

E(op, f3s, f7s, rs1s, rs2s, rds) ==
  [op : {op}, f3 : f3s, f7 : f7s, rs1 : rs1s, rs2 : rs2s, rd : rds, imm12 : {"none"}]

F3 == 0 .. 7
R == {1}
S == {2}
D == {3}

Integer ==
  UNION {E(op, F3, {0}, {0, 1}, S, {0, 3}) : op \in {"JAL", "JALR", "BRANCH", "STORE",
                                             "LOAD", "LUI", "AUIPC", "FENCE", "AMO"}}
    \cup E("OPIMM", F3, {0, 1, 32}, R, S, D)
    \cup E("OP", F3, {0, 1, 2, 32, 33, 64, 96}, R, S, D)

Float ==
  UNION {E(op, {1, 2, 3}, {0}, R, S, D) : op \in {"LOAD_FP", "STORE_FP"}}
    \cup E("OP_FMADD", {0, 5, 7}, {16, 17}, R, S, D)
    \cup E("OP_FP", {0, 1, 2, 3, 5, 7}, {4 * f5 : f5 \in 0 .. 31} \cup {1}, R, {0, 1, 2}, D)

Pulp ==
  E("CUSTOM_0", F3, {0}, {0, 1}, S, D)
    \cup E("CUSTOM_1", {0, 1, 2, 5}, {0}, {0, 1}, S, D)
    \cup E("CUSTOM_1", {3}, 0 .. 127, {0, 1}, {0, 2}, D)
    \cup E("CUSTOM_1", {4}, {0, 1}, {0, 1}, {0, 2}, 0 .. 31)
    \cup E("CUSTOM_2", F3, {0, 4, 32, 64, 96, 100}, R, S, D)
    \cup E("CUSTOM_3", F3, 0 .. 127, R, {0, 1, 2, 4, 8}, D)

Sys(f3s, rs1s, rds, names) ==
  [op : {"SYSTEM"}, f3 : f3s, f7 : {0}, rs1 : rs1s, rs2 : {0}, rd : rds, imm12 : names]

System ==
  Sys({0}, {0, 1}, {0}, {"ecall", "ebreak", "mret", "dret", "wfi", "uret"})
    \cup Sys(F3, {0, 1}, D,
             {"mstatus", "mepc", "mscratch", "fflags", "frm", "fcsr", "mhartid",
              "counter", "usercounter", "dcsr", "trigger", "lpstart", "privlv",
              "zfinx", "none"})

MCInsn == Integer \cup Float \cup Pulp \cup System

MCFpuInsn ==
  E("LOAD_FP", {2}, {0}, R, S, D) \cup E("OP", {0}, {0}, R, S, D)
    \cup E("OP_FP", {7}, {0, 12, 104}, R, {0}, D)
    \cup Sys({1, 2}, R, D, {"mstatus", "frm", "fflags"})
    \cup Sys({3}, R, D, {"mstatus"})

Conf(pulp, cluster, f, zfinx, addmul, others) ==
  [pulp |-> pulp, cluster |-> cluster, fpu |-> f, zfinx |-> zfinx,
   addmul |-> addmul, others |-> others]

From(cfg, debug, fs, frm) ==
  [c |-> cfg, debug_mode |-> debug, fs |-> fs, frm_legal |-> frm]

MCStart ==
  LET base == Conf(FALSE, FALSE, FALSE, FALSE, 0, 0)
      pulp == Conf(TRUE, FALSE, FALSE, FALSE, 0, 0)
      float == Conf(FALSE, FALSE, TRUE, FALSE, 0, 1)
      both == Conf(TRUE, TRUE, TRUE, FALSE, 2, 0)
      zfinx == Conf(TRUE, FALSE, TRUE, TRUE, 1, 2)
  IN  {From(base, TRUE, 0, TRUE), From(pulp, FALSE, 0, TRUE),
       From(float, FALSE, 0, TRUE), From(float, FALSE, 1, TRUE),
       From(both, FALSE, 1, TRUE), From(both, TRUE, 1, FALSE),
       From(zfinx, FALSE, 0, TRUE)}

\* The shortest program that shows the disagreement.
MCFewInsn == E("LOAD_FP", {2}, {0}, R, S, D) \cup Sys({2}, R, D, {"mstatus"})
MCOneStart == {From(Conf(FALSE, FALSE, TRUE, FALSE, 0, 0), FALSE, 1, TRUE)}
=============================================================================
