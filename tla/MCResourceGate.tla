---------------------------- MODULE MCResourceGate ---------------------------
(* Commands of two sessions on two tabs, one of them shared, and an exclusive *)
(* one.                                                                      *)
EXTENDS ResourceGate

CONSTANTS s1, s2, t1, t2, a1, a2, b1, b2, g1

MCSession == {s1, s2}
MCTab == {t1, t2}
MCOp == {a1, a2, b1, b2, g1}

OnTab(s, t) == [table |-> "tab", session |-> s, tab |-> t, cleanQa |-> FALSE]
Tabless(s) == [table |-> "session", session |-> s, tab |-> NoTab, cleanQa |-> FALSE]
Alone(s) == [table |-> "exclusive", session |-> s, tab |-> NoTab, cleanQa |-> FALSE]

CommandOf(op) ==
  CASE op = a1 -> OnTab(s1, t1)
    [] op = a2 -> Tabless(s1)
    [] op = b1 -> OnTab(s2, t1)
    [] op = b2 -> OnTab(s2, t2)
    [] op = g1 -> Alone(s1)

MCCommand == [op \in MCOp |-> CommandOf(op)]

(* Two commands of different sessions on one tab. *)
PairOp == {a1, b1, g1}
PairCommand == [op \in PairOp |-> CommandOf(op)]
=============================================================================
