--------------------------- MODULE MCCoordination ----------------------------
(* The two places in the extension where the commands of a session meet      *)
(* those of others: the gate, and the ownership records.  They share no      *)
(* state; a behaviour is one of either, and the scenarios of the records are *)
(* those of MCTabOwnership.                                                  *)
EXTENDS MCTabOwnership

CONSTANTS s1, s2, t1, t2, a1, a2, b1, b2, e1

VARIABLES gate, phase, aborted, live

OnTab(s, t) == [table |-> "tab", session |-> s, tab |-> t, cleanQa |-> FALSE]

(* Two sessions that share a tab, and exclusive work of one of them.         *)
GatedCommand ==
  [op \in {a1, a2, b1, b2, e1} |->
     CASE op = a1 -> OnTab(s1, t1)
       [] op = a2 -> [OnTab(s1, NoTab) EXCEPT !.table = "session"]
       [] op = b1 -> OnTab(s2, t1)
       [] op = b2 -> OnTab(s2, t2)
       [] op = e1 -> [OnTab(s1, NoTab) EXCEPT !.table = "exclusive"]]

G == INSTANCE ResourceGate WITH
  Session <- {s1, s2}, Tab <- {t1, t2}, Op <- DOMAIN GatedCommand, Command <- GatedCommand

gateVars == <<gate, phase, aborted, live>>

AllInit == Init /\ G!Init /\ scenario \in DOMAIN Requested \cup {"gate"}

AllNext ==
  \/ scenario # "gate" /\ MCNext /\ UNCHANGED gateVars
  \/ scenario = "gate" /\ G!Next /\ UNCHANGED <<scenario, vars>>

allVars == <<scenario, vars, gateVars>>

AllSpec == AllInit /\ [][AllNext]_allVars

-----------------------------------------------------------------------------
(* The properties of the gate, in its own scenario.                          *)

(* The state of the gate has its type.                                       *)
GateTypeOK == scenario = "gate" => G!TypeOK

(* What the gate holds is what runs.                                         *)
HoldsWhatRuns == scenario = "gate" => G!HoldsWhatRuns

(* Nothing that could start is left waiting by the gate.                     *)
NothingLeftWaiting == scenario = "gate" => G!NothingLeftWaiting

(* Nothing passes a waiting exclusive command.                               *)
ExclusiveBarrier == [][scenario = "gate" => G!PassesNone]_allVars

(* The gate implements the contract of isolation.                            *)
GateIsolation ==
  /\ scenario = "gate" => G!Isolation!Init
  /\ [][scenario = "gate" => [G!Isolation!Next]_(G!Isolation!vars)]_allVars
=============================================================================
