--------------------------- MODULE MCTabOwnership ---------------------------
(* Two full-profile sessions, a tab of the user and one opened later.  A     *)
(* behaviour is of one of two scenarios: the user's tab is adopted, released *)
(* and handed over while the popup switches access on and off and a command  *)
(* may outlive its deadline; or tabs are opened and closed.  In both the     *)
(* worker may be killed; a behaviour has one fault.                          *)
EXTENDS TabOwnership

TLCM == INSTANCE TLC

CONSTANTS f1, f2, u1, n1, c1, c2

VARIABLE scenario

MCSession == {f1, f2}
MCTab == {u1, n1}
MCUserTab == {u1}
MCOp == {c1, c2}
Adopting == {"work", "adoptTab", "releaseTab", "handoff", "releaseWorkspace"}
Closing == {"openTab", "adoptTab", "closeTab", "handoff", "releaseWorkspace"}
Every == Adopting \cup Closing
Popup == {"popup"}
Both == {"popup", "approval"}

Requested == [adoption |-> Adopting, cleanup |-> Closing]
Tabs == [adoption |-> MCUserTab, cleanup |-> MCTab]

MCInit == Init /\ scenario \in DOMAIN Requested

MCNext ==
  /\ UNCHANGED scenario
  /\ \/ \E op \in Op :
          \/ \E type \in Requested[scenario], s \in Session, t \in Tabs[scenario] \cup {NoTab}, close \in BOOLEAN :
               Begin(op, type, s, t, close)
          \/ CheckAccess(op) \/ Assert(op) \/ Verify(op) \/ Delete(op) \/ DropFails(op)
          \/ HandlerStep(op)
          \/ scenario = "adoption" /\ deaths = 0 /\ Timeout(op)
     \/ \E t \in Tab : ChildLooks(t) \/ ChildRemembered(t) \/ UserCloses(t) \/ Forgotten(t)
     \/ scenario = "cleanup" /\ \E opener, t \in Tab : OpenChild(opener, t)
     \/ timeouts = 0 /\ WorkerDies
     \/ scenario = "adoption" /\ \E u \in Updater : SettingsStep(u)

MCSpec == MCInit /\ [][MCNext]_<<vars, scenario>>

Symmetry == TLCM!Permutations(MCSession) \cup TLCM!Permutations(MCOp)
=============================================================================
