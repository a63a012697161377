---------------------------- MODULE CommandLanes ----------------------------
(* How a command is given a lane, on each side of the WebSocket: the broker  *)
(* does it before dispatch (packages/mcp/src/scheduler.ts), the extension    *)
(* again before touching Chrome (apps/extension/stage-three.js).             *)
(* A command is reduced to what the two functions look at: the table its     *)
(* type is listed in, the session and tab it names, and the Clean QA flag.   *)
EXTENDS FiniteSets

CONSTANTS Session,   \* session ids
          NoSession, \* the payload names no session
          Tab,       \* Chrome tab ids
          NoTab      \* the payload names no tab

ASSUME LaneAssumption ==
  /\ NoSession \notin Session
  /\ NoTab \notin Tab

(* The tables both files list: "exclusive" stands for GLOBAL_COMMANDS, the   *)
(* download correlation commands and raw CDP, "tab" for the tab-scoped       *)
(* commands, "session" for those that need no tab, "unlisted" for the rest.  *)
Table == {"exclusive", "tab", "session", "unlisted"}

Commands == [table : Table,
             session : Session \cup {NoSession},
             tab : Tab \cup {NoTab},
             cleanQa : BOOLEAN]

Lanes == [kind : {"global", "session"},
          key : Session \cup {NoSession},
          tabs : SUBSET Tab]

(* scheduler.ts classifyCommand: exclusive unless the scope is proven. *)
ProvenOnTab(c) == c.tab # NoTab /\ c.table = "tab"

MustBeExclusive(c) ==
  \/ c.session = NoSession
  \/ c.cleanQa
  \/ c.table = "exclusive"

classifyCommand(c) ==
  IF MustBeExclusive(c) \/ ~(ProvenOnTab(c) \/ c.table = "session")
    THEN [kind |-> "global", key |-> c.session, tabs |-> {}]
    ELSE [kind |-> "session", key |-> c.session,
          tabs |-> IF ProvenOnTab(c) THEN {c.tab} ELSE {}]

(* stage-three.js classifyCommand: the scope a command holds in the gate.    *)
(* The session is itself a resource there, so a session runs one command at  *)
(* a time; a session-table command that names a tab is exclusive.            *)
gateScope(c) ==
  IF \/ MustBeExclusive(c)
     \/ c.tab = NoTab /\ c.table # "session"
     \/ c.tab # NoTab /\ c.table # "tab"
    THEN [global |-> TRUE, resources |-> {}]
    ELSE [global |-> FALSE, resources |-> {c.session} \cup ({c.tab} \ {NoTab})]
=============================================================================
