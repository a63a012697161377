------------------------------- MODULE CleanQa -------------------------------
(* The incognito window of a Clean QA session (background.js): its lease in  *)
(* the session storage, the checks that nothing else is incognito, and the   *)
(* closing of the window.  Clean QA commands run one at a time               *)
(* (CommandLanes, ResourceGate).  Beside them are the user, who opens and    *)
(* closes incognito windows and tabs, and the listener that records a tab    *)
(* opened by a page of the session.                                          *)
EXTENDS Integers, FiniteSets

CONSTANTS Session, NoSession,
          MaxTabs,    \* bound: incognito tabs so far
          MaxWindows  \* bound: incognito windows at once

CleanQaAssumption ==
  NoSession \notin Session /\ {MaxTabs, MaxWindows} \subseteq Nat

VARIABLES
  tabs,      \* the incognito tabs: window, who opened it, and its ownership record
  lease,     \* CLEAN_QA_STATES_KEY
  expired,   \* leaseExpiresAt is over
  policy,    \* SESSION_POLICIES_KEY has the session
  cmd,       \* the command at work
  listener,  \* the tab that the onCreated listener is at, and where it is with it
  guests     \* history: the user's tabs that were there when the command began

vars == <<tabs, lease, expired, policy, cmd, listener, guests>>

Sessions == Session \cup {NoSession}
Tab == 1..MaxTabs
Window == 1..MaxWindows
NoWindow == 0

Unused == [window |-> NoWindow, by |-> "nobody", owner |-> NoSession]
NoLease == [status |-> "none", window |-> NoWindow]
Status == {"none", "ready", "active", "tainted"}
(* after: what the command does when it has validated. state: what its       *)
(* validation returned. seen: an inventory. owned: the session's tabs as the *)
(* cleanup has read them. tab, window: what it has created. bad: something   *)
(* has failed.                                                               *)
Steps == {"idle", "prepare", "states", "windows", "ownership", "mark", "next", "create",
          "remember", "activate", "closeTab", "removeWindow", "inventory", "closeTabs",
          "closeWindow", "forget"}
After == {"open", "opened", "report", "use", "release"}
Idle == [session |-> NoSession, step |-> "idle", after |-> "use", state |-> NoLease,
         seen |-> {}, owned |-> {}, tab |-> 0, window |-> NoWindow, bad |-> FALSE]
Quiet == [tab |-> 0, step |-> "idle"]

TypeOK ==
  /\ tabs \in [Tab -> [window : Window \cup {NoWindow}, by : {"nobody", "command", "page", "user", "gone"},
                       owner : Sessions]]
  /\ lease \in [Session -> [status : Status, window : Window \cup {NoWindow}]]
  /\ {expired, policy} \subseteq [Session -> BOOLEAN]
  /\ cmd \in [session : Sessions, step : Steps, after : After,
              state : [status : Status, window : Window \cup {NoWindow}],
              seen : SUBSET Tab, owned : SUBSET Tab, tab : Tab \cup {0},
              window : Window \cup {NoWindow}, bad : BOOLEAN]
  /\ listener \in [tab : Tab \cup {0}, step : {"idle", "remember", "store", "validate"}]
  /\ guests \subseteq Tab

Init ==
  /\ tabs = [t \in Tab |-> Unused]
  /\ lease = [s \in Session |-> NoLease]
  /\ expired = [s \in Session |-> FALSE]
  /\ policy = [s \in Session |-> FALSE]
  /\ cmd = Idle /\ listener = Quiet /\ guests = {}

-----------------------------------------------------------------------------
Open == {t \in Tab : tabs[t].window # NoWindow}
Windows == {tabs[t].window : t \in Open}
In(w) == {t \in Open : tabs[t].window = w}
OwnedBy(s) == {t \in Tab : tabs[t].owner = s}
Users == {t \in Open : tabs[t].by = "user"}

(* A tab that is gone has no record (onRemoved).                             *)
Close(T) == tabs' = [t \in Tab |-> IF t \in T THEN [Unused EXCEPT !.by = "gone"] ELSE tabs[t]]

New == {t \in Tab : tabs[t].by = "nobody"}
Fresh == {t \in New : \A u \in New : t <= u}
FreeWindow == Window \ (Windows \cup {lease[s].window : s \in Session} \cup {cmd.state.window, cmd.window})
FreshWindow == {w \in FreeWindow : \A v \in FreeWindow : w <= v}

Opens(t, w, by) == tabs' = [tabs EXCEPT ![t] = [window |-> w, by |-> by, owner |-> NoSession]]

Goes(step) == cmd' = [cmd EXCEPT !.step = step]
Ends == cmd' = Idle

(* getCleanQaStates, then setCleanQaStates of all of them: when both the     *)
(* command and the listener are between the two, the later write undoes the  *)
(* earlier.                                                                  *)
Writes(new) ==
  \/ lease' = new /\ UNCHANGED listener
  \/ listener.step = "store" /\ lease' = lease /\ listener' = [listener EXCEPT !.step = "validate"]

Marked(s) == IF lease[s].status = "none" THEN lease ELSE [lease EXCEPT ![s].status = "tainted"]

-----------------------------------------------------------------------------
(* A command comes: nameSession has no policy to match.  guests is of no use *)
(* but to the commands on a tab.                                             *)

Begin(s) ==
  /\ cmd.step = "idle"
  /\ \/ cmd' = [Idle EXCEPT !.session = s, !.step = "prepare"]
     \/ /\ policy[s]
        /\ \E after \in {"open", "use", "release"} :
             /\ after = "use" => OwnedBy(s) # {}
             /\ cmd' = [Idle EXCEPT !.session = s, !.step = "states", !.after = after,
                                    !.owned = IF after = "release" THEN OwnedBy(s) ELSE {}]
  /\ guests' = IF cmd'.after = "use" /\ cmd'.step = "states" THEN Users ELSE {}
  /\ UNCHANGED <<tabs, lease, expired, policy, listener>>

(* prepareCleanQa: expired leases without a window go, another lease or any  *)
(* incognito window is a refusal.                                            *)
prepareCleanQa ==
  LET s == cmd.session
      kept == [r \in Session |-> IF r # s /\ expired[r] /\ lease[r].window \notin Windows
                                   THEN NoLease ELSE lease[r]]
      competing == \E r \in Session \ {s} : kept[r].status # "none"
  IN /\ cmd.step = "prepare"
     /\ IF competing \/ Open # {}
          THEN Writes(kept) /\ UNCHANGED <<expired, policy>>
          ELSE /\ Writes([kept EXCEPT ![s] = [status |-> "ready", window |-> NoWindow]])
               /\ expired' = [expired EXCEPT ![s] = FALSE]
               /\ policy' \in {policy, [policy EXCEPT ![s] = TRUE]}  \* it may run out of time
     /\ Ends
     /\ UNCHANGED <<tabs, guests>>

-----------------------------------------------------------------------------
(* validateCleanQa                                                           *)

(* The lease; one that is lost comes back tainted.  The session is alive, so *)
(* its lease is prolonged, by a write of what was read when it needs one.    *)
ReadStates ==
  LET s == cmd.session
      lost == lease[s].status = "none"
      state == [status |-> IF lost THEN "tainted" ELSE lease[s].status, window |-> lease[s].window]
  IN /\ cmd.step = "states"
     /\ cmd' = [cmd EXCEPT !.step = IF lost THEN "next" ELSE "windows", !.state = state]
     /\ Writes(IF lost THEN [lease EXCEPT ![s] = [status |-> "tainted", window |-> NoWindow]]
               ELSE lease)
     /\ expired' = [expired EXCEPT ![s] = FALSE]
     /\ UNCHANGED <<tabs, policy, guests>>

ReadWindows ==
  /\ cmd.step = "windows"
  /\ cmd' = [cmd EXCEPT
       !.seen = IF cmd.state.status = "ready" THEN {} ELSE Open,
       !.step = CASE cmd.state.status # "ready" -> "ownership"
                  [] cmd.state.status = "ready" /\ Open # {} -> "mark"
                  [] OTHER -> "next"]
  /\ UNCHANGED <<tabs, lease, expired, policy, listener, guests>>

ReadOwnershipOfWindow ==
  LET own == {t \in cmd.seen : tabs[t].window = cmd.state.window}
  IN /\ cmd.step = "ownership"
     /\ cmd' = [cmd EXCEPT !.seen = {},
          !.step = IF own = {} \/ \E t \in own : tabs[t].owner # cmd.session THEN "mark" ELSE "next"]
     /\ UNCHANGED <<tabs, lease, expired, policy, listener, guests>>

(* The window is there, it is the only one, and all its tabs are the         *)
(* session's; what is seen is a little old by now.                           *)
ReadOwnership ==
  LET own == {t \in cmd.seen : tabs[t].window = cmd.state.window}
  IN /\ cmd.step = "ownership"
     /\ cmd' = [cmd EXCEPT !.seen = {},
          !.step = IF own = {} \/ own # cmd.seen \/ \E t \in own : tabs[t].owner # cmd.session
                     THEN "mark" ELSE "next"]
     /\ UNCHANGED <<tabs, lease, expired, policy, listener, guests>>

markCleanQaTainted ==
  /\ cmd.step = "mark"
  /\ cmd' = [cmd EXCEPT !.step = "next", !.state = Marked(cmd.session)[cmd.session]]
  /\ Writes(Marked(cmd.session))
  /\ UNCHANGED <<tabs, expired, policy, guests>>

-----------------------------------------------------------------------------
(* What follows the validation.                                              *)

Validated(after) == cmd.step = "next" /\ cmd.after = after

(* The dispatch of a command on a tab of the session.                        *)
Admitted == Validated("use") /\ cmd.state.status # "tainted"

Use ==
  /\ Validated("use") \/ Validated("report")
  /\ Ends /\ guests' = {}
  /\ UNCHANGED <<tabs, lease, expired, policy, listener>>

(* commandOpenTab: a window when the lease is ready, a tab in it when it is  *)
(* active.                                                                   *)
Refuse ==
  /\ Validated("open") /\ cmd.state.status \in {"none", "tainted"}
  /\ Ends
  /\ UNCHANGED <<tabs, lease, expired, policy, listener, guests>>

CreateTab ==
  /\ Validated("open") /\ cmd.state.status \in {"ready", "active"}
  /\ \/ \E t \in Fresh, w \in IF cmd.state.status = "ready" THEN FreshWindow
                              ELSE Windows \cap {cmd.state.window} :
          /\ Opens(t, w, "command")
          /\ cmd' = [cmd EXCEPT !.step = "remember", !.tab = t, !.window = w]
     \/ Ends /\ UNCHANGED tabs                     \* the window is gone, Chrome refuses
  /\ UNCHANGED <<lease, expired, policy, listener, guests>>

Remember ==
  /\ cmd.step = "remember"
  /\ tabs' = IF cmd.tab \in Open THEN [tabs EXCEPT ![cmd.tab].owner = cmd.session] ELSE tabs
  /\ IF cmd.state.status = "ready"
       THEN Goes("activate") /\ UNCHANGED <<lease, listener>>
       ELSE /\ cmd' = [cmd EXCEPT !.step = "states", !.after = "report", !.tab = 0, !.window = NoWindow]
            /\ Writes(lease)                                  \* the list of created tabs
  /\ UNCHANGED <<expired, policy, guests>>

Activate ==
  /\ cmd.step = "activate"
  /\ Writes([lease EXCEPT ![cmd.session] = [status |-> "active", window |-> cmd.window]])
  /\ cmd' = [cmd EXCEPT !.step = "states", !.after = "opened"]
  /\ UNCHANGED <<tabs, expired, policy, guests>>

(* It is validated again; tainted, the tab and the window are closed, each   *)
(* if Chrome does it, and the tab is forgotten in any case.                  *)
Opened ==
  /\ Validated("opened")
  /\ cmd' = IF cmd.state.status = "tainted" THEN [cmd EXCEPT !.step = "closeTab"]
            ELSE [cmd EXCEPT !.step = "states", !.after = "report", !.tab = 0, !.window = NoWindow]
  /\ UNCHANGED <<tabs, lease, expired, policy, listener, guests>>

CloseTab ==
  /\ cmd.step = "closeTab"
  /\ Close({cmd.tab}) \/ UNCHANGED tabs
  /\ Goes("removeWindow")
  /\ UNCHANGED <<lease, expired, policy, listener, guests>>

RemoveWindow ==
  /\ cmd.step = "removeWindow"
  /\ \/ Close(In(cmd.window))
     \/ tabs' = [tabs EXCEPT ![cmd.tab].owner = NoSession]
  /\ Ends
  /\ UNCHANGED <<lease, expired, policy, listener, guests>>

-----------------------------------------------------------------------------
(* commandReleaseWorkspace.  The session's tabs were read before it was      *)
(* validated; the tabs of the window are listed now.                         *)

Inventory ==
  /\ Validated("release")
  /\ \/ cmd' = [cmd EXCEPT !.step = "closeTabs", !.seen = In(cmd.state.window) \ cmd.owned]
     \/ /\ cmd.state.window # NoWindow                                 \* it cannot be listed
        /\ cmd' = [cmd EXCEPT !.step = "forget", !.bad = TRUE]
  /\ UNCHANGED <<tabs, lease, expired, policy, listener, guests>>

CloseTabs ==
  /\ cmd.step = "closeTabs"
  /\ \E kept \in SUBSET (cmd.owned \cap Open) :
       /\ Close((cmd.owned \cap Open) \ kept)
       /\ cmd' = [cmd EXCEPT !.bad = kept # {},
                    !.step = IF cmd.state.window # NoWindow /\ cmd.seen = {} THEN "closeWindow" ELSE "forget"]
  /\ UNCHANGED <<lease, expired, policy, listener, guests>>

CloseWindow ==
  /\ cmd.step = "closeWindow"
  /\ \/ Close(In(cmd.state.window)) /\ Goes("forget")
     \/ /\ UNCHANGED tabs
        /\ cmd' = [cmd EXCEPT !.step = "forget", !.bad = @ \/ cmd.state.window \in Windows]
  /\ UNCHANGED <<lease, expired, policy, listener, guests>>

(* The policy goes, then the lease; or the lease stays, tainted and over.    *)
Forget ==
  LET s == cmd.session
  IN /\ cmd.step = "forget"
     /\ IF cmd.bad
          THEN Writes(Marked(s)) /\ expired' = [expired EXCEPT ![s] = TRUE] /\ UNCHANGED policy
          ELSE Writes([lease EXCEPT ![s] = NoLease]) /\ policy' = [policy EXCEPT ![s] = FALSE]
               /\ UNCHANGED expired
     /\ Ends
     /\ UNCHANGED <<tabs, guests>>

-----------------------------------------------------------------------------
(* The onCreated listener, for a tab that a page of a session has opened.    *)

ListenerRemember ==
  /\ listener.step = "remember"
  /\ IF listener.tab \in Open
       THEN /\ \E t \in Open : /\ tabs[t].window = tabs[listener.tab].window
                               /\ tabs[t].owner # NoSession
                               /\ tabs' = [tabs EXCEPT ![listener.tab].owner = tabs[t].owner]
            /\ listener' = [listener EXCEPT !.step = "store"]
       ELSE UNCHANGED tabs /\ listener' = Quiet
  /\ UNCHANGED <<lease, expired, policy, cmd, guests>>

(* The list of created tabs in the lease is not part of the model: what      *)
(* matters of this write is what it undoes (Writes).                         *)
ListenerStore ==
  /\ listener.step = "store"
  /\ listener' = [listener EXCEPT !.step = "validate"]
  /\ UNCHANGED <<tabs, lease, expired, policy, cmd, guests>>

ListenerValidate ==
  LET s == tabs[listener.tab].owner
      own == In(lease[s].window)
      clean == /\ lease[s].status # "ready" /\ own # {} /\ own = Open
               /\ \A t \in own : tabs[t].owner = s
  IN /\ listener.step = "validate"
     /\ listener' = Quiet
     /\ lease' = IF s = NoSession \/ clean THEN lease
                 ELSE IF lease[s].status = "none"
                   THEN [lease EXCEPT ![s] = [status |-> "tainted", window |-> NoWindow]]
                   ELSE Marked(s)
     /\ UNCHANGED <<tabs, expired, policy, cmd, guests>>

-----------------------------------------------------------------------------
(* The user, the pages, time, and the worker.                                *)

UserOpens ==
  /\ \E t \in Fresh, w \in Windows \cup FreshWindow : Opens(t, w, "user")
  /\ UNCHANGED <<lease, expired, policy, cmd, listener, guests>>

UserCloses(t) ==
  /\ t \in Open /\ Close({t})
  /\ guests' = guests \ {t}
  /\ UNCHANGED <<lease, expired, policy, cmd, listener>>

PageOpens ==
  /\ listener = Quiet
  /\ \E opener \in Open, t \in Fresh :
       /\ tabs[opener].owner # NoSession
       /\ Opens(t, tabs[opener].window, "page")
       /\ listener' = [tab |-> t, step |-> "remember"]
  /\ UNCHANGED <<lease, expired, policy, cmd, guests>>

(* (A session whose command is at work has a fresh lease.)                   *)
LeaseExpires(s) ==
  /\ cmd.step = "idle" /\ lease[s].status # "none" /\ ~expired[s]
  /\ expired' = [expired EXCEPT ![s] = TRUE]
  /\ UNCHANGED <<tabs, lease, policy, cmd, listener, guests>>

(* reconcileStaleMetadata of the new worker.                                 *)
WorkerRestarts ==
  /\ cmd.step # "idle" \/ listener # Quiet
  /\ cmd' = Idle /\ listener' = Quiet /\ guests' = {}
  /\ lease' = [s \in Session |-> IF expired[s] /\ lease[s].window \notin Windows THEN NoLease ELSE lease[s]]
  /\ UNCHANGED <<tabs, expired, policy>>

Next ==
  \/ \E s \in Session : Begin(s) \/ LeaseExpires(s)
  \/ prepareCleanQa \/ ReadStates \/ ReadWindows \/ ReadOwnership \/ markCleanQaTainted
  \/ Use \/ Refuse \/ CreateTab \/ Remember \/ Activate \/ Opened \/ CloseTab \/ RemoveWindow
  \/ Inventory \/ CloseTabs \/ CloseWindow \/ Forget
  \/ ListenerRemember \/ ListenerStore \/ ListenerValidate
  \/ UserOpens \/ (\E t \in Tab : UserCloses(t)) \/ PageOpens \/ WorkerRestarts

Spec == Init /\ [][Next]_vars

-----------------------------------------------------------------------------
(* A command on a tab of the session is not let through while a tab of the   *)
(* user is incognito that was so when the command came, in the session's     *)
(* window or another; whatever became of the lease on the way (lost, or its  *)
(* taint undone by the listener) (README.md: Clean QA fails closed).         *)
FailsClosed == Admitted => guests = {}

(* README.md, "Access model": TabWard closes only its owned Clean QA window  *)
(* and fails closed if ownership cannot be proven; docs/architecture.md:     *)
(* cleanup preserves the window if ownership cannot be confirmed.  So a tab  *)
(* of the user is closed by nobody else.                                     *)
ForeignTabsSurvive ==
  [][\A t \in Users : tabs'[t].window # NoWindow \/ UserCloses(t)]_vars

=============================================================================
