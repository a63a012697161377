---------------------------- MODULE TabOwnership ----------------------------
(* Who may use which tab: the ownership records, the existing-tab access     *)
(* setting, and the commands and Chrome events of background.js that change  *)
(* them.  A handler is cut at its awaits: between two steps of it any other  *)
(* handler may run, and only stateStore.mutate is atomic.  A command is      *)
(* admitted under the contract of the resource gate (ResourceIsolation);     *)
(* at its deadline it gives the gate back and goes on.                       *)
EXTENDS CommandLanes, Integers, Sequences

CONSTANTS FullProfile,  \* the sessions that may adopt tabs
          UserTab,      \* the tabs open before any session
          NoRecord,     \* the tab has no ownership record
          Offered,      \* the commands clients send
          Op,           \* commands at work at the same time
          Updater,      \* writers of the settings: the popup, an approval
          MaxTimeouts, MaxDeaths  \* bounds: faults in a behaviour

ASSUME OwnershipAssumption ==
  /\ FullProfile \subseteq Session
  /\ UserTab \subseteq Tab
  /\ Offered \subseteq {"work", "openTab", "adoptTab", "releaseTab", "closeTab",
                         "handoff", "releaseWorkspace"}
  /\ Updater \subseteq {"popup", "approval"}
  /\ {MaxTimeouts, MaxDeaths} \subseteq Nat

VARIABLES tabs,     \* open in Chrome
          unborn,   \* tab ids not given out yet
          owned,    \* OWNERSHIP_KEY in chrome.storage.session
          access,   \* allowExistingTabs in chrome.storage.local
          session,  \* the client's view of each session
          cmd,      \* the commands at work
          child,    \* tabs.onCreated handlers at work, by tab
          gone,     \* tabs whose tabs.onRemoved handler is at work
          update,   \* updateUserSettings calls at work
          timeouts, deaths

vars == <<tabs, unborn, owned, access, session, cmd, child, gone, update,
          timeouts, deaths>>

chromeVars == <<tabs, unborn, child, gone>>
faultVars == <<timeouts, deaths>>

Created == {"created", "created-child"}
Kinds == Created \cup {"adopted", "released"}

(* late: history, it was written by a handler that had left the gate, or for *)
(* a session that was no longer active.                                      *)
Records == [session : Session, kind : Kinds, previousKind : Kinds \cup {"none"},
            late : BOOLEAN]

ASSUME RecordAssumption == NoRecord \notin Records

Owns(s, t) ==
  owned[t] # NoRecord /\ owned[t].session = s /\ owned[t].kind # "released"

-----------------------------------------------------------------------------
(* A command: what is left of its handler, one name for each await.          *)

(* "assert", "work", "resume": assertTabOwnership inside                     *)
(* bestEffort(finishTabWork); whatever it throws, the handler resumes.       *)
Handler ==
  [work |-> <<"work">>,
   openTab |-> <<"create", "remember">>,
   adoptTab |-> <<"access", "tab", "look">>,
   releaseTab |-> <<"assert", "work", "resume", "drop">>,
   closeTab |-> <<"assert", "work", "resume", "remove", "forget">>,
   handoff |-> <<"work", "keep">>,
   releaseWorkspace |-> <<"survey", "each">>]

(* dispatch(): the access check that a full-profile session may not fail,    *)
(* and the ownership of the tab.  The handlers that assert it once more at   *)
(* once have that assertion for both.                                        *)
Dispatch(type, s) ==
  LET handler == <<"handler">> \o Handler[type]
      checked == IF type \in {"openTab", "adoptTab", "releaseWorkspace"} THEN handler
                 ELSE <<IF type = "closeTab" THEN "assertCreated" ELSE "assert">> \o handler
  IN IF s \in FullProfile /\ type \notin {"releaseWorkspace", "releaseTab"}
       THEN <<"access">> \o checked
       ELSE checked

CommandOfTablessAdoption(type, s, t) ==
  [table |-> CASE type = "releaseWorkspace" -> "exclusive"
               [] type \in {"openTab", "adoptTab"} -> "session"
               [] OTHER -> "tab",
   session |-> s, tab |-> IF type = "adoptTab" THEN NoTab ELSE t, cleanQa |-> FALSE]

CommandOf(type, s, t) ==
  [table |-> CASE type = "releaseWorkspace" -> "exclusive"
               [] type = "openTab" -> "session"
               [] OTHER -> "tab",
   session |-> s, tab |-> t, cleanQa |-> FALSE]

Idle == [type |-> "none", todo |-> <<>>]
Busy(op) == cmd[op] # Idle
At(op, step) == Busy(op) /\ Head(cmd[op].todo) = step
Rest(op) == Tail(cmd[op].todo)
InHandler(op) == \A i \in DOMAIN cmd[op].todo : cmd[op].todo[i] # "handler"

Compatible(a, b) ==
  /\ ~gateScope(a).global /\ ~gateScope(b).global
  /\ gateScope(a).resources \cap gateScope(b).resources = {}

(* The markers "handler" and "resume" are no steps. *)
Skip(todo) ==
  IF todo # <<>> /\ Head(todo) \in {"handler", "resume"} THEN Tail(todo) ELSE todo

(* The command goes on as c says, or has nothing left to do. *)
Become(op, c) ==
  cmd' = [cmd EXCEPT ![op] =
            IF Skip(c.todo) = <<>> THEN Idle ELSE [c EXCEPT !.todo = Skip(c.todo)]]

Goto(op, todo) == Become(op, [cmd[op] EXCEPT !.todo = todo])

Proceed(op) == Goto(op, Rest(op))

(* A throw ends the handler, or what bestEffort runs. *)
Resumption(todo) ==
  LET marks == {i \in DOMAIN todo : todo[i] = "resume"}
  IN IF marks = {} THEN <<>>
     ELSE SubSeq(todo, 1 + CHOOSE i \in marks : \A j \in marks : i <= j, Len(todo))

Throw(op) == Goto(op, IF InHandler(op) THEN Resumption(Rest(op)) ELSE <<>>)

Own(t, record) == owned' = [owned EXCEPT ![t] = record]
RecordOf(op, kind) ==
  [session |-> cmd[op].session, kind |-> kind, previousKind |-> "none",
   late |-> ~cmd[op].gate]
-----------------------------------------------------------------------------
(* The gate and dispatch(), background.js and stage-three.js.                *)

(* The client sends commands of active sessions only, and releaseWorkspace   *)
(* for one it is closing; the gate lets in what is compatible with all it    *)
(* holds.                                                                    *)
Admissible(type, s) ==
  IF type = "releaseWorkspace"
    THEN session[s] \in {"active", "cleanup_partial"}
    ELSE session[s] = "active" /\ (type = "adoptTab" => s \in FullProfile)

Begin(op, type, s, t, close) ==
  /\ ~Busy(op)
  /\ Admissible(type, s)
  /\ t = NoTab <=> type \in {"openTab", "releaseWorkspace"}
  /\ close => type = "releaseWorkspace"
  /\ \A other \in Op :
       Busy(other) /\ cmd[other].gate =>
         Compatible(CommandOf(type, s, t), cmd[other].command)
  /\ cmd' = [cmd EXCEPT ![op] =
       [type |-> type, todo |-> Skip(Dispatch(type, s)), session |-> s, tab |-> t,
        command |-> CommandOf(type, s, t), close |-> close, survey |-> {},
        partial |-> FALSE, gate |-> TRUE, granted |-> access]]
  /\ session' = IF type = "releaseWorkspace"
                  THEN [session EXCEPT ![s] = "closing"] ELSE session
  /\ UNCHANGED <<chromeVars, owned, access, update, faultVars>>

(* withTimeout around the handler: the command is answered and leaves the    *)
(* gate, its handler goes on.                                                *)
Timeout(op) ==
  /\ Busy(op) /\ cmd[op].gate /\ InHandler(op)
  /\ timeouts < MaxTimeouts
  /\ timeouts' = timeouts + 1
  /\ cmd' = [cmd EXCEPT ![op].gate = FALSE]
  /\ session' = IF cmd[op].type = "releaseWorkspace"
                  THEN [session EXCEPT ![cmd[op].session] = "cleanup_partial"]
                  ELSE session
  /\ UNCHANGED <<chromeVars, owned, access, update, deaths>>

(* getUserSettings in dispatch and at the start of commandAdoptTab. *)
CheckAccess(op) ==
  /\ At(op, "access")
  /\ IF access THEN Proceed(op) ELSE Throw(op)
  /\ UNCHANGED <<chromeVars, owned, access, session, update, faultVars>>

-----------------------------------------------------------------------------
(* assertTabOwnership: the record, then for an adopted tab the setting, then *)
(* the tab.  granted is history: was access on at any time since?            *)

Assert(op) ==
  /\ At(op, "assert") \/ At(op, "assertCreated")
  /\ LET t == cmd[op].tab
         allowed == /\ Owns(cmd[op].session, t)
                    /\ At(op, "assertCreated") => owned[t].kind \in Created
         check == IF owned[t].kind = "adopted" THEN "verifyAdopted" ELSE "verify"
     IN IF allowed
          THEN Become(op, [cmd[op] EXCEPT !.todo = <<check>> \o Rest(op), !.granted = access])
          ELSE Throw(op)
  /\ UNCHANGED <<chromeVars, owned, access, session, update, faultVars>>

VerifyTabOnly(op) ==
  /\ At(op, "verify") \/ At(op, "verifyAdopted")
  /\ IF cmd[op].tab \in tabs THEN Proceed(op)
     ELSE Goto(op, <<"vanished">> \o Rest(op))
  /\ UNCHANGED <<chromeVars, owned, access, session, update, faultVars>>

Verify(op) ==
  /\ \/ /\ At(op, "verifyAdopted")
        /\ Goto(op, <<IF access THEN "verify" ELSE "revoke">> \o Rest(op))
     \/ /\ At(op, "verify")
        /\ IF cmd[op].tab \in tabs THEN Proceed(op)
           ELSE Goto(op, <<"vanished">> \o Rest(op))
  /\ UNCHANGED <<chromeVars, owned, access, session, update, faultVars>>

(* releaseOwnership and forgetTab delete the record, whosever it is by then; *)
(* as part of an assertion they are followed by its throw.                   *)
Delete(op) ==
  /\ \E step \in {"drop", "revoke", "forget", "vanished"} : At(op, step)
  /\ Own(cmd[op].tab, NoRecord)
  /\ IF At(op, "revoke") \/ At(op, "vanished") THEN Throw(op) ELSE Proceed(op)
  /\ UNCHANGED <<chromeVars, access, session, update, faultVars>>

DropFailsUnnoticed(op) ==
  /\ At(op, "drop") /\ cmd[op].type = "releaseWorkspace"
  /\ Proceed(op)
  /\ UNCHANGED owned \/ Own(cmd[op].tab, NoRecord)
  /\ UNCHANGED <<chromeVars, access, session, update, faultVars>>

(* commandReleaseWorkspace counts a release that took too long as a failure, *)
(* whether or not it got as far as the record.                               *)
DropFails(op) ==
  /\ At(op, "drop") /\ cmd[op].type = "releaseWorkspace"
  /\ Become(op, [cmd[op] EXCEPT !.todo = Rest(op), !.partial = TRUE])
  /\ UNCHANGED owned \/ Own(cmd[op].tab, NoRecord)
  /\ UNCHANGED <<chromeVars, access, session, update, faultVars>>

-----------------------------------------------------------------------------
(* The handlers.                                                             *)

(* Whatever a command does to the page, finishTabWork and handoffTab too. *)
Work(op) ==
  /\ At(op, "work")
  /\ Proceed(op)
  /\ UNCHANGED <<chromeVars, owned, access, session, update, faultVars>>

(* commandHandoff: releaseOwnership(tabId, true). *)
Keep(op) ==
  /\ At(op, "keep")
  /\ LET t == cmd[op].tab
     IN IF owned[t] = NoRecord THEN UNCHANGED owned
        ELSE Own(t, [owned[t] EXCEPT !.kind = "released", !.previousKind = owned[t].kind])
  /\ Proceed(op)
  /\ UNCHANGED <<chromeVars, access, session, update, faultVars>>

(* commandOpenTab: chrome.tabs.create gives no opener. *)
CreateTab(op) ==
  /\ At(op, "create")
  /\ \E t \in unborn :
       /\ tabs' = tabs \cup {t}
       /\ unborn' = unborn \ {t}
       /\ Become(op, [cmd[op] EXCEPT !.todo = Rest(op), !.tab = t])
  /\ UNCHANGED <<owned, access, session, child, gone, update, faultVars>>

Remember(op) ==
  /\ At(op, "remember")
  /\ Own(cmd[op].tab, RecordOf(op, "created"))
  /\ Proceed(op)
  /\ UNCHANGED <<chromeVars, access, session, update, faultVars>>

(* commandAdoptTab *)
GetTab(op) ==
  /\ At(op, "tab")
  /\ IF cmd[op].tab \in tabs THEN Proceed(op) ELSE Throw(op)
  /\ UNCHANGED <<chromeVars, owned, access, session, update, faultVars>>

Look(op) ==
  /\ At(op, "look")
  /\ LET record == owned[cmd[op].tab]
     IN IF record = NoRecord THEN Goto(op, <<"claim", "confirm">>)
        ELSE IF record.kind = "released" /\ record.session = cmd[op].session
          THEN Goto(op, <<"restore", "confirm">>)
        ELSE Throw(op)
  /\ UNCHANGED <<chromeVars, owned, access, session, update, faultVars>>

Claim(op) ==
  /\ At(op, "claim")
  /\ Own(cmd[op].tab, RecordOf(op, "adopted"))
  /\ Proceed(op)
  /\ UNCHANGED <<chromeVars, access, session, update, faultVars>>

RestoreAsRecorded(op) ==
  /\ At(op, "restore")
  /\ LET t == cmd[op].tab
     IN IF owned[t] = NoRecord THEN UNCHANGED owned /\ Throw(op)
        ELSE /\ Own(t, [owned[t] EXCEPT !.kind = owned[t].previousKind,
                                         !.previousKind = "none", !.late = ~cmd[op].gate])
             /\ Proceed(op)
  /\ UNCHANGED <<chromeVars, access, session, update, faultVars>>

Restore(op) ==
  /\ At(op, "restore")
  /\ LET t == cmd[op].tab
         current == owned[t]
         changed == \/ current = NoRecord
                    \/ current.kind # "released"
                    \/ current.session # cmd[op].session
     IN IF changed THEN UNCHANGED owned /\ Throw(op)
        ELSE /\ Own(t, [current EXCEPT
                          !.kind = IF current.previousKind = "none" THEN "adopted"
                                   ELSE current.previousKind,
                          !.previousKind = "none", !.late = ~cmd[op].gate])
             /\ Proceed(op)
  /\ UNCHANGED <<chromeVars, access, session, update, faultVars>>

ConfirmBlindly(op) ==
  /\ At(op, "confirm")
  /\ Proceed(op)
  /\ UNCHANGED <<chromeVars, owned, access, session, update, faultVars>>

Confirm(op) ==
  /\ At(op, "confirm")
  /\ IF access THEN Proceed(op) ELSE Goto(op, <<"revoke">>)
  /\ UNCHANGED <<chromeVars, owned, access, session, update, faultVars>>

-----------------------------------------------------------------------------
(* commandReleaseWorkspace works through the records it read at first.       *)

Survey(op) ==
  /\ At(op, "survey")
  /\ Become(op, [cmd[op] EXCEPT
       !.todo = Rest(op),
       !.survey = {[tab |-> t, kind |-> owned[t].kind] :
                     t \in {u \in Tab : Owns(cmd[op].session, u)}}])
  /\ UNCHANGED <<chromeVars, owned, access, session, update, faultVars>>

(* finishTabWork, then the tab is closed or its record dropped.              *)
ReleaseOne(closing) ==
  IF closing THEN <<"assert", "work", "resume", "remove", "forget", "each">>
  ELSE <<"assert", "work", "resume", "drop", "each">>

ReleaseNextOfAnyKind(op) ==
  /\ At(op, "each")
  /\ \E item \in cmd[op].survey :
       Become(op, [cmd[op] EXCEPT !.todo = ReleaseOne(cmd[op].close),
                                  !.survey = cmd[op].survey \ {item}, !.tab = item.tab])
  /\ UNCHANGED <<chromeVars, owned, access, session, update, faultVars>>

ReleaseNext(op) ==
  /\ At(op, "each")
  /\ \E item \in cmd[op].survey :
       LET closing == cmd[op].close /\ item.kind \in Created
       IN Become(op, [cmd[op] EXCEPT !.todo = ReleaseOne(closing),
                                     !.survey = cmd[op].survey \ {item}, !.tab = item.tab])
  /\ UNCHANGED <<chromeVars, owned, access, session, update, faultVars>>

Released(op) ==
  /\ At(op, "each")
  /\ cmd[op].survey = {}
  /\ Proceed(op)
  /\ session' = IF ~cmd[op].gate THEN session
                ELSE [session EXCEPT ![cmd[op].session] =
                        IF cmd[op].partial THEN "cleanup_partial" ELSE "closed"]
  /\ UNCHANGED <<chromeVars, owned, access, update, faultVars>>

(* chrome.tabs.remove, in commandCloseTab and in the loop above, which takes *)
(* a tab that is not there any more for removed and goes on after a failure. *)
RemoveTab(op) ==
  /\ At(op, "remove")
  /\ \/ /\ cmd[op].tab \in tabs
        /\ tabs' = tabs \ {cmd[op].tab}
        /\ gone' = gone \cup {cmd[op].tab}
        /\ Proceed(op)
     \/ /\ cmd[op].tab \notin tabs /\ cmd[op].type = "releaseWorkspace"
        /\ Proceed(op)
        /\ UNCHANGED <<tabs, gone>>
     \/ /\ cmd[op].type = "closeTab"
        /\ Throw(op)
        /\ UNCHANGED <<tabs, gone>>
     \/ /\ cmd[op].tab \in tabs /\ cmd[op].type = "releaseWorkspace"
        /\ Become(op, [cmd[op] EXCEPT !.todo = <<"each">>, !.partial = TRUE])
        /\ UNCHANGED <<tabs, gone>>
  /\ UNCHANGED <<unborn, owned, access, session, child, update, faultVars>>

-----------------------------------------------------------------------------
(* Chrome's events.                                                          *)

NoHandler == [step |-> "none"]

(* A page or the user opens a tab out of another one. *)
OpenChild(opener, t) ==
  /\ opener \in tabs /\ t \in unborn
  /\ tabs' = tabs \cup {t}
  /\ unborn' = unborn \ {t}
  /\ child' = [child EXCEPT ![t] = [step |-> "look", opener |-> opener]]
  /\ UNCHANGED <<owned, access, session, cmd, gone, update, faultVars>>

(* onCreated: the session that owns the opener. *)
ChildLooks(t) ==
  /\ child[t].step = "look"
  /\ LET record == owned[child[t].opener]
     IN child' = [child EXCEPT ![t] =
          IF record = NoRecord \/ record.kind = "released" THEN NoHandler
          ELSE [step |-> "remember", session |-> record.session]]
  /\ UNCHANGED <<tabs, unborn, owned, access, session, cmd, gone, update, faultVars>>

ChildRemembered(t) ==
  /\ child[t].step = "remember"
  /\ Own(t, [session |-> child[t].session, kind |-> "created-child",
             previousKind |-> "none", late |-> session[child[t].session] # "active"])
  /\ child' = [child EXCEPT ![t] = NoHandler]
  /\ UNCHANGED <<tabs, unborn, access, session, cmd, gone, update, faultVars>>

UserCloses(t) ==
  /\ t \in tabs
  /\ tabs' = tabs \ {t}
  /\ gone' = gone \cup {t}
  /\ UNCHANGED <<unborn, owned, access, session, cmd, child, update, faultVars>>

(* onRemoved: forgetTab. *)
Forgotten(t) ==
  /\ t \in gone
  /\ gone' = gone \ {t}
  /\ Own(t, NoRecord)
  /\ UNCHANGED <<tabs, unborn, access, session, cmd, child, update, faultVars>>

-----------------------------------------------------------------------------
(* updateUserSettings: the popup switches access on or off, a trust decision *)
(* writes the settings it has read.                                          *)

Patches == [popup |-> {"enable", "disable"}, approval |-> {"trust"}]
NoUpdate == [step |-> "none"]

BeginUpdate(u, patch) ==
  /\ update[u] = NoUpdate
  /\ patch \in Patches[u]
  /\ update' = [update EXCEPT ![u] = [step |-> "write", patch |-> patch, current |-> access]]
  /\ UNCHANGED <<chromeVars, owned, access, session, cmd, faultVars>>

WriteSettings(u) ==
  /\ update[u].step = "write"
  /\ access' = IF update[u].patch = "trust" THEN update[u].current
               ELSE update[u].patch = "enable"
  /\ update' = [update EXCEPT ![u] =
       IF @.current /\ ~access' THEN [step |-> "survey"] ELSE NoUpdate]
  /\ cmd' = [op \in Op |->
       IF Busy(op) /\ access' THEN [cmd[op] EXCEPT !.granted = TRUE] ELSE cmd[op]]
  /\ UNCHANGED <<chromeVars, owned, session, faultVars>>

(* releaseAdoptedTabs *)
SurveyAdopted(u) ==
  /\ update[u].step = "survey"
  /\ update' = [update EXCEPT ![u] =
       [step |-> "release",
        tabs |-> {t \in Tab : owned[t] # NoRecord /\ owned[t].kind = "adopted"}]]
  /\ UNCHANGED <<chromeVars, owned, access, session, cmd, faultVars>>

ReleaseAdopted(u) ==
  /\ update[u].step = "release"
  /\ \/ \E t \in update[u].tabs :
          /\ Own(t, NoRecord)
          /\ update' = [update EXCEPT ![u].tabs = @ \ {t}]
     \/ /\ update[u].tabs = {}
        /\ update' = [update EXCEPT ![u] = NoUpdate]
        /\ UNCHANGED owned
  /\ UNCHANGED <<chromeVars, access, session, cmd, faultVars>>

(* The service worker is killed: its handlers are gone, storage is not, and  *)
(* the client takes what it was waiting for as failed.                       *)
WorkerDies ==
  /\ deaths < MaxDeaths
  /\ deaths' = deaths + 1
  /\ cmd' = [op \in Op |-> Idle]
  /\ child' = [t \in Tab |-> NoHandler]
  /\ gone' = {}
  /\ update' = [u \in Updater |-> NoUpdate]
  /\ session' = [s \in Session |->
                   IF session[s] = "closing" THEN "cleanup_partial" ELSE session[s]]
  /\ UNCHANGED <<tabs, unborn, owned, access, timeouts>>

-----------------------------------------------------------------------------
Init ==
  /\ tabs = UserTab
  /\ unborn = Tab \ UserTab
  /\ owned = [t \in Tab |-> NoRecord]
  /\ access \in BOOLEAN
  /\ session = [s \in Session |-> "active"]
  /\ cmd = [op \in Op |-> Idle]
  /\ child = [t \in Tab |-> NoHandler]
  /\ gone = {}
  /\ update = [u \in Updater |-> NoUpdate]
  /\ timeouts = 0 /\ deaths = 0

DispatchStep(op) ==
  Timeout(op) \/ CheckAccess(op) \/ Assert(op) \/ Verify(op) \/ Delete(op)
    \/ DropFails(op)

HandlerStep(op) ==
  Work(op) \/ Keep(op) \/ CreateTab(op) \/ Remember(op) \/ GetTab(op) \/ Look(op)
    \/ Claim(op) \/ Restore(op) \/ Confirm(op) \/ Survey(op) \/ ReleaseNext(op)
    \/ Released(op) \/ RemoveTab(op)

ChromeEvent(t) ==
  (\E opener \in Tab : OpenChild(opener, t))
    \/ ChildLooks(t) \/ ChildRemembered(t) \/ UserCloses(t) \/ Forgotten(t)

SettingsStep(u) ==
  (\E patch \in Patches[u] : BeginUpdate(u, patch))
    \/ WriteSettings(u) \/ SurveyAdopted(u) \/ ReleaseAdopted(u)

Next ==
  \/ \E op \in Op :
       \/ \E type \in Offered, s \in Session, t \in Tab \cup {NoTab}, close \in BOOLEAN :
            Begin(op, type, s, t, close)
       \/ DispatchStep(op) \/ HandlerStep(op)
  \/ \E t \in Tab : ChromeEvent(t)
  \/ \E u \in Updater : SettingsStep(u)
  \/ WorkerDies

Spec == Init /\ [][Next]_vars

-----------------------------------------------------------------------------
(* Properties.                                                               *)

TypeOK ==
  /\ tabs \subseteq Tab \ unborn
  /\ unborn \subseteq Tab \ UserTab
  /\ owned \in [Tab -> Records \cup {NoRecord}]
  /\ access \in BOOLEAN
  /\ session \in [Session -> {"active", "closing", "cleanup_partial", "closed"}]
  /\ \A op \in Op : Busy(op) =>
       /\ cmd[op].session \in Session
       /\ cmd[op].todo # <<>>
       /\ cmd[op].tab \in Tab \cup {NoTab}
  /\ gone \subseteq Tab \ tabs
  /\ timeouts \in 0..MaxTimeouts /\ deaths \in 0..MaxDeaths

(* The page of a tab the user had is touched only by a command that found    *)
(* the access setting on when, or after, it last looked up the tab's owner.  *)
NoWorkWithoutAccess ==
  \A op \in Op : At(op, "work") /\ cmd[op].tab \in UserTab => cmd[op].granted

(* Switching access off releases what is adopted: once the switch is done    *)
(* and no adoption is under way, nothing is adopted.  (A killed worker may   *)
(* leave the switch half done; NoWorkWithoutAccess holds even then.)         *)
Quiet ==
  /\ \A u \in Updater : update[u] = NoUpdate
  /\ \A op \in Op : Busy(op) => cmd[op].type # "adoptTab"

RevocationReleases ==
  Quiet /\ ~access /\ deaths = 0 =>
    \A t \in Tab : owned[t] # NoRecord => owned[t].kind # "adopted"

(* No tab the user had is ever about to be closed, on whatever way it went   *)
(* through adoption, handoff, release and adoption again.                    *)
PreservesUserTabs ==
  \A op \in Op : At(op, "remove") => cmd[op].tab \notin UserTab

(* Adoption takes a tab of the user from nobody: the look at its record and  *)
(* the unconditional write of rememberTab are two steps, and only the gate   *)
(* keeps other adoptions out, so one of the two must have outlived its       *)
(* deadline.  (A tab a session has just opened has no record yet, and there  *)
(* the opening and an adoption do overwrite each other.)                     *)
TakesOver(t) ==
  /\ owned[t] # NoRecord /\ owned[t].kind # "released"
  /\ owned'[t] # NoRecord /\ owned'[t].session # owned[t].session

AdoptionTakesNothing ==
  [][\A t \in UserTab : TakesOver(t) => owned[t].late \/ owned'[t].late]_vars

(* Closing a session leaves it no tab, but for one that was remembered after *)
(* its command's deadline or reported by Chrome when the close had begun.    *)
ClosedSessionOwnsNothing ==
  \A t \in Tab :
    /\ owned[t] # NoRecord /\ owned[t].kind # "released"
    /\ session[owned[t].session] = "closed"
    => owned[t].late

(* docs/security.md: "revoke it at any time". *)
RevocationSticks ==
  [][~access /\ access' =>
       \E u \in Updater : update[u].step = "write" /\ update[u].patch = "enable"]_vars
=============================================================================
