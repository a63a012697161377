-------------------------- MODULE SessionLifecycle --------------------------
(* The sessions of one MCP process: session.ts keeps them with the tabs they *)
(* may use, accepted-work.ts counts the calls at work, index.ts runs the     *)
(* calls and the close that waits for them.  Time counts down in units; what *)
(* the process has to do it does before time goes on.  The extension appears *)
(* by its records of who owns which tab, and by what may still write them    *)
(* when nobody waits for it any more (module TabOwnership has the handlers). *)
EXTENDS Integers, FiniteSets

CONSTANTS Session,      \* session ids, each given out once
          Tab, NoTab,
          Call,         \* tool calls at work at the same time
          NoOwner,      \* the extension has no record of the tab
          Ttl,          \* ttl_seconds
          Pin,          \* CLOSING_TTL_SECONDS
          Timeouts,     \* how long the client may wait for a command of a tool call:
                        \* timeout_ms, and what broker-client.ts adds to it (249, 266-279)
          Short,        \* the same for the commands that have their own timeout
          MaxComing     \* bound: writes to come at the same time

ASSUME SessionAssumption ==
  /\ IsFiniteSet(Call)
  /\ NoTab \notin Tab /\ NoOwner \notin Session
  /\ {Ttl, Pin, Short} \cup Timeouts \subseteq Nat \ {0}
  /\ MaxComing \in Nat
  /\ 3 * Short < Pin

VARIABLES session,   \* #sessions
          accepted,  \* #counts of AcceptedWorkTracker
          call,      \* tool calls at work
          close,     \* tabward_session_close at work, by session
          owner,     \* the extension's ownership records
          coming,    \* writes to them that nobody waits for: tab and owner, or deletion
          late,      \* history: tabs whose record such a write has made since it was surveyed
          slow       \* history: sessions with a command that may outlast the pin

vars == <<session, accepted, call, close, owner, coming, late, slow>>

extension == <<owner, coming, late>>

Modes == {"managed", "full_profile"}
Kinds == {"list", "open", "adopt", "use", "release"}
NoCall == [kind |-> "none"]
NoClose == [step |-> "none"]

Gone == [state |-> "expired", mode |-> "managed", left |-> 0, tabs |-> {}]

(* Nothing can be done with an expired session: whatever looks it up finds   *)
(* the time over and deletes it, just as it finds nothing when it is gone.   *)
Live(s) == session[s].state \notin {"unborn", "closed", "expired"} /\ session[s].left > 0

Working(c) == call[c] # NoCall
Longest(a, b) == IF a > b THEN a ELSE b

-----------------------------------------------------------------------------
(* session.ts                                                                *)

touchedAnyState(record) == [record EXCEPT !.left = Ttl]

touched(record) ==
  IF record.state = "active" THEN [record EXCEPT !.left = Ttl] ELSE record

pinnedOnTop(record, state) == [record EXCEPT !.state = state, !.left = @ + Pin]

pinned(record, state) ==
  [record EXCEPT !.state = state, !.left = Longest(@, Pin)]

ownedByOther(s, t) == \E o \in Session \ {s} : Live(o) /\ t \in session[o].tabs

(* assignTab throws for an expired session and for a tab of another one.     *)
assignableToAny(s, t) == Live(s)

assignable(s, t) == Live(s) /\ ~ownedByOther(s, t)

assigned(s, ts) ==
  IF ts = {} THEN session[s]
  ELSE [touched(session[s]) EXCEPT !.tabs = @ \cup ts]

released(s, t) ==
  IF Live(s) THEN [touched(session[s]) EXCEPT !.tabs = @ \ {t}] ELSE session[s]

-----------------------------------------------------------------------------
(* A tool call, index.ts: accepted, then one command of the extension after  *)
(* the other.                                                                *)

(* bridge.send: an expired session is refused by the broker.  A command and  *)
(* the lookup before it and the cleanup after it must fit into the pin.      *)
Ask(c, request, command) ==
  LET s == request.session
      refused == session[s].left = 0
  IN \E timeout \in IF request.kind = "use" /\ command = "command" THEN Timeouts ELSE {Short} :
       /\ call' = [call EXCEPT ![c] =
            [kind |-> request.kind, session |-> s, tab |-> request.tab, seen |-> {},
             ask |-> command, left |-> timeout, answer |-> IF refused THEN "refused" ELSE "none"]]
       /\ slow' = IF timeout + 2 * Short >= Pin THEN slow \cup {s} ELSE slow

(* The finally of AcceptedWorkTracker.run, which wakes who waits. *)
Leave(c) ==
  LET s == call[c].session
  IN /\ call' = [call EXCEPT ![c] = NoCall]
     /\ accepted' = [accepted EXCEPT ![s] = @ - 1]
     /\ close' = IF accepted'[s] = 0 /\ close[s].step = "waiting"
                   THEN [close EXCEPT ![s].step = "ready"] ELSE close

(* send() before the command itself, for a session that knows these tabs.    *)
Route(s, t, tabs) ==
  IF ownedByOther(s, t) THEN "throw"
  ELSE IF t \in tabs THEN "command"
  ELSE IF session[s].mode = "full_profile" THEN "adoptTab"
  ELSE "throw"

FirstCommand(s, kind, t) ==
  CASE kind = "open" -> "openTab"
    [] kind = "adopt" -> "adoptTab"
    [] kind = "list" -> "tabs"
    [] kind \in {"use", "release"} ->
         IF session[s].mode = "managed" /\ t \notin session[s].tabs THEN "tabs"
         ELSE Route(s, t, session[s].tabs)

AcceptInAnyState(c, s, kind, t) ==
  /\ ~Working(c)
  /\ Live(s)
  /\ (kind \in {"list", "open"}) <=> t = NoTab
  /\ kind = "adopt" => session[s].mode = "full_profile"
  /\ FirstCommand(s, kind, t) # "throw"
  /\ session' = [session EXCEPT ![s] = touched(@)]
  /\ accepted' = [accepted EXCEPT ![s] = @ + 1]
  /\ Ask(c, [kind |-> kind, session |-> s, tab |-> t],
         FirstCommand(s, kind, t))
  /\ UNCHANGED <<close, extension>>

(* withAcceptedSessionCommand up to the first await. *)
Accept(c, s, kind, t) ==
  /\ ~Working(c)
  /\ Live(s) /\ session[s].state = "active"
  /\ (kind \in {"list", "open"}) <=> t = NoTab
  /\ kind = "adopt" => session[s].mode = "full_profile"
  /\ FirstCommand(s, kind, t) # "throw"
  /\ session' = [session EXCEPT ![s] = touched(@)]
  /\ accepted' = [accepted EXCEPT ![s] = @ + 1]
  /\ Ask(c, [kind |-> kind, session |-> s, tab |-> t],
         FirstCommand(s, kind, t))
  /\ UNCHANGED <<close, extension>>

(* A tab id that no one has met yet. *)
Fresh(t) ==
  /\ owner[t] = NoOwner /\ \A o \in Session : t \notin session[o].tabs
  /\ \A c \in Call : Working(c) => call[c].tab # t
  /\ \A w \in coming : w[1] # t

Own(t, o) ==
  /\ owner' = [owner EXCEPT ![t] = o]
  /\ late' = late \ {t}

(* The extension does what it was asked, unless the record forbids it. *)
Perform(c) ==
  /\ Working(c) /\ call[c].answer = "none"
  /\ LET s == call[c].session
         t == call[c].tab
         Answer(tab, seen) ==
           call' = [call EXCEPT ![c] = [@ EXCEPT !.answer = "ok", !.left = 0,
                                                 !.tab = tab, !.seen = seen]]
     IN \/ /\ call[c].ask = "tabs"
           /\ Answer(t, {u \in Tab : owner[u] = s})
           /\ UNCHANGED <<owner, late>>
        \/ /\ call[c].ask = "openTab"
           /\ \E u \in Tab : Fresh(u) /\ Own(u, s) /\ Answer(u, {})
        \/ /\ call[c].ask = "adoptTab" /\ owner[t] \in {s, NoOwner}
           /\ Own(t, s)
           /\ Answer(t, {})
        \/ /\ call[c].ask = "command" /\ owner[t] = s
           /\ IF call[c].kind = "release" THEN Own(t, NoOwner) ELSE UNCHANGED <<owner, late>>
           /\ Answer(t, {})
  /\ UNCHANGED <<session, accepted, close, coming, slow>>

(* The command fails, or its answer is lost and its deadline passes. *)
FailUncounted(c) ==
  /\ Working(c)
  /\ call' = [call EXCEPT ![c] = NoCall]
  /\ UNCHANGED <<session, accepted, close, extension, slow>>

(* The handler of an unanswered command goes on after its deadline: what it  *)
(* has found allowed it still writes.                                        *)
GoesOn(c) ==
  LET s == call[c].session
      t == call[c].tab
  IN IF call[c].answer # "none" THEN {}
     ELSE CASE call[c].ask = "openTab" -> {<<u, s>> : u \in {v \in Tab : Fresh(v)}}
            [] call[c].ask = "adoptTab" /\ owner[t] \in {s, NoOwner} -> {<<t, s>>}
            [] call[c].kind = "release" /\ call[c].ask = "command" /\ owner[t] = s
                 -> {<<t, NoOwner>>}
            [] OTHER -> {}

Comes(writes) ==
  /\ coming' = coming \cup writes
  /\ Cardinality(coming') <= MaxComing

Fail(c) ==
  /\ Working(c)
  /\ Leave(c)
  /\ \/ UNCHANGED coming
     \/ \E w \in GoesOn(c) : Comes({w})
  /\ UNCHANGED <<session, owner, late, slow>>

(* What the call does when an answer comes: the tabs the session learns of,  *)
(* and the next command, the end of the call or a throw, which end alike.    *)
Learns(c, ts, next) ==
  LET s == call[c].session
  IN /\ Working(c) /\ call[c].answer = "ok"
     /\ session' = [session EXCEPT ![s] = assigned(s, ts)]
     /\ IF next \in {"end", "throw"} THEN Leave(c) /\ UNCHANGED slow
        ELSE /\ Ask(c, call[c], next)
             /\ UNCHANGED <<accepted, close>>
     /\ UNCHANGED extension

(* syncSessionTabs assigns one tab after the other up to one that throws.    *)
Listed(c) ==
  /\ Working(c) /\ call[c].ask = "tabs"
  /\ LET s == call[c].session
         good == {t \in call[c].seen : assignable(s, t)}
     IN \/ /\ good = call[c].seen
           /\ Learns(c, good, IF call[c].kind = "list" THEN "end"
                              ELSE Route(s, call[c].tab, session[s].tabs \cup good))
        \/ /\ good # call[c].seen
           /\ \E some \in SUBSET good : Learns(c, some, "throw")

Opened(c) ==
  /\ Working(c) /\ call[c].ask = "openTab"
  /\ LET s == call[c].session
         t == call[c].tab
     IN Learns(c, IF assignable(s, t) THEN {t} ELSE {}, "end")

Adopted(c) ==
  /\ Working(c) /\ call[c].ask = "adoptTab"
  /\ LET s == call[c].session
         t == call[c].tab
     IN IF ~assignable(s, t) THEN Learns(c, {}, "throw")
        ELSE Learns(c, {t}, IF call[c].kind = "adopt" THEN "end" ELSE "command")

(* The command itself, and releaseTab after it. *)
Commanded(c) ==
  /\ Working(c) /\ call[c].ask = "command" /\ call[c].answer = "ok"
  /\ LET s == call[c].session
     IN session' = IF call[c].kind = "release"
                     THEN [session EXCEPT ![s] = released(s, call[c].tab)] ELSE session
  /\ Leave(c)
  /\ UNCHANGED <<extension, slow>>

-----------------------------------------------------------------------------
(* tabward_session_start, when the extension has taken the session.          *)
Start(s) ==
  /\ session[s].state = "unborn"
  /\ \E mode \in Modes :
       session' = [session EXCEPT ![s] =
         [state |-> "active", mode |-> mode, left |-> Ttl, tabs |-> {}]]
  /\ UNCHANGED <<accepted, call, close, extension, slow>>

(* tabward_session_close *)

BeginClose(s) ==
  /\ Live(s) /\ session[s].state \in {"active", "cleanup_partial"}
  /\ session' = [session EXCEPT ![s] = pinned(@, "closing")]
  /\ close' = [close EXCEPT ![s] = [step |-> IF accepted[s] = 0 THEN "ready" ELSE "waiting",
                                   left |-> 0, todo |-> {}]]
  /\ UNCHANGED <<accepted, call, extension, slow>>

SendCleanup(s) ==
  /\ close[s].step = "ready"
  /\ close' = [close EXCEPT ![s] =
       IF session[s].left = 0 THEN [step |-> "refused", left |-> 0, todo |-> {}]
       ELSE [step |-> "asked", left |-> Short, todo |-> {}]]
  /\ UNCHANGED <<session, accepted, call, extension, slow>>

(* commandReleaseWorkspace reads the records once.                           *)
SurveyWorkspace(s) ==
  /\ close[s].step = "asked"
  /\ LET found == {t \in Tab : owner[t] = s}
     IN /\ close' = [close EXCEPT ![s].step = "cleaning", ![s].todo = found]
        /\ late' = late \ found
  /\ UNCHANGED <<session, accepted, call, owner, coming, slow>>

(* It goes through what it has found and says how that went; the records are *)
(* not looked at again.                                                      *)
PerformCleanup(s) ==
  /\ close[s].step = "cleaning"
  /\ \E freed \in SUBSET close[s].todo :
       /\ owner' = [t \in Tab |-> IF t \in freed THEN NoOwner ELSE owner[t]]
       /\ late' = late \ freed
       /\ close' = [close EXCEPT ![s].todo = {},
                      ![s].step = IF freed = close[s].todo THEN "completed" ELSE "partial"]
  /\ UNCHANGED <<session, accepted, call, coming, slow>>

(* What a cleanup still does that has not answered in time.                  *)
CleansOn(s) ==
  CASE close[s].step = "asked" -> {<<t, NoOwner>> : t \in {u \in Tab : owner[u] = s}}
    [] close[s].step = "cleaning" -> close[s].todo \X {NoOwner}
    [] OTHER -> {}

Ending == {"asked", "cleaning", "completed", "partial", "refused"}

EndCloseAnyhow(s, done) ==
  /\ close[s].step \in Ending
  /\ done => close[s].step \in {"completed", "partial"}
  /\ close' = [close EXCEPT ![s] = NoClose]
  /\ session' = IF ~Live(s) THEN session
                ELSE [session EXCEPT ![s] = IF done THEN [Gone EXCEPT !.state = "closed"]
                                            ELSE pinned(@, "cleanup_partial")]
  /\ slow' = slow \ {s}
  /\ UNCHANGED <<accepted, call, extension>>

(* With the answer that all is released sessions.close, and after any other  *)
(* or none sessions.cleanupPartial; both throw for an expired session.       *)
EndClose(s, done) ==
  /\ close[s].step \in Ending
  /\ done => close[s].step = "completed"
  /\ close' = [close EXCEPT ![s] = NoClose]
  /\ session' = IF ~Live(s) THEN session
                ELSE [session EXCEPT ![s] = IF done THEN [Gone EXCEPT !.state = "closed"]
                                            ELSE pinned(@, "cleanup_partial")]
  /\ \E writes \in SUBSET CleansOn(s) : Comes(writes)
  /\ slow' = slow \ {s}
  /\ UNCHANGED <<accepted, call, owner, late>>

-----------------------------------------------------------------------------
(* What the extension does that no tool call waits for.                      *)

(* tabs.onCreated: a page of a session opens a tab; the owner of the opener  *)
(* is read first, and the new tab is recorded later.                         *)
ChildOpens(t) ==
  /\ Fresh(t)
  /\ \E u \in Tab : owner[u] # NoOwner /\ Comes({<<t, owner[u]>>})
  /\ UNCHANGED <<session, accepted, call, close, owner, late, slow>>

(* rememberTab and releaseOwnership write whatever the record is by then.    *)
LateWrite(t, o) ==
  /\ <<t, o>> \in coming
  /\ coming' = coming \ {<<t, o>>}
  /\ owner' = [owner EXCEPT ![t] = o]
  /\ late' = IF o = NoOwner THEN late \ {t} ELSE late \cup {t}
  /\ UNCHANGED <<session, accepted, call, close, slow>>

-----------------------------------------------------------------------------
(* Time goes on when the process has nothing to do and no deadline is due.   *)

Due ==
  \/ \E c \in Call : Working(c) /\ (call[c].answer # "none" \/ call[c].left = 0)
  \/ \E s \in Session :
       \/ close[s].step \in {"ready", "completed", "partial", "refused"}
       \/ close[s].step \in {"asked", "cleaning"} /\ close[s].left = 0

(* get and #liveSessions delete an expired session when they next meet it;   *)
(* nobody can tell that from deleting it at once.                            *)
Forgotten(s) ==
  /\ session[s].state \in {"active", "closing", "cleanup_partial"}
  /\ session[s].left <= 1
  /\ accepted[s] = 0 /\ close[s] = NoClose

Less(n) == IF n > 0 THEN n - 1 ELSE 0

Tick ==
  /\ ~Due
  /\ session' = [s \in Session |->
       IF Forgotten(s) THEN Gone ELSE [session[s] EXCEPT !.left = Less(@)]]
  /\ call' = [c \in Call |-> IF Working(c) THEN [call[c] EXCEPT !.left = Less(@)] ELSE NoCall]
  /\ close' = [s \in Session |->
                 IF close[s].step \in {"asked", "cleaning"}
                   THEN [close[s] EXCEPT !.left = Less(@)] ELSE close[s]]
  /\ UNCHANGED <<accepted, extension, slow>>

Init ==
  /\ session = [s \in Session |-> [state |-> "unborn", mode |-> "managed", left |-> 0, tabs |-> {}]]
  /\ accepted = [s \in Session |-> 0]
  /\ call = [c \in Call |-> NoCall]
  /\ close = [s \in Session |-> NoClose]
  /\ owner = [t \in Tab |-> NoOwner]
  /\ coming = {} /\ late = {}
  /\ slow = {}

AnswerStep(c) == Fail(c) \/ Listed(c) \/ Opened(c) \/ Adopted(c) \/ Commanded(c)

CloseStep(s) ==
  \/ SendCleanup(s) \/ SurveyWorkspace(s) \/ PerformCleanup(s)
  \/ \E done \in BOOLEAN : EndClose(s, done)

LateStep(t) == ChildOpens(t) \/ \E o \in Session \cup {NoOwner} : LateWrite(t, o)

Next ==
  \/ \E c \in Call :
       \/ \E s \in Session, kind \in Kinds, t \in Tab \cup {NoTab} :
            Accept(c, s, kind, t)
       \/ Perform(c) \/ AnswerStep(c)
  \/ \E s \in Session : Start(s) \/ BeginClose(s) \/ CloseStep(s)
  \/ \E t \in Tab : LateStep(t)
  \/ Tick

Spec == Init /\ [][Next]_vars

-----------------------------------------------------------------------------
(* Properties.                                                               *)

SessionRecords ==
  [state : {"unborn", "active", "closing", "cleanup_partial", "closed", "expired"},
   mode : Modes, left : 0..Longest(Ttl, Pin), tabs : SUBSET Tab]

CallRecords ==
  [kind : Kinds, session : Session, tab : Tab \cup {NoTab}, seen : SUBSET Tab,
   ask : {"tabs", "openTab", "adoptTab", "command"}, left : Nat,
   answer : {"none", "ok", "refused"}]

CloseRecords ==
  [step : {"waiting", "ready", "asked", "cleaning", "completed", "partial", "refused"},
   left : Nat, todo : SUBSET Tab]

TypeOK ==
  /\ session \in [Session -> SessionRecords]
  /\ accepted \in [Session -> 0..Cardinality(Call)]
  /\ call \in [Call -> CallRecords \cup {NoCall}]
  /\ close \in [Session -> CloseRecords \cup {NoClose}]
  /\ owner \in [Tab -> Session \cup {NoOwner}]
  /\ coming \subseteq Tab \X (Session \cup {NoOwner})
  /\ late \subseteq Tab
  /\ slow \subseteq Session

(* Cleanup of a session is exclusive in the client too: it is not sent while *)
(* a call the session accepted is still at work, and none is accepted after. *)
CleanupFollowsAcceptedWork ==
  \A s \in Session, c \in Call :
    close[s].step \notin {"none", "waiting"} => ~(Working(c) /\ call[c].session = s)

(* No two live sessions of the process hold the same tab, however their      *)
(* calls and the extension's answers interleave.                             *)
TabsAreExclusive ==
  \A s, o \in Session :
    s # o /\ Live(s) /\ Live(o) => session[s].tabs \cap session[o].tabs = {}

(* docs/architecture.md: "so cleanup can cross the original session expiry". *)
(* A session does not expire under its own close, as long as none of its     *)
(* commands was allowed more time than the pin leaves beside the lookup of   *)
(* the tab before the command and the cleanup after it.                      *)
PinCoversCleanup ==
  \A s \in Session : close[s].step # "none" /\ session[s].left = 0 => s \in slow

(* The process forgets a session as closed only when the extension has given *)
(* up every tab of it: its calls had ended and nothing was left out or kept. *)
(* A record there still is for it was made behind the back of that cleanup,  *)
(* by a handler nobody waited for, after the cleanup had read the records:   *)
(* the child tab of a page, or a command past its deadline.                  *)
ClosedIsReleased ==
  \A s \in Session :
    session[s].state = "closed" => \A t \in Tab : owner[t] = s => t \in late

(* A close that waits is waiting for somebody: the last accepted call to end *)
(* wakes it, however the call ends.                                          *)
WaitsForAcceptedWork ==
  \A s \in Session :
    close[s].step = "waiting" => \E c \in Call : Working(c) /\ call[c].session = s
=============================================================================
