---------------------------- MODULE CdpOwnership ----------------------------
(* The debugger of one tab: who is attached, which operation claims which    *)
(* long-lived CDP resource, and what Chrome has really switched on.          *)
(* background.js keeps cdpTabs, one event broker per tab with its            *)
(* resourceOwners, and the attachment's record in the session storage;       *)
(* stage-three.js has the claim rules.  Commands of one tab run one after    *)
(* the other (ResourceGate), but each of them awaits Chrome, and meanwhile   *)
(* Chrome detaches, traces complete, the worker dies, and the revocation of  *)
(* access releases the tab without asking the gate.                          *)
EXTENDS Integers, FiniteSets

CONSTANTS Session,
          Resource,   \* of "events", "interception", "emulation", "tracing", "screencast"
          NoSession,
          MaxStray    \* bound: detaches given up on by their caller and still under way

CdpAssumption ==
  /\ NoSession \notin Session
  /\ Resource \subseteq {"events", "interception", "emulation", "tracing", "screencast"}
  /\ MaxStray \in Nat

VARIABLES
  tab,       \* the ownership record: its session, and whether it was handed off
  attached,  \* the extension's debugger is attached, says Chrome
  effects,   \* what it has switched on in Chrome ("ending": Tracing.end is taken)
  known,     \* the tab is in cdpTabs
  lease,     \* sessionId of its record under CDP_OWNERSHIP_KEY
  broker,    \* its event broker exists
  owners,    \* resourceOwners of that broker
  traced,    \* traceComplete of that broker
  emulated,  \* it has a record under EMULATION_STATES_KEY
  cmd,       \* the command at work on the tab
  release,   \* the release of a revoked tab
  stray      \* detaches nobody waits for any more

memoryVars == <<known, broker, owners, traced>>
vars == <<tab, attached, effects, memoryVars, lease, emulated, cmd, release, stray>>

Sessions == Session \cup {NoSession}

(* An owner record's operationId is compared with that of the command at     *)
(* work and with nothing else: "running" is that one, "earlier" any other.   *)
Owner == [session : Session, state : {"active", "stopping"}, op : {"running", "earlier"}]
NoOwner == [session |-> NoSession, state |-> "active", op |-> "earlier"]
Nobody == [r \in Resource |-> NoOwner]

Owned(o) == {r \in Resource : o[r] # NoOwner}
Foreign(o, s) == {r \in Owned(o) : o[r].session # s}

Effects == (Resource \ {"events"}) \cup {"ending"}

(* left: CDP calls still to make. prior, had: what composite QA found.       *)
Steps == {"attach", "lease", "send", "store", "wait", "detach", "snapshot"}
Command(op, s, r, step, left) ==
  [op |-> op, session |-> s, resource |-> r, step |-> step, left |-> left,
   prior |-> Nobody, hadBroker |-> FALSE, hadTab |-> FALSE, hadEmulation |-> FALSE]
Idle == Command("none", NoSession, "events", "send", 0)
Ops == {"none", "start", "stop", "emulate", "clear", "traceStop", "touch", "attach",
        "detach", "turnEnded", "cleanup", "release", "handoff",
        "qa", "qaEvents", "qaClear", "qaAgain", "qaEnd"}

TypeOK ==
  /\ tab \in [session : Sessions, released : BOOLEAN]
  /\ {attached, known, broker, traced, emulated} \subseteq BOOLEAN
  /\ effects \subseteq Effects
  /\ lease \in Sessions
  /\ owners \in [Resource -> Owner \cup {NoOwner}]
  /\ ~broker => owners = Nobody
  /\ cmd \in [op : Ops, session : Sessions, resource : Resource \cup {"events", "emulation"},
              step : Steps, left : 0..2, prior : [Resource -> Owner \cup {NoOwner}],
              hadBroker : BOOLEAN, hadTab : BOOLEAN, hadEmulation : BOOLEAN]
  /\ release \in [step : {"none", "detach"}, session : Sessions]
  /\ stray \in 0..MaxStray

NoRelease == [step |-> "none", session |-> NoSession]

Init ==
  /\ tab = [session |-> NoSession, released |-> FALSE]
  /\ attached = FALSE /\ effects = {}
  /\ known = FALSE /\ lease = NoSession
  /\ broker = FALSE /\ owners = Nobody /\ traced = FALSE
  /\ emulated = FALSE
  /\ cmd = Idle /\ release = NoRelease /\ stray = 0

-----------------------------------------------------------------------------
(* stage-three.js: claims.                                                   *)

Mine(s) == [session |-> s, state |-> "active", op |-> "running"]

claimable(o, r, s) == o[r] \in {NoOwner, Mine(s)}
claimResource(o, r, s) == [o EXCEPT ![r] = Mine(s)]

(* A stop is refused to another session; a stop of what is being stopped     *)
(* takes it over, so that a stop that failed can be tried again.             *)
transitionable(o, r, s) == o[r].session \in {s, NoSession}
transitionResource(o, r) ==
  IF o[r] = NoOwner THEN o
  ELSE [o EXCEPT ![r] = [@ EXCEPT !.state = "stopping", !.op = "running"]]

releaseResource(o, r) == [o EXCEPT ![r] = NoOwner]

completeStoppingResource(o, r) ==
  IF r \in Resource /\ o[r].state = "stopping" THEN releaseResource(o, r) ELSE o

sessionDetachAnyway(s) ==
  [belongs |-> s \in {lease, tab.session} \cup {owners[r].session : r \in Owned(owners)},
   detach |-> TRUE]

sessionDetachDecision(s) ==
  [belongs |-> s \in {lease, tab.session} \cup {owners[r].session : r \in Owned(owners)},
   detach |-> Foreign(owners, s) = {}]

-----------------------------------------------------------------------------
(* A command ends: its operation is an earlier one from here on.             *)

Aged(o) == [r \in Resource |-> IF o[r] = NoOwner THEN NoOwner ELSE [o[r] EXCEPT !.op = "earlier"]]

Finish(o) == owners' = Aged(o) /\ cmd' = Idle

(* cdpSend: attach first when the tab is not in cdpTabs.                     *)
Sending(c) == [c EXCEPT !.step = IF known THEN "send" ELSE "attach"]

-----------------------------------------------------------------------------
(* Commands, up to their first await.                                        *)

(* commandInterceptionStart, commandScreencastStart, commandTraceStart and   *)
(* commandEventsStart.  Interception enables the network events first: two   *)
(* calls, each of which attaches if it has to.                               *)
commandStart(s, r) ==
  /\ r # "emulation"
  /\ claimable(owners, r, s)
  /\ broker' = TRUE
  /\ owners' = claimResource(owners, r, s)
  /\ traced' = (traced /\ r # "tracing")
  /\ cmd' = Sending(Command("start", s, r, "send", IF r = "interception" THEN 2 ELSE 1))

(* commandInterceptionStop and commandScreencastStop.  Events are stopped    *)
(* without any call to Chrome.                                               *)
commandStop(s, r) ==
  /\ r \notin {"emulation", "tracing"}
  /\ owners[r] # NoOwner /\ transitionable(owners, r, s)
  /\ IF r = "events"
       THEN owners' = releaseResource(owners, r) /\ UNCHANGED cmd
       ELSE /\ owners' = transitionResource(owners, r)
            /\ cmd' = Sending(Command("stop", s, r, "send", 1))
  /\ UNCHANGED <<broker, traced>>

(* commandTraceStop, up to its wait: Tracing.end goes out only when the      *)
(* claim was active; a retry waits for the completion of the first.          *)
commandTraceStop(s) ==
  /\ "tracing" \in Resource
  /\ transitionable(owners, "tracing", s)
  /\ owners' = transitionResource(owners, "tracing")
  /\ \/ /\ owners["tracing"].session = s /\ owners["tracing"].state = "active"
        /\ cmd' = Sending(Command("traceStop", s, "tracing", "send", 1))
     \/ /\ ~(owners["tracing"].session = s /\ owners["tracing"].state = "active")
        /\ owners["tracing"] # NoOwner \/ traced
        /\ cmd' = Command("traceStop", s, "tracing", "wait", 0)
  /\ UNCHANGED <<broker, traced>>

(* commandEmulation: the overrides, or settings.clear.  Applying them does   *)
(* not give the claim back on an error; clearing gives it back only when     *)
(* every override was cleared.                                               *)
commandEmulation(s) ==
  /\ "emulation" \in Resource
  /\ broker' = TRUE
  /\ \/ /\ claimable(owners, "emulation", s)
        /\ owners' = claimResource(owners, "emulation", s)
        /\ cmd' = Sending(Command("emulate", s, "emulation", "send", 2))
     \/ /\ transitionable(owners, "emulation", s)
        /\ owners' = transitionResource(owners, "emulation")
        /\ cmd' = Sending(Command("clear", s, "emulation", "send", 1))
  /\ UNCHANGED traced

(* Every other command that talks CDP (input, screenshot, evaluate, storage, *)
(* network bodies, interception answers), and an explicit attach.            *)
commandTouch(s) ==
  /\ \/ cmd' = Sending(Command("touch", s, "events", "send", 1))
     \/ ~known /\ cmd' = Command("attach", s, "events", "attach", 0)
  /\ UNCHANGED <<broker, owners, traced>>

(* An explicit detach is refused while anything is claimed.                  *)
commandDetach(s) ==
  /\ Owned(owners) = {}
  /\ IF known
       THEN cmd' = Command("detach", s, "events", "detach", 0) /\ UNCHANGED <<broker, owners, traced>>
       ELSE broker' = FALSE /\ traced' = FALSE /\ UNCHANGED <<cmd, owners>>

(* The end of a turn detaches the tabs of the session, its cleanup every     *)
(* attachment that is the session's in any way; both leave a tab alone on    *)
(* which another session has a claim.                                        *)
commandTurnEnded(s) ==
  /\ known /\ Foreign(owners, s) = {}
  /\ cmd' = Command("turnEnded", s, "events", "detach", 0)
  /\ UNCHANGED <<broker, owners, traced>>

cdpDetachSession(s) ==
  /\ known
  /\ sessionDetachDecision(s).belongs /\ sessionDetachDecision(s).detach
  /\ cmd' = Command("cleanup", s, "events", "detach", 0)
  /\ UNCHANGED <<broker, owners, traced>>

(* Composite QA notes what it finds, then looks up the stored emulation.     *)
commandQa(s) ==
  /\ {"emulation", "events"} \subseteq Resource
  /\ \E r \in {"emulation", "events"} :
       cmd' = [Command("qa", s, r, "snapshot", 0) EXCEPT
                 !.prior = owners, !.hadBroker = broker, !.hadTab = known]
  /\ UNCHANGED <<broker, owners, traced>>

-----------------------------------------------------------------------------
(* releaseOwnership: the debugger first, then the record, whatever came of   *)
(* that.  A handoff keeps the record, marked as released.                    *)

Forget(keep) == tab' = [session |-> IF keep THEN tab.session ELSE NoSession, released |-> keep]

Undetachable == Foreign(owners, tab.session) # {}

(* detachOwnedTabResources when nothing has to be awaited.                   *)
ReleaseAtOnce(keep) ==
  /\ Undetachable \/ ~known
  /\ Forget(keep)
  /\ IF Undetachable
       THEN UNCHANGED <<broker, owners, traced, emulated>>
       ELSE broker' = FALSE /\ owners' = Nobody /\ traced' = FALSE /\ emulated' = FALSE

releaseOwnership(s, op) ==
  \/ ReleaseAtOnce(op = "handoff") /\ UNCHANGED cmd
  \/ /\ known /\ ~Undetachable
     /\ cmd' = Command(op, s, "events", "detach", 0)
     /\ UNCHANGED <<tab, broker, owners, traced, emulated>>

(* releaseAdoptedTabs, of a revocation, does not go through the gate.        *)
Revoke ==
  /\ release = NoRelease /\ tab.session # NoSession /\ ~tab.released
  /\ \/ ReleaseAtOnce(FALSE) /\ UNCHANGED release
     \/ /\ known /\ ~Undetachable
        /\ release' = [step |-> "detach", session |-> tab.session]
        /\ UNCHANGED <<tab, broker, owners, traced, emulated>>
  /\ UNCHANGED <<attached, effects, known, lease, cmd, stray>>

-----------------------------------------------------------------------------
(* A command starts: one at a time, of the session whose tab it is.          *)

Holds(s) == tab.session = s /\ ~tab.released

Begin(s) ==
  /\ cmd = Idle
  /\ \/ /\ Holds(s)
        /\ \/ \E r \in Resource : commandStart(s, r) \/ commandStop(s, r)
           \/ commandTraceStop(s)
           \/ commandEmulation(s)
           \/ commandTouch(s)
           \/ commandDetach(s)
           \/ commandTurnEnded(s)
           \/ commandQa(s)
        /\ UNCHANGED <<tab, emulated>>
     \/ cdpDetachSession(s) /\ UNCHANGED <<tab, emulated>>
     \/ Holds(s) /\ \E op \in {"release", "handoff"} : releaseOwnership(s, op)
     \/ /\ tab.session = NoSession \/ tab.released     \* commandAdoptTab
        /\ tab' = [session |-> s, released |-> FALSE]
        /\ UNCHANGED <<broker, owners, traced, emulated, cmd>>
  /\ UNCHANGED <<attached, effects, known, lease, release, stray>>

-----------------------------------------------------------------------------
(* What a command does when its call to Chrome has failed, or is done.       *)

QaClear(o) ==
  /\ transitionable(o, "emulation", cmd.session)
  /\ owners' = transitionResource(o, "emulation")
  /\ cmd' = Sending([cmd EXCEPT !.op = "qaClear", !.left = 1])
  /\ broker' = TRUE

(* The finally of commandQa: the claims of the snapshot are put back as they *)
(* were, the attachment and the broker go if QA brought them.                *)
QaRestore(o) ==
  LET restored == IF ~broker THEN Nobody ELSE IF cmd.hadBroker THEN cmd.prior ELSE Nobody
      detach == ~cmd.hadTab /\ known /\ Owned(restored) = {}
  IN IF detach
       THEN /\ owners' = restored
            /\ cmd' = [cmd EXCEPT !.op = "qaEnd", !.step = "detach"]
            /\ UNCHANGED broker
       ELSE /\ Finish(IF cmd.hadBroker THEN restored ELSE Nobody)
            /\ broker' = (broker /\ cmd.hadBroker)

Fails ==
  /\ \/ /\ cmd.op = "start"
        /\ Finish(releaseResource(owners, cmd.resource)) /\ broker' = TRUE
     \/ /\ cmd.op \in {"stop", "emulate", "clear", "traceStop", "touch", "attach"}
        /\ Finish(owners) /\ UNCHANGED broker
     \/ cmd.op = "qa" /\ QaClear(owners)
     \/ /\ cmd.op = "qaEvents"
        /\ LET o == releaseResource(owners, "events")
           IN IF cmd.resource = "emulation" THEN QaClear(o) ELSE QaRestore(o)
     \/ cmd.op \in {"qaClear", "qaAgain"} /\ QaRestore(owners)
  /\ traced' = (traced /\ broker')

(* cdpAttach.  An attachment that is not this worker's is never taken over.  *)
Attach ==
  /\ cmd.step = "attach"
  /\ \/ /\ ~attached
        /\ attached' = TRUE /\ known' = TRUE
        /\ cmd' = [cmd EXCEPT !.step = "lease"]
        /\ UNCHANGED <<broker, owners, traced>>
     \/ Fails /\ UNCHANGED <<attached, known>>
  /\ UNCHANGED <<tab, effects, lease, emulated, release, stray>>

Lease ==
  /\ cmd.step = "lease"
  /\ lease' = tab.session
  /\ IF cmd.op = "attach" THEN Finish(owners)
       ELSE cmd' = [cmd EXCEPT !.step = "send"] /\ UNCHANGED owners
  /\ UNCHANGED <<tab, attached, effects, known, broker, traced, emulated, release, stray>>

(* The effect in Chrome of the call the command is at.                       *)
Effect ==
  CASE cmd.op = "start" /\ cmd.left = 1 -> effects \cup ({cmd.resource} \ {"events"})
    [] cmd.op = "stop" -> effects \ {cmd.resource}
    [] cmd.op = "traceStop" ->
         (effects \ {"tracing"}) \cup (IF "tracing" \in effects THEN {"ending"} ELSE {})
    [] cmd.op \in {"emulate", "qa", "qaAgain"} -> effects \cup {"emulation"}
    [] cmd.op \in {"clear", "qaClear"} -> effects \ {"emulation"}
    [] OTHER -> effects

Done ==
  \/ /\ cmd.op = "start"
     /\ Finish(owners) /\ UNCHANGED broker
  \/ /\ cmd.op = "stop"
     /\ Finish(releaseResource(owners, cmd.resource)) /\ UNCHANGED broker
  \/ /\ cmd.op = "touch"
     /\ Finish(owners) /\ UNCHANGED broker
  \/ /\ cmd.op \in {"emulate", "clear", "qa", "qaClear", "qaAgain"}
     /\ cmd' = [cmd EXCEPT !.step = "store"] /\ UNCHANGED <<broker, owners>>
  \/ /\ cmd.op = "traceStop"
     /\ cmd' = [cmd EXCEPT !.step = "wait"] /\ UNCHANGED <<broker, owners>>
  \/ cmd.op = "qaEvents" /\ IF cmd.resource = "emulation" THEN QaClear(owners) ELSE QaRestore(owners)

(* chrome.debugger.sendCommand: answered, refused, or timed out with or      *)
(* without its effect; a timeout detaches a tab on which nothing is claimed. *)
Send ==
  /\ cmd.step = "send"
  /\ \/ /\ attached
        /\ effects' = Effect
        /\ IF cmd.left = 2
             THEN cmd' = Sending([cmd EXCEPT !.left = 1]) /\ UNCHANGED <<broker, owners, traced>>
             ELSE Done /\ traced' = (traced /\ broker')
     \/ Fails /\ UNCHANGED effects
     \/ /\ attached /\ effects' = Effect
        /\ IF Owned(owners) = {} /\ known
             THEN cmd' = [cmd EXCEPT !.step = "detach"] /\ UNCHANGED <<broker, owners, traced>>
             ELSE Fails
  /\ UNCHANGED <<tab, attached, known, lease, emulated, release, stray>>

(* setEmulationState, and the release of the claim after a clear.            *)
Store ==
  /\ cmd.step = "store"
  /\ emulated' = (cmd.op \notin {"clear", "qaClear"})
  /\ \/ cmd.op = "emulate" /\ Finish(owners) /\ UNCHANGED broker
     \/ cmd.op = "clear" /\ Finish(releaseResource(owners, "emulation")) /\ UNCHANGED broker
     \/ /\ cmd.op = "qa"
        /\ claimable(owners, "events", cmd.session)
        /\ owners' = claimResource(owners, "events", cmd.session) /\ broker' = TRUE
        /\ cmd' = Sending([cmd EXCEPT !.op = "qaEvents", !.left = 1])
     \/ /\ cmd.op = "qaClear"
        /\ LET o == releaseResource(owners, "emulation")
           IN IF cmd.hadEmulation
                THEN /\ owners' = claimResource(o, "emulation", cmd.session) /\ broker' = TRUE
                     /\ cmd' = Sending([cmd EXCEPT !.op = "qaAgain", !.left = 2])
                ELSE QaRestore(o)
     \/ cmd.op = "qaAgain" /\ QaRestore(owners)
  /\ traced' = (traced /\ broker')
  /\ UNCHANGED <<tab, attached, effects, known, lease, release, stray>>

(* commandQa suspends the claims of its own session that are in its way; a   *)
(* foreign one, or one being stopped, ends it before it has touched any.     *)
QaSuspend ==
  LET wanted == IF cmd.resource = "emulation" THEN {"emulation", "events"} ELSE {"events"}
      held == wanted \cap Owned(owners)
      suspended == [r \in Resource |-> IF r \in wanted THEN NoOwner ELSE owners[r]]
      first == IF cmd.resource = "emulation" THEN "qa" ELSE "qaEvents"
  IN /\ cmd.step = "snapshot"
     /\ broker' = TRUE
     /\ IF \A r \in held : owners[r].session = cmd.session /\ owners[r].state = "active"
          THEN /\ owners' = claimResource(suspended, cmd.resource, cmd.session)
               /\ cmd' = Sending([cmd EXCEPT !.op = first, !.hadEmulation = emulated,
                                              !.left = IF first = "qa" THEN 2 ELSE 1])
          ELSE Finish(owners)
     /\ UNCHANGED <<tab, attached, effects, known, lease, traced, emulated, release, stray>>

(* The wait of commandTraceStop: the trace is complete, or time is up.       *)
Wait ==
  /\ cmd.step = "wait"
  /\ Finish(IF traced THEN completeStoppingResource(owners, "tracing") ELSE owners)
  /\ UNCHANGED <<tab, attached, effects, known, lease, broker, traced, emulated, release, stray>>

-----------------------------------------------------------------------------
(* cdpDetach after its checks: whatever Chrome answers, the tab leaves       *)
(* cdpTabs and its broker is dropped with the claims it has by then.         *)

Drop ==
  /\ known' = FALSE /\ broker' = FALSE /\ owners' = Nobody /\ traced' = FALSE
  /\ lease' = NoSession

DetachCall(answered) ==
  IF answered THEN attached' = FALSE /\ effects' = {} ELSE UNCHANGED <<attached, effects>>

(* bestEffort has stopped waiting, of cleanup or of cdpSend after a timeout: *)
(* the detach goes on by itself.                                             *)
GiveUp ==
  /\ stray < MaxStray
  /\ stray' = stray + 1
  /\ UNCHANGED <<attached, effects, known, broker, owners, traced, lease>>

Detach ==
  /\ cmd.step = "detach"
  /\ cmd' = Idle
  /\ \E answered \in BOOLEAN :
       /\ \/ Drop /\ DetachCall(answered) /\ UNCHANGED stray
          \/ ~answered /\ cmd.op # "detach" /\ GiveUp   \* commandDetach waits it out
       /\ emulated' = (emulated /\ ~(answered /\ cmd.op \in {"cleanup", "release", "handoff"}))
  /\ IF cmd.op \in {"release", "handoff"} THEN Forget(cmd.op = "handoff") ELSE UNCHANGED tab
  /\ UNCHANGED release

RevokeDetached ==
  /\ release.step = "detach"
  /\ release' = NoRelease
  /\ Forget(FALSE)
  /\ \E answered \in BOOLEAN :
       /\ \/ Drop /\ DetachCall(answered) /\ UNCHANGED stray
          \/ ~answered /\ GiveUp
       /\ emulated' = (emulated /\ ~answered)
  /\ UNCHANGED cmd

StrayDetached ==
  /\ stray > 0
  /\ stray' = stray - 1
  /\ Drop
  /\ \E answered \in BOOLEAN : DetachCall(answered)
  /\ UNCHANGED <<tab, emulated, cmd, release>>

-----------------------------------------------------------------------------
(* Chrome, and the worker.                                                   *)

(* onDetach: the user, the developer tools, a navigation.                    *)
ChromeDetaches ==
  /\ attached
  /\ attached' = FALSE /\ effects' = {}
  /\ Drop
  /\ UNCHANGED <<tab, emulated, cmd, release, stray>>

(* Tracing.tracingComplete                                                   *)
TraceCompletes ==
  /\ "ending" \in effects
  /\ effects' = effects \ {"ending"}
  /\ IF broker
       THEN traced' = TRUE /\ owners' = completeStoppingResource(owners, "tracing")
       ELSE UNCHANGED <<traced, owners>>
  /\ UNCHANGED <<tab, attached, known, lease, broker, emulated, cmd, release, stray>>

(* A new worker forgets the record of the old one's attachment               *)
(* (reconcileStaleMetadata); Chrome may keep that attachment, or not.        *)
WorkerRestarts ==
  /\ Drop
  /\ cmd' = Idle /\ release' = NoRelease /\ stray' = 0
  /\ \E kept \in BOOLEAN : DetachCall(~kept)
  /\ UNCHANGED <<tab, emulated>>

Next ==
  \/ \E s \in Session : Begin(s)
  \/ Attach \/ Lease \/ Send \/ Store \/ QaSuspend \/ Wait
  \/ Detach \/ Revoke \/ RevokeDetached \/ StrayDetached
  \/ ChromeDetaches \/ TraceCompletes \/ WorkerRestarts

Spec == Init /\ [][Next]_vars

-----------------------------------------------------------------------------
(* A session's claim goes only by its own doing: a command of that session,  *)
(* the release of the tab it holds, or the completion of the trace it is     *)
(* stopping.  No end of a turn, cleanup, timeout or composite QA of another  *)
(* session takes it.  Chrome and the end of the worker may, a revocation of  *)
(* the tab that is past its check when the claim appears, and a detach that  *)
(* its caller gave up on before the claim was made.                          *)
ClaimsSurvive ==
  \/ \A r \in Owned(owners) :
       \/ owners'[r].session = owners[r].session
       \/ owners[r].session \in {cmd.session, cmd'.session, tab.session}
       \/ release # NoRelease
       \/ r = "tracing" /\ owners[r].state = "stopping"
  \/ ChromeDetaches \/ WorkerRestarts \/ StrayDetached

ForeignClaimsSurvive == [][ClaimsSurvive]_vars

=============================================================================
