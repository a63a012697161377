------------------------- MODULE CdpOwnership_proofs -------------------------
(* Claims on the debugger of a tab, for any number of sessions and any of    *)
(* the resources: what is not a session's own doing leaves its claims alone. *)
(* The end of the module has the types, on the same invariant.               *)
EXTENDS CdpOwnership, TLAPS

Claims == [Resource -> Owner \cup {NoOwner}]

Commands ==
  [op : Ops, session : Sessions, resource : Resource \cup {"events", "emulation"},
   step : Steps, left : 0..2, prior : Claims,
   hadBroker : BOOLEAN, hadTab : BOOLEAN, hadEmulation : BOOLEAN]

Typed ==
  /\ owners \in Claims /\ cmd \in Commands
  /\ broker \in BOOLEAN /\ known \in BOOLEAN /\ emulated \in BOOLEAN
  /\ ~broker => Owned(owners) = {}

(* The claim that a command gives back when it has failed or is done.        *)
GivesBack(c, r) ==
  \/ c.op \in {"start", "stop"} /\ r = c.resource
  \/ c.op \in {"clear", "qaClear"} /\ r = "emulation"
  \/ c.op = "qaEvents" /\ r = "events"

QaOps == {"qa", "qaEvents", "qaClear", "qaAgain"}

(* A command gives back nothing of another session; composite QA has every   *)
(* foreign claim in its snapshot; and whoever waits for a detach has seen    *)
(* that nobody else has a claim: none can come while a command is at work.   *)
Careful(c, o) ==
  /\ \A r \in Resource : GivesBack(c, r) => o[r].session \in {c.session, NoSession}
  /\ c.op \in QaOps =>
       /\ c.session \in Session
       /\ \A r \in Foreign(o, c.session) : c.hadBroker /\ c.prior[r].session = o[r].session
  /\ c.step = "snapshot" => c.op \in QaOps /\ c.resource \in {"emulation", "events"}
  /\ c.step = "detach" => Foreign(o, c.session) = {}

IInv == Typed /\ Careful(cmd, owners)

-----------------------------------------------------------------------------
(* What the claim rules do to the claims.                                    *)

LEMMA NobodyClaims == Nobody \in Claims /\ Owned(Nobody) = {}
BY DEF Nobody, Claims, Owned

LEMMA ClaimFacts ==
  ASSUME NEW o \in Claims, NEW r \in Resource, NEW s \in Session
  PROVE  /\ claimResource(o, r, s) \in Claims
         /\ claimResource(o, r, s)[r].session = s
         /\ \A q \in Resource \ {r} : claimResource(o, r, s)[q] = o[q]
BY DEF Claims, claimResource, Mine, Owner

LEMMA TransitionFacts ==
  ASSUME NEW o \in Claims, NEW r
  PROVE  /\ transitionResource(o, r) \in Claims
         /\ \A q \in Resource : transitionResource(o, r)[q].session = o[q].session
         /\ Owned(transitionResource(o, r)) \subseteq Owned(o)
BY DEF Claims, transitionResource, Owner, Owned

LEMMA ReleaseFacts ==
  ASSUME NEW o \in Claims, NEW r
  PROVE  /\ releaseResource(o, r) \in Claims
         /\ \A q \in Resource : q # r => releaseResource(o, r)[q] = o[q]
         /\ \A q \in Resource : q = r => releaseResource(o, r)[q] = NoOwner
         /\ Owned(releaseResource(o, r)) \subseteq Owned(o)
BY DEF Claims, releaseResource, Owned

LEMMA AgedFacts ==
  ASSUME NEW o \in Claims
  PROVE  /\ Aged(o) \in Claims
         /\ \A q \in Resource : Aged(o)[q].session = o[q].session
         /\ Owned(Aged(o)) \subseteq Owned(o)
BY DEF Claims, Aged, Owner, Owned

(* A claim is somebody's.                                                    *)
LEMMA OwnedHasSession ==
  ASSUME CdpAssumption, NEW o \in Claims, NEW r \in Resource
  PROVE  r \in Owned(o) <=> o[r].session # NoSession
BY DEF Claims, Owned, Owner, NoOwner, CdpAssumption

LEMMA IdleFacts == Idle \in Commands /\ \A o : Careful(Idle, o)
BY NobodyClaims DEF Idle, Command, Commands, Ops, Steps, Sessions, Careful, GivesBack, QaOps

LEMMA CommandFacts ==
  ASSUME NEW op \in Ops, NEW s \in Session, NEW r \in Resource \cup {"events", "emulation"},
         NEW step \in Steps, NEW left \in 0..2
  PROVE  /\ Command(op, s, r, step, left) \in Commands
         /\ Command(op, s, r, step, left).op = op
         /\ Command(op, s, r, step, left).session = s
         /\ Command(op, s, r, step, left).resource = r
         /\ Command(op, s, r, step, left).step = step
BY NobodyClaims DEF Command, Commands, Sessions

LEMMA SendingFacts ==
  ASSUME NEW c \in Commands
  PROVE  /\ Sending(c) \in Commands
         /\ Sending(c).step \in {"send", "attach"}
         /\ Sending(c).op = c.op /\ Sending(c).session = c.session
         /\ Sending(c).resource = c.resource /\ Sending(c).prior = c.prior
         /\ Sending(c).hadBroker = c.hadBroker
BY DEF Sending, Commands, Steps

-----------------------------------------------------------------------------
(* Kinds of steps.                                                           *)

(* No claim of a session that has no part in the step is gone.               *)
Survives ==
  \A r \in Resource :
    \/ owners'[r].session = owners[r].session
    \/ owners[r].session \in {cmd.session, cmd'.session, tab.session, NoSession}

LEMMA SurvivesIsEnough ==
  ASSUME CdpAssumption, IInv, Survives
  PROVE  ClaimsSurvive
BY OwnedHasSession DEF Survives, ClaimsSurvive, IInv, Typed, Owned

LEMMA FinishIInv ==
  ASSUME CdpAssumption, NEW o \in Claims, Finish(o), broker' \in BOOLEAN, ~broker' => Owned(o) = {},
         known' \in BOOLEAN, emulated' \in BOOLEAN
  PROVE  /\ IInv'
         /\ \A r \in Resource : owners'[r].session = o[r].session
<1>1. owners' = Aged(o) /\ cmd' = Idle
  BY DEF Finish
<1>2. Owned(owners') \subseteq Owned(o) /\ owners' \in Claims
  BY <1>1, AgedFacts
<1>. QED BY <1>1, <1>2, AgedFacts, IdleFacts DEF IInv, Typed

LEMMA GoesOnIInv ==
  ASSUME IInv, NEW c \in Commands, cmd' = c, c.op = cmd.op, c.session = cmd.session,
         c.resource = cmd.resource, c.prior = cmd.prior, c.hadBroker = cmd.hadBroker,
         c.step \notin {"detach", "snapshot"}, UNCHANGED <<owners, broker>>, known' \in BOOLEAN, emulated' \in BOOLEAN
  PROVE  IInv' /\ Survives
<1>1. Careful(c, owners)
  BY DEF IInv, Careful, GivesBack
<1>. QED BY <1>1 DEF IInv, Typed, Survives

(* Claims only go, and no command is told.                                   *)
LEMMA ClaimsGoIInv ==
  ASSUME CdpAssumption, IInv, owners' \in Claims, UNCHANGED cmd,
         \A r \in Resource : owners'[r].session \in {owners[r].session, NoSession},
         broker' \in BOOLEAN, ~broker' => Owned(owners') = {},
         known' \in BOOLEAN, emulated' \in BOOLEAN
  PROVE  IInv'
<1>1. \A s : Foreign(owners', s) \subseteq Foreign(owners, s)
  BY OwnedHasSession DEF IInv, Typed, Foreign, Owned
<1>2. \A s : \A r \in Foreign(owners', s) : owners'[r].session = owners[r].session
  BY OwnedHasSession DEF IInv, Typed, Foreign, Owned
<1>3. Careful(cmd, owners')
  BY <1>1, <1>2 DEF IInv, Careful
<1>. QED BY <1>3 DEF IInv, Typed

(* The claims of o, where the command may have given up some of its own.     *)
OwnChanged(o) ==
  /\ o \in Claims
  /\ \A r \in Resource : \/ o[r].session = owners[r].session
                         \/ owners[r].session \in {cmd.session, NoSession}
                            /\ o[r].session \in {cmd.session, NoSession}

LEMMA OwnChangedFacts ==
  ASSUME CdpAssumption, IInv, NEW o, OwnChanged(o)
  PROVE  /\ Foreign(o, cmd.session) \subseteq Foreign(owners, cmd.session)
         /\ \A r \in Foreign(o, cmd.session) : o[r].session = owners[r].session
BY OwnedHasSession DEF IInv, Typed, Foreign, Owned, OwnChanged

-----------------------------------------------------------------------------
(* Composite QA.                                                             *)

(* One of its steps leads to another one, with the same snapshot.            *)
LEMMA QaStepIInv ==
  ASSUME CdpAssumption, IInv, NEW o, OwnChanged(o), NEW c \in Commands,
         cmd.op \in QaOps, c.op \in QaOps, c.session = cmd.session, c.prior = cmd.prior,
         c.hadBroker = cmd.hadBroker, c.step \notin {"detach", "snapshot"},
         \A r \in Resource : GivesBack(c, r) => o[r].session \in {c.session, NoSession},
         owners' = o, cmd' = c, broker' = TRUE, known' \in BOOLEAN, emulated' \in BOOLEAN
  PROVE  IInv' /\ Survives
<1>1. Careful(c, o)
  BY OwnChangedFacts DEF IInv, Careful
<1>2. Survives
  BY DEF Survives, OwnChanged
<1>. QED BY <1>1, <1>2 DEF IInv, Typed, OwnChanged

LEMMA QaClearIInv ==
  ASSUME CdpAssumption, IInv, NEW o, OwnChanged(o), QaClear(o), cmd.op \in QaOps,
         known' \in BOOLEAN, emulated' \in BOOLEAN
  PROVE  IInv' /\ Survives
<1>. DEFINE t == transitionResource(o, "emulation")
<1>0. PICK c : c = [cmd EXCEPT !.op = "qaClear", !.left = 1]
  OBVIOUS
<1>1. c \in Commands /\ c.op = "qaClear" /\ c.session = cmd.session /\ c.prior = cmd.prior
      /\ c.hadBroker = cmd.hadBroker
  <2>1. cmd \in Commands /\ "qaClear" \in Ops /\ 1 \in 0..2
    BY DEF IInv, Typed, Ops
  <2>2. c \in Commands
    BY <1>0, <2>1 DEF Commands
  <2>3. c.op = "qaClear" /\ c.session = cmd.session /\ c.prior = cmd.prior
        /\ c.hadBroker = cmd.hadBroker
    BY <1>0, <2>1 DEF Commands
  <2>. QED BY <2>2, <2>3
<1>2. owners' = t /\ cmd' = Sending(c) /\ broker' = TRUE
  BY <1>0 DEF QaClear
<1>3. OwnChanged(t)
  BY TransitionFacts DEF OwnChanged
<1>4. \A r \in Resource : r = "emulation" => t[r].session \in {cmd.session, NoSession}
  BY TransitionFacts DEF QaClear, transitionable, OwnChanged
<1>. HIDE DEF t
<1>5. \A r \in Resource : GivesBack(Sending(c), r) => t[r].session \in {cmd.session, NoSession}
  BY <1>1, <1>4, SendingFacts DEF GivesBack
<1>. QED BY <1>1, <1>2, <1>3, <1>5, SendingFacts, QaStepIInv DEF QaOps

(* What was foreign is in the snapshot, and the snapshot comes back.         *)
LEMMA QaRestoreIInv ==
  ASSUME CdpAssumption, IInv, NEW o, QaRestore(o), cmd.op \in QaOps,
         known' \in BOOLEAN, emulated' \in BOOLEAN
  PROVE  IInv' /\ Survives
<1>. DEFINE restored == IF ~broker THEN Nobody ELSE IF cmd.hadBroker THEN cmd.prior ELSE Nobody
            detach == ~cmd.hadTab /\ known /\ Owned(restored) = {}
<1>1. restored \in Claims /\ (~broker => Owned(restored) = {})
      /\ (~cmd.hadBroker => Owned(restored) = {})
  BY NobodyClaims DEF IInv, Typed, Commands
<1>2. \A r \in Resource : \/ restored[r].session = owners[r].session
                         \/ owners[r].session \in {cmd.session, NoSession}
  <2>. SUFFICES ASSUME NEW r \in Resource, owners[r].session \notin {cmd.session, NoSession}
                PROVE  restored[r].session = owners[r].session
    OBVIOUS
  <2>1. r \in Foreign(owners, cmd.session)
    BY OwnedHasSession DEF IInv, Typed, Foreign
  <2>2. broker
    BY <2>1 DEF IInv, Typed, Foreign
  <2>. QED BY <2>1, <2>2 DEF IInv, Careful
<1>3. CASE detach
  <2>. DEFINE c == [cmd EXCEPT !.op = "qaEnd", !.step = "detach"]
  <2>1. owners' = restored /\ cmd' = c /\ UNCHANGED broker
    BY <1>3 DEF QaRestore
  <2>2. c \in Commands /\ c.op = "qaEnd" /\ c.session = cmd.session /\ c.step = "detach"
    BY DEF IInv, Typed, Commands, Ops, Steps
  <2>. HIDE DEF c, restored
  <2>3. Careful(c, restored)
    BY <1>3, <2>2 DEF Careful, GivesBack, QaOps, Foreign
  <2>. QED BY <1>1, <1>2, <2>1, <2>2, <2>3 DEF IInv, Typed, Survives
<1>4. CASE ~detach
  <2>. DEFINE kept == IF cmd.hadBroker THEN restored ELSE Nobody
  <2>1. Finish(kept) /\ broker' = (broker /\ cmd.hadBroker)
    BY <1>4 DEF QaRestore
  <2>2. kept \in Claims /\ \A r \in Resource : kept[r].session = restored[r].session
    BY <1>1, NobodyClaims
  <2>3. broker' \in BOOLEAN /\ (~broker' => Owned(kept) = {})
    BY <1>1, <2>1, NobodyClaims
  <2>. HIDE DEF kept, restored
  <2>4. IInv' /\ \A r \in Resource : owners'[r].session = kept[r].session
    BY <2>1, <2>2, <2>3, FinishIInv
  <2>. QED BY <1>2, <2>2, <2>4 DEF Survives
<1>. QED BY <1>3, <1>4

-----------------------------------------------------------------------------
(* A command starts.                                                         *)

LEMMA BeginIInv ==
  ASSUME CdpAssumption, IInv, NEW s \in Session, NEW c \in Commands,
         cmd' = c, c.session = s, c.op \notin QaOps, c.step # "snapshot",
         owners' \in Claims,
         \A r \in Resource : \/ owners'[r].session = owners[r].session
                             \/ owners[r].session \in {s, NoSession},
         \A r \in Resource : GivesBack(c, r) => owners'[r].session \in {s, NoSession},
         c.step = "detach" => Foreign(owners', s) = {},
         broker' \in BOOLEAN, ~broker' => Owned(owners') = {},
         known' \in BOOLEAN, emulated' \in BOOLEAN
  PROVE  IInv' /\ Survives
<1>1. Careful(c, owners')
  BY DEF Careful
<1>. QED BY <1>1 DEF IInv, Typed, Survives

LEMMA StartIInv ==
  ASSUME CdpAssumption, IInv, NEW s \in Session, NEW r \in Resource, commandStart(s, r),
         known' \in BOOLEAN, emulated' \in BOOLEAN
  PROVE  IInv' /\ Survives
<1>0. PICK c : c = Command("start", s, r, "send", IF r = "interception" THEN 2 ELSE 1)
  OBVIOUS
<1>1. c \in Commands /\ c.op = "start" /\ c.session = s /\ c.resource = r
  BY <1>0, CommandFacts DEF Ops, Steps
<1>2. cmd' = Sending(c) /\ owners' = claimResource(owners, r, s) /\ broker' = TRUE
  BY <1>0 DEF commandStart
<1>3. owners \in Claims /\ owners[r].session \in {s, NoSession}
  BY DEF IInv, Typed, commandStart, claimable, NoOwner, Mine
<1>4. PICK d : d = Sending(c)
  OBVIOUS
<1>5. d \in Commands /\ d.op = "start" /\ d.session = s /\ d.resource = r
      /\ d.step \in {"send", "attach"}
  BY <1>1, <1>4, SendingFacts
<1>6. \A q \in Resource : GivesBack(d, q) => q = r
  BY <1>5 DEF GivesBack
<1>. QED BY <1>2, <1>3, <1>4, <1>5, <1>6, ClaimFacts, BeginIInv DEF QaOps

(* A command that asks for the stop of what is the session's or nobody's.    *)
LEMMA TransitionIInv ==
  ASSUME CdpAssumption, IInv, NEW s \in Session, NEW r \in Resource, NEW c \in Commands,
         transitionable(owners, r, s), owners' = transitionResource(owners, r), cmd' = c,
         c.session = s, c.op \notin QaOps, c.step \notin {"snapshot", "detach"},
         \A q \in Resource : GivesBack(c, q) => q = r,
         broker' \in BOOLEAN, broker' \/ UNCHANGED broker,
         known' \in BOOLEAN, emulated' \in BOOLEAN
  PROVE  IInv' /\ Survives
<1>1. owners \in Claims /\ (~broker => Owned(owners) = {})
  BY DEF IInv, Typed
<1>2. owners' \in Claims /\ (\A q \in Resource : owners'[q].session = owners[q].session)
      /\ Owned(owners') \subseteq Owned(owners)
  BY <1>1, TransitionFacts
<1>3. owners[r].session \in {s, NoSession}
  BY DEF transitionable
<1>4. ~broker' => Owned(owners') = {}
  BY <1>1, <1>2
<1>. QED BY <1>2, <1>3, <1>4, BeginIInv

LEMMA StopIInv ==
  ASSUME CdpAssumption, IInv, NEW s \in Session, NEW r \in Resource, commandStop(s, r),
         Holds(s), known' \in BOOLEAN, emulated' \in BOOLEAN
  PROVE  IInv' /\ Survives
<1>1. owners \in Claims /\ broker' = broker /\ broker \in BOOLEAN
      /\ (~broker => Owned(owners) = {}) /\ owners[r].session \in {s, NoSession}
  BY DEF IInv, Typed, commandStop, transitionable
<1>2. CASE r = "events"
  <2>1. owners' = releaseResource(owners, r) /\ UNCHANGED cmd
    BY <1>2 DEF commandStop
  <2>2. \A q \in Resource : owners'[q].session \in {owners[q].session, NoSession}
    BY <1>1, <2>1, ReleaseFacts DEF NoOwner
  <2>3. owners' \in Claims /\ (~broker' => Owned(owners') = {})
    BY <1>1, <2>1, ReleaseFacts
  <2>4. IInv'
    BY <1>1, <2>1, <2>2, <2>3, ClaimsGoIInv
  <2>5. Survives
    BY <1>1, <2>1, ReleaseFacts DEF Survives, Holds
  <2>. QED BY <2>4, <2>5
<1>3. CASE r # "events"
  <2>0. PICK c : c = Command("stop", s, r, "send", 1)
    OBVIOUS
  <2>1. c \in Commands /\ c.op = "stop" /\ c.session = s /\ c.resource = r
    BY <2>0, CommandFacts DEF Ops, Steps
  <2>2. PICK d : d = Sending(c)
    OBVIOUS
  <2>3. d \in Commands /\ d.op = "stop" /\ d.session = s /\ d.resource = r
        /\ d.step \in {"send", "attach"}
    BY <2>1, <2>2, SendingFacts
  <2>4. cmd' = d /\ owners' = transitionResource(owners, r) /\ transitionable(owners, r, s)
    BY <1>3, <2>0, <2>2 DEF commandStop
  <2>5. \A q \in Resource : GivesBack(d, q) => q = r
    BY <2>3 DEF GivesBack
  <2>. QED BY <1>1, <2>3, <2>4, <2>5, TransitionIInv DEF QaOps
<1>. QED BY <1>2, <1>3

LEMMA TraceStopIInv ==
  ASSUME CdpAssumption, IInv, NEW s \in Session, commandTraceStop(s),
         known' \in BOOLEAN, emulated' \in BOOLEAN
  PROVE  IInv' /\ Survives
<1>1. broker' = broker /\ broker \in BOOLEAN /\ "tracing" \in Resource
      /\ transitionable(owners, "tracing", s) /\ owners' = transitionResource(owners, "tracing")
  BY DEF IInv, Typed, commandTraceStop
<1>2. PICK c : /\ cmd' = c /\ c \in Commands /\ c.op = "traceStop" /\ c.session = s
               /\ c.step \in {"send", "attach", "wait"}
  <2>1. PICK a : a = Command("traceStop", s, "tracing", "send", 1)
    OBVIOUS
  <2>2. PICK b : b = Command("traceStop", s, "tracing", "wait", 0)
    OBVIOUS
  <2>3. a \in Commands /\ a.op = "traceStop" /\ a.session = s
    BY <1>1, <2>1, CommandFacts DEF Ops, Steps
  <2>4. b \in Commands /\ b.op = "traceStop" /\ b.session = s /\ b.step = "wait"
    BY <1>1, <2>2, CommandFacts DEF Ops, Steps
  <2>5. cmd' = Sending(a) \/ cmd' = b
    BY <2>1, <2>2 DEF commandTraceStop
  <2>. QED BY <2>3, <2>4, <2>5, SendingFacts
<1>3. \A q \in Resource : GivesBack(c, q) => q = "tracing"
  BY <1>2 DEF GivesBack
<1>. QED BY <1>1, <1>2, <1>3, TransitionIInv DEF QaOps

LEMMA EmulationIInv ==
  ASSUME CdpAssumption, IInv, NEW s \in Session, commandEmulation(s),
         known' \in BOOLEAN, emulated' \in BOOLEAN
  PROVE  IInv' /\ Survives
<1>1. broker' = TRUE /\ "emulation" \in Resource /\ owners \in Claims
  BY DEF IInv, Typed, commandEmulation
<1>2. CASE /\ claimable(owners, "emulation", s)
           /\ owners' = claimResource(owners, "emulation", s)
           /\ cmd' = Sending(Command("emulate", s, "emulation", "send", 2))
  <2>0. PICK a : a = Command("emulate", s, "emulation", "send", 2)
    OBVIOUS
  <2>1. a \in Commands /\ a.op = "emulate" /\ a.session = s
    BY <2>0, CommandFacts DEF Ops, Steps
  <2>2. PICK c : c = Sending(a)
    OBVIOUS
  <2>3. c \in Commands /\ c.op = "emulate" /\ c.session = s /\ c.step \in {"send", "attach"}
    BY <2>1, <2>2, SendingFacts
  <2>4. owners["emulation"].session \in {s, NoSession}
    BY <1>2 DEF claimable, NoOwner, Mine
  <2>5. \A r \in Resource : ~GivesBack(c, r)
    BY <2>3 DEF GivesBack
  <2>. QED BY <1>1, <1>2, <2>0, <2>2, <2>3, <2>4, <2>5, ClaimFacts, BeginIInv DEF QaOps
<1>3. CASE /\ transitionable(owners, "emulation", s)
           /\ owners' = transitionResource(owners, "emulation")
           /\ cmd' = Sending(Command("clear", s, "emulation", "send", 1))
  <2>0. PICK a : a = Command("clear", s, "emulation", "send", 1)
    OBVIOUS
  <2>1. a \in Commands /\ a.op = "clear" /\ a.session = s
    BY <2>0, CommandFacts DEF Ops, Steps
  <2>2. PICK c : c = Sending(a)
    OBVIOUS
  <2>3. c \in Commands /\ c.op = "clear" /\ c.session = s /\ c.step \in {"send", "attach"}
    BY <2>1, <2>2, SendingFacts
  <2>4. \A q \in Resource : GivesBack(c, q) => q = "emulation"
    BY <2>3 DEF GivesBack
  <2>. QED BY <1>1, <1>3, <2>0, <2>2, <2>3, <2>4, TransitionIInv DEF QaOps
<1>. QED BY <1>2, <1>3 DEF commandEmulation

LEMMA TouchIInv ==
  ASSUME CdpAssumption, IInv, NEW s \in Session, commandTouch(s),
         known' \in BOOLEAN, emulated' \in BOOLEAN
  PROVE  IInv' /\ Survives
<1>1. owners \in Claims /\ UNCHANGED <<broker, owners>> /\ broker \in BOOLEAN
      /\ (~broker => Owned(owners) = {})
  BY DEF IInv, Typed, commandTouch
<1>2. PICK c : /\ cmd' = c /\ c \in Commands /\ c.op \in {"touch", "attach"} /\ c.session = s
               /\ c.step \in {"send", "attach"}
  <2>1. PICK a : a = Command("touch", s, "events", "send", 1)
    OBVIOUS
  <2>2. PICK b : b = Command("attach", s, "events", "attach", 0)
    OBVIOUS
  <2>3. a \in Commands /\ a.op = "touch" /\ a.session = s
    BY <2>1, CommandFacts DEF Ops, Steps
  <2>4. b \in Commands /\ b.op = "attach" /\ b.session = s /\ b.step = "attach"
    BY <2>2, CommandFacts DEF Ops, Steps
  <2>5. cmd' = Sending(a) \/ cmd' = b
    BY <2>1, <2>2 DEF commandTouch
  <2>. QED BY <2>3, <2>4, <2>5, SendingFacts
<1>3. \A r \in Resource : ~GivesBack(c, r)
  BY <1>2 DEF GivesBack
<1>. QED BY <1>1, <1>2, <1>3, BeginIInv DEF QaOps

(* A command that detaches: nobody else has a claim.                         *)
LEMMA DetachingIInv ==
  ASSUME CdpAssumption, IInv, NEW s \in Session,
         NEW op \in {"detach", "turnEnded", "cleanup", "release", "handoff"},
         cmd' = Command(op, s, "events", "detach", 0), Foreign(owners, s) = {},
         UNCHANGED <<broker, owners>>, known' \in BOOLEAN, emulated' \in BOOLEAN
  PROVE  IInv' /\ Survives
<1>0. PICK c : c = Command(op, s, "events", "detach", 0)
  OBVIOUS
<1>1. c \in Commands /\ c.op = op /\ c.session = s /\ c.step = "detach"
  BY <1>0, CommandFacts DEF Ops, Steps
<1>2. \A r \in Resource : ~GivesBack(c, r)
  BY <1>1 DEF GivesBack
<1>3. owners \in Claims /\ broker \in BOOLEAN /\ (~broker => Owned(owners) = {})
  BY DEF IInv, Typed
<1>. QED BY <1>0, <1>1, <1>2, <1>3, BeginIInv DEF QaOps

LEMMA CommandDetachIInv ==
  ASSUME CdpAssumption, IInv, NEW s \in Session, commandDetach(s),
         known' \in BOOLEAN, emulated' \in BOOLEAN
  PROVE  IInv' /\ Survives
<1>1. CASE known
  <2>1. Foreign(owners, s) = {}
    BY DEF commandDetach, Foreign
  <2>. QED BY <1>1, <2>1, DetachingIInv DEF commandDetach
<1>2. CASE ~known
  <2>1. UNCHANGED <<cmd, owners>> /\ broker' = FALSE /\ Owned(owners) = {}
    BY <1>2 DEF commandDetach
  <2>2. owners \in Claims
    BY DEF IInv, Typed
  <2>3. IInv'
    BY <2>1, <2>2, ClaimsGoIInv
  <2>. QED BY <2>1, <2>3 DEF Survives
<1>. QED BY <1>1, <1>2

LEMMA QaIInv ==
  ASSUME CdpAssumption, IInv, NEW s \in Session, commandQa(s),
         known' \in BOOLEAN, emulated' \in BOOLEAN
  PROVE  IInv' /\ Survives
<1>1. owners \in Claims /\ UNCHANGED <<broker, owners>> /\ broker \in BOOLEAN
      /\ (~broker => Owned(owners) = {}) /\ known \in BOOLEAN
  BY DEF IInv, Typed, commandQa
<1>2. PICK r \in {"emulation", "events"} :
        cmd' = [Command("qa", s, r, "snapshot", 0) EXCEPT
                  !.prior = owners, !.hadBroker = broker, !.hadTab = known]
  BY DEF commandQa
<1>3. PICK c : c = cmd'
  OBVIOUS
<1>4. c \in Commands /\ c.op = "qa" /\ c.session = s /\ c.step = "snapshot"
      /\ c.resource = r /\ c.prior = owners /\ c.hadBroker = broker
  <2>1. PICK a : a = Command("qa", s, r, "snapshot", 0)
    OBVIOUS
  <2>2. a \in Commands /\ a.op = "qa" /\ a.session = s /\ a.resource = r /\ a.step = "snapshot"
    BY <2>1, CommandFacts DEF Ops, Steps
  <2>3. c = [a EXCEPT !.prior = owners, !.hadBroker = broker, !.hadTab = known]
    BY <1>2, <1>3, <2>1
  <2>4. c \in Commands
    BY <1>1, <2>2, <2>3 DEF Commands
  <2>5. c.op = "qa" /\ c.session = s /\ c.step = "snapshot"
        /\ c.resource = r /\ c.prior = owners /\ c.hadBroker = broker
    BY <2>2, <2>3 DEF Commands
  <2>. QED BY <2>4, <2>5
<1>5. Careful(c, owners)
  BY <1>1, <1>4 DEF Careful, GivesBack, QaOps, Foreign
<1>. QED BY <1>1, <1>3, <1>4, <1>5 DEF IInv, Typed, Survives

-----------------------------------------------------------------------------
(* The ways a tab is released.                                               *)

(* The claims are dropped, or none of them changes.                          *)
LEMMA DroppedIInv ==
  ASSUME CdpAssumption, IInv, broker' = FALSE, owners' = Nobody, cmd' \in {cmd, Idle},
         known' \in BOOLEAN, emulated' \in BOOLEAN
  PROVE  IInv'
<1>1. CASE cmd' = cmd
  <2>1. \A r \in Resource : owners'[r].session \in {owners[r].session, NoSession}
    BY DEF Nobody, NoOwner
  <2>2. owners' \in Claims /\ Owned(owners') = {}
    BY NobodyClaims
  <2>. QED BY <1>1, <2>1, <2>2, ClaimsGoIInv
<1>2. CASE cmd' = Idle
  BY <1>2, NobodyClaims, IdleFacts DEF IInv, Typed
<1>. QED BY <1>1, <1>2

LEMMA SameIInv ==
  ASSUME CdpAssumption, IInv, UNCHANGED <<broker, owners>>, cmd' \in {cmd, Idle},
         known' \in BOOLEAN, emulated' \in BOOLEAN
  PROVE  IInv' /\ Survives
BY IdleFacts DEF IInv, Typed, Survives

LEMMA ForeignlessSurvives ==
  ASSUME CdpAssumption, IInv, NEW s, s \in {cmd.session, cmd'.session, tab.session},
         Foreign(owners, s) = {}, owners' = Nobody
  PROVE  Survives
<1>1. \A r \in Resource : owners[r].session \in {s, NoSession}
  BY OwnedHasSession DEF IInv, Typed, Foreign
<1>. QED BY <1>1 DEF Survives

LEMMA ReleaseAtOnceIInv ==
  ASSUME CdpAssumption, IInv, NEW keep, ReleaseAtOnce(keep), UNCHANGED cmd, known' \in BOOLEAN
  PROVE  IInv' /\ Survives
<1>1. emulated \in BOOLEAN
  BY DEF IInv, Typed
<1>2. CASE Undetachable
  BY <1>1, <1>2, SameIInv DEF ReleaseAtOnce
<1>3. CASE ~Undetachable
  BY <1>3, DroppedIInv, ForeignlessSurvives DEF ReleaseAtOnce, Undetachable
<1>. QED BY <1>2, <1>3

LEMMA ReleaseIInv ==
  ASSUME CdpAssumption, IInv, NEW s \in Session, NEW op \in {"release", "handoff"},
         Holds(s), releaseOwnership(s, op), known' \in BOOLEAN
  PROVE  IInv' /\ Survives
<1>1. CASE ReleaseAtOnce(op = "handoff") /\ UNCHANGED cmd
  BY <1>1, ReleaseAtOnceIInv
<1>2. CASE /\ known /\ ~Undetachable
           /\ cmd' = Command(op, s, "events", "detach", 0)
           /\ UNCHANGED <<tab, broker, owners, traced, emulated>>
  <2>1. Foreign(owners, s) = {}
    BY <1>2 DEF Undetachable, Holds
  <2>2. emulated' \in BOOLEAN
    BY <1>2 DEF IInv, Typed
  <2>. QED BY <1>2, <2>1, <2>2, DetachingIInv
<1>. QED BY <1>1, <1>2 DEF releaseOwnership

LEMMA BeginSteps ==
  ASSUME CdpAssumption, IInv, NEW s \in Session, Begin(s)
  PROVE  IInv' /\ ClaimsSurvive
<1>0. known' \in BOOLEAN /\ emulated \in BOOLEAN
  BY DEF Begin, IInv, Typed
<1>1. CASE /\ Holds(s)
           /\ \/ \E r \in Resource : commandStart(s, r) \/ commandStop(s, r)
              \/ commandTraceStop(s)
              \/ commandEmulation(s)
              \/ commandTouch(s)
              \/ commandDetach(s)
              \/ commandTurnEnded(s)
              \/ commandQa(s)
           /\ UNCHANGED <<tab, emulated>>
  <2>0. emulated' \in BOOLEAN
    BY <1>0, <1>1
  <2>1. ASSUME NEW r \in Resource, commandStart(s, r)  PROVE IInv' /\ Survives
    BY <1>0, <2>0, <2>1, StartIInv
  <2>2. ASSUME NEW r \in Resource, commandStop(s, r)  PROVE IInv' /\ Survives
    BY <1>0, <1>1, <2>0, <2>2, StopIInv
  <2>3. ASSUME commandTurnEnded(s)  PROVE IInv' /\ Survives
    BY <1>0, <2>0, <2>3, DetachingIInv DEF commandTurnEnded
  <2>. QED BY <1>0, <1>1, <2>0, <2>1, <2>2, <2>3, TraceStopIInv, EmulationIInv, TouchIInv,
              CommandDetachIInv, QaIInv, SurvivesIsEnough
<1>2. CASE cdpDetachSession(s) /\ UNCHANGED <<tab, emulated>>
  <2>1. IInv' /\ Survives
    BY <1>0, <1>2, DetachingIInv DEF cdpDetachSession, sessionDetachDecision
  <2>. QED BY <2>1, SurvivesIsEnough
<1>3. ASSUME Holds(s), NEW op \in {"release", "handoff"}, releaseOwnership(s, op)
      PROVE  IInv' /\ ClaimsSurvive
  BY <1>0, <1>3, ReleaseIInv, SurvivesIsEnough
<1>4. CASE /\ tab.session = NoSession \/ tab.released
           /\ tab' = [session |-> s, released |-> FALSE]
           /\ UNCHANGED <<broker, owners, traced, emulated, cmd>>
  BY <1>0, <1>4, SameIInv, SurvivesIsEnough
<1>. QED BY <1>1, <1>2, <1>3, <1>4 DEF Begin

-----------------------------------------------------------------------------
(* A command at work.                                                        *)

(* It ends, and gives back only what is its own.                             *)
LEMMA EndsIInv ==
  ASSUME CdpAssumption, IInv, NEW o, OwnChanged(o), Finish(o), broker' \in BOOLEAN,
         ~broker' => Owned(o) = {}, known' \in BOOLEAN, emulated' \in BOOLEAN
  PROVE  IInv' /\ Survives
<1>1. IInv' /\ \A r \in Resource : owners'[r].session = o[r].session
  BY FinishIInv DEF OwnChanged
<1>. QED BY <1>1 DEF OwnChanged, Survives

LEMMA OwnersOwn ==
  ASSUME IInv  PROVE OwnChanged(owners)
BY DEF IInv, Typed, OwnChanged

LEMMA ReleasedOwn ==
  ASSUME IInv, NEW r, r \in Resource => owners[r].session \in {cmd.session, NoSession}
  PROVE  OwnChanged(releaseResource(owners, r)) /\ Owned(releaseResource(owners, r)) \subseteq Owned(owners)
<1>1. owners \in Claims
  BY DEF IInv, Typed
<1>. QED BY <1>1, ReleaseFacts DEF OwnChanged, NoOwner

LEMMA FailsIInv ==
  ASSUME CdpAssumption, IInv, Fails, known' \in BOOLEAN, emulated' \in BOOLEAN
  PROVE  IInv' /\ Survives
<1>1. CASE cmd.op = "start" /\ Finish(releaseResource(owners, cmd.resource)) /\ broker' = TRUE
  <2>1. cmd.resource \in Resource => owners[cmd.resource].session \in {cmd.session, NoSession}
    BY <1>1 DEF IInv, Careful, GivesBack
  <2>. QED BY <1>1, <2>1, ReleasedOwn, EndsIInv
<1>2. CASE Finish(owners) /\ UNCHANGED broker
  BY <1>2, OwnersOwn, EndsIInv DEF IInv, Typed
<1>3. CASE cmd.op = "qa" /\ QaClear(owners)
  BY <1>3, OwnersOwn, QaClearIInv DEF QaOps
<1>4. CASE /\ cmd.op = "qaEvents"
           /\ LET o == releaseResource(owners, "events")
              IN IF cmd.resource = "emulation" THEN QaClear(o) ELSE QaRestore(o)
  <2>1. "events" \in Resource => owners["events"].session \in {cmd.session, NoSession}
    BY <1>4 DEF IInv, Careful, GivesBack
  <2>. DEFINE o == releaseResource(owners, "events")
  <2>2. OwnChanged(o)
    BY <2>1, ReleasedOwn
  <2>3. QaClear(o) \/ QaRestore(o)
    BY <1>4
  <2>. HIDE DEF o
  <2>. QED BY <1>4, <2>2, <2>3, QaClearIInv, QaRestoreIInv DEF QaOps
<1>5. CASE cmd.op \in {"qaClear", "qaAgain"} /\ QaRestore(owners)
  BY <1>5, QaRestoreIInv DEF QaOps
<1>. QED BY <1>1, <1>2, <1>3, <1>4, <1>5 DEF Fails

-----------------------------------------------------------------------------
(* The steps of the command at work.                                         *)

LEMMA AttachSteps ==
  ASSUME CdpAssumption, IInv, Attach  PROVE IInv' /\ ClaimsSurvive
<1>0. known \in BOOLEAN /\ emulated' \in BOOLEAN /\ cmd \in Commands
  BY DEF IInv, Typed, Attach
<1>1. CASE /\ known' = TRUE /\ cmd' = [cmd EXCEPT !.step = "lease"]
           /\ UNCHANGED <<broker, owners, traced>>
  <2>1. PICK c : c = [cmd EXCEPT !.step = "lease"]
    OBVIOUS
  <2>2. c \in Commands
    BY <1>0, <2>1 DEF Commands, Steps
  <2>3. c.op = cmd.op /\ c.session = cmd.session /\ c.resource = cmd.resource
        /\ c.prior = cmd.prior /\ c.hadBroker = cmd.hadBroker /\ c.step = "lease"
    BY <1>0, <2>1 DEF Commands
  <2>. QED BY <1>0, <1>1, <2>1, <2>2, <2>3, GoesOnIInv, SurvivesIsEnough
<1>2. CASE Fails /\ UNCHANGED known
  BY <1>0, <1>2, FailsIInv, SurvivesIsEnough
<1>. QED BY <1>1, <1>2 DEF Attach

LEMMA LeaseSteps ==
  ASSUME CdpAssumption, IInv, Lease  PROVE IInv' /\ ClaimsSurvive
<1>0. known' \in BOOLEAN /\ emulated' \in BOOLEAN /\ cmd \in Commands /\ UNCHANGED broker
  BY DEF IInv, Typed, Lease
<1>1. CASE Finish(owners)
  BY <1>0, <1>1, OwnersOwn, EndsIInv, SurvivesIsEnough DEF IInv, Typed
<1>2. CASE cmd' = [cmd EXCEPT !.step = "send"] /\ UNCHANGED owners
  <2>1. PICK c : c = [cmd EXCEPT !.step = "send"]
    OBVIOUS
  <2>2. c \in Commands
    BY <1>0, <2>1 DEF Commands, Steps
  <2>3. c.op = cmd.op /\ c.session = cmd.session /\ c.resource = cmd.resource
        /\ c.prior = cmd.prior /\ c.hadBroker = cmd.hadBroker /\ c.step = "send"
    BY <1>0, <2>1 DEF Commands
  <2>. QED BY <1>0, <1>2, <2>1, <2>2, <2>3, GoesOnIInv, SurvivesIsEnough
<1>. QED BY <1>1, <1>2 DEF Lease

(* Its call is done, or goes on to the wait or to what is stored.            *)
LEMMA StepIInv ==
  ASSUME CdpAssumption, IInv, NEW step \in {"store", "wait"},
         cmd' = [cmd EXCEPT !.step = step],
         UNCHANGED <<owners, broker>>, known' \in BOOLEAN, emulated' \in BOOLEAN
  PROVE  IInv' /\ Survives
<1>0. cmd \in Commands
  BY DEF IInv, Typed
<1>1. PICK c : c = [cmd EXCEPT !.step = step]
  OBVIOUS
<1>2. c \in Commands
  BY <1>0, <1>1 DEF Commands, Steps
<1>3. c.op = cmd.op /\ c.session = cmd.session /\ c.resource = cmd.resource
      /\ c.prior = cmd.prior /\ c.hadBroker = cmd.hadBroker /\ c.step = step
  BY <1>0, <1>1 DEF Commands
<1>. QED BY <1>1, <1>2, <1>3, GoesOnIInv

LEMMA DoneIInv ==
  ASSUME CdpAssumption, IInv, Done, known' \in BOOLEAN, emulated' \in BOOLEAN
  PROVE  IInv' /\ Survives
<1>1. CASE Finish(owners) /\ UNCHANGED broker
  BY <1>1, OwnersOwn, EndsIInv DEF IInv, Typed
<1>2. CASE cmd.op = "stop" /\ Finish(releaseResource(owners, cmd.resource)) /\ UNCHANGED broker
  <2>1. cmd.resource \in Resource => owners[cmd.resource].session \in {cmd.session, NoSession}
    BY <1>2 DEF IInv, Careful, GivesBack
  <2>2. broker \in BOOLEAN /\ (~broker => Owned(releaseResource(owners, cmd.resource)) = {})
    BY <2>1, ReleasedOwn DEF IInv, Typed
  <2>. QED BY <1>2, <2>1, <2>2, ReleasedOwn, EndsIInv
<1>3. CASE cmd' = [cmd EXCEPT !.step = "store"] /\ UNCHANGED <<broker, owners>>
  BY <1>3, StepIInv
<1>4. CASE cmd' = [cmd EXCEPT !.step = "wait"] /\ UNCHANGED <<broker, owners>>
  BY <1>4, StepIInv
<1>5. CASE cmd.op = "qaEvents" /\ (QaClear(owners) \/ QaRestore(owners))
  BY <1>5, OwnersOwn, QaClearIInv, QaRestoreIInv DEF QaOps
<1>. QED BY <1>1, <1>2, <1>3, <1>4, <1>5 DEF Done

LEMMA SendSteps ==
  ASSUME CdpAssumption, IInv, Send  PROVE IInv' /\ ClaimsSurvive
<1>0. known' \in BOOLEAN /\ emulated' \in BOOLEAN /\ cmd \in Commands
  BY DEF IInv, Typed, Send
<1>1. CASE /\ cmd' = Sending([cmd EXCEPT !.left = 1])
           /\ UNCHANGED <<broker, owners, traced>>
  <2>1. PICK a : a = [cmd EXCEPT !.left = 1]
    OBVIOUS
  <2>2. a \in Commands
    BY <1>0, <2>1 DEF Commands
  <2>3. a.op = cmd.op /\ a.session = cmd.session /\ a.resource = cmd.resource
        /\ a.prior = cmd.prior /\ a.hadBroker = cmd.hadBroker
    BY <1>0, <2>1 DEF Commands
  <2>4. PICK c : c = Sending(a)
    OBVIOUS
  <2>5. c \in Commands /\ c.op = cmd.op /\ c.session = cmd.session /\ c.resource = cmd.resource
        /\ c.prior = cmd.prior /\ c.hadBroker = cmd.hadBroker /\ c.step \in {"send", "attach"}
    BY <2>2, <2>3, <2>4, SendingFacts
  <2>. QED BY <1>0, <1>1, <2>1, <2>4, <2>5, GoesOnIInv, SurvivesIsEnough
<1>2. CASE Done
  BY <1>0, <1>2, DoneIInv, SurvivesIsEnough
<1>3. CASE Fails
  BY <1>0, <1>3, FailsIInv, SurvivesIsEnough
<1>4. CASE /\ Owned(owners) = {} /\ known
           /\ cmd' = [cmd EXCEPT !.step = "detach"]
           /\ UNCHANGED <<broker, owners, traced>>
  <2>1. PICK c : c = [cmd EXCEPT !.step = "detach"]
    OBVIOUS
  <2>2. c \in Commands
    BY <1>0, <2>1 DEF Commands, Steps
  <2>3. c.op = cmd.op /\ c.session = cmd.session /\ c.resource = cmd.resource
        /\ c.prior = cmd.prior /\ c.hadBroker = cmd.hadBroker /\ c.step = "detach"
    BY <1>0, <2>1 DEF Commands
  <2>4. Careful(c, owners)
    BY <1>4, <2>3 DEF IInv, Careful, GivesBack, Foreign
  <2>5. IInv' /\ Survives
    BY <1>0, <1>4, <2>1, <2>2, <2>4 DEF IInv, Typed, Survives
  <2>. QED BY <2>5, SurvivesIsEnough
<1>. QED BY <1>1, <1>2, <1>3, <1>4 DEF Send

LEMMA ClaimedOwn ==
  ASSUME IInv, cmd.session \in Session, NEW o, OwnChanged(o), NEW r,
         r \in Resource => o[r].session \in {cmd.session, NoSession}
  PROVE  OwnChanged(claimResource(o, r, cmd.session))
<1>1. CASE r \in Resource
  BY <1>1, ClaimFacts DEF OwnChanged
<1>2. CASE r \notin Resource
  BY <1>2 DEF OwnChanged, claimResource, Claims
<1>. QED BY <1>1, <1>2

LEMMA ClaimedFact ==
  ASSUME NEW o \in Claims, NEW s \in Session, NEW r, r \in Resource
  PROVE  claimResource(o, r, s)[r].session = s
BY ClaimFacts

LEMMA StoreSteps ==
  ASSUME CdpAssumption, IInv, Store  PROVE IInv' /\ ClaimsSurvive
<1>0. known' \in BOOLEAN /\ emulated' \in BOOLEAN /\ cmd \in Commands /\ owners \in Claims
  BY DEF IInv, Typed, Store
<1>a. cmd.op \in QaOps => cmd.session \in Session
  BY DEF IInv, Careful
<1>. DEFINE e == releaseResource(owners, "emulation")
<1>b. cmd.op \in {"clear", "qaClear"} => OwnChanged(e) /\ Owned(e) \subseteq Owned(owners)
  <2>1. SUFFICES ASSUME cmd.op \in {"clear", "qaClear"}
                 PROVE  OwnChanged(e) /\ Owned(e) \subseteq Owned(owners)
    OBVIOUS
  <2>2. "emulation" \in Resource => owners["emulation"].session \in {cmd.session, NoSession}
    BY <2>1 DEF IInv, Careful, GivesBack
  <2>. QED BY <2>2, ReleasedOwn
<1>1. CASE cmd.op = "emulate" /\ Finish(owners) /\ UNCHANGED broker
  BY <1>0, <1>1, OwnersOwn, EndsIInv, SurvivesIsEnough DEF IInv, Typed
<1>2. CASE cmd.op = "clear" /\ Finish(e) /\ UNCHANGED broker
  <2>1. broker \in BOOLEAN /\ (~broker => Owned(e) = {})
    BY <1>b, <1>2 DEF IInv, Typed
  <2>. HIDE DEF e
  <2>. QED BY <1>0, <1>b, <1>2, <2>1, EndsIInv, SurvivesIsEnough
<1>3. CASE /\ cmd.op = "qa"
           /\ claimable(owners, "events", cmd.session)
           /\ owners' = claimResource(owners, "events", cmd.session) /\ broker' = TRUE
           /\ cmd' = Sending([cmd EXCEPT !.op = "qaEvents", !.left = 1])
  <2>1. PICK a : a = [cmd EXCEPT !.op = "qaEvents", !.left = 1]
    OBVIOUS
  <2>0. "qaEvents" \in Ops /\ 1 \in 0..2
    BY DEF Ops
  <2>2. a \in Commands
    BY <1>0, <2>0, <2>1 DEF Commands
  <2>3. a.op = "qaEvents" /\ a.session = cmd.session /\ a.prior = cmd.prior
        /\ a.hadBroker = cmd.hadBroker
    BY <1>0, <2>1 DEF Commands
  <2>4. PICK c : c = Sending(a)
    OBVIOUS
  <2>5. c \in Commands /\ c.op = "qaEvents" /\ c.session = cmd.session /\ c.prior = cmd.prior
        /\ c.hadBroker = cmd.hadBroker /\ c.step \notin {"detach", "snapshot"}
    BY <2>2, <2>3, <2>4, SendingFacts
  <2>6. PICK o : o = claimResource(owners, "events", cmd.session)
    OBVIOUS
  <2>7. owners["events"].session \in {cmd.session, NoSession}
    BY <1>3 DEF claimable, NoOwner, Mine
  <2>8. OwnChanged(o)
    BY <1>3, <1>a, <2>6, <2>7, OwnersOwn, ClaimedOwn DEF QaOps
  <2>9. \A r \in Resource : GivesBack(c, r) => o[r].session \in {c.session, NoSession}
    <3>1. \A r \in Resource : GivesBack(c, r) => r = "events"
      BY <2>5 DEF GivesBack
    <3>. QED BY <1>0, <1>3, <1>a, <2>5, <2>6, <3>1, ClaimedFact DEF QaOps
  <2>10. owners' = o /\ cmd' = c /\ broker' = TRUE
    BY <1>3, <2>1, <2>4, <2>6
  <2>. QED BY <1>0, <1>3, <2>5, <2>8, <2>9, <2>10, QaStepIInv, SurvivesIsEnough DEF QaOps
<1>4. CASE /\ cmd.op = "qaClear"
           /\ owners' = claimResource(e, "emulation", cmd.session) /\ broker' = TRUE
           /\ cmd' = Sending([cmd EXCEPT !.op = "qaAgain", !.left = 2])
  <2>1. PICK a : a = [cmd EXCEPT !.op = "qaAgain", !.left = 2]
    OBVIOUS
  <2>0. "qaAgain" \in Ops /\ 2 \in 0..2
    BY DEF Ops
  <2>2. a \in Commands
    BY <1>0, <2>0, <2>1 DEF Commands
  <2>3. a.op = "qaAgain" /\ a.session = cmd.session /\ a.prior = cmd.prior
        /\ a.hadBroker = cmd.hadBroker
    BY <1>0, <2>1 DEF Commands
  <2>4. PICK c : c = Sending(a)
    OBVIOUS
  <2>5. c \in Commands /\ c.op = "qaAgain" /\ c.session = cmd.session /\ c.prior = cmd.prior
        /\ c.hadBroker = cmd.hadBroker /\ c.step \notin {"detach", "snapshot"}
    BY <2>2, <2>3, <2>4, SendingFacts
  <2>6. PICK o : o = claimResource(e, "emulation", cmd.session)
    OBVIOUS
  <2>7. "emulation" \in Resource => e["emulation"].session \in {cmd.session, NoSession}
    BY <1>0, ReleaseFacts DEF NoOwner
  <2>8. OwnChanged(o)
    <3>. HIDE DEF e
    <3>. QED BY <1>4, <1>a, <1>b, <2>6, <2>7, ClaimedOwn DEF QaOps
  <2>9. \A r \in Resource : ~GivesBack(c, r)
    BY <2>5 DEF GivesBack
  <2>10. owners' = o /\ cmd' = c /\ broker' = TRUE
    BY <1>4, <2>1, <2>4, <2>6
  <2>. QED BY <1>0, <1>4, <2>5, <2>8, <2>9, <2>10, QaStepIInv, SurvivesIsEnough DEF QaOps
<1>5. CASE cmd.op = "qaClear" /\ QaRestore(e)
  <2>. HIDE DEF e
  <2>. QED BY <1>0, <1>5, QaRestoreIInv, SurvivesIsEnough DEF QaOps
<1>6. CASE cmd.op = "qaAgain" /\ QaRestore(owners)
  BY <1>0, <1>6, QaRestoreIInv, SurvivesIsEnough DEF QaOps
<1>. QED BY <1>1, <1>2, <1>3, <1>4, <1>5, <1>6 DEF Store

LEMMA QaSuspendSteps ==
  ASSUME CdpAssumption, IInv, QaSuspend  PROVE IInv' /\ ClaimsSurvive
<1>0. known' \in BOOLEAN /\ emulated' \in BOOLEAN /\ emulated \in BOOLEAN /\ cmd \in Commands
      /\ owners \in Claims /\ broker' = TRUE
  BY DEF IInv, Typed, QaSuspend
<1>a. cmd.op \in QaOps /\ cmd.session \in Session /\ cmd.resource \in {"emulation", "events"}
  BY DEF IInv, Careful, QaSuspend
<1>. DEFINE wanted == IF cmd.resource = "emulation" THEN {"emulation", "events"} ELSE {"events"}
            held == wanted \cap Owned(owners)
            suspended == [r \in Resource |-> IF r \in wanted THEN NoOwner ELSE owners[r]]
            first == IF cmd.resource = "emulation" THEN "qa" ELSE "qaEvents"
<1>1. CASE \A r \in held : owners[r].session = cmd.session /\ owners[r].state = "active"
  <2>1. PICK a : a = [cmd EXCEPT !.op = first, !.hadEmulation = emulated,
                                 !.left = IF first = "qa" THEN 2 ELSE 1]
    OBVIOUS
  <2>0. first \in Ops /\ (IF first = "qa" THEN 2 ELSE 1) \in 0..2
    BY DEF Ops
  <2>2. a \in Commands
    <3>. HIDE DEF first
    <3>. QED BY <1>0, <2>0, <2>1 DEF Commands
  <2>3. a.op = first /\ a.session = cmd.session /\ a.prior = cmd.prior
        /\ a.hadBroker = cmd.hadBroker
    <3>. HIDE DEF first
    <3>. QED BY <1>0, <2>1 DEF Commands
  <2>4. PICK c : c = Sending(a)
    OBVIOUS
  <2>5. c \in Commands /\ c.op = first /\ c.session = cmd.session /\ c.prior = cmd.prior
        /\ c.hadBroker = cmd.hadBroker /\ c.step \notin {"detach", "snapshot"}
    BY <2>2, <2>3, <2>4, SendingFacts
  <2>6. OwnChanged(suspended)
    <3>1. \A r \in Resource : r \in wanted => owners[r].session \in {cmd.session, NoSession}
      BY <1>1 DEF Owned, NoOwner
    <3>2. suspended \in Claims
      BY <1>0 DEF Claims
    <3>. QED BY <3>1, <3>2 DEF OwnChanged, NoOwner
  <2>7. PICK o : o = claimResource(suspended, cmd.resource, cmd.session)
    OBVIOUS
  <2>8. cmd.resource \in Resource => suspended[cmd.resource].session \in {cmd.session, NoSession}
    BY <1>a DEF NoOwner
  <2>9. OwnChanged(o)
    <3>. HIDE DEF suspended
    <3>. QED BY <1>a, <2>6, <2>7, <2>8, ClaimedOwn
  <2>10. \A r \in Resource : GivesBack(c, r) => o[r].session \in {c.session, NoSession}
    <3>1. \A r \in Resource : GivesBack(c, r) => cmd.resource = "events" /\ r = "events"
      BY <1>a, <2>5 DEF GivesBack
    <3>2. suspended \in Claims
      BY <2>6 DEF OwnChanged
    <3>. HIDE DEF suspended
    <3>. QED BY <1>a, <2>5, <2>7, <3>1, <3>2, ClaimedFact
  <2>11. owners' = o /\ cmd' = c /\ broker' = TRUE
    BY <1>1, <2>1, <2>4, <2>7 DEF QaSuspend
  <2>12. first \in QaOps
    BY DEF QaOps
  <2>. HIDE DEF suspended, first, wanted, held
  <2>. QED BY <1>0, <1>a, <2>5, <2>9, <2>10, <2>11, <2>12, QaStepIInv, SurvivesIsEnough
<1>2. CASE ~(\A r \in held : owners[r].session = cmd.session /\ owners[r].state = "active")
  <2>1. Finish(owners)
    BY <1>2 DEF QaSuspend
  <2>. QED BY <1>0, <2>1, OwnersOwn, EndsIInv, SurvivesIsEnough
<1>. QED BY <1>1, <1>2

LEMMA WaitSteps ==
  ASSUME CdpAssumption, IInv, Wait  PROVE IInv' /\ ClaimsSurvive
<1>0. known' \in BOOLEAN /\ emulated' \in BOOLEAN /\ owners \in Claims /\ broker' = broker
      /\ broker \in BOOLEAN /\ (~broker => Owned(owners) = {})
  BY DEF IInv, Typed, Wait
<1>1. CASE Finish(owners)
  BY <1>0, <1>1, OwnersOwn, EndsIInv, SurvivesIsEnough
<1>2. CASE /\ Finish(releaseResource(owners, "tracing"))
           /\ "tracing" \in Resource /\ owners["tracing"].state = "stopping"
  <2>. DEFINE o == releaseResource(owners, "tracing")
  <2>1. o \in Claims /\ Owned(o) \subseteq Owned(owners)
        /\ \A r \in Resource : r # "tracing" => o[r] = owners[r]
    BY <1>0, ReleaseFacts
  <2>. HIDE DEF o
  <2>2. IInv' /\ \A r \in Resource : owners'[r].session = o[r].session
    BY <1>0, <1>2, <2>1, FinishIInv DEF o
  <2>. QED BY <1>2, <2>1, <2>2 DEF ClaimsSurvive, Owned
<1>. QED BY <1>1, <1>2 DEF Wait, completeStoppingResource

-----------------------------------------------------------------------------
(* Detaches, the release of a revoked tab, Chrome, and the worker.           *)

LEMMA DropIInv ==
  ASSUME CdpAssumption, IInv, Drop, cmd' \in {cmd, Idle}, emulated' \in BOOLEAN
  PROVE  IInv' /\ owners' = Nobody
BY DroppedIInv DEF Drop

LEMMA DetachSteps ==
  ASSUME CdpAssumption, IInv, Detach  PROVE IInv' /\ ClaimsSurvive
<1>1. cmd' = Idle /\ emulated' \in BOOLEAN /\ known \in BOOLEAN
  BY DEF Detach, IInv, Typed
<1>2. CASE Drop
  <2>1. Foreign(owners, cmd.session) = {}
    BY DEF Detach, IInv, Careful
  <2>. QED BY <1>1, <1>2, <2>1, DropIInv, ForeignlessSurvives, SurvivesIsEnough
<1>3. CASE GiveUp
  BY <1>1, <1>3, SameIInv, SurvivesIsEnough DEF GiveUp
<1>. QED BY <1>2, <1>3 DEF Detach

LEMMA RevokeSteps ==
  ASSUME CdpAssumption, IInv, Revoke  PROVE IInv' /\ ClaimsSurvive
<1>1. known' \in BOOLEAN /\ emulated \in BOOLEAN /\ UNCHANGED cmd
  BY DEF Revoke, IInv, Typed
<1>2. CASE ReleaseAtOnce(FALSE)
  BY <1>1, <1>2, ReleaseAtOnceIInv, SurvivesIsEnough
<1>3. CASE UNCHANGED <<tab, broker, owners, traced, emulated>>
  BY <1>1, <1>3, SameIInv, SurvivesIsEnough
<1>. QED BY <1>2, <1>3 DEF Revoke

LEMMA RevokeDetachedSteps ==
  ASSUME CdpAssumption, IInv, RevokeDetached  PROVE IInv' /\ ClaimsSurvive
<1>1. emulated' \in BOOLEAN /\ known \in BOOLEAN /\ UNCHANGED cmd
  BY DEF RevokeDetached, IInv, Typed
<1>2. IInv'
  <2>1. CASE Drop
    BY <1>1, <2>1, DropIInv
  <2>2. CASE GiveUp
    BY <1>1, <2>2, SameIInv DEF GiveUp
  <2>. QED BY <2>1, <2>2 DEF RevokeDetached
<1>3. release # NoRelease
  BY DEF RevokeDetached, NoRelease
<1>. QED BY <1>2, <1>3 DEF ClaimsSurvive

LEMMA OutsideSteps ==
  ASSUME CdpAssumption, IInv, StrayDetached \/ ChromeDetaches \/ WorkerRestarts
  PROVE  IInv' /\ ClaimsSurvive
<1>1. Drop /\ cmd' \in {cmd, Idle} /\ emulated' \in BOOLEAN
  BY DEF StrayDetached, ChromeDetaches, WorkerRestarts, IInv, Typed
<1>. QED BY <1>1, DropIInv DEF ClaimsSurvive

(* The one claim that goes without a command is that of a trace its session  *)
(* is stopping.                                                              *)
LEMMA TraceCompletesSteps ==
  ASSUME CdpAssumption, IInv, TraceCompletes  PROVE IInv' /\ ClaimsSurvive
<1>0. known' \in BOOLEAN /\ emulated' \in BOOLEAN /\ owners \in Claims /\ UNCHANGED <<broker, cmd>>
      /\ broker \in BOOLEAN /\ (~broker => Owned(owners) = {})
  BY DEF IInv, Typed, TraceCompletes
<1>1. CASE UNCHANGED owners
  BY <1>0, <1>1, SameIInv, SurvivesIsEnough
<1>2. CASE /\ owners' = releaseResource(owners, "tracing")
           /\ "tracing" \in Resource /\ owners["tracing"].state = "stopping"
  <2>1. owners' \in Claims /\ Owned(owners') \subseteq Owned(owners)
        /\ \A r \in Resource : r # "tracing" => owners'[r] = owners[r]
    BY <1>0, <1>2, ReleaseFacts
  <2>2. \A r \in Resource : owners'[r].session \in {owners[r].session, NoSession}
    BY <1>0, <1>2, ReleaseFacts DEF NoOwner
  <2>3. IInv'
    BY <1>0, <2>1, <2>2, ClaimsGoIInv
  <2>. QED BY <1>2, <2>1, <2>3 DEF ClaimsSurvive, Owned
<1>. QED BY <1>1, <1>2 DEF TraceCompletes, completeStoppingResource

-----------------------------------------------------------------------------
LEMMA InitIInv ==
  ASSUME Init  PROVE IInv
BY NobodyClaims, IdleFacts DEF Init, IInv, Typed

LEMMA NextIInv ==
  ASSUME CdpAssumption, IInv, [Next]_vars
  PROVE  IInv' /\ (ClaimsSurvive \/ UNCHANGED vars)
<1>1. CASE UNCHANGED vars
  <2>1. UNCHANGED <<broker, owners, cmd, known, emulated>>
    BY <1>1 DEF vars, memoryVars
  <2>2. known \in BOOLEAN /\ emulated \in BOOLEAN
    BY DEF IInv, Typed
  <2>. QED BY <1>1, <2>1, <2>2, SameIInv
<1>2. CASE Next
  BY <1>2, BeginSteps, AttachSteps, LeaseSteps, SendSteps, StoreSteps, QaSuspendSteps, WaitSteps,
     DetachSteps, RevokeSteps, RevokeDetachedSteps, OutsideSteps, TraceCompletesSteps DEF Next
<1>. QED BY <1>1, <1>2

(* No session loses a claim by what another session does, whatever the       *)
(* number of sessions and of detaches still under way.                       *)
THEOREM ClaimsAreKept ==
  ASSUME CdpAssumption
  PROVE  Spec => ForeignClaimsSurvive
<1>1. Init => IInv
  BY InitIInv
<1>2. IInv /\ [Next]_vars => IInv'
  BY NextIInv
<1>3. IInv /\ [Next]_vars => [ClaimsSurvive]_vars
  BY NextIInv
<1>. QED BY <1>1, <1>2, <1>3, PTL DEF Spec, ForeignClaimsSurvive

-----------------------------------------------------------------------------
(* Types.                                                                    *)

(* The rest of the state; and a command that switches something on in Chrome *)
(* does so for a resource of the model.                                      *)
World ==
  /\ tab \in [session : Sessions, released : BOOLEAN]
  /\ attached \in BOOLEAN /\ traced \in BOOLEAN
  /\ effects \subseteq Effects
  /\ lease \in Sessions
  /\ release \in [step : {"none", "detach"}, session : Sessions]
  /\ stray \in 0..MaxStray

Switches(c) ==
  /\ c.op = "start" => c.resource \in Resource
  /\ c.op \in {"emulate"} \cup QaOps => "emulation" \in Resource

TypeInv == IInv /\ World /\ Switches(cmd)

LEMMA TypeInvTypeOK ==
  ASSUME TypeInv  PROVE TypeOK
<1>1. ~broker => owners = Nobody
  BY DEF TypeInv, IInv, Typed, Claims, Owned, Nobody
<1>2. {attached, known, broker, traced, emulated} \subseteq BOOLEAN
  BY DEF TypeInv, IInv, Typed, World
<1>. QED BY <1>1, <1>2 DEF TypeInv, IInv, Typed, World, Claims, Commands, TypeOK

LEMMA ForgetTyped ==
  ASSUME World, NEW keep \in BOOLEAN, Forget(keep)
  PROVE  tab' \in [session : Sessions, released : BOOLEAN]
BY DEF World, Forget, Sessions

LEMMA ReleaseAtOnceWorld ==
  ASSUME World, NEW keep \in BOOLEAN, ReleaseAtOnce(keep),
         UNCHANGED <<attached, effects, lease, release, stray>>
  PROVE  World'
<1>1. tab' \in [session : Sessions, released : BOOLEAN]
  BY ForgetTyped DEF ReleaseAtOnce
<1>2. traced' \in BOOLEAN
  BY DEF ReleaseAtOnce, World
<1>. QED BY <1>1, <1>2 DEF World

LEMMA EffectTyped ==
  ASSUME TypeInv  PROVE Effect \subseteq Effects
<1>1. cmd.op = "start" => cmd.resource \in Resource
  BY DEF TypeInv, Switches
<1>2. cmd.op \in {"emulate", "qa", "qaAgain"} => "emulation" \in Resource
  BY DEF TypeInv, Switches, QaOps
<1>3. effects \subseteq Effects /\ "ending" \in Effects
  BY DEF TypeInv, World, Effects
<1>4. \A r \in Resource \ {"events"} : r \in Effects
  BY DEF Effects
<1>. QED BY <1>1, <1>2, <1>3, <1>4 DEF Effect

-----------------------------------------------------------------------------
LEMMA SameTypes ==
  ASSUME World, UNCHANGED <<tab, attached, effects, lease, release, stray>>, traced' \in BOOLEAN
  PROVE  World'
BY DEF World

LEMMA SwitchesKept ==
  ASSUME NEW c, NEW d, Switches(c), d.op = c.op, d.resource = c.resource
  PROVE  Switches(d)
BY DEF Switches

LEMMA SwitchesNothing ==
  ASSUME NEW c, c.op \notin {"start", "emulate"} \cup QaOps
  PROVE  Switches(c)
BY DEF Switches

LEMMA IdleSwitches == Switches(Idle)
BY DEF Switches, Idle, Command, QaOps

(* A new command; what it is about says whether it may.                      *)
LEMMA CommandSwitches ==
  ASSUME NEW op \in Ops, NEW s \in Session, NEW r \in Resource \cup {"events", "emulation"},
         NEW step \in Steps, NEW left \in 0..2, NEW c,
         c \in {Command(op, s, r, step, left), Sending(Command(op, s, r, step, left))},
         op = "start" => r \in Resource,
         op \in {"emulate"} \cup QaOps => "emulation" \in Resource
  PROVE  Switches(c)
<1>1. Command(op, s, r, step, left) \in Commands
      /\ Command(op, s, r, step, left).op = op /\ Command(op, s, r, step, left).resource = r
  BY CommandFacts
<1>2. c.op = op /\ c.resource = r
  BY <1>1, SendingFacts
<1>. QED BY <1>2 DEF Switches

LEMMA StartTypes ==
  ASSUME TypeInv, NEW s \in Session, NEW r \in Resource, commandStart(s, r)
  PROVE  traced' \in BOOLEAN /\ Switches(cmd')
<1>1. PICK n \in 0..2 : n = IF r = "interception" THEN 2 ELSE 1
  OBVIOUS
<1>2. cmd' = Sending(Command("start", s, r, "send", n)) /\ traced' = (traced /\ r # "tracing")
  BY <1>1 DEF commandStart
<1>3. "start" \in Ops /\ "send" \in Steps /\ "start" \notin {"emulate"} \cup QaOps
  BY DEF Ops, Steps, QaOps
<1>4. Switches(cmd')
  BY <1>1, <1>2, <1>3, CommandSwitches
<1>. QED BY <1>2, <1>4 DEF TypeInv, World

LEMMA StopTypes ==
  ASSUME TypeInv, NEW s \in Session, NEW r \in Resource, commandStop(s, r)
  PROVE  traced' \in BOOLEAN /\ Switches(cmd')
<1>1. cmd' = cmd \/ cmd' = Sending(Command("stop", s, r, "send", 1))
  BY DEF commandStop
<1>2. "stop" \in Ops /\ "send" \in Steps /\ "stop" \notin {"start", "emulate"} \cup QaOps /\ 1 \in 0..2
  BY DEF Ops, Steps, QaOps
<1>3. CASE cmd' = cmd
  BY <1>3 DEF commandStop, TypeInv, World
<1>4. CASE cmd' = Sending(Command("stop", s, r, "send", 1))
  <2>1. Switches(cmd')
    BY <1>2, <1>4, CommandSwitches
  <2>. QED BY <2>1 DEF commandStop, TypeInv, World
<1>. QED BY <1>1, <1>3, <1>4

LEMMA OtherTypes ==
  ASSUME TypeInv, NEW s \in Session,
         \/ commandTraceStop(s)
         \/ commandTouch(s)
         \/ commandTurnEnded(s)
         \/ cdpDetachSession(s)
  PROVE  traced' \in BOOLEAN /\ Switches(cmd')
<1>1. UNCHANGED traced
  BY DEF commandTraceStop, commandTouch, commandTurnEnded, cdpDetachSession
<1>2. \E op \in {"traceStop", "touch", "attach", "turnEnded", "cleanup"},
         r \in {"events", "tracing"} \cap (Resource \cup {"events"}),
         step \in Steps, left \in 0..2 :
        cmd' \in {Command(op, s, r, step, left), Sending(Command(op, s, r, step, left))}
  <2>1. {"send", "wait", "attach", "detach"} \subseteq Steps /\ 0 \in 0..2 /\ 1 \in 0..2
    BY DEF Steps
  <2>2. CASE commandTraceStop(s)
    <3>1. "tracing" \in Resource
      BY <2>2 DEF commandTraceStop
    <3>2. CASE cmd' = Sending(Command("traceStop", s, "tracing", "send", 1))
      BY <2>1, <3>1, <3>2
    <3>3. CASE cmd' = Command("traceStop", s, "tracing", "wait", 0)
      BY <2>1, <3>1, <3>3
    <3>. QED BY <2>2, <3>2, <3>3 DEF commandTraceStop
  <2>3. CASE commandTouch(s)
    <3>1. CASE cmd' = Sending(Command("touch", s, "events", "send", 1))
      BY <2>1, <3>1
    <3>2. CASE cmd' = Command("attach", s, "events", "attach", 0)
      BY <2>1, <3>2
    <3>. QED BY <2>3, <3>1, <3>2 DEF commandTouch
  <2>4. CASE commandTurnEnded(s)
    <3>1. cmd' = Command("turnEnded", s, "events", "detach", 0)
      BY <2>4 DEF commandTurnEnded
    <3>. QED BY <2>1, <3>1
  <2>5. CASE cdpDetachSession(s)
    <3>1. cmd' = Command("cleanup", s, "events", "detach", 0)
      BY <2>5 DEF cdpDetachSession
    <3>. QED BY <2>1, <3>1
  <2>. QED BY <2>2, <2>3, <2>4, <2>5
<1>3. {"traceStop", "touch", "attach", "turnEnded", "cleanup"} \subseteq Ops
      /\ \A op \in {"traceStop", "touch", "attach", "turnEnded", "cleanup"} :
           op \notin {"start", "emulate"} \cup QaOps
  BY DEF Ops, QaOps
<1>4. Switches(cmd')
  BY <1>2, <1>3, CommandSwitches
<1>. QED BY <1>1, <1>4 DEF TypeInv, World

LEMMA DetachTypes ==
  ASSUME TypeInv, NEW s \in Session, commandDetach(s)
  PROVE  traced' \in BOOLEAN /\ Switches(cmd')
<1>1. traced' \in BOOLEAN
  BY DEF commandDetach, TypeInv, World
<1>2. cmd' = cmd \/ cmd' = Command("detach", s, "events", "detach", 0)
  BY DEF commandDetach
<1>3. "detach" \in Ops /\ "detach" \in Steps /\ "detach" \notin {"start", "emulate"} \cup QaOps
      /\ 0 \in 0..2
  BY DEF Ops, Steps, QaOps
<1>4. Switches(cmd)
  BY DEF TypeInv
<1>. QED BY <1>1, <1>2, <1>3, <1>4, CommandSwitches

LEMMA EmulationTypes ==
  ASSUME TypeInv, NEW s \in Session, commandEmulation(s)
  PROVE  traced' \in BOOLEAN /\ Switches(cmd')
<1>1. UNCHANGED traced /\ "emulation" \in Resource
  BY DEF commandEmulation
<1>2. \/ cmd' = Sending(Command("emulate", s, "emulation", "send", 2))
      \/ cmd' = Sending(Command("clear", s, "emulation", "send", 1))
  BY DEF commandEmulation
<1>3. {"emulate", "clear"} \subseteq Ops /\ "send" \in Steps /\ 1 \in 0..2 /\ 2 \in 0..2
  BY DEF Ops, Steps
<1>4. Switches(cmd')
  BY <1>1, <1>2, <1>3, CommandSwitches
<1>. QED BY <1>1, <1>4 DEF TypeInv, World

LEMMA QaTypes ==
  ASSUME TypeInv, NEW s \in Session, commandQa(s)
  PROVE  traced' \in BOOLEAN /\ Switches(cmd')
<1>1. UNCHANGED traced /\ "emulation" \in Resource
  BY DEF commandQa
<1>2. cmd'.op = "qa"
  BY DEF commandQa, Command
<1>3. Switches(cmd')
  BY <1>1, <1>2 DEF Switches
<1>. QED BY <1>1, <1>3 DEF TypeInv, World

LEMMA ReleaseAtOnceTraced ==
  ASSUME World, NEW keep, ReleaseAtOnce(keep)  PROVE traced' \in BOOLEAN
BY DEF ReleaseAtOnce, World

LEMMA BeginTypes ==
  ASSUME TypeInv, NEW s \in Session, Begin(s)  PROVE World' /\ Switches(cmd')
<1>1. UNCHANGED <<attached, effects, lease, release, stray>>
  BY DEF Begin
<1>2. World /\ Switches(cmd)
  BY DEF TypeInv
<1>3. CASE UNCHANGED tab /\ traced' \in BOOLEAN /\ Switches(cmd')
  BY <1>1, <1>2, <1>3, SameTypes
<1>4. CASE \E op \in {"release", "handoff"} : releaseOwnership(s, op)
  <2>1. PICK op \in {"release", "handoff"} : releaseOwnership(s, op)
    BY <1>4
  <2>2. CASE ReleaseAtOnce(op = "handoff") /\ UNCHANGED cmd
    BY <1>1, <1>2, <2>2, ReleaseAtOnceWorld
  <2>3. CASE /\ cmd' = Command(op, s, "events", "detach", 0)
             /\ UNCHANGED <<tab, traced>>
    <3>1. op \in Ops /\ "detach" \in Steps /\ op \notin {"start", "emulate"} \cup QaOps /\ 0 \in 0..2
      BY DEF Ops, Steps, QaOps
    <3>2. Switches(cmd')
      BY <2>3, <3>1, CommandSwitches
    <3>3. traced' \in BOOLEAN
      BY <1>2, <2>3 DEF World
    <3>. QED BY <1>1, <1>2, <2>3, <3>2, <3>3, SameTypes
  <2>. QED BY <2>1, <2>2, <2>3 DEF releaseOwnership
<1>5. CASE tab' = [session |-> s, released |-> FALSE] /\ UNCHANGED <<traced, cmd>>
  BY <1>1, <1>2, <1>5 DEF World, Sessions
<1>. QED BY <1>3, <1>4, <1>5, StartTypes, StopTypes, OtherTypes, DetachTypes, EmulationTypes, QaTypes
         DEF Begin

-----------------------------------------------------------------------------
(* The steps of a command.                                                   *)

(* What it becomes: done, the same operation, or a step of composite QA.     *)
Becomes(c) ==
  \/ c = Idle
  \/ c.op = cmd.op /\ c.resource = cmd.resource
  \/ cmd.op \in QaOps /\ c.op \in QaOps \cup {"qaEnd"}

LEMMA BecomesSwitches ==
  ASSUME TypeInv, NEW c, Becomes(c)  PROVE Switches(c)
<1>1. Switches(cmd)
  BY DEF TypeInv
<1>2. CASE cmd.op \in QaOps /\ c.op \in QaOps \cup {"qaEnd"}
  BY <1>1, <1>2 DEF Switches, QaOps
<1>. QED BY <1>1, <1>2, IdleSwitches, SwitchesKept DEF Becomes

LEMMA QaClearBecomes ==
  ASSUME TypeInv, cmd.op \in QaOps, NEW o, QaClear(o)  PROVE Becomes(cmd')
<1>1. PICK c : c = [cmd EXCEPT !.op = "qaClear", !.left = 1]
  OBVIOUS
<1>2. cmd \in Commands /\ "qaClear" \in Ops /\ 1 \in 0..2
  BY DEF TypeInv, IInv, Typed, Ops
<1>3. c \in Commands /\ c.op = "qaClear"
  BY <1>1, <1>2 DEF Commands
<1>4. cmd' = Sending(c)
  BY <1>1 DEF QaClear
<1>. QED BY <1>3, <1>4, SendingFacts DEF Becomes, QaOps

LEMMA QaRestoreBecomes ==
  ASSUME TypeInv, cmd.op \in QaOps, NEW o, QaRestore(o)  PROVE Becomes(cmd')
<1>1. cmd \in Commands
  BY DEF TypeInv, IInv, Typed
<1>2. cmd' = Idle \/ cmd' = [cmd EXCEPT !.op = "qaEnd", !.step = "detach"]
  BY DEF QaRestore, Finish
<1>. QED BY <1>1, <1>2 DEF Becomes, Commands

LEMMA FailsBecomes ==
  ASSUME TypeInv, Fails  PROVE Becomes(cmd') /\ traced' \in BOOLEAN
<1>1. traced' \in BOOLEAN
  BY DEF Fails, TypeInv, World
<1>2. CASE cmd' = Idle
  BY <1>1, <1>2 DEF Becomes
<1>3. CASE cmd.op \in QaOps /\ \E o : QaClear(o) \/ QaRestore(o)
  BY <1>1, <1>3, QaClearBecomes, QaRestoreBecomes
<1>4. CASE cmd.op = "qa" /\ QaClear(owners)
  BY <1>3, <1>4 DEF QaOps
<1>5. CASE cmd.op = "qaEvents" /\ \E o : QaClear(o) \/ QaRestore(o)
  BY <1>3, <1>5 DEF QaOps
<1>6. CASE cmd.op \in {"qaClear", "qaAgain"} /\ QaRestore(owners)
  BY <1>3, <1>6 DEF QaOps
<1>. QED BY <1>2, <1>4, <1>5, <1>6 DEF Fails, Finish

(* A command goes on with the same operation.                                *)
LEMMA GoesOnBecomes ==
  ASSUME TypeInv, NEW step \in Steps, cmd' = [cmd EXCEPT !.step = step]
  PROVE  Becomes(cmd')
BY DEF TypeInv, IInv, Typed, Commands, Becomes

LEMMA AttachTypes ==
  ASSUME TypeInv, Attach  PROVE World' /\ Switches(cmd')
<1>1. UNCHANGED <<tab, effects, lease, release, stray>> /\ attached' \in BOOLEAN
  BY DEF Attach, TypeInv, World
<1>2. traced' \in BOOLEAN /\ Becomes(cmd')
  <2>1. CASE Fails
    BY <2>1, FailsBecomes
  <2>2. CASE cmd' = [cmd EXCEPT !.step = "lease"] /\ UNCHANGED traced
    BY <2>2, GoesOnBecomes DEF Steps, TypeInv, World
  <2>. QED BY <2>1, <2>2 DEF Attach
<1>3. World'
  BY <1>1, <1>2 DEF TypeInv, World
<1>. QED BY <1>2, <1>3, BecomesSwitches

LEMMA LeaseTypes ==
  ASSUME TypeInv, Lease  PROVE World' /\ Switches(cmd')
<1>1. Becomes(cmd')
  <2>1. CASE cmd' = Idle
    BY <2>1 DEF Becomes
  <2>2. CASE cmd' = [cmd EXCEPT !.step = "send"]
    BY <2>2, GoesOnBecomes DEF Steps
  <2>. QED BY <2>1, <2>2 DEF Lease, Finish
<1>2. lease' \in Sessions
  BY DEF Lease, TypeInv, World
<1>3. World'
  BY <1>2 DEF Lease, TypeInv, World
<1>. QED BY <1>1, <1>3, BecomesSwitches

LEMMA DoneBecomes ==
  ASSUME TypeInv, Done  PROVE Becomes(cmd')
<1>1. CASE cmd' = Idle
  BY <1>1 DEF Becomes
<1>2. CASE cmd' = [cmd EXCEPT !.step = "store"]
  BY <1>2, GoesOnBecomes DEF Steps
<1>3. CASE cmd' = [cmd EXCEPT !.step = "wait"]
  BY <1>3, GoesOnBecomes DEF Steps
<1>4. CASE cmd.op = "qaEvents" /\ (QaClear(owners) \/ QaRestore(owners))
  BY <1>4, QaClearBecomes, QaRestoreBecomes DEF QaOps
<1>. QED BY <1>1, <1>2, <1>3, <1>4 DEF Done, Finish

LEMMA SendTypes ==
  ASSUME TypeInv, Send  PROVE World' /\ Switches(cmd')
<1>1. UNCHANGED <<tab, attached, lease, release, stray>> /\ effects' \subseteq Effects
  BY EffectTyped DEF Send, TypeInv, World
<1>2. traced' \in BOOLEAN /\ Becomes(cmd')
  <2>1. CASE Fails
    BY <2>1, FailsBecomes
  <2>2. CASE cmd' = [cmd EXCEPT !.step = "detach"] /\ UNCHANGED traced
    BY <2>2, GoesOnBecomes DEF Steps, TypeInv, World
  <2>3. CASE cmd' = Sending([cmd EXCEPT !.left = 1]) /\ UNCHANGED traced
    <3>1. PICK c : c = [cmd EXCEPT !.left = 1]
      OBVIOUS
    <3>2. cmd \in Commands /\ 1 \in 0..2
      BY DEF TypeInv, IInv, Typed
    <3>3. c \in Commands /\ c.op = cmd.op /\ c.resource = cmd.resource
      BY <3>1, <3>2 DEF Commands
    <3>4. Becomes(cmd')
      BY <2>3, <3>1, <3>3, SendingFacts DEF Becomes
    <3>. QED BY <2>3, <3>4 DEF TypeInv, World
  <2>4. CASE Done /\ traced' = (traced /\ broker')
    BY <2>4, DoneBecomes DEF TypeInv, World
  <2>. QED BY <2>1, <2>2, <2>3, <2>4 DEF Send
<1>3. World'
  BY <1>1, <1>2 DEF TypeInv, World
<1>. QED BY <1>2, <1>3, BecomesSwitches

LEMMA StoreTypes ==
  ASSUME TypeInv, Store  PROVE World' /\ Switches(cmd')
<1>1. UNCHANGED <<tab, attached, effects, lease, release, stray>> /\ traced' \in BOOLEAN
  BY DEF Store, TypeInv, World
<1>2. cmd \in Commands
  BY DEF TypeInv, IInv, Typed
<1>3. Becomes(cmd')
  <2>1. CASE cmd' = Idle
    BY <2>1 DEF Becomes
  <2>2. CASE cmd.op = "qa" /\ cmd' = Sending([cmd EXCEPT !.op = "qaEvents", !.left = 1])
    <3>1. PICK c : c = [cmd EXCEPT !.op = "qaEvents", !.left = 1]
      OBVIOUS
    <3>2. "qaEvents" \in Ops /\ 1 \in 0..2
      BY DEF Ops
    <3>3. c \in Commands /\ c.op = "qaEvents"
      BY <1>2, <3>1, <3>2 DEF Commands
    <3>. QED BY <2>2, <3>1, <3>3, SendingFacts DEF Becomes, QaOps
  <2>3. CASE cmd.op = "qaClear" /\ cmd' = Sending([cmd EXCEPT !.op = "qaAgain", !.left = 2])
    <3>1. PICK c : c = [cmd EXCEPT !.op = "qaAgain", !.left = 2]
      OBVIOUS
    <3>2. "qaAgain" \in Ops /\ 2 \in 0..2
      BY DEF Ops
    <3>3. c \in Commands /\ c.op = "qaAgain"
      BY <1>2, <3>1, <3>2 DEF Commands
    <3>. QED BY <2>3, <3>1, <3>3, SendingFacts DEF Becomes, QaOps
  <2>4. CASE cmd.op \in QaOps /\ \E o : QaRestore(o)
    BY <2>4, QaRestoreBecomes
  <2>. QED BY <2>1, <2>2, <2>3, <2>4 DEF Store, Finish, QaOps
<1>. QED BY <1>1, <1>3, SameTypes, BecomesSwitches DEF TypeInv

LEMMA QaSuspendTypes ==
  ASSUME TypeInv, QaSuspend  PROVE World' /\ Switches(cmd')
<1>1. UNCHANGED <<tab, attached, effects, lease, release, stray>> /\ traced' \in BOOLEAN
  BY DEF QaSuspend, TypeInv, World
<1>2. cmd \in Commands /\ cmd.op \in QaOps /\ emulated \in BOOLEAN
  BY DEF QaSuspend, TypeInv, IInv, Typed, Careful
<1>3. Becomes(cmd')
  <2>1. CASE cmd' = Idle
    BY <2>1 DEF Becomes
  <2>2. ASSUME NEW first \in {"qa", "qaEvents"}, NEW n \in 0..2,
               cmd' = Sending([cmd EXCEPT !.op = first, !.hadEmulation = emulated, !.left = n])
        PROVE  Becomes(cmd')
    <3>1. PICK c : c = [cmd EXCEPT !.op = first, !.hadEmulation = emulated, !.left = n]
      OBVIOUS
    <3>2. first \in Ops
      BY DEF Ops
    <3>3. c \in Commands /\ c.op = first
      BY <1>2, <3>1, <3>2 DEF Commands
    <3>. QED BY <1>2, <2>2, <3>1, <3>3, SendingFacts DEF Becomes, QaOps
  <2>3. PICK first \in {"qa", "qaEvents"} :
               first = IF cmd.resource = "emulation" THEN "qa" ELSE "qaEvents"
    OBVIOUS
  <2>4. PICK n \in 0..2 : n = IF first = "qa" THEN 2 ELSE 1
    OBVIOUS
  <2>5. \/ cmd' = Idle
        \/ cmd' = Sending([cmd EXCEPT !.op = first, !.hadEmulation = emulated, !.left = n])
    BY <2>3, <2>4 DEF QaSuspend, Finish
  <2>. QED BY <2>1, <2>2, <2>5
<1>. QED BY <1>1, <1>3, SameTypes, BecomesSwitches DEF TypeInv

LEMMA WaitTypes ==
  ASSUME TypeInv, Wait  PROVE World' /\ Switches(cmd')
<1>1. UNCHANGED <<tab, attached, effects, lease, release, stray>> /\ traced' \in BOOLEAN /\ cmd' = Idle
  BY DEF Wait, Finish, TypeInv, World
<1>. QED BY <1>1, SameTypes, IdleSwitches DEF TypeInv

-----------------------------------------------------------------------------
(* Detaches, Chrome, and the worker.                                         *)

LEMMA DropWorld ==
  ASSUME World, Drop, NEW answered \in BOOLEAN, DetachCall(answered)
  PROVE  /\ attached' \in BOOLEAN /\ traced' \in BOOLEAN
         /\ effects' \subseteq Effects /\ lease' \in Sessions
BY DEF World, Drop, DetachCall, Sessions

LEMMA GiveUpWorld ==
  ASSUME CdpAssumption, World, GiveUp
  PROVE  /\ attached' \in BOOLEAN /\ traced' \in BOOLEAN
         /\ effects' \subseteq Effects /\ lease' \in Sessions /\ stray' \in 0..MaxStray
BY DEF World, GiveUp, CdpAssumption

LEMMA NoReleaseTyped == NoRelease \in [step : {"none", "detach"}, session : Sessions]
BY DEF NoRelease, Sessions

LEMMA DetachTypesStep ==
  ASSUME CdpAssumption, TypeInv, Detach  PROVE World' /\ Switches(cmd')
<1>1. World
  BY DEF TypeInv
<1>2. /\ attached' \in BOOLEAN /\ traced' \in BOOLEAN
      /\ effects' \subseteq Effects /\ lease' \in Sessions /\ stray' \in 0..MaxStray
  <2>1. CASE GiveUp
    BY <1>1, <2>1, GiveUpWorld
  <2>2. CASE Drop /\ (\E answered \in BOOLEAN : DetachCall(answered)) /\ UNCHANGED stray
    BY <1>1, <2>2, DropWorld DEF World
  <2>. QED BY <2>1, <2>2 DEF Detach
<1>3. tab' \in [session : Sessions, released : BOOLEAN]
  <2>1. CASE UNCHANGED tab
    BY <1>1, <2>1 DEF World
  <2>2. CASE Forget(cmd.op = "handoff")
    BY <1>1, <2>2, ForgetTyped
  <2>. QED BY <2>1, <2>2 DEF Detach
<1>4. UNCHANGED release /\ cmd' = Idle
  BY DEF Detach
<1>5. World'
  BY <1>1, <1>2, <1>3, <1>4 DEF World
<1>. QED BY <1>4, <1>5, IdleSwitches

LEMMA RevokeTypes ==
  ASSUME TypeInv, Revoke  PROVE World' /\ Switches(cmd')
<1>1. World /\ Switches(cmd) /\ UNCHANGED <<attached, effects, lease, cmd, stray>>
  BY DEF TypeInv, Revoke
<1>2. CASE ReleaseAtOnce(FALSE) /\ UNCHANGED release
  BY <1>1, <1>2, ReleaseAtOnceWorld
<1>3. CASE release' = [step |-> "detach", session |-> tab.session] /\ UNCHANGED <<tab, traced>>
  BY <1>1, <1>3 DEF World
<1>. QED BY <1>2, <1>3 DEF Revoke

LEMMA RevokeDetachedTypes ==
  ASSUME CdpAssumption, TypeInv, RevokeDetached  PROVE World' /\ Switches(cmd')
<1>1. World /\ Switches(cmd) /\ UNCHANGED cmd /\ release' = NoRelease
  BY DEF TypeInv, RevokeDetached
<1>2. /\ attached' \in BOOLEAN /\ traced' \in BOOLEAN
      /\ effects' \subseteq Effects /\ lease' \in Sessions /\ stray' \in 0..MaxStray
  <2>1. CASE GiveUp
    BY <1>1, <2>1, GiveUpWorld
  <2>2. CASE Drop /\ (\E answered \in BOOLEAN : DetachCall(answered)) /\ UNCHANGED stray
    BY <1>1, <2>2, DropWorld DEF World
  <2>. QED BY <2>1, <2>2 DEF RevokeDetached
<1>3. tab' \in [session : Sessions, released : BOOLEAN]
  BY <1>1, ForgetTyped DEF RevokeDetached
<1>. QED BY <1>1, <1>2, <1>3, NoReleaseTyped DEF World

LEMMA OutsideTypes ==
  ASSUME CdpAssumption, TypeInv, StrayDetached \/ ChromeDetaches \/ WorkerRestarts
  PROVE  World' /\ Switches(cmd')
<1>1. World /\ Switches(cmd) /\ Drop
  BY DEF TypeInv, StrayDetached, ChromeDetaches, WorkerRestarts
<1>2. /\ attached' \in BOOLEAN /\ traced' \in BOOLEAN
      /\ effects' \subseteq Effects /\ lease' \in Sessions
  <2>1. CASE \E answered \in BOOLEAN : DetachCall(answered)
    BY <1>1, <2>1, DropWorld
  <2>2. CASE attached' = FALSE /\ effects' = {}
    BY <1>1, <2>2 DEF Drop, Sessions
  <2>. QED BY <2>1, <2>2 DEF StrayDetached, ChromeDetaches, WorkerRestarts
<1>3. stray' \in 0..MaxStray
  BY <1>1 DEF StrayDetached, ChromeDetaches, WorkerRestarts, World, CdpAssumption
<1>4. UNCHANGED tab /\ release' \in {release, NoRelease} /\ cmd' \in {cmd, Idle}
  BY DEF StrayDetached, ChromeDetaches, WorkerRestarts
<1>5. World'
  BY <1>1, <1>2, <1>3, <1>4, NoReleaseTyped DEF World
<1>. QED BY <1>1, <1>4, <1>5, IdleSwitches

LEMMA TraceCompletesTypes ==
  ASSUME TypeInv, TraceCompletes  PROVE World' /\ Switches(cmd')
<1>1. UNCHANGED <<tab, attached, lease, cmd, release, stray>> /\ effects' \subseteq effects
      /\ traced' \in BOOLEAN
  BY DEF TraceCompletes, TypeInv, World
<1>. QED BY <1>1 DEF TypeInv, World

-----------------------------------------------------------------------------
LEMMA TypesInit ==
  ASSUME CdpAssumption, Init  PROVE TypeInv
<1>1. World
  <2>1. /\ tab \in [session : Sessions, released : BOOLEAN] /\ attached \in BOOLEAN
        /\ traced \in BOOLEAN /\ effects \subseteq Effects /\ lease \in Sessions
    BY DEF Init, Sessions
  <2>2. stray \in 0..MaxStray
    BY DEF Init, CdpAssumption
  <2>. QED BY <2>1, <2>2, NoReleaseTyped DEF Init, World
<1>2. Switches(cmd)
  BY IdleSwitches DEF Init
<1>. QED BY <1>1, <1>2, InitIInv DEF TypeInv

LEMMA TypesNext ==
  ASSUME CdpAssumption, TypeInv, [Next]_vars  PROVE TypeInv'
<1>1. IInv'
  BY NextIInv DEF TypeInv
<1>2. World' /\ Switches(cmd')
  <2>1. CASE UNCHANGED vars
    BY <2>1 DEF vars, memoryVars, TypeInv, World
  <2>2. CASE Next
    BY <2>2, BeginTypes, AttachTypes, LeaseTypes, SendTypes, StoreTypes, QaSuspendTypes, WaitTypes,
       DetachTypesStep, RevokeTypes, RevokeDetachedTypes, OutsideTypes, TraceCompletesTypes DEF Next
  <2>. QED BY <2>1, <2>2
<1>. QED BY <1>1, <1>2 DEF TypeInv

=============================================================================
