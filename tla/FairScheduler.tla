---------------------------- MODULE FairScheduler ----------------------------
(* The broker's scheduler, packages/mcp/src/scheduler.ts: bounded admission, *)
(* one FIFO queue per session, one exclusive lane, round robin over sessions *)
(* and over the origins of exclusive work, deadlines and cancellation while  *)
(* an operation waits.                                                       *)
(*                                                                           *)
(* The private fields of the class are the fields of the record `sched`.     *)
(* Sequence numbers only order admissions, so the queues are one list in     *)
(* that order: #globalQueue and #sessionQueues are its projections on a lane *)
(* kind and key.  JavaScript runs each method, timer and microtask to        *)
(* completion: one action each, #pump included.                              *)
EXTENDS OperationLanes, Integers, Sequences, SequencesExt

CONSTANT Options   \* the settings the constructor may be given

ASSUME SchedulerAssumption ==
  Options \subseteq [maxConcurrency : 1..4,
                    maxQueuePerSession : Nat \ {0},
                    maxQueueTotal : Nat \ {0}]

VARIABLES sched,  \* the scheduler object
          late    \* operations whose deadline has passed

vars == <<sched, late>>

Lane == [op \in Op |-> classifyCommand(Command[op])]
Global(op) == Lane[op].kind = "global"
Key(op) == Lane[op].key
Tabs(op) == Lane[op].tabs
Keys == Session \cup {NoSession}

(* idle: unknown to #operations.  queued: in a queue.  started: #start has   *)
(* run, its microtask has not.  running: work.run() was called.  settling:   *)
(* the promise is settled, the .finally() callback is still to come.         *)
Phases == {"idle", "queued", "started", "running", "settling"}
Holding == {"started", "running", "settling"}

Rings == [keys : Seq(Keys), next : Nat]
EmptyRing == [keys |-> <<>>, next |-> 0]

InPhase(s, phases) == {op \in Op : s.phase[op] \in phases}
Active(s) == InPhase(s, Holding)
Queued(s) == {s.queue[i] : i \in DOMAIN s.queue}

Earlier(s, a, b) ==
  \E i, j \in DOMAIN s.queue : i < j /\ s.queue[i] = a /\ s.queue[j] = b

-----------------------------------------------------------------------------
(* The round-robin rings: a list of keys and the index served next.          *)

Members(keys) == {keys[i] : i \in DOMAIN keys}

RingAdd(ring, key) == [ring EXCEPT !.keys = Append(@, key)]

(* splice the key out and move the index so that it still points at the key  *)
(* that was to be served next. `at` is zero based, as in the code.           *)
RingRemoveUnshifted(ring, key) ==
  IF key \notin Members(ring.keys) THEN ring
  ELSE LET at == CHOOSE i \in DOMAIN ring.keys : ring.keys[i] = key
       IN [ring EXCEPT !.keys = RemoveAt(@, at)]

RingRemove(ring, key) ==
  IF key \notin Members(ring.keys) THEN ring
  ELSE LET at == (CHOOSE i \in DOMAIN ring.keys : ring.keys[i] = key) - 1
           keys == RemoveAt(ring.keys, at + 1)
       IN [keys |-> keys,
           next |-> IF keys = <<>> THEN 0
                    ELSE IF at < ring.next THEN ring.next - 1
                    ELSE ring.next % Len(keys)]

(* How far a key is from the index: the order in which a scan meets the keys. *)
RingDistance(ring, key) ==
  LET n == Len(ring.keys)
      at == (CHOOSE i \in DOMAIN ring.keys : ring.keys[i] = key) - 1
  IN (at - ring.next + n) % n

RingServeStuck(ring, key) == ring

RingServe(ring, key) ==
  LET at == (CHOOSE i \in DOMAIN ring.keys : ring.keys[i] = key) - 1
  IN [ring EXCEPT !.next = (at + 1) % Len(ring.keys)]

-----------------------------------------------------------------------------
(* Queues and admission.                                                     *)

(* The queued work an operation shares its ring entry with. *)
QueueOf(s, op) ==
  {other \in Queued(s) : Global(other) = Global(op) /\ Key(other) = Key(op)}

removeQueued(s, op) ==
  LET at == CHOOSE i \in DOMAIN s.queue : s.queue[i] = op
      queue == RemoveAt(s.queue, at)
      Shrink(ring) ==
        IF QueueOf(s, op) \ {op} = {} THEN RingRemove(ring, Key(op)) ELSE ring
  IN [s EXCEPT !.queue = queue,
               !.queued = @ - 1,
               !.sessionRing = IF Global(op) THEN @ ELSE Shrink(@),
               !.globalRing = IF Global(op) THEN Shrink(@) ELSE @]

(* The per-session load counts queued and active work of both lanes;         *)
(* anonymous exclusive work is not counted.                                  *)
releaseAdmission(s, op) ==
  IF Key(op) = NoSession THEN s
  ELSE [s EXCEPT !.load[Key(op)] = @ - 1]

Capacity(s, op) ==
  /\ s.queued < s.options.maxQueueTotal
  /\ Key(op) # NoSession => s.load[Key(op)] < s.options.maxQueuePerSession

enqueue(s, op) ==
  [s EXCEPT !.phase[op] = "queued",
            !.queue = Append(s.queue, op),
            !.queued = @ + 1,
            !.load = IF Key(op) = NoSession THEN @ ELSE [s.load EXCEPT ![Key(op)] = @ + 1],
            !.sessionRing = IF Global(op) \/ QueueOf(s, op) # {} THEN @ ELSE RingAdd(@, Key(op)),
            !.globalRing = IF Global(op) /\ Key(op) \notin Members(@.keys)
                           THEN RingAdd(@, Key(op)) ELSE @]

-----------------------------------------------------------------------------
(* Choosing the next work.                                                   *)

(* Exclusive work waits for earlier session work and for earlier exclusive   *)
(* work of its own origin.                                                   *)
globalWorkEligible(s, i) ==
  /\ Global(s.queue[i])
  /\ \A j \in 1..(i - 1) : /\ Global(s.queue[j])
                          /\ Key(s.queue[j]) # Key(s.queue[i])

sessionWorkPastBarrier(s, i) ==
  /\ ~Global(s.queue[i])
  /\ \A j \in 1..(i - 1) : Key(s.queue[j]) # Key(s.queue[i])
  /\ Key(s.queue[i]) \notin s.activeSessions
  /\ Tabs(s.queue[i]) \cap s.activeTabs = {}

sessionWorkSharesTab(s, i) ==
  /\ ~Global(s.queue[i])
  /\ \A j \in 1..(i - 1) : /\ ~Global(s.queue[j])
                          /\ Key(s.queue[j]) # Key(s.queue[i])
  /\ Key(s.queue[i]) \notin s.activeSessions

(* Session work runs only from the head of its session's queue, not past the *)
(* oldest exclusive work, with its session and its tab free.                 *)
sessionWorkEligible(s, i) ==
  /\ ~Global(s.queue[i])
  /\ \A j \in 1..(i - 1) : /\ ~Global(s.queue[j])
                          /\ Key(s.queue[j]) # Key(s.queue[i])
  /\ Key(s.queue[i]) \notin s.activeSessions
  /\ Tabs(s.queue[i]) \cap s.activeTabs = {}

EligibleGlobal(s) ==
  {s.queue[i] : i \in {j \in DOMAIN s.queue : globalWorkEligible(s, j)}}
EligibleSession(s) ==
  {s.queue[i] : i \in {j \in DOMAIN s.queue : sessionWorkEligible(s, j)}}

(* The eligible operations the scan meets first, at most one; and, because   *)
(* maximum concurrency 1 bypasses the rings, the oldest of them.             *)
NextInRing(ops, ring) ==
  {op \in ops : \A other \in ops :
     RingDistance(ring, Key(op)) <= RingDistance(ring, Key(other))}

Earliest(s, ops) == {op \in ops : \A other \in ops : ~Earlier(s, other, op)}

nextEligibleGlobalWork(s) ==
  IF s.options.maxConcurrency = 1 THEN Earliest(s, EligibleGlobal(s))
  ELSE NextInRing(EligibleGlobal(s), s.globalRing)

nextSessionWork(s) ==
  IF s.options.maxConcurrency = 1 THEN Earliest(s, EligibleSession(s))
  ELSE NextInRing(EligibleSession(s), s.sessionRing)

-----------------------------------------------------------------------------
(* #start and #pump.  What they may leave the scheduler in is a set of       *)
(* records, with one element because the next work is unique.                *)

startCountedTwice(s, op) ==
  [removeQueued(s, op) EXCEPT
     !.phase[op] = "started",
     !.queued = @ - 1,
     !.active = @ + 1,
     !.globalActive = @ \/ Global(op),
     !.activeSessions = IF Global(op) THEN @ ELSE @ \cup {Key(op)},
     !.activeTabs = @ \cup Tabs(op)]

start(s, op) ==
  [removeQueued(s, op) EXCEPT
     !.phase[op] = "started",
     !.active = @ + 1,
     !.globalActive = @ \/ Global(op),
     !.activeSessions = IF Global(op) THEN @ ELSE @ \cup {Key(op)},
     !.activeTabs = @ \cup Tabs(op)]

(* The scan turns the ring before #start removes the operation; at           *)
(* concurrency 1 the rings are not consulted.                                *)
ringServed(s, op) ==
  IF s.options.maxConcurrency = 1 THEN s
  ELSE IF Global(op) THEN [s EXCEPT !.globalRing = RingServe(@, Key(op))]
  ELSE [s EXCEPT !.sessionRing = RingServe(@, Key(op))]

startAny(s, ops) == {start(ringServed(s, op), op) : op \in ops}

startSession(s) ==
  IF s.active < s.options.maxConcurrency /\ EligibleSession(s) # {}
    THEN startAny(s, nextSessionWork(s))
    ELSE {s}

(* The while loop starts at most maxConcurrency operations, and that is at   *)
(* most 4: the body applied four times, idle once nothing is eligible.       *)
startEach(states) == UNION {startSession(s) : s \in states}
startSessions(s) == startEach(startEach(startEach(startSession(s))))

startNext(s) ==
  IF s.stopped \/ s.globalActive THEN {s}
  ELSE IF s.active = 0 /\ EligibleGlobal(s) # {}
    THEN startAny(s, nextEligibleGlobalWork(s))
    ELSE startSessions(s)

(* Every handler ends with it, on the state the handler has computed. *)
pump(states) == UNION {startNext(s) : s \in states}

-----------------------------------------------------------------------------
Init ==
  /\ \E options \in Options :
       sched = [options |-> options,
                stopped |-> FALSE,
                phase |-> [op \in Op |-> "idle"],
                queue |-> <<>>,
                queued |-> 0,
                active |-> 0,
                globalActive |-> FALSE,
                activeSessions |-> {},
                activeTabs |-> {},
                load |-> [k \in Session |-> 0],
                sessionRing |-> EmptyRing,
                globalRing |-> EmptyRing]
  /\ late = {}

(* schedule(): the early returns reject without a state change. An id may be *)
(* scheduled again once it is settled and forgotten.                         *)
Schedule(op) ==
  /\ ~sched.stopped
  /\ sched.phase[op] = "idle"
  /\ Capacity(sched, op)
  /\ sched' \in pump({enqueue(sched, op)})
  /\ UNCHANGED late

(* Time passes. Only an operation not yet dispatched is affected by it here. *)
DeadlinePasses(op) ==
  /\ sched.phase[op] \in {"queued", "started"}
  /\ op \notin late
  /\ late' = late \cup {op}
  /\ UNCHANGED sched

withdrawUnpumped(s, op) ==
  {[releaseAdmission(removeQueued(s, op), op) EXCEPT !.phase[op] = "idle"]}

withdraw(s, op) ==
  pump({[releaseAdmission(removeQueued(s, op), op) EXCEPT !.phase[op] = "idle"]})

(* The expiry timer: rejects with NotStarted. *)
Expire(op) ==
  /\ sched.phase[op] = "queued"
  /\ op \in late
  /\ sched' \in withdraw(sched, op)
  /\ late' = late \ {op}

(* cancel(): effective only while the operation is queued. *)
Cancel(op) ==
  /\ sched.phase[op] = "queued"
  /\ sched' \in withdraw(sched, op)
  /\ late' = late \ {op}

(* stop(): rejects everything queued; active work is left to finish. *)
QueuedOf(s, key) == {op \in InPhase(s, {"queued"}) : Key(op) = key}

rejectQueued(s) ==
  [s EXCEPT
     !.stopped = TRUE,
     !.phase = [op \in Op |-> IF @[op] = "queued" THEN "idle" ELSE @[op]],
     !.queue = <<>>,
     !.queued = 0,
     !.load = [k \in Session |-> @[k] - Cardinality(QueuedOf(s, k))],
     !.sessionRing = EmptyRing,
     !.globalRing = EmptyRing]

Stop ==
  /\ ~sched.stopped
  /\ sched' = rejectQueued(sched)
  /\ late' = late \ InPhase(sched, {"queued"})

(* The microtask #start leaves behind: the deadline is checked once more.    *)
Dispatch(op) ==
  /\ sched.phase[op] = "started"
  /\ sched' = [sched EXCEPT !.phase[op] = IF op \in late THEN "settling" ELSE "running"]
  /\ late' = late \ {op}

(* work.run() settles: the caller is answered, the resources still held.     *)
Complete(op) ==
  /\ sched.phase[op] = "running"
  /\ sched' = [sched EXCEPT !.phase[op] = "settling"]
  /\ UNCHANGED late

(* The .finally() callback. *)
releaseKeepingLoad(s, op) ==
  [s EXCEPT
     !.phase[op] = "idle",
     !.active = @ - 1,
     !.globalActive = @ /\ ~Global(op),
     !.activeSessions = IF Global(op) THEN @ ELSE @ \ {Key(op)},
     !.activeTabs = @ \ Tabs(op)]

release(s, op) ==
  [releaseAdmission(s, op) EXCEPT
     !.phase[op] = "idle",
     !.active = @ - 1,
     !.globalActive = @ /\ ~Global(op),
     !.activeSessions = IF Global(op) THEN @ ELSE @ \ {Key(op)},
     !.activeTabs = @ \ Tabs(op)]

Release(op) ==
  /\ sched.phase[op] = "settling"
  /\ sched' \in pump({release(sched, op)})
  /\ UNCHANGED late

Next ==
  \/ \E op \in Op :
       \/ Schedule(op) \/ DeadlinePasses(op) \/ Expire(op) \/ Cancel(op)
       \/ Dispatch(op) \/ Complete(op) \/ Release(op)
  \/ Stop

(* Timers fire, microtasks run, and a dispatched command settles: the bridge *)
(* rejects it at its deadline if nothing else does.                          *)
Fairness ==
  \A op \in Op : /\ WF_vars(Expire(op))
                 /\ WF_vars(Dispatch(op))
                 /\ WF_vars(Complete(op))
                 /\ WF_vars(Release(op))

Spec == Init /\ [][Next]_vars
FairSpec == Spec /\ Fairness

-----------------------------------------------------------------------------
(* Properties.                                                               *)

Schedulers == [options : Options,
               stopped : BOOLEAN,
               phase : [Op -> Phases],
               queue : Seq(Op),
               queued : Nat,
               active : Nat,
               globalActive : BOOLEAN,
               activeSessions : SUBSET Session,
               activeTabs : SUBSET Tab,
               load : [Session -> Nat],
               sessionRing : Rings,
               globalRing : Rings]

TypeOK ==
  /\ sched \in Schedulers
  /\ late \subseteq InPhase(sched, {"queued", "started"})

(* The counters admission decides on never drift from the work they count:   *)
(* whatever mix of completion, expiry, cancellation and stop removes work,   *)
(* its slot comes back exactly once, and at most maxConcurrency operations   *)
(* are active.  A leak here refuses a session for the life of the broker.    *)
LoadOf(s, key) == {op \in Op : Key(op) = key /\ s.phase[op] # "idle"}

AdmissionAccounting ==
  /\ sched.queued = Len(sched.queue)
  /\ sched.active = Cardinality(Active(sched))
  /\ sched.active <= sched.options.maxConcurrency
  /\ \A k \in Session : sched.load[k] = Cardinality(LoadOf(sched, k))

(* The round-robin rings list exactly the sessions and origins with waiting  *)
(* work, once each, and the index stays inside: a key lost from a ring would *)
(* never be served again, and its queue would only expire.                   *)
RingLists(ring, ops) ==
  /\ Members(ring.keys) = {Key(op) : op \in ops}
  /\ Len(ring.keys) = Cardinality(Members(ring.keys))
  /\ ring.next < Len(ring.keys) \/ ring.next = 0

RingsListWaitingWork ==
  /\ RingLists(sched.sessionRing, {op \in Queued(sched) : ~Global(op)})
  /\ RingLists(sched.globalRing, {op \in Queued(sched) : Global(op)})

(* Every event that can free a slot, a session, a tab or the exclusive lane  *)
(* pumps: between events nothing startable is left waiting.                  *)
WorkConserving ==
  ~sched.stopped /\ ~sched.globalActive =>
    /\ sched.active = 0 => EligibleGlobal(sched) = {}
    /\ sched.active < sched.options.maxConcurrency => EligibleSession(sched) = {}

(* No operation overtakes an earlier one it must follow: sessions are FIFO   *)
(* across both lanes, later session work does not pass waiting exclusive     *)
(* work, and exclusive work does not pass earlier session work.              *)
MustFollow(op, earlier) ==
  \/ Key(op) = Key(earlier)
  \/ Global(op) # Global(earlier)

OvertakesNone ==
  \A op, earlier \in Op :
    /\ Earlier(sched, earlier, op) /\ MustFollow(op, earlier)
    /\ op \in Active(sched)'
    => sched'.phase[earlier] # "queued"

AdmissionOrder == [][OvertakesNone]_vars

(* Exclusive work runs alone; two operations that run together share neither *)
(* session nor tab; nothing that runs is preempted.                          *)
Claims(op) == {<<"session", Key(op)>>} \cup {<<"tab", t>> : t \in Tabs(op)}

Isolation == INSTANCE ResourceIsolation WITH
  Exclusive <- {op \in Op : Global(op)},
  Claim <- [op \in Op |-> Claims(op)],
  waiting <- Queued(sched),
  running <- Active(sched)

SchedulerIsolation == Isolation!Spec
=============================================================================
