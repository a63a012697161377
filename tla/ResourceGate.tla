---------------------------- MODULE ResourceGate -----------------------------
(* The extension's resource gate, createResourceGate in                      *)
(* apps/extension/stage-three.js, with the part of background.js that runs a *)
(* command through it: the checks on entry, the handler, and withTimeout,    *)
(* which gives the gate back at the deadline whatever the handler does.      *)
(*                                                                           *)
(* The queue is a set; the sequence numbers of its items only tell which of  *)
(* them came first, and `ahead` says so: for a queued operation, the queued  *)
(* operations that came before it.                                           *)
EXTENDS OperationLanes, Integers

VARIABLES gate,     \* the queue, the order in it, and what is held
          phase,    \* where each command is
          aborted,  \* commands whose AbortController was aborted
          live      \* commands whose handler has been called and not returned

vars == <<gate, phase, aborted, live>>

Scope == [op \in Op |-> gateScope(Command[op])]
Global(op) == Scope[op].global
Resources(op) == Scope[op].resources
ResourcesOf(ops) == UNION {Resources(op) : op \in ops}

(* granted: taken from the queue, item.run not called yet (a microtask).     *)
(* running: item.run was called and has not settled.                         *)
Phases == {"idle", "queued", "granted", "running"}
Held == {op \in Op : phase[op] \in {"granted", "running"}}

-----------------------------------------------------------------------------
(* pump(): exclusive work starts alone and from the head of the queue.       *)
ExclusiveStartsAtOnce(g) == {op \in g.queue : Global(op) /\ g.ahead[op] = {}}

ExclusiveStarts(g) ==
  {op \in g.queue : Global(op) /\ g.ahead[op] = {} /\ g.active = 0}

(* Otherwise the scan takes, in order, all that stands before the first      *)
(* exclusive item and whose resources are free once its predecessors took    *)
(* theirs. A blocked item is skipped: the gate is not FIFO.                  *)
CandidatesPastBarrier(g) == {op \in g.queue : ~Global(op)}

Candidates(g) ==
  {op \in g.queue : \A other \in g.ahead[op] \cup {op} : ~Global(other)}

Taken(g, ops) ==
  \A op \in Candidates(g) :
    op \in ops <=>
      Resources(op) \cap (g.activeResources \cup ResourcesOf(ops \cap g.ahead[op])) = {}

(* What pump() takes: a set with one element, a set of operations. *)
pumped(g) ==
  IF g.globalActive THEN {{}}
  ELSE IF ExclusiveStarts(g) # {} THEN {ExclusiveStarts(g)}
  ELSE {ops \in SUBSET Candidates(g) : Taken(g, ops)}

(* start(), for each of the items taken. *)
start(g, ops) ==
  [queue |-> g.queue \ ops,
   ahead |-> [op \in Op |-> IF op \in ops THEN {} ELSE g.ahead[op] \ ops],
   active |-> g.active + Cardinality(ops),
   globalActive |-> g.globalActive \/ \E op \in ops : Global(op),
   activeResources |-> g.activeResources \cup ResourcesOf(ops)]

(* Every event ends with a pump on what it left: `before` is the gate after  *)
(* the event itself, `now` the phases.                                       *)
Pump(before, now) ==
  \E ops \in pumped(before) :
    /\ gate' = start(before, ops)
    /\ phase' = [op \in Op |-> IF op \in ops THEN "granted" ELSE now[op]]

-----------------------------------------------------------------------------
Init ==
  /\ gate = [queue |-> {},
             ahead |-> [op \in Op |-> {}],
             active |-> 0,
             globalActive |-> FALSE,
             activeResources |-> {}]
  /\ phase = [op \in Op |-> "idle"]
  /\ aborted = {}
  /\ live = {}

(* A command has its outbox reservation and enters extensionResourceGate.run. *)
(* An id comes back only once its command is over: the outbox holds it.      *)
Run(op) ==
  /\ phase[op] = "idle"
  /\ op \notin live
  /\ Pump([gate EXCEPT !.queue = @ \cup {op}, !.ahead[op] = gate.queue],
          [phase EXCEPT ![op] = "queued"])
  /\ UNCHANGED <<aborted, live>>

(* A cancel message, or withTimeout: it does not take the item from the queue. *)
Abort(op) ==
  /\ phase[op] # "idle"
  /\ op \notin aborted
  /\ aborted' = aborted \cup {op}
  /\ UNCHANGED <<gate, phase, live>>

(* The item's .finally(): the resources come back and the next are taken.    *)
leaveHolding(op) ==
  /\ Pump([gate EXCEPT !.active = @ - 1, !.globalActive = @ /\ ~Global(op)],
          [phase EXCEPT ![op] = "idle"])
  /\ aborted' = aborted \ {op}

leaveUnpumped(op) ==
  /\ gate' = [gate EXCEPT !.active = @ - 1,
                          !.globalActive = @ /\ ~Global(op),
                          !.activeResources = @ \ Resources(op)]
  /\ phase' = [phase EXCEPT ![op] = "idle"]
  /\ aborted' = aborted \ {op}

leaveListed(op) ==
  /\ Pump([gate EXCEPT !.active = @ - 1,
                       !.globalActive = @ /\ ~Global(op),
                       !.activeResources = @ \ Resources(op)],
          [phase EXCEPT ![op] = "idle"])
  /\ UNCHANGED aborted

leave(op) ==
  /\ Pump([gate EXCEPT !.active = @ - 1,
                       !.globalActive = @ /\ ~Global(op),
                       !.activeResources = @ \ Resources(op)],
          [phase EXCEPT ![op] = "idle"])
  /\ aborted' = aborted \ {op}

(* throwIfCommandAborted, the deadline and the policy checks of dispatch:    *)
(* the handler is never called.                                              *)
Refuse(op) ==
  /\ phase[op] = "granted"
  /\ leave(op)
  /\ UNCHANGED live

Dispatch(op) ==
  /\ phase[op] = "granted"
  /\ op \notin aborted
  /\ phase' = [phase EXCEPT ![op] = "running"]
  /\ live' = live \cup {op}
  /\ UNCHANGED <<gate, aborted>>

(* The handler returns or throws before the deadline. *)
Complete(op) ==
  /\ phase[op] = "running"
  /\ leave(op)
  /\ live' = live \ {op}

(* withTimeout: the command is rejected, its handler runs on.                *)
Timeout(op) ==
  /\ phase[op] = "running"
  /\ leave(op)
  /\ UNCHANGED live

(* The handler of a command already rejected returns, and nobody waits.      *)
HandlerReturns(op) ==
  /\ op \in live
  /\ phase[op] = "idle"
  /\ live' = live \ {op}
  /\ UNCHANGED <<gate, phase, aborted>>

Next ==
  \E op \in Op :
    \/ Run(op) \/ Abort(op) \/ Refuse(op) \/ Dispatch(op)
    \/ Complete(op) \/ Timeout(op) \/ HandlerReturns(op)

Spec == Init /\ [][Next]_vars

-----------------------------------------------------------------------------
(* Properties.                                                               *)

TypeOK ==
  /\ gate \in [queue : SUBSET Op, ahead : [Op -> SUBSET Op], active : Nat,
               globalActive : BOOLEAN, activeResources : SUBSET (Session \cup Tab)]
  /\ phase \in [Op -> Phases]
  /\ aborted \subseteq {op \in Op : phase[op] # "idle"}
  /\ live \subseteq Op

(* The gate's books match what is running through every mix of completion,   *)
(* refusal and timeout: a resource deleted too early lets two commands in,   *)
(* one never deleted locks a tab or a session until the worker restarts.     *)
HoldsWhatRuns ==
  /\ gate.active = Cardinality(Held)
  /\ gate.globalActive <=> \E op \in Held : Global(op)
  /\ gate.activeResources = ResourcesOf(Held)
  /\ gate.queue = {op \in Op : phase[op] = "queued"}

(* Nothing enters past waiting exclusive work, and exclusive work enters     *)
(* only as the oldest of all: it cannot be starved by session commands.      *)
PassesNone ==
  \A op, earlier \in Op :
    /\ earlier \in gate.ahead[op]
    /\ Global(earlier) \/ Global(op)
    /\ phase[op] = "queued" /\ phase'[op] = "granted"
    => phase'[earlier] # "queued"

ExclusiveBarrier == [][PassesNone]_vars

(* No lost wakeup: between events nothing is left waiting that could enter.  *)
NothingLeftWaiting == pumped(gate) = {{}}

(* The gate implements the isolation the broker's scheduler implements too.  *)
Isolation == INSTANCE ResourceIsolation WITH
  Exclusive <- {op \in Op : Global(op)},
  Claim <- [op \in Op |-> Resources(op)],
  waiting <- gate.queue,
  running <- Held

GateIsolation == Isolation!Spec

(* docs/architecture.md: "All operations on the same tab serialize". Read as *)
(* a statement about the handlers that are at work in a tab, and not about   *)
(* the gate's books, timeouts break it: Timeout frees the tab while its      *)
(* handler goes on.                                                          *)
SameTabSerialized ==
  \A a, b \in live : a # b => Resources(a) \cap Resources(b) \cap Tab = {}
=============================================================================
