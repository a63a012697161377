-------------------------- MODULE OperationDelivery --------------------------
(* The life of an operation between an MCP client and the browser:           *)
(* broker-client.ts asks over HTTP, broker-server.ts keeps the ledger of     *)
(* requests, bridge.ts the pending commands and the confirmed results, and   *)
(* the extension's background.js the durable outbox.  Connections, the       *)
(* extension's worker and the broker fail; deadlines pass; results are       *)
(* replayed.  The scheduler and the resource gate appear only as the freedom *)
(* of a waiting operation to go on or not: they have modules of their own.   *)
(*                                                                           *)
(* The handlers of one connection are asynchronous, so what is in flight is  *)
(* a set of frames, taken in any order; a lost connection loses them all.    *)
EXTENDS Integers, Sequences, FiniteSets, SequencesExt

CONSTANTS Op,           \* operations, with an id and a fingerprint each
          ReadOnly,     \* those the client may repeat on another broker
          MaxRequests,  \* MAX_CACHED_REQUESTS, standing for its bytes too
          MaxConfirmed, \* #maxConfirmedResults, standing for its bytes too
          OutboxLimit,  \* OUTBOX_LIMIT, standing for its bytes too
          MaxAsked,     \* bound: operations asked in a behaviour
          MaxFaults     \* bound: faults in a behaviour

ASSUME DeliveryAssumption ==
  /\ IsFiniteSet(Op)
  /\ ReadOnly \subseteq Op
  /\ {MaxRequests, MaxConfirmed, OutboxLimit, MaxAsked, MaxFaults} \subseteq Nat
  /\ MaxRequests > 0

VARIABLES client,     \* broker-client.ts send()
          http,       \* its HTTP request at the broker
          late,       \* operations whose deadline has passed
          ledger,     \* requests of broker-server.ts
          bridge,     \* #queuedOperations and #pending of bridge.ts
          confirmed,  \* #confirmed of bridge.ts
          socket,     \* #socket of bridge.ts
          toExt, toBroker, \* frames in flight
          extUp,      \* transportState = "connected" in the extension
          outbox,     \* the extension's IndexedDB outbox
          exec,       \* activeOperations of background.js
          aborted,    \* those whose AbortController was aborted
          dispatches, \* history: how often an operation's handler was called
          acked,      \* history: those whose outbox entry was deleted
          flush,      \* outboxFlushPromise, and the calls of flushOutbox to come
          faults      \* faults so far

brokerVars == <<ledger, bridge, confirmed>>
wireVars == <<socket, toExt, toBroker, extUp>>
extVars == <<outbox, exec, aborted, dispatches, acked, flush>>
vars == <<client, http, late, brokerVars, wireVars, extVars, faults>>

(* The typed outcomes: a result of the handler (its own errors included),    *)
(* not_started (queue cancellation and capacity included), effect_unknown    *)
(* reported by the extension, and effect_unknown decided by the broker.      *)
Outcome == {"done", "not_started", "unknown", "lost"}

(* error: a second HTTP failure reaches the caller as it is. *)
Answered == Outcome \cup {"error"}
Clients == {"idle", "asking", "broken", "restarted", "again"} \cup Answered

Https == {"none", "sent", "joined"} \cup Outcome
Sockets == {"none", "current", "stale"}

(* buffered: in #pending, frame not written. dispatched: its send callback   *)
(* has run. stranded: buffered on a socket that has been replaced since.     *)
Pending == {"buffered", "dispatched", "stranded"}

-----------------------------------------------------------------------------
(* The ledger: the state of each record, the ids in order of createdAt, and, *)
(* as history, the ids evicted.                                              *)

Recorded(l) == {op \in Op : l.state[op] # "none"}
Settled(l) == {op \in Op : l.state[op] \in Outcome}

Positions(l, op) == {i \in DOMAIN l.age : l.age[i] = op}

removeRequest(l, i) ==
  [state |-> [l.state EXCEPT ![l.age[i]] = "none"],
   age |-> RemoveAt(l.age, i),
   evicted |-> l.evicted]

Evict(l, i) == [removeRequest(l, i) EXCEPT !.evicted = l.evicted \cup {l.age[i]}]

(* evictSettled: the oldest settled record goes if there is no room for one; *)
(* there are never more than MaxRequests, so that one is enough.             *)
evictSettledKeepingAge(l) ==
  IF Len(l.age) >= MaxRequests /\ l.age[1] \in Settled(l)
    THEN [l EXCEPT !.state[l.age[1]] = "none", !.evicted = @ \cup {l.age[1]}]
    ELSE l

SettledPositions(l) == {i \in DOMAIN l.age : l.age[i] \in Settled(l)}

evictSettled(l) ==
  IF Len(l.age) < MaxRequests \/ SettledPositions(l) = {} THEN l
  ELSE Evict(l, CHOOSE i \in SettledPositions(l) : \A j \in SettledPositions(l) : i <= j)

settle(l, ops, outcome) ==
  evictSettled([l EXCEPT !.state = [op \in Op |-> IF op \in ops THEN outcome ELSE l.state[op]]])

insert(l, op, state) ==
  [l EXCEPT !.state[op] = state, !.age = Append(l.age, op)]

(* A record's promise settles: whoever has joined it will be answered.       *)
answered(ops, outcome) ==
  [op \in Op |-> IF op \in ops /\ http[op] = "joined" THEN outcome ELSE http[op]]

Settle(op, outcome) ==
  /\ ledger' = settle(ledger, {op}, outcome)
  /\ bridge' = [bridge EXCEPT ![op] = "none"]
  /\ http' = answered({op}, outcome)

-----------------------------------------------------------------------------
(* The outbox.                                                               *)

Completed(box) == {op \in Op : box[op] \in Outcome}
Replay(box) == {<<op, box[op]>> : op \in Completed(box)}
Full(box) == Cardinality({op \in Op : box[op] # "none"}) >= OutboxLimit

(* reconcileOutboxReservations, which every use of the outbox runs first:    *)
(* reservations past their TTL that no operation of this worker owns get an  *)
(* unknown result. The TTL is no shorter than any deadline.                  *)
Reconciled ==
  {[op \in Op |-> IF op \in ops THEN "unknown" ELSE outbox[op]] :
     ops \in SUBSET {op \in late : outbox[op] = "reserved" /\ exec[op] = "none"}}

(* outboxFlushPromise: a flush is at work for the connection there is, or for *)
(* one that is lost and on which it will send nothing.  ready: the handshake  *)
(* has ended and is about to flush.  timers: pauses after a backpressure.     *)
(* missed, as history: a call on this connection has joined a dead flush.     *)
NoFlush == [at |-> "none", ready |-> FALSE, timers |-> {}, missed |-> FALSE]

FlushLost ==
  [flush EXCEPT !.at = IF @ = "live" THEN "dead" ELSE @, !.ready = FALSE, !.missed = FALSE]

Fault == faults < MaxFaults /\ faults' = faults + 1

-----------------------------------------------------------------------------
(* The client.                                                               *)

Ask(op) ==
  /\ client[op] = "idle"
  /\ Cardinality({o \in Op : client[o] # "idle"}) < MaxAsked
  /\ client' = [client EXCEPT ![op] = "asking"]
  /\ http' = [http EXCEPT ![op] = "sent"]
  /\ UNCHANGED <<late, brokerVars, wireVars, extVars, faults>>

DeadlinePasses(op) ==
  /\ client[op] # "idle"
  /\ op \notin late
  /\ late' = late \cup {op}
  /\ UNCHANGED <<client, http, brokerVars, wireVars, extVars, faults>>

Reply(op) ==
  /\ http[op] \in Outcome
  /\ client' = [client EXCEPT ![op] = http[op]]
  /\ http' = [http EXCEPT ![op] = "none"]
  /\ UNCHANGED <<late, brokerVars, wireVars, extVars, faults>>

(* The HTTP connection fails; the broker goes on with what it has accepted.  *)
HttpDrop(op) ==
  /\ Fault
  /\ http[op] # "none"
  /\ client' = [client EXCEPT ![op] = IF @ = "again" THEN "error" ELSE "broken"]
  /\ http' = [http EXCEPT ![op] = "none"]
  /\ UNCHANGED <<late, brokerVars, wireVars, extVars>>

(* The broker is the same: ask once more with the same operation id. *)
Retry(op) ==
  /\ client[op] = "broken"
  /\ IF op \in late
       THEN client' = [client EXCEPT ![op] = "unknown"] /\ UNCHANGED http
       ELSE client' = [client EXCEPT ![op] = "again"] /\ http' = [http EXCEPT ![op] = "sent"]
  /\ UNCHANGED <<late, brokerVars, wireVars, extVars, faults>>

(* The broker is another one: only a read is asked again. *)
AskNewBrokerAnything(op) ==
  /\ client[op] = "restarted"
  /\ client' = [client EXCEPT ![op] = "again"]
  /\ http' = [http EXCEPT ![op] = "sent"]
  /\ UNCHANGED <<late, brokerVars, wireVars, extVars, faults>>

AskNewBroker(op) ==
  /\ client[op] = "restarted"
  /\ IF op \in ReadOnly \ late
       THEN client' = [client EXCEPT ![op] = "again"] /\ http' = [http EXCEPT ![op] = "sent"]
       ELSE /\ client' = [client EXCEPT ![op] = IF op \in ReadOnly THEN "not_started" ELSE "unknown"]
            /\ UNCHANGED http
  /\ UNCHANGED <<late, brokerVars, wireVars, extVars, faults>>

-----------------------------------------------------------------------------
(* broker-server.ts, POST /command.                                          *)

Answer(op, outcome) == http' = [http EXCEPT ![op] = outcome]

(* The broker's own unknown outcome gives way to the confirmed result that   *)
(* came later.                                                               *)
ReplaceUnknown(op) ==
  /\ ledger.state[op] = "lost" /\ confirmed[op] # "none"
  /\ \E i \in Positions(ledger, op) :
       ledger' = evictSettled(insert(removeRequest(ledger, i), op, confirmed[op]))
  /\ confirmed' = [confirmed EXCEPT ![op] = "none"]
  /\ Answer(op, confirmed[op])
  /\ UNCHANGED bridge

Join(op) ==
  /\ ledger.state[op] # "none"
  /\ ~(ledger.state[op] = "lost" /\ confirmed[op] # "none")
  /\ Answer(op, IF ledger.state[op] = "running" THEN "joined" ELSE ledger.state[op])
  /\ UNCHANGED brokerVars

(* No record, but a confirmed result: it becomes a record if there is room.  *)
Recover(op) ==
  LET room == evictSettled(ledger)
      fits == Len(room.age) < MaxRequests
  IN /\ ledger.state[op] = "none" /\ confirmed[op] # "none"
     /\ ledger' = IF fits THEN insert(room, op, confirmed[op]) ELSE room
     /\ confirmed' = IF fits THEN [confirmed EXCEPT ![op] = "none"] ELSE confirmed
     /\ Answer(op, confirmed[op])
     /\ UNCHANGED bridge

Unknown(op) == ledger.state[op] = "none" /\ confirmed[op] = "none"

Refuse(op) ==
  /\ Unknown(op) /\ op \in late
  /\ Answer(op, "not_started")
  /\ UNCHANGED brokerVars

(* A new record, handed to bridge.send, unless the ledger is full. *)
Admit(op) ==
  LET room == evictSettled(ledger)
      fits == Len(room.age) < MaxRequests
  IN /\ Unknown(op) /\ op \notin late
     /\ ledger' = IF fits THEN insert(room, op, "running") ELSE room
     /\ bridge' = IF fits THEN [bridge EXCEPT ![op] = "queued"] ELSE bridge
     /\ Answer(op, IF fits THEN "joined" ELSE "not_started")
     /\ UNCHANGED confirmed

HandleCommand(op) ==
  /\ http[op] = "sent"
  /\ ReplaceUnknown(op) \/ Join(op) \/ Recover(op) \/ Refuse(op) \/ Admit(op)
  /\ UNCHANGED <<client, late, wireVars, extVars, faults>>

(* POST /cancel. Queued work is withdrawn; a pending command is cancelled in *)
(* the extension, if the message gets there.                                 *)
Cancel(op) ==
  /\ client[op] \in {"asking", "again"}
  /\ \/ /\ bridge[op] = "queued"
        /\ Settle(op, "not_started")
        /\ UNCHANGED wireVars
     \/ /\ bridge[op] \in Pending
        /\ socket = "current"
        /\ toExt' = toExt \cup {<<"cancel", op>>}
        /\ UNCHANGED <<http, ledger, bridge, socket, toBroker, extUp>>
  /\ UNCHANGED <<client, late, confirmed, extVars, faults>>

-----------------------------------------------------------------------------
(* bridge.ts, commands.                                                      *)

Expire(op) ==
  /\ bridge[op] = "queued" /\ op \in late
  /\ Settle(op, "not_started")
  /\ UNCHANGED <<client, late, confirmed, wireVars, extVars, faults>>

(* #sendNow. *)
SendNow(op) ==
  /\ bridge[op] = "queued"
  /\ IF socket = "none" \/ op \in late
       THEN Settle(op, "not_started")
       ELSE bridge' = [bridge EXCEPT ![op] = "buffered"] /\ UNCHANGED <<ledger, http>>
  /\ UNCHANGED <<client, late, confirmed, wireVars, extVars, faults>>

(* The frame is written, to the extension or into a dead connection. *)
Write(op) ==
  /\ bridge[op] = "buffered" /\ socket # "none"
  /\ bridge' = [bridge EXCEPT ![op] = "dispatched"]
  /\ toExt' = IF socket = "current" THEN toExt \cup {<<"command", op>>} ELSE toExt
  /\ UNCHANGED <<client, http, late, ledger, confirmed, socket, toBroker, extUp, extVars, faults>>

(* ws reports that it could not write the frame. *)
WriteFails(op) ==
  /\ \/ bridge[op] = "stranded"
     \/ bridge[op] = "buffered" /\ socket = "stale"
  /\ Settle(op, "lost")
  /\ UNCHANGED <<client, late, confirmed, wireVars, extVars, faults>>

PendingTimeoutOfUnsent(op) ==
  /\ bridge[op] \in {"buffered", "stranded"} /\ op \in late
  /\ Settle(op, "lost")
  /\ UNCHANGED <<client, late, confirmed, wireVars, extVars, faults>>

PendingTimeout(op) ==
  /\ bridge[op] \in Pending /\ op \in late
  /\ Settle(op, "lost")
  /\ UNCHANGED <<client, late, confirmed, wireVars, extVars, faults>>

-----------------------------------------------------------------------------
(* bridge.ts, #receiveResult and the acknowledgement.                        *)

ConfirmedOps == {op \in Op : confirmed[op] # "none"}

CacheConfirmed(op) ==
  confirmed[op] # "none" \/ Cardinality(ConfirmedOps) < MaxConfirmed

(* A result is kept before it is acknowledged, and the copy of one somebody  *)
(* was waiting for is dropped once the acknowledgement is written. Without   *)
(* room it is not acknowledged: result_backpressure.                         *)
Accept(op, outcome) ==
  /\ <<op, outcome>> \in toBroker
  /\ socket = "current"
  /\ IF bridge[op] \in Pending THEN Settle(op, outcome) ELSE UNCHANGED <<ledger, bridge, http>>

Cached(op, outcome) ==
  confirmed' = IF CacheConfirmed(op) THEN [confirmed EXCEPT ![op] = outcome] ELSE confirmed

ReceiveResultAlwaysAck(op, outcome) ==
  /\ Accept(op, outcome)
  /\ IF bridge[op] \in Pending THEN UNCHANGED confirmed ELSE Cached(op, outcome)
  /\ toExt' = toExt \cup {<<"ack", op>>}
  /\ toBroker' = toBroker \ {<<op, outcome>>}
  /\ UNCHANGED <<client, late, socket, extUp, extVars, faults>>

ReceiveResult(op, outcome) ==
  /\ Accept(op, outcome)
  /\ IF bridge[op] \in Pending /\ CacheConfirmed(op)
       THEN confirmed' = [confirmed EXCEPT ![op] = "none"]
       ELSE Cached(op, outcome)
  /\ toExt' = toExt \cup {<<IF CacheConfirmed(op) THEN "ack" ELSE "backpressure", op>>}
  /\ toBroker' = toBroker \ {<<op, outcome>>}
  /\ UNCHANGED <<client, late, socket, extUp, extVars, faults>>

-----------------------------------------------------------------------------
(* The connection.                                                           *)

(* It breaks; the extension knows at once, the broker later or never. *)
Disconnect ==
  /\ socket' = IF socket = "current" THEN "stale" ELSE socket
  /\ extUp' = FALSE
  /\ toExt' = {}
  /\ toBroker' = {}

LinkLost ==
  /\ Fault
  /\ extUp
  /\ Disconnect
  /\ flush' = FlushLost
  /\ UNCHANGED <<client, http, late, brokerVars, outbox, exec, aborted, dispatches, acked>>

(* It breaks under the acknowledgement, which is not written. *)
ReceiveResultUnanswered(op, outcome) ==
  /\ Fault
  /\ Accept(op, outcome)
  /\ Cached(op, outcome)
  /\ Disconnect
  /\ flush' = FlushLost
  /\ UNCHANGED <<client, late, outbox, exec, aborted, dispatches, acked>>

(* The close event of the current socket rejects whatever is pending. *)
BrokerNotices ==
  LET sent == {op \in Op : bridge[op] = "dispatched"}
      unsent == {op \in Op : bridge[op] \in {"buffered", "stranded"}}
  IN /\ socket = "stale"
     /\ socket' = "none"
     /\ ledger' = settle(settle(ledger, sent, "lost"), unsent, "not_started")
     /\ http' = [op \in Op |-> IF op \in sent THEN answered(sent, "lost")[op]
                               ELSE answered(unsent, "not_started")[op]]
     /\ bridge' = [op \in Op |-> IF bridge[op] \in Pending THEN "none" ELSE bridge[op]]
     /\ UNCHANGED <<client, late, confirmed, toExt, toBroker, extUp, extVars, faults>>

(* A new handshake ends: the broker replaces a socket it still believes in,  *)
(* whose pending commands stay, and the extension is about to flush.         *)
ReconnectWithoutReplay ==
  /\ ~extUp
  /\ extUp' = TRUE
  /\ socket' = "current"
  /\ bridge' = [op \in Op |-> IF bridge[op] = "buffered" THEN "stranded" ELSE bridge[op]]
  /\ toBroker' = {} /\ toExt' = {}
  /\ UNCHANGED <<client, http, late, ledger, confirmed, extVars, faults>>

Reconnect ==
  /\ ~extUp
  /\ extUp' = TRUE
  /\ socket' = "current"
  /\ bridge' = [op \in Op |-> IF bridge[op] = "buffered" THEN "stranded" ELSE bridge[op]]
  /\ toBroker' = {} /\ toExt' = {}
  /\ flush' = [flush EXCEPT !.ready = TRUE]
  /\ UNCHANGED <<client, http, late, ledger, confirmed, outbox, exec, aborted, dispatches, acked,
                 faults>>

-----------------------------------------------------------------------------
(* The extension.                                                            *)

Send(frames) == toBroker' = IF extUp THEN toBroker \cup frames ELSE toBroker

(* The result is committed to the outbox and sent if there is a connection.  *)
Commit(op, outcome) ==
  /\ outbox' = [outbox EXCEPT ![op] = outcome]
  /\ exec' = [exec EXCEPT ![op] = "none"]
  /\ aborted' = aborted \ {op}
  /\ Send({<<op, outcome>>})

Took(kind, op) ==
  /\ <<kind, op>> \in toExt
  /\ toExt' = toExt \ {<<kind, op>>}

(* A command message, to the end of its reservation. *)
ReserveUnlessActive(op) ==
  /\ Took("command", op)
  /\ IF exec[op] # "none" THEN UNCHANGED <<outbox, exec, toBroker>>
     ELSE /\ outbox' = [outbox EXCEPT ![op] = "reserved"]
          /\ exec' = [exec EXCEPT ![op] = "waiting"]
          /\ UNCHANGED toBroker
  /\ UNCHANGED <<client, http, late, brokerVars, socket, extUp, aborted, dispatches, acked, flush,
                 faults>>

Reserve(op) ==
  /\ Took("command", op)
  /\ \E box \in Reconciled :
       \/ /\ box[op] \in Outcome                                  \* completed
          /\ outbox' = box
          /\ Send({<<op, box[op]>>})
          /\ UNCHANGED exec
       \/ /\ box[op] = "reserved" /\ exec[op] # "none"            \* active
          /\ outbox' = box
          /\ UNCHANGED <<exec, toBroker>>
       \/ /\ box[op] = "reserved" /\ exec[op] = "none"            \* unknown
          /\ outbox' = [box EXCEPT ![op] = "unknown"]
          /\ Send({<<op, "unknown">>})
          /\ UNCHANGED exec
       \/ /\ box[op] = "none" /\ Full(box)                        \* full
          /\ outbox' = box
          /\ Send({<<op, "not_started">>})
          /\ UNCHANGED exec
       \/ /\ box[op] = "none" /\ ~Full(box)                       \* reserved
          /\ outbox' = [box EXCEPT ![op] = "reserved"]
          /\ exec' = [exec EXCEPT ![op] = "waiting"]
          /\ UNCHANGED toBroker
  /\ UNCHANGED <<client, http, late, brokerVars, socket, extUp, aborted, dispatches, acked, flush,
                 faults>>

(* A cancel message finds the operation, or comes too early or too late. *)
ReceiveCancel(op) ==
  /\ Took("cancel", op)
  /\ aborted' = IF exec[op] = "none" THEN aborted ELSE aborted \cup {op}
  /\ UNCHANGED <<client, http, late, brokerVars, socket, toBroker, extUp, outbox, exec, dispatches, acked,
                 flush, faults>>

(* The resource gate lets the command in: checks, then the handler.          *)
Enter(op) ==
  /\ exec[op] = "waiting"
  /\ \/ op \in aborted /\ Commit(op, "unknown") /\ UNCHANGED dispatches
     \/ op \in late /\ Commit(op, "not_started") /\ UNCHANGED dispatches
     \/ /\ op \notin aborted \cup late
        /\ exec' = [exec EXCEPT ![op] = "running"]
        /\ dispatches' = [dispatches EXCEPT ![op] = @ + 1]
        /\ UNCHANGED <<outbox, aborted, toBroker>>
  /\ UNCHANGED <<client, http, late, brokerVars, socket, toExt, extUp, acked, flush, faults>>

(* The handler settles, or its time is up; a result that is too large, or    *)
(* that an abort makes doubtful, is recorded as unknown.                     *)
Finish(op) ==
  /\ exec[op] = "running"
  /\ \E outcome \in {"done", "unknown"} : Commit(op, outcome)
  /\ UNCHANGED <<client, http, late, brokerVars, socket, toExt, extUp, dispatches, acked,
                 flush, faults>>

ReceiveAck(op) ==
  /\ Took("ack", op)
  /\ outbox' = [outbox EXCEPT ![op] = "none"]
  /\ acked' = acked \cup {op}
  /\ UNCHANGED <<client, http, late, brokerVars, socket, toBroker, extUp, exec, aborted, dispatches,
                 flush, faults>>

ReceiveBackpressure(op) ==
  /\ Took("backpressure", op)
  /\ flush' = [flush EXCEPT !.timers = @ \cup {op}]
  /\ UNCHANGED <<client, http, late, brokerVars, socket, toBroker, extUp, outbox, exec, aborted,
                 dispatches, acked, faults>>

-----------------------------------------------------------------------------
(* flushOutbox: the whole outbox is sent again, over the connection it was   *)
(* called on.  A call that finds a flush at work is answered by that one.    *)

Called(f) ==
  IF f.at # "none" THEN [f EXCEPT !.missed = @ \/ (extUp /\ f.at = "dead")]
  ELSE [f EXCEPT !.at = IF extUp THEN "live" ELSE "none"]

FlushWhenReady ==
  /\ flush.ready
  /\ flush' = Called([flush EXCEPT !.ready = FALSE])
  /\ UNCHANGED <<client, http, late, brokerVars, wireVars, outbox, exec, aborted, dispatches,
                 acked, faults>>

FlushAfterPause(op) ==
  /\ op \in flush.timers
  /\ flush' = Called([flush EXCEPT !.timers = @ \ {op}])
  /\ UNCHANGED <<client, http, late, brokerVars, wireVars, outbox, exec, aborted, dispatches,
                 acked, faults>>

(* What it reads is sent at once, unless its connection has been lost.       *)
FlushEnds ==
  /\ flush.at # "none"
  /\ outbox' \in Reconciled
  /\ toBroker' = IF flush.at = "live" THEN toBroker \cup Replay(outbox') ELSE toBroker
  /\ flush' = [flush EXCEPT !.at = "none", !.missed = @ /\ flush.at = "dead"]
  /\ UNCHANGED <<client, http, late, brokerVars, socket, toExt, extUp, exec, aborted, dispatches,
                 acked, faults>>

-----------------------------------------------------------------------------
(* Crashes.                                                                  *)

(* The service worker ends; IndexedDB stays. *)
WorkerDies ==
  /\ Fault
  /\ exec' = [op \in Op |-> "none"]
  /\ aborted' = {}
  /\ flush' = NoFlush
  /\ Disconnect
  /\ UNCHANGED <<client, http, late, brokerVars, outbox, dispatches, acked>>

NewLedger == [state |-> [op \in Op |-> "none"], age |-> <<>>, evicted |-> {}]

(* The broker ends and another starts: every HTTP connection breaks too. *)
BrokerDies ==
  /\ Fault
  /\ ledger' = [NewLedger EXCEPT !.evicted = ledger.evicted]
  /\ bridge' = [op \in Op |-> "none"]
  /\ confirmed' = [op \in Op |-> "none"]
  /\ client' = [op \in Op |-> CASE client[op] \in {"asking", "broken"} -> "restarted"
                                [] client[op] = "again" -> "error"
                                [] OTHER -> client[op]]
  /\ http' = [op \in Op |-> "none"]
  /\ socket' = "none"
  /\ extUp' = FALSE
  /\ toExt' = {}
  /\ toBroker' = {}
  /\ flush' = FlushLost
  /\ UNCHANGED <<late, outbox, exec, aborted, dispatches, acked>>

-----------------------------------------------------------------------------
Init ==
  /\ client = [op \in Op |-> "idle"]
  /\ http = [op \in Op |-> "none"]
  /\ late = {}
  /\ ledger = NewLedger
  /\ bridge = [op \in Op |-> "none"]
  /\ confirmed = [op \in Op |-> "none"]
  /\ socket = "current" /\ extUp = TRUE
  /\ toExt = {} /\ toBroker = {}
  /\ outbox = [op \in Op |-> "none"]
  /\ exec = [op \in Op |-> "none"]
  /\ aborted = {}
  /\ dispatches = [op \in Op |-> 0] /\ acked = {}
  /\ flush = NoFlush
  /\ faults = 0

ClientStep(op) == Reply(op) \/ Retry(op) \/ AskNewBroker(op)
BridgeStep(op) == Expire(op) \/ SendNow(op) \/ Write(op) \/ WriteFails(op) \/ PendingTimeout(op)
ExtensionStep(op) ==
  Reserve(op) \/ ReceiveCancel(op) \/ Enter(op) \/ Finish(op)
    \/ ReceiveAck(op) \/ ReceiveBackpressure(op) \/ FlushAfterPause(op)

Next ==
  \/ \E op \in Op :
       \/ Ask(op) \/ DeadlinePasses(op) \/ HttpDrop(op) \/ ClientStep(op)
       \/ HandleCommand(op) \/ Cancel(op) \/ BridgeStep(op)
       \/ \E outcome \in Outcome :
            ReceiveResult(op, outcome) \/ ReceiveResultUnanswered(op, outcome)
       \/ ExtensionStep(op)
  \/ LinkLost \/ BrokerNotices \/ Reconnect \/ WorkerDies \/ BrokerDies
  \/ FlushWhenReady \/ FlushEnds

Spec == Init /\ [][Next]_vars

(* Timers fire, messages are handled, handlers settle, the extension keeps   *)
(* reconnecting; nobody has to ask, cancel or fail.                          *)
Fairness ==
  /\ \A op \in Op :
       /\ WF_vars(DeadlinePasses(op)) /\ WF_vars(HandleCommand(op))
       /\ WF_vars(ClientStep(op)) /\ WF_vars(BridgeStep(op))
       /\ WF_vars(\E outcome \in Outcome : ReceiveResult(op, outcome))
       /\ WF_vars(Enter(op)) /\ WF_vars(Finish(op)) /\ WF_vars(Reserve(op))
       /\ WF_vars(ReceiveCancel(op)) /\ WF_vars(ReceiveAck(op))
       /\ WF_vars(ReceiveBackpressure(op)) /\ WF_vars(FlushAfterPause(op))
  /\ WF_vars(Reconnect) /\ WF_vars(FlushWhenReady) /\ WF_vars(FlushEnds)

FairSpec == Spec /\ Fairness

-----------------------------------------------------------------------------
(* Properties.                                                               *)

TypeOK ==
  /\ client \in [Op -> Clients]
  /\ http \in [Op -> Https]
  /\ late \subseteq Op
  /\ ledger.state \in [Op -> Outcome \cup {"none", "running"}]
  /\ ledger.age \in Seq(Op)
  /\ ledger.evicted \subseteq Op
  /\ {ledger.age[i] : i \in DOMAIN ledger.age} = Recorded(ledger)
  /\ Len(ledger.age) = Cardinality(Recorded(ledger))
  /\ Len(ledger.age) <= MaxRequests
  /\ bridge \in [Op -> {"none", "queued"} \cup Pending]
  /\ confirmed \in [Op -> Outcome \cup {"none"}]
  /\ Cardinality(ConfirmedOps) <= MaxConfirmed
  /\ socket \in Sockets
  /\ extUp => socket = "current"
  /\ toExt \subseteq {"command", "cancel", "ack", "backpressure"} \X Op
  /\ toBroker \subseteq Op \X Outcome
  /\ extUp \in BOOLEAN
  /\ outbox \in [Op -> Outcome \cup {"none", "reserved"}]
  /\ exec \in [Op -> {"none", "waiting", "running"}]
  /\ aborted \subseteq {op \in Op : exec[op] # "none"}
  /\ dispatches \in [Op -> Nat]
  /\ acked \subseteq Op
  /\ flush \in [at : {"none", "live", "dead"}, ready : BOOLEAN, timers : SUBSET Op,
                missed : BOOLEAN]
  /\ flush.ready \/ flush.at = "live" => extUp
  /\ faults \in 0..MaxFaults

(* The browser never acts twice for one request, whatever is lost, repeated  *)
(* or restarted in between.  Only a read that is asked again of another      *)
(* broker may be run again, and only after its first result was taken over;  *)
(* and what the ledger has evicted is no longer protected, which the run     *)
(* ledger_eviction shows on its own.                                         *)
AtMostOnceDispatch ==
  \A op \in Op :
    dispatches[op] > 1 =>
      op \in acked /\ op \in ReadOnly \cup ledger.evicted

(* A typed answer may be acted upon: nothing the caller is told was not      *)
(* started has been or will be run, and nothing is reported done that was    *)
(* not run.                                                                  *)
AnswersAreTruthful ==
  \A op \in Op \ (ReadOnly \cup ledger.evicted) :
    /\ client[op] = "not_started" => dispatches[op] = 0 /\ exec[op] = "none"
    /\ client[op] = "done" => dispatches[op] = 1

(* Together: whatever is lost, repeated or restarted, a request is run at    *)
(* most once, and the caller is told truly whether it was.                   *)
OnceAndTruthfully == AtMostOnceDispatch /\ AnswersAreTruthful

(* The extension gives up its durable copy of a result only when the broker  *)
(* holds it: in the ledger or among the confirmed results.  (A read asked    *)
(* again of another broker may have two results under one id.)               *)
AcknowledgedIsRetained ==
  \A op \in Op \ ReadOnly :
    <<"ack", op>> \in toExt /\ outbox[op] \in Outcome =>
      \/ outbox[op] \in {ledger.state[op], confirmed[op]}
      \/ op \in ledger.evicted

(* Every request is answered, however many of the faults happen. *)
EveryRequestAnswered ==
  \A op \in Op : client[op] = "asking" ~> client[op] \in Answered

(* docs/architecture.md:32-34: "The extension reserves bounded outbox count  *)
(* and bytes before dispatch, persists completed results, and replays them   *)
(* after reconnect."  With room for the confirmed results, what is in the    *)
(* outbox gets out of it once the connection holds, a result nobody waits    *)
(* for too, but for one case: the flush of this connection was answered by   *)
(* an older one, which had lost its own connection and has sent nothing.     *)
DrainsUnlessMissed ==
  \A op \in Op : outbox[op] \in Outcome ~> outbox[op] = "none" \/ flush.missed

(* broker-client.ts: "Repeating the same operationId against the same broker *)
(* only joins its ledger promise or returns its confirmed cached result."    *)
RepeatedRequestOnlyJoins == \A op \in Op \ ReadOnly : dispatches[op] <= 1
=============================================================================
